------------------------------- MODULE UserProofs -------------------------------
(***************************************************************************)
(* Theorems about the people who use the system and what they ask of it:   *)
(* Accounts, for any addresses, Google accounts, requests in flight,       *)
(* accounts, changes and cookies; ApiKeys, for any lifetimes, limits and   *)
(* lengths of a read, and any number of tokens and keys; and the agent,    *)
(* what it remembers (AgentMemory), for any users, sessions, memories and  *)
(* bounds, and what it does (AgentTurn), for any schedules, budgets,       *)
(* batches of calls and lengths of the thread.                             *)
(***************************************************************************)
EXTENDS Accounts, ApiKeys, AgentMemory, AgentTurn, Integers, FiniteSetTheorems,
        SequenceTheorems, TLAPS

-----------------------------------------------------------------------------
(* Accounts. *)

AccountsSpec == AccountsInit /\ [][AccountsNext]_accountVars

(***************************************************************************)
(* Shapes of the documents, the cookies and the requests, without the      *)
(* bounds of AccountsTypeOK.                                               *)
(***************************************************************************)
Document == [id : Nat, admin : BOOLEAN, disabled : BOOLEAN, epoch : Nat,
             google : GoogleIds \cup {Unset}, password : Int \cup {Unset},
             disablings : Nat]

Ways == {"login", "signup", "google"}

CookieShape == [id : Nat, epoch : Nat, by : Ways, password : Int \cup {Unset},
                disablings : Nat]

WithCookie == [at : {"cookie"}, cookie : CookieShape]
ToReread == [at : {"reread"}, id : Nat, by : Ways]
ByEmail == [at : {"email", "create"}, google : GoogleIds, email : Emails]
ToLink == [at : {"link"}, google : GoogleIds, id : Nat]
ToWrite == [at : {"write"}, op : {"password", "disable", "enable", "delete"}, id : Nat]

Shapes ==
  /\ account \in [Emails -> Document \cup {Unset}]
  /\ accounts \in Nat
  /\ requests \subseteq WithCookie \cup ToReread \cup ByEmail \cup ToLink \cup ToWrite
  /\ cookies \subseteq CookieShape

\* Ids are drawn once, so a cookie never fits another account than the one it was made for.
IdsAreDrawn == \A e \in Emails : HasAccount(e) => account[e].id \in 1..accounts

IdsAreUnique ==
  \A d, e \in Emails :
    HasAccount(d) /\ HasAccount(e) /\ account[d].id = account[e].id => d = e

\* The epoch of the account has passed c, or nothing that c remembers has changed.
Valid(c) ==
  /\ c.id <= accounts
  /\ \A e \in Emails : HasAccount(e) /\ account[e].id = c.id =>
       \/ c.epoch < account[e].epoch
       \/ /\ c.epoch = account[e].epoch
          /\ c.disablings = account[e].disablings
          /\ c.password = account[e].password

AllValid ==
  /\ \A c \in cookies : Valid(c)
  /\ \A q \in requests : q.at = "cookie" => Valid(q.cookie)

AccountsInv == Shapes /\ IdsAreDrawn /\ IdsAreUnique /\ AllValid

(***************************************************************************)
(* How a step may change the account at an address.                        *)
(***************************************************************************)
\* It is the same account, and what a cookie remembers is as it was or the epoch moved.
SameAccount(e) ==
  /\ HasAccount(e)
  /\ account'[e] \in Document /\ account'[e].id = account[e].id
  /\ \/ account[e].epoch < account'[e].epoch
     \/ /\ account'[e].epoch = account[e].epoch
        /\ account'[e].disablings = account[e].disablings
        /\ account'[e].password = account[e].password

\* It is a new account.
FreshAccount(e) ==
  /\ accounts' = accounts + 1
  /\ account'[e] \in Document /\ account'[e].id = accounts'
  /\ \A d \in Emails \ {e} : account'[d] = account[d]

Follows(e) ==
  account'[e] = account[e] \/ account'[e] = Unset \/ SameAccount(e) \/ FreshAccount(e)

AccountsFollow ==
  /\ account' \in [Emails -> Document \cup {Unset}]
  /\ accounts' \in {accounts, accounts + 1}
  /\ \A e \in Emails : Follows(e)

\* Such changes keep ids drawn once.
LEMMA IdsKept ==
  ASSUME Shapes, IdsAreDrawn, IdsAreUnique, AccountsFollow
  PROVE  IdsAreDrawn' /\ IdsAreUnique'
<1> USE DEF Shapes, HasAccount, AccountsFollow, Follows, SameAccount, FreshAccount
<1>1. \A e \in Emails : HasAccount(e)' =>
        \/ HasAccount(e) /\ account'[e].id = account[e].id
        \/ FreshAccount(e)
  OBVIOUS
<1>2. IdsAreDrawn'
  BY <1>1 DEF IdsAreDrawn, Document
<1>3. IdsAreUnique'
  <2> SUFFICES ASSUME NEW d \in Emails, NEW e \in Emails,
                      HasAccount(d)', HasAccount(e)', account'[d].id = account'[e].id
               PROVE  d = e
    BY DEF IdsAreUnique
  <2>0. ASSUME NEW x \in Emails, NEW y \in Emails, FreshAccount(x), HasAccount(y)', x # y
        PROVE  account'[x].id # account'[y].id
    <3>1. account'[y] = account[y] /\ HasAccount(y)
      BY <2>0
    <3>2. account[y].id \in 1..accounts
      BY <3>1 DEF IdsAreDrawn
    <3> QED
      BY <2>0, <3>1, <3>2
  <2>1. CASE FreshAccount(d)
    BY <2>0, <2>1
  <2>2. CASE FreshAccount(e)
    BY <2>0, <2>2
  <2>3. CASE ~FreshAccount(d) /\ ~FreshAccount(e)
    BY <2>3, <1>1 DEF IdsAreUnique
  <2> QED
    BY <2>1, <2>2, <2>3
<1> QED
  BY <1>2, <1>3

\* A cookie that was valid stays valid.
LEMMA ValidKept ==
  ASSUME Shapes, AccountsFollow, NEW c \in CookieShape, Valid(c)
  PROVE  Valid(c)'
<1> USE DEF Shapes, AccountsFollow, CookieShape
<1>1. (c.id <= accounts)'
  BY DEF Valid
<1>2. ASSUME NEW e \in Emails, HasAccount(e)', account'[e].id = c.id
      PROVE  \/ c.epoch < account'[e].epoch
             \/ /\ c.epoch = account'[e].epoch
                /\ c.disablings = account'[e].disablings
                /\ c.password = account'[e].password
  <2>1. CASE account'[e] = account[e]
    BY <1>2, <2>1 DEF Valid, HasAccount
  <2>2. CASE SameAccount(e)
    <3>1. account[e] \in Document /\ account'[e] \in Document
      BY <2>2 DEF SameAccount, HasAccount
    <3> QED
      BY <1>2, <2>2, <3>1 DEF Valid, SameAccount, Document
  <2>3. CASE FreshAccount(e)
    BY <1>2, <2>3 DEF Valid, FreshAccount
  <2> QED
    BY <1>2, <2>1, <2>2, <2>3 DEF Follows, HasAccount
<1> QED
  BY <1>1, <1>2 DEF Valid

\* A cookie made of an account as it is is valid.
LEMMA NewIsValid ==
  ASSUME Shapes, IdsAreDrawn, IdsAreUnique, NEW e \in Emails, HasAccount(e), NEW by \in Ways
  PROVE  CookieOf(account[e], by) \in CookieShape /\ Valid(CookieOf(account[e], by))
<1>1. account[e] \in Document
  BY DEF Shapes, HasAccount
<1>2. CookieOf(account[e], by) \in CookieShape
  BY <1>1 DEF CookieOf, CookieShape, Document
<1>3. account[e].id <= accounts
  BY <1>1 DEF IdsAreDrawn, Shapes
<1>4. \A d \in Emails : HasAccount(d) /\ account[d].id = account[e].id => d = e
  BY DEF IdsAreUnique
<1> QED
  BY <1>2, <1>3, <1>4 DEF Valid, CookieOf

(***************************************************************************)
(* The parts of the invariant under one step.  A step either leaves the    *)
(* accounts as they are or changes them as AccountsFollow says; what is    *)
(* new among requests and cookies must be of its shape, and valid.         *)
(***************************************************************************)
LEMMA InvFromParts ==
  ASSUME AccountsInv, AccountsFollow,
         requests' \subseteq WithCookie \cup ToReread \cup ByEmail \cup ToLink \cup ToWrite,
         \A q \in requests' \ requests : q.at = "cookie" => Valid(q.cookie),
         \A c \in cookies' \ cookies : c \in CookieShape /\ Valid(c)
  PROVE  AccountsInv'
<1>1. Shapes'
  BY DEF AccountsInv, Shapes, AccountsFollow
<1>2. IdsAreDrawn' /\ IdsAreUnique'
  BY IdsKept DEF AccountsInv
<1>3. ASSUME NEW c \in cookies' PROVE Valid(c)'
  <2>1. c \in CookieShape /\ Valid(c)
    BY <1>3 DEF AccountsInv, Shapes, AllValid
  <2> QED
    BY <2>1, ValidKept DEF AccountsInv
<1>4. ASSUME NEW q \in requests', q.at = "cookie" PROVE Valid(q.cookie)'
  <2>1. q \in WithCookie
    BY <1>4 DEF WithCookie, ToReread, ByEmail, ToLink, ToWrite
  <2>2. q.cookie \in CookieShape /\ Valid(q.cookie)
    BY <1>4, <2>1 DEF AccountsInv, AllValid, WithCookie
  <2> QED
    BY <2>2, ValidKept DEF AccountsInv
<1> QED
  BY <1>1, <1>2, <1>3, <1>4 DEF AccountsInv, AllValid

\* A step that leaves the accounts alone.
LEMMA Unchanged ==
  ASSUME Shapes, UNCHANGED <<account, accounts>>
  PROVE  AccountsFollow
BY DEF Shapes, AccountsFollow, Follows

\* A step that inserts an account.
LEMMA Inserted ==
  ASSUME Shapes, NEW e \in Emails, NEW admin \in BOOLEAN,
         NEW google \in GoogleIds \cup {Unset}, NEW password \in Int \cup {Unset},
         InsertAccount(e, admin, google, password)
  PROVE  AccountsFollow /\ accounts' = accounts + 1
<1>1. NewAccount(admin, google, password) \in Document
  BY DEF NewAccount, Document, Shapes
<1>2. account' = [account EXCEPT ![e] = NewAccount(admin, google, password)]
  BY DEF InsertAccount
<1>3. accounts' = accounts + 1
  BY DEF InsertAccount
<1>4. account' \in [Emails -> Document \cup {Unset}]
  BY <1>1, <1>2 DEF Shapes
<1>5. FreshAccount(e)
  BY <1>1, <1>2, <1>3 DEF FreshAccount, NewAccount, Shapes
<1>6. \A d \in Emails : d # e => account'[d] = account[d]
  BY <1>2 DEF Shapes
<1> QED
  BY <1>3, <1>4, <1>5, <1>6 DEF AccountsFollow, Follows

(***************************************************************************)
(* The invariant holds at first, and each action keeps it.                 *)
(***************************************************************************)
LEMMA AccountsBegin == AccountsInit => AccountsInv
<1> SUFFICES ASSUME AccountsInit PROVE AccountsInv
  OBVIOUS
<1> USE AccountsAssumption
<1>1. PICK google \in {Unset, AdminSubject} :
        account = [e \in Emails |->
                     IF e = Administrator
                     THEN [id |-> 1, admin |-> TRUE, disabled |-> FALSE, epoch |-> 0,
                           google |-> google, password |-> 0, disablings |-> 0]
                     ELSE Unset]
  BY DEF AccountsInit
<1>2. accounts = 1 /\ requests = {} /\ cookies = {}
  BY DEF AccountsInit
<1>3. [id |-> 1, admin |-> TRUE, disabled |-> FALSE, epoch |-> 0, google |-> google,
       password |-> 0, disablings |-> 0] \in Document
  BY DEF Document, GoogleIds
<1>4. account \in [Emails -> Document \cup {Unset}]
  BY <1>1, <1>3
<1>5. \A e \in Emails : HasAccount(e) => e = Administrator /\ account[e].id = 1
  BY <1>1 DEF HasAccount
<1>6. Shapes
  BY <1>2, <1>4 DEF Shapes
<1>7. IdsAreDrawn /\ IdsAreUnique
  BY <1>2, <1>5 DEF IdsAreDrawn, IdsAreUnique
<1>8. AllValid
  BY <1>2 DEF AllValid
<1> QED
  BY <1>6, <1>7, <1>8 DEF AccountsInv

\* Requests that neither touch an account nor carry a cookie.
LEMMA RequestsOnly ==
  ASSUME AccountsInv, UNCHANGED <<account, accounts>>, cookies' \subseteq cookies,
         NEW q \in WithCookie \cup ToReread \cup ByEmail \cup ToLink \cup ToWrite,
         q.at = "cookie" => Valid(q.cookie),
         requests' \subseteq requests \cup {q}
  PROVE  AccountsInv'
<1>1. AccountsFollow
  BY Unchanged DEF AccountsInv
<1>2. requests' \subseteq WithCookie \cup ToReread \cup ByEmail \cup ToLink \cup ToWrite
  BY DEF AccountsInv, Shapes
<1> QED
  BY <1>1, <1>2, InvFromParts

\* A request that ends, or a cookie that is dropped.
LEMMA NothingNew ==
  ASSUME AccountsInv, UNCHANGED <<account, accounts>>, cookies' \subseteq cookies,
         requests' \subseteq requests
  PROVE  AccountsInv'
<1>1. AccountsFollow
  BY Unchanged DEF AccountsInv
<1>2. requests' \subseteq WithCookie \cup ToReread \cup ByEmail \cup ToLink \cup ToWrite
  BY DEF AccountsInv, Shapes
<1> QED
  BY <1>1, <1>2, InvFromParts

LEMMA LogInKeeps == ASSUME AccountsInv, NEW e \in Emails, LogIn(e) PROVE AccountsInv'
<1> DEFINE c == CookieOf(account[e], "login")
           q == [at |-> "cookie", cookie |-> c]
<1>1. /\ HasAccount(e) /\ requests' = requests \cup {q}
      /\ UNCHANGED <<account, accounts, cookies>>
  BY DEF LogIn, BeginRequest
<1>2. c \in CookieShape /\ Valid(c)
  BY <1>1, NewIsValid DEF AccountsInv, Ways
<1>3. q \in WithCookie /\ q.cookie = c
  BY <1>2 DEF WithCookie
<1> HIDE DEF q, c
<1> QED
  BY <1>1, <1>2, <1>3, RequestsOnly

LEMMA SignUpKeeps == ASSUME AccountsInv, NEW e \in Emails, SignUp(e) PROVE AccountsInv'
<1>1. CASE Insertable(e, Unset)
  <2> DEFINE q == [at |-> "reread", id |-> accounts', by |-> "signup"]
  <2>1. /\ InsertAccount(e, FALSE, Unset, 0)
        /\ requests' = requests \cup {q} /\ cookies' = cookies
    BY <1>1 DEF SignUp, BeginRequest
  <2>2. AccountsFollow /\ accounts' = accounts + 1
    <3>1. Shapes /\ FALSE \in BOOLEAN /\ 0 \in Int \cup {Unset}
      BY DEF AccountsInv
    <3>2. Unset \in GoogleIds \cup {Unset}
      OBVIOUS
    <3> QED
      BY <2>1, <3>1, <3>2, Inserted
  <2>3. q \in ToReread /\ q.at # "cookie"
    BY <2>2 DEF ToReread, Ways, AccountsInv, Shapes
  <2> HIDE DEF q
  <2>4. requests' \subseteq WithCookie \cup ToReread \cup ByEmail \cup ToLink \cup ToWrite
    BY <2>1, <2>3 DEF AccountsInv, Shapes
  <2> QED
    BY <2>1, <2>2, <2>3, <2>4, InvFromParts
<1>2. CASE ~Insertable(e, Unset)
  BY <1>2, NothingNew DEF SignUp
<1> QED
  BY <1>1, <1>2

LEMMA ReturnKeeps ==
  ASSUME AccountsInv, NEW ga \in Google, ReturnFromGoogle(ga[1], ga[2])
  PROVE  AccountsInv'
<1>0. UNCHANGED <<account, accounts, cookies>>
  BY DEF ReturnFromGoogle
<1>1. CASE BySubject(ga[1]) # {}
  <2>1. PICK o \in BySubject(ga[1]) :
          BeginRequest([at |-> "reread", by |-> "google", id |-> account[o].id])
    BY <1>1 DEF ReturnFromGoogle
  <2> DEFINE q == [at |-> "reread", by |-> "google", id |-> account[o].id]
  <2>2. account[o] \in Document
    BY DEF BySubject, HasAccount, AccountsInv, Shapes
  <2>3. q \in ToReread /\ q.at # "cookie"
    BY <2>2 DEF ToReread, Ways, Document
  <2>4. requests' = requests \cup {q}
    BY <2>1 DEF BeginRequest
  <2> HIDE DEF q
  <2> QED
    BY <1>0, <2>3, <2>4, RequestsOnly
<1>2. CASE BySubject(ga[1]) = {}
  <2> DEFINE q == [at |-> "email", google |-> ga[1], email |-> ga[2]]
  <2>1. ga[1] \in GoogleIds /\ ga[2] \in Emails
    BY AccountsAssumption DEF GoogleIds
  <2>2. q \in ByEmail /\ q.at # "cookie"
    BY <2>1 DEF ByEmail
  <2>3. requests' = requests \cup {q}
    BY <1>2 DEF ReturnFromGoogle, BeginRequest
  <2> HIDE DEF q
  <2> QED
    BY <1>0, <2>2, <2>3, RequestsOnly
<1> QED
  BY <1>1, <1>2

LEMMA RereadKeeps == ASSUME AccountsInv, NEW q \in requests, Reread(q) PROVE AccountsInv'
<1>0. UNCHANGED <<account, accounts, cookies>> /\ q.at = "reread"
  BY DEF Reread
<1>1. CASE requests' \subseteq requests
  BY <1>0, <1>1, NothingNew
<1>2. ASSUME NEW e \in Holder(q.id),
             ContinueRequest(q, [at |-> "cookie", cookie |-> CookieOf(account[e], q.by)])
      PROVE  AccountsInv'
  <2> DEFINE c == CookieOf(account[e], q.by)
             n == [at |-> "cookie", cookie |-> c]
  <2>1. q.by \in Ways
    BY <1>0 DEF AccountsInv, Shapes, WithCookie, ToReread, ByEmail, ToLink, ToWrite
  <2>2. c \in CookieShape /\ Valid(c)
    BY <2>1, NewIsValid DEF AccountsInv, Holder
  <2>3. n \in WithCookie /\ n.cookie = c
    BY <2>2 DEF WithCookie
  <2>4. requests' \subseteq requests \cup {n}
    BY <1>2 DEF ContinueRequest
  <2> HIDE DEF n, c
  <2> QED
    BY <1>0, <2>2, <2>3, <2>4, RequestsOnly
<1> QED
  BY <1>1, <1>2 DEF Reread, EndRequest

LEMMA IssueKeeps ==
  ASSUME AccountsInv, NEW q \in requests, IssueCookie(q) PROVE AccountsInv'
<1>1. /\ UNCHANGED <<account, accounts>> /\ q.at = "cookie"
      /\ cookies' = cookies \cup {q.cookie} /\ requests' \subseteq requests
  BY DEF IssueCookie, EndRequest
<1>2. q.cookie \in CookieShape /\ Valid(q.cookie)
  BY <1>1 DEF AccountsInv, Shapes, AllValid, WithCookie, ToReread, ByEmail, ToLink, ToWrite
<1>3. AccountsFollow
  BY <1>1, Unchanged DEF AccountsInv
<1>4. requests' \subseteq WithCookie \cup ToReread \cup ByEmail \cup ToLink \cup ToWrite
  BY <1>1 DEF AccountsInv, Shapes
<1> QED
  BY <1>1, <1>2, <1>3, <1>4, InvFromParts

LEMMA FindKeeps == ASSUME AccountsInv, NEW q \in requests, FindByEmail(q) PROVE AccountsInv'
<1>0. UNCHANGED <<account, accounts, cookies>> /\ q.at = "email"
  BY DEF FindByEmail
<1>1. q \in ByEmail
  BY <1>0 DEF AccountsInv, Shapes, WithCookie, ToReread, ByEmail, ToLink, ToWrite
<1>2. q.google \in GoogleIds /\ q.email \in Emails
  BY <1>1 DEF ByEmail
<1>3. CASE EndRequest(q)
  BY <1>0, <1>3, NothingNew DEF EndRequest
<1>4. ASSUME HasAccount(q.email),
             \/ ContinueRequest(q, [at |-> "link", google |-> q.google,
                                    id |-> account[q.email].id])
             \/ ContinueRequest(q, [at |-> "reread", by |-> "google",
                                    id |-> account[q.email].id])
      PROVE  AccountsInv'
  <2>1. account[q.email] \in Document
    BY <1>2, <1>4 DEF AccountsInv, Shapes, HasAccount
  <2> DEFINE l == [at |-> "link", google |-> q.google, id |-> account[q.email].id]
             r == [at |-> "reread", by |-> "google", id |-> account[q.email].id]
  <2>2. l \in ToLink /\ l.at # "cookie" /\ r \in ToReread /\ r.at # "cookie"
    BY <1>2, <2>1 DEF ToLink, ToReread, Ways, Document
  <2>3. requests' \subseteq requests \cup {l} \/ requests' \subseteq requests \cup {r}
    BY <1>4 DEF ContinueRequest
  <2> HIDE DEF l, r
  <2> QED
    BY <1>0, <2>2, <2>3, RequestsOnly
<1>5. CASE ContinueRequest(q, [q EXCEPT !.at = "create"])
  <2> DEFINE n == [q EXCEPT !.at = "create"]
  <2>1. n \in ByEmail /\ n.at # "cookie"
    BY <1>1 DEF ByEmail
  <2>2. requests' \subseteq requests \cup {n}
    BY <1>5 DEF ContinueRequest
  <2> HIDE DEF n
  <2> QED
    BY <1>0, <2>1, <2>2, RequestsOnly
<1> QED
  BY <1>3, <1>4, <1>5 DEF FindByEmail

LEMMA LinkKeeps == ASSUME AccountsInv, NEW q \in requests, LinkGoogle(q) PROVE AccountsInv'
<1>0. UNCHANGED <<accounts, cookies>> /\ q.at = "link"
  BY DEF LinkGoogle
<1>1. q.google \in GoogleIds /\ q.id \in Nat
  BY <1>0 DEF AccountsInv, Shapes, WithCookie, ToReread, ByEmail, ToLink, ToWrite
<1>2. CASE UNCHANGED account /\ EndRequest(q)
  BY <1>0, <1>2, NothingNew DEF EndRequest
<1>3. ASSUME account' = [e \in Emails |-> IF e \in Holder(q.id)
                                          THEN [account[e] EXCEPT !.google = q.google]
                                          ELSE account[e]],
             ContinueRequest(q, [at |-> "reread", by |-> "google", id |-> q.id])
      PROVE  AccountsInv'
  <2>1. ASSUME NEW e \in Emails
        PROVE  account'[e] \in Document \cup {Unset} /\ Follows(e)
    <3>1. CASE e \in Holder(q.id)
      <4>1. HasAccount(e) /\ account[e] \in Document
        BY <3>1 DEF Holder, HasAccount, AccountsInv, Shapes
      <4>2. account'[e] = [account[e] EXCEPT !.google = q.google]
        BY <1>3, <3>1
      <4>3. account'[e] \in Document
        BY <1>1, <4>1, <4>2 DEF Document
      <4>4. SameAccount(e)
        BY <4>1, <4>2, <4>3 DEF SameAccount, Document
      <4> QED
        BY <4>3, <4>4 DEF Follows
    <3>2. CASE e \notin Holder(q.id)
      BY <1>3, <3>2 DEF Follows, AccountsInv, Shapes
    <3> QED
      BY <3>1, <3>2
  <2>2. AccountsFollow
    <3>1. account' = [e \in Emails |-> account'[e]]
      BY <1>3
    <3> QED
      BY <1>0, <2>1, <3>1 DEF AccountsFollow
  <2> DEFINE n == [at |-> "reread", by |-> "google", id |-> q.id]
  <2>3. n \in ToReread /\ n.at # "cookie"
    BY <1>1 DEF ToReread, Ways
  <2>4. requests' \subseteq requests \cup {n}
    BY <1>3 DEF ContinueRequest
  <2> HIDE DEF n
  <2>5. requests' \subseteq WithCookie \cup ToReread \cup ByEmail \cup ToLink \cup ToWrite
    BY <2>3, <2>4 DEF AccountsInv, Shapes
  <2> QED
    BY <1>0, <2>2, <2>3, <2>4, <2>5, InvFromParts
<1> QED
  BY <1>2, <1>3 DEF LinkGoogle

LEMMA CreateKeeps ==
  ASSUME AccountsInv, NEW q \in requests, CreateGoogle(q) PROVE AccountsInv'
<1>0. cookies' = cookies /\ q.at = "create"
  BY DEF CreateGoogle
<1>1. q.google \in GoogleIds /\ q.email \in Emails
  BY <1>0 DEF AccountsInv, Shapes, WithCookie, ToReread, ByEmail, ToLink, ToWrite
<1>2. CASE ~Insertable(q.email, q.google)
  BY <1>0, <1>2, NothingNew DEF CreateGoogle, EndRequest
<1>3. CASE Insertable(q.email, q.google)
  <2> DEFINE n == [at |-> "reread", by |-> "google", id |-> accounts']
  <2>1. /\ InsertAccount(q.email, FALSE, q.google, Unset)
        /\ requests' \subseteq requests \cup {n}
    BY <1>3 DEF CreateGoogle, ContinueRequest
  <2>2. AccountsFollow /\ accounts' = accounts + 1
    BY <1>1, <2>1, Inserted DEF AccountsInv
  <2>3. n \in ToReread /\ n.at # "cookie"
    BY <2>2 DEF ToReread, Ways, AccountsInv, Shapes
  <2> HIDE DEF n
  <2>4. requests' \subseteq WithCookie \cup ToReread \cup ByEmail \cup ToLink \cup ToWrite
    BY <2>1, <2>3 DEF AccountsInv, Shapes
  <2> QED
    BY <1>0, <2>1, <2>2, <2>3, <2>4, InvFromParts
<1> QED
  BY <1>2, <1>3

LEMMA AdministerKeeps == ASSUME AccountsInv, Administer PROVE AccountsInv'
<1>0. UNCHANGED <<account, accounts, cookies>>
  BY DEF Administer
<1>1. PICK e \in Emails, op \in {"password", "disable", "enable", "delete"} :
        /\ HasAccount(e)
        /\ BeginRequest([at |-> "write", op |-> op, id |-> account[e].id])
  BY DEF Administer
<1> DEFINE n == [at |-> "write", op |-> op, id |-> account[e].id]
<1>2. account[e] \in Document
  BY <1>1 DEF AccountsInv, Shapes, HasAccount
<1>3. n \in ToWrite /\ n.at # "cookie"
  BY <1>2 DEF ToWrite, Document
<1>4. requests' \subseteq requests \cup {n}
  BY <1>1 DEF BeginRequest
<1> HIDE DEF n
<1> QED
  BY <1>0, <1>3, <1>4, RequestsOnly

LEMMA CreateUserKeeps == ASSUME AccountsInv, CreateUser PROVE AccountsInv'
<1>1. PICK e \in Emails, admin \in BOOLEAN : InsertAccount(e, admin, Unset, 0)
  BY DEF CreateUser
<1>2. AccountsFollow
  BY <1>1, Inserted DEF AccountsInv
<1>3. UNCHANGED <<requests, cookies>>
  BY DEF CreateUser
<1> QED
  BY <1>2, <1>3, InvFromParts DEF AccountsInv, Shapes

\* set_password and set_disabled move the epoch whenever they change what it guards.
LEMMA WriteKeeps ==
  ASSUME AccountsInv, NEW q \in requests, WriteAccount(q) PROVE AccountsInv'
<1>0. /\ UNCHANGED <<accounts, cookies>> /\ q.at = "write" /\ requests' \subseteq requests
      /\ account' = [e \in Emails |-> IF e \in Holder(q.id) THEN Changed(account[e], q.op)
                                                            ELSE account[e]]
  BY DEF WriteAccount, EndRequest
<1>1. q.op \in {"password", "disable", "enable", "delete"}
  BY <1>0 DEF AccountsInv, Shapes, WithCookie, ToReread, ByEmail, ToLink, ToWrite
<1>2. ASSUME NEW e \in Emails
      PROVE  account'[e] \in Document \cup {Unset} /\ Follows(e)
  <2>1. CASE e \notin Holder(q.id)
    BY <1>0, <2>1 DEF Follows, AccountsInv, Shapes
  <2>2. CASE e \in Holder(q.id)
    <3>1. HasAccount(e) /\ account[e] \in Document
      BY <2>2 DEF Holder, HasAccount, AccountsInv, Shapes
    <3>2. account'[e] = Changed(account[e], q.op)
      BY <1>0, <2>2
    <3>3. CASE q.op = "password"
      <4>0. /\ account[e].epoch \in Nat /\ account[e].epoch + 1 \in Nat
            /\ account[e].epoch - account[e].disablings + 1 \in Int
        BY <3>1 DEF Document
      <4>1. account'[e] = [account[e] EXCEPT
               !.password = account[e].epoch - account[e].disablings + 1, !.epoch = @ + 1]
        BY <3>2, <3>3 DEF Changed, SetPassword
      <4>2. account'[e] \in Document
        BY <3>1, <4>0, <4>1 DEF Document
      <4>3. account'[e].id = account[e].id /\ account[e].epoch < account'[e].epoch
        BY <3>1, <4>0, <4>1 DEF Document
      <4> QED
        BY <3>1, <4>2, <4>3 DEF Follows, SameAccount
    <3>4. CASE q.op = "disable"
      <4>0. /\ account[e].epoch \in Nat /\ account[e].epoch + 1 \in Nat
            /\ account[e].disablings + 1 \in Nat
        BY <3>1 DEF Document
      <4>1. account'[e] = [account[e] EXCEPT
                             !.disabled = TRUE, !.epoch = @ + 1, !.disablings = @ + 1]
        BY <3>2, <3>4 DEF Changed, SetDisabled
      <4>2. account'[e] \in Document
        BY <3>1, <4>0, <4>1 DEF Document
      <4>3. account'[e].id = account[e].id /\ account[e].epoch < account'[e].epoch
        BY <3>1, <4>0, <4>1 DEF Document
      <4> QED
        BY <3>1, <4>2, <4>3 DEF Follows, SameAccount
    <3>5. CASE q.op = "enable"
      <4>1. account'[e] = [account[e] EXCEPT !.disabled = FALSE]
        BY <3>2, <3>5 DEF Changed, SetDisabled
      <4>2. account'[e] \in Document /\ account'[e].id = account[e].id
        BY <3>1, <4>1 DEF Document
      <4>3. /\ account'[e].epoch = account[e].epoch
            /\ account'[e].disablings = account[e].disablings
            /\ account'[e].password = account[e].password
        BY <3>1, <4>1 DEF Document
      <4> QED
        BY <3>1, <4>2, <4>3 DEF Follows, SameAccount
    <3>6. CASE q.op = "delete"
      BY <3>2, <3>6 DEF Changed, Follows
    <3> QED
      BY <1>1, <3>3, <3>4, <3>5, <3>6
  <2> QED
    BY <2>1, <2>2
<1>3. AccountsFollow
  <2>1. account' = [e \in Emails |-> account'[e]]
    BY <1>0
  <2> QED
    BY <1>0, <1>2, <2>1 DEF AccountsFollow
<1> QED
  BY <1>0, <1>3, InvFromParts DEF AccountsInv, Shapes

LEMMA AccountsKept == AccountsInv /\ [AccountsNext]_accountVars => AccountsInv'
<1> SUFFICES ASSUME AccountsInv, [AccountsNext]_accountVars PROVE AccountsInv'
  OBVIOUS
<1>1. ASSUME NEW e \in Emails, LogIn(e) PROVE AccountsInv'
  BY <1>1, LogInKeeps
<1>2. ASSUME NEW e \in Emails, SignUp(e) PROVE AccountsInv'
  BY <1>2, SignUpKeeps
<1>3. ASSUME NEW ga \in Google, ReturnFromGoogle(ga[1], ga[2]) PROVE AccountsInv'
  BY <1>3, ReturnKeeps
<1>4. ASSUME NEW q \in requests, Reread(q) PROVE AccountsInv'
  BY <1>4, RereadKeeps
<1>5. ASSUME NEW q \in requests, IssueCookie(q) PROVE AccountsInv'
  BY <1>5, IssueKeeps
<1>6. ASSUME NEW q \in requests, FindByEmail(q) PROVE AccountsInv'
  BY <1>6, FindKeeps
<1>7. ASSUME NEW q \in requests, LinkGoogle(q) PROVE AccountsInv'
  BY <1>7, LinkKeeps
<1>8. ASSUME NEW q \in requests, CreateGoogle(q) PROVE AccountsInv'
  BY <1>8, CreateKeeps
<1>9. ASSUME NEW q \in requests, WriteAccount(q) PROVE AccountsInv'
  BY <1>9, WriteKeeps
<1>10. CASE Administer
  BY <1>10, AdministerKeeps
<1>11. CASE CreateUser
  BY <1>11, CreateUserKeeps
<1>12. CASE DropCookie
  BY <1>12, NothingNew DEF DropCookie
<1>13. CASE UNCHANGED accountVars
  BY <1>13, NothingNew DEF accountVars
<1> QED
  BY <1>1, <1>2, <1>3, <1>4, <1>5, <1>6, <1>7, <1>8, <1>9, <1>10, <1>11, <1>12, <1>13
  DEF AccountsNext

LEMMA AccountsInvariance == AccountsSpec => []AccountsInv
<1> QED
  BY AccountsBegin, AccountsKept, PTL DEF AccountsSpec

\* Each account created has an id of its own, for any interleaving of sign-ups, returns
\* from Google and an administrator's work: no cookie is ever taken for another account's.
THEOREM AccountsKeepTheirIds == AccountsSpec => [](IdsAreDrawn /\ IdsAreUnique)
<1>1. AccountsInv => IdsAreDrawn /\ IdsAreUnique
  BY DEF AccountsInv
<1> QED
  BY <1>1, AccountsInvariance, PTL

\* A cookie that is admitted was made for the account as it is now, however many resets,
\* disablings and deletions came between, and also when the login was under way then.
THEOREM SessionsEnd == AccountsSpec => []SessionsEndWithAccess
<1>1. AccountsInv => SessionsEndWithAccess
  <2> SUFFICES ASSUME AccountsInv, NEW c \in cookies, NEW e \in Emails,
                      HasAccount(e), Admits(c, e)
               PROVE  /\ c.by = "login" => c.password = account[e].password
                      /\ c.disablings = account[e].disablings
    BY DEF SessionsEndWithAccess
  <2>1. account[e] \in Document /\ c \in CookieShape /\ Valid(c)
    BY DEF AccountsInv, Shapes, AllValid, HasAccount
  <2>2. c.epoch = account[e].epoch /\ account[e].id = c.id /\ account[e].epoch \in Nat
    BY <2>1 DEF Admits, Document
  <2> QED
    BY <2>1, <2>2 DEF Valid
<1> QED
  BY <1>1, AccountsInvariance, PTL

-----------------------------------------------------------------------------
(* Keys of consumers. *)

ApiKeysSpec == ApiKeysInit /\ [][ApiKeysNext]_keyVars

Time == Nat \cup {NoKey}

Issued == 1..issued \cup {NoKey}

Consumer == [token : Nat \cup {NoKey}, expires : Time, key : Issued]

Exchange == [at : {"revoke", "issue", "mark"}, token : Nat \cup {NoKey}, prior : Issued,
             key : Issued]

Request == [at : {"idle", "found", "open", "again", "bare"},
            key : Nat \cup {Keyless, Internal, NoKey}, read : Time, resolved : Time]

KeyShapes ==
  /\ now \in Nat /\ issued \in Nat /\ tokens \in Nat
  /\ enabled \subseteq 1..issued
  /\ stopped \in [Keys -> Time] /\ usedAt \in [Keys -> Time]
  /\ consumer \in Consumer
  /\ exchanges \subseteq Exchange
  /\ \A x \in exchanges :
       (x.at = "revoke" => x.prior # NoKey) /\ (x.at = "mark" => x.key # NoKey)
  /\ request \in Request

\* Only keys that were issued are stopped; a key that is stopped is not enabled again,
\* for the next one has a number that none had.
StoppedForGood ==
  \A k \in Keys :
    stopped[k] # NoKey => stopped[k] <= now /\ k \in 1..issued /\ k \notin enabled

UsedInThePast == \A k \in Keys : usedAt[k] # NoKey => usedAt[k] <= now

\* What the request in flight has read or resolved, and how long ago at most.
ReadsOk ==
  /\ request.at \in {"found", "again"} => request.read \in Nat
  /\ request.read # NoKey => request.read <= now /\ now <= request.read + LongestRead
  /\ request.at = "open" => request.resolved \in Nat /\ request.resolved <= now
  /\ request.at \notin {"found", "again"} => request.read = NoKey

\* A key that was stopped had been read before that.
ReadBeforeStopped ==
  \A k \in Keys :
    request.key = k /\ stopped[k] # NoKey =>
      /\ request.at \in {"found", "again"} => request.read <= stopped[k]
      /\ request.at = "open" => request.resolved <= stopped[k] + LongestRead

ApiKeysInv ==
  KeyShapes /\ StoppedForGood /\ UsedInThePast /\ ReadsOk /\ ReadBeforeStopped
    /\ AccessIsBounded

-----------------------------------------------------------------------------
LEMMA ApiKeysBegin == ApiKeysInit => ApiKeysInv
<1> SUFFICES ASSUME ApiKeysInit PROVE ApiKeysInv
  OBVIOUS
<1> USE ApiKeysAssumption DEF ApiKeysInit
<1>1. NoRequest \in Request /\ NoRequest.at = "idle" /\ NoRequest.read = NoKey
  BY DEF NoRequest, Request, Time
<1>2. KeyShapes
  BY <1>1 DEF KeyShapes, Time, Consumer, Issued
<1>3. StoppedForGood /\ UsedInThePast /\ ReadsOk /\ ReadBeforeStopped
  BY <1>1 DEF StoppedForGood, UsedInThePast, ReadsOk, ReadBeforeStopped, NoRequest
<1>4. AccessIsBounded
  BY DEF AccessIsBounded, PriorKeysAreRevoked, RevokedKeysExpire, ScopesHold
<1> QED
  BY <1>2, <1>3, <1>4 DEF ApiKeysInv

\* A step that leaves the keys and the request alone, time apart.
LEMMA TokensOnly ==
  ASSUME ApiKeysInv, UNCHANGED <<now, issued, enabled, stopped, request, usedAt, trusted>>,
         KeyShapes', PriorKeysAreRevoked'
  PROVE  ApiKeysInv'
BY DEF ApiKeysInv, StoppedForGood, UsedInThePast, ReadsOk, ReadBeforeStopped,
       AccessIsBounded, RevokedKeysExpire, ScopesHold

LEMMA TokensKeep ==
  ASSUME ApiKeysInv,
         \/ AskForToken \/ MailToken \/ ConsumeToken
         \/ \E x \in exchanges : MarkVerified(x) \/ AbandonExchange(x)
  PROVE  ApiKeysInv'
<1> USE ApiKeysAssumption DEF KeyShapes, Issued, Consumer, Exchange, Time
<1>0. KeyShapes /\ PriorKeysAreRevoked
  BY DEF ApiKeysInv, AccessIsBounded
<1>1. CASE AskForToken
  BY <1>0, <1>1, TokensOnly DEF AskForToken, PriorKeysAreRevoked
<1>2. CASE MailToken
  <2>1. /\ UNCHANGED <<now, issued, enabled, stopped, request, usedAt, trusted, exchanges>>
        /\ tokens' = tokens + 1
        /\ consumer' = [consumer EXCEPT !.token = tokens', !.expires = now + TokenLife]
    BY <1>2 DEF MailToken
  <2>2. tokens' \in Nat /\ now + TokenLife \in Nat
    BY <1>0, <2>1
  <2>3. consumer' \in Consumer
    BY <1>0, <2>1, <2>2
  <2>4. KeyShapes' /\ PriorKeysAreRevoked'
    BY <1>0, <2>1, <2>2, <2>3 DEF PriorKeysAreRevoked
  <2> QED
    BY <2>1, <2>4, TokensOnly
<1>3. CASE ConsumeToken
  <2> DEFINE n == [at |-> FirstStep(consumer.key), token |-> consumer.token,
                   prior |-> consumer.key, key |-> NoKey]
  <2>1. /\ UNCHANGED <<now, issued, enabled, stopped, request, usedAt, trusted, tokens>>
        /\ consumer' = [consumer EXCEPT !.token = NoKey, !.expires = NoKey]
        /\ exchanges' = exchanges \cup {n}
    BY <1>3 DEF ConsumeToken
  <2>2. consumer' \in Consumer
    BY <1>0, <2>1
  <2>3. /\ n \in Exchange /\ n.at # "mark"
        /\ IF n.prior = NoKey THEN n.prior \notin Keys ELSE n.at = "revoke"
        /\ n.at = "revoke" => n.prior # NoKey
    BY <1>0 DEF FirstStep, Keys
  <2> HIDE DEF n
  <2>4. KeyShapes'
    BY <1>0, <2>1, <2>2, <2>3
  <2>5. PriorKeysAreRevoked'
    BY <1>0, <2>1, <2>3 DEF PriorKeysAreRevoked, Keys
  <2> QED
    BY <2>1, <2>4, <2>5, TokensOnly
<1>4. ASSUME NEW x \in exchanges, MarkVerified(x) PROVE ApiKeysInv'
  <2>1. /\ UNCHANGED <<now, issued, enabled, stopped, request, usedAt, trusted, tokens>>
        /\ consumer' = [token |-> NoKey, expires |-> NoKey, key |-> x.key]
        /\ exchanges' \subseteq exchanges
    BY <1>4 DEF MarkVerified
  <2>2. consumer' \in Consumer
    BY <1>0, <2>1
  <2>3. KeyShapes' /\ PriorKeysAreRevoked'
    BY <1>0, <2>1, <2>2 DEF PriorKeysAreRevoked
  <2> QED
    BY <2>1, <2>3, TokensOnly
<1>5. ASSUME NEW x \in exchanges, AbandonExchange(x) PROVE ApiKeysInv'
  <2>1. /\ UNCHANGED <<now, issued, enabled, stopped, request, usedAt, trusted, consumer,
                       tokens>>
        /\ exchanges' \subseteq exchanges
    BY <1>5 DEF AbandonExchange
  <2>2. KeyShapes' /\ PriorKeysAreRevoked'
    BY <1>0, <2>1 DEF PriorKeysAreRevoked
  <2> QED
    BY <2>1, <2>2, TokensOnly
<1> QED
  BY <1>1, <1>2, <1>3, <1>4, <1>5

\* The key that an exchange replaces is stopped now: what was read of it, was read before.
LEMMA RevokeKeeps ==
  ASSUME ApiKeysInv, NEW x \in exchanges, RevokePrior(x) PROVE ApiKeysInv'
<1> USE ApiKeysAssumption DEF Keys, Time
<1>1. /\ UNCHANGED <<now, issued, consumer, tokens, request, usedAt, trusted>>
      /\ enabled' = enabled \ {x.prior}
      /\ stopped' = [stopped EXCEPT ![x.prior] = IF @ = NoKey THEN now ELSE @]
      /\ exchanges' = (exchanges \ {x}) \cup {[x EXCEPT !.at = "issue", !.key = NoKey]}
      /\ x.at = "revoke"
  BY DEF RevokePrior, Revoke, GoOn
<1>2. x.prior \in 1..issued /\ x \in Exchange
  BY <1>1 DEF ApiKeysInv, KeyShapes, Exchange, Issued
<1>3. stopped \in [Keys -> Time] /\ now \in Nat
  BY DEF ApiKeysInv, KeyShapes
<1>4. \A k \in Keys : stopped'[k] = IF k = x.prior /\ stopped[k] = NoKey THEN now
                                       ELSE stopped[k]
  BY <1>1, <1>3
<1>5. stopped' \in [Keys -> Time]
  BY <1>1, <1>3
<1>6. KeyShapes'
  <2> DEFINE n == [x EXCEPT !.at = "issue", !.key = NoKey]
  <2>1. n \in Exchange /\ n.at = "issue" /\ n.prior = x.prior
    BY <1>2 DEF Exchange, Issued
  <2>2. exchanges' = (exchanges \ {x}) \cup {n}
    BY <1>1
  <2> HIDE DEF n
  <2>3. exchanges' \subseteq Exchange
    BY <2>1, <2>2 DEF ApiKeysInv, KeyShapes
  <2>4. \A y \in exchanges' :
          (y.at = "revoke" => y.prior # NoKey) /\ (y.at = "mark" => y.key # NoKey)
    BY <2>1, <2>2 DEF ApiKeysInv, KeyShapes
  <2>5. Issued' = Issued /\ Exchange' = Exchange /\ Consumer' = Consumer
    BY <1>1 DEF Issued, Exchange, Consumer
  <2> QED
    BY <1>1, <1>5, <2>3, <2>4, <2>5 DEF ApiKeysInv, KeyShapes
<1>7. StoppedForGood'
  BY <1>1, <1>2, <1>3, <1>4 DEF ApiKeysInv, StoppedForGood
<1>8. UsedInThePast' /\ ReadsOk'
  BY <1>1 DEF ApiKeysInv, UsedInThePast, ReadsOk
<1>9. ReadBeforeStopped'
  <2> SUFFICES ASSUME NEW k \in Keys, request.key = k, stopped'[k] # NoKey
               PROVE  /\ request.at \in {"found", "again"} => request.read <= stopped'[k]
                      /\ request.at = "open" =>
                           request.resolved <= stopped'[k] + LongestRead
    BY <1>1 DEF ReadBeforeStopped
  <2>1. CASE stopped'[k] = stopped[k]
    BY <2>1 DEF ApiKeysInv, ReadBeforeStopped
  <2>2. CASE stopped'[k] = now
    BY <1>3, <2>2 DEF ApiKeysInv, ReadsOk
  <2> QED
    BY <1>4, <2>1, <2>2
<1>10. AccessIsBounded'
  <2>1. RevokedKeysExpire'
    <3> SUFFICES ASSUME NEW k \in Keys, stopped'[k] # NoKey, usedAt[k] # NoKey
                 PROVE  usedAt[k] <= stopped'[k] + Reauth + LongestRead
      BY <1>1 DEF RevokedKeysExpire
    <3>0. usedAt[k] \in Nat /\ usedAt[k] <= now
      BY DEF ApiKeysInv, KeyShapes, UsedInThePast
    <3>1. CASE stopped'[k] = stopped[k]
      BY <3>1 DEF ApiKeysInv, AccessIsBounded, RevokedKeysExpire
    <3>2. CASE stopped'[k] = now
      BY <1>3, <3>0, <3>2
    <3> QED
      BY <1>4, <3>1, <3>2
  <2>2. PriorKeysAreRevoked'
    <3> SUFFICES ASSUME NEW y \in exchanges', y.at # "revoke", y.prior \in Keys
                 PROVE  stopped'[y.prior] # NoKey
      BY DEF PriorKeysAreRevoked
    <3>1. y \in exchanges \/ y.prior = x.prior
      BY <1>1, <1>2 DEF Exchange
    <3>2. CASE y \in exchanges
      <4>1. stopped[y.prior] # NoKey
        BY <3>2 DEF ApiKeysInv, AccessIsBounded, PriorKeysAreRevoked
      <4> QED
        BY <1>3, <1>4, <4>1
    <3>3. CASE y.prior = x.prior
      BY <1>3, <1>4, <3>3, ApiKeysAssumption
    <3> QED
      BY <3>1, <3>2, <3>3
  <2> QED
    BY <1>1, <2>1, <2>2 DEF ApiKeysInv, AccessIsBounded, ScopesHold
<1> QED
  BY <1>6, <1>7, <1>8, <1>9, <1>10 DEF ApiKeysInv

\* A new key has a number that was never stopped.
LEMMA IssueKeyKeeps ==
  ASSUME ApiKeysInv, NEW x \in exchanges, IssueKey(x) PROVE ApiKeysInv'
<1> USE ApiKeysAssumption DEF Keys
<1>1. /\ UNCHANGED <<now, consumer, tokens, stopped, request, usedAt, trusted>>
      /\ issued' = issued + 1 /\ enabled' = enabled \cup {issued'}
      /\ exchanges' = (exchanges \ {x}) \cup {[x EXCEPT !.at = "mark", !.key = issued']}
      /\ x.at = "issue"
  BY DEF IssueKey, GoOn
<1>2. x \in Exchange /\ issued \in Nat
  BY DEF ApiKeysInv, KeyShapes
<1>3. KeyShapes'
  <2> DEFINE n == [x EXCEPT !.at = "mark", !.key = issued']
  <2>0. Issued \subseteq Issued' /\ issued' \in Nat /\ issued' \in 1..issued'
    BY <1>1, <1>2 DEF Issued
  <2>1. n \in Exchange' /\ n.key # NoKey /\ n.at = "mark"
    BY <1>2, <2>0 DEF Exchange, Issued
  <2>2. exchanges' = (exchanges \ {x}) \cup {n}
    BY <1>1
  <2> HIDE DEF n
  <2>3. exchanges' \subseteq Exchange'
    <3>1. Exchange \subseteq Exchange'
      BY <2>0 DEF Exchange
    <3> QED
      BY <2>1, <2>2, <3>1 DEF ApiKeysInv, KeyShapes
  <2>4. \A y \in exchanges' :
          (y.at = "revoke" => y.prior # NoKey) /\ (y.at = "mark" => y.key # NoKey)
    BY <2>1, <2>2 DEF ApiKeysInv, KeyShapes
  <2>5. enabled' \subseteq 1..issued' /\ consumer \in Consumer'
    BY <1>1, <1>2, <2>0 DEF ApiKeysInv, KeyShapes, Consumer
  <2> QED
    BY <1>1, <2>0, <2>3, <2>4, <2>5 DEF ApiKeysInv, KeyShapes
<1>4. StoppedForGood'
  BY <1>1, <1>2 DEF ApiKeysInv, StoppedForGood
<1>5. UsedInThePast' /\ ReadsOk' /\ ReadBeforeStopped'
  BY <1>1 DEF ApiKeysInv, UsedInThePast, ReadsOk, ReadBeforeStopped
<1>6. AccessIsBounded'
  <2>1. PriorKeysAreRevoked'
    <3>1. ASSUME NEW y \in exchanges'
          PROVE  \E z \in exchanges : z.prior = y.prior /\ (z.at = "revoke" => y.at = "revoke")
      BY <1>1, <1>2 DEF Exchange
    <3> QED
      BY <1>1, <3>1 DEF ApiKeysInv, AccessIsBounded, PriorKeysAreRevoked
  <2> QED
    BY <1>1, <2>1 DEF ApiKeysInv, AccessIsBounded, RevokedKeysExpire, ScopesHold
<1> QED
  BY <1>3, <1>4, <1>5, <1>6 DEF ApiKeysInv

-----------------------------------------------------------------------------
(* The request of the transport.  Its steps leave the store as it is. *)

LEMMA RequestAlone ==
  ASSUME ApiKeysInv, UNCHANGED <<storeVars, usedAt, trusted>>,
         request' \in Request, ReadsOk', ReadBeforeStopped'
  PROVE  ApiKeysInv'
<1>1. KeyShapes'
  BY DEF ApiKeysInv, KeyShapes, storeVars, Issued, Consumer, Exchange
<1>2. StoppedForGood' /\ UsedInThePast' /\ AccessIsBounded'
  BY DEF ApiKeysInv, StoppedForGood, UsedInThePast, AccessIsBounded, PriorKeysAreRevoked,
         RevokedKeysExpire, ScopesHold, storeVars
<1> QED
  BY <1>1, <1>2 DEF ApiKeysInv

\* A request that ends.
LEMMA NoRequestIsFine ==
  ASSUME ApiKeysInv, request' = NoRequest
  PROVE  request' \in Request /\ ReadsOk' /\ ReadBeforeStopped'
<1>1. /\ NoRequest \in Request /\ NoRequest.at = "idle" /\ NoRequest.read = NoKey
      /\ NoRequest.key = NoKey
  BY DEF NoRequest, Request, Time
<1>2. request' \in Request /\ ReadsOk'
  BY <1>1 DEF ReadsOk
<1> QED
  BY <1>1, <1>2 DEF ReadBeforeStopped

\* A key that is found enabled in the store has not been stopped.
LEMMA FreshRead ==
  ASSUME ApiKeysInv, UNCHANGED storeVars,
         request' \in Request, request'.key \in enabled \cup {Keyless, Internal},
         request'.at \in {"found", "again"}, request'.read = now
  PROVE  ReadsOk' /\ ReadBeforeStopped'
<1> USE ApiKeysAssumption
<1>1. now \in Nat /\ LongestRead \in Nat
  BY DEF ApiKeysInv, KeyShapes
<1>2. ReadsOk'
  BY <1>1 DEF ReadsOk, storeVars
<1>3. \A k \in Keys : request'.key = k => stopped[k] = NoKey
  BY DEF ApiKeysInv, StoppedForGood, Keys
<1> QED
  BY <1>2, <1>3 DEF ReadBeforeStopped, storeVars

LEMMA FindKeyKeeps == ASSUME ApiKeysInv, FindKey PROVE ApiKeysInv'
<1>1. PICK k \in enabled \cup {Keyless, Internal} :
        request' = [NoRequest EXCEPT !.at = "found", !.key = k, !.read = now]
  <2>1. \E k \in enabled \cup {Keyless, Internal} :
          request' = [NoRequest EXCEPT !.at = "found", !.key = k, !.read = now]
    BY FindKey, Zenon DEF FindKey
  <2> QED
    BY <2>1, Zenon
<1>2. request' = [at |-> "found", key |-> k, read |-> now, resolved |-> NoKey]
  BY <1>1 DEF NoRequest
<1>3. k \in Nat \cup {Keyless, Internal} /\ now \in Nat
  <2>1. enabled \subseteq 1..issued /\ issued \in Nat /\ now \in Nat
    BY Zenon DEF ApiKeysInv, KeyShapes
  <2>2. 1..issued \subseteq Nat
    BY <2>1
  <2> QED
    BY <2>1, <2>2, Zenon
<1>4. request' \in Request
  BY <1>2, <1>3 DEF Request, Time
<1>5. UNCHANGED <<storeVars, usedAt, trusted>>
  BY DEF FindKey
<1>6. ReadsOk' /\ ReadBeforeStopped'
  BY <1>2, <1>4, <1>5, FreshRead
<1> QED
  BY <1>4, <1>5, <1>6, RequestAlone

LEMMA StampKeeps == ASSUME ApiKeysInv, Stamp PROVE ApiKeysInv'
<1> USE ApiKeysAssumption
<1>1. /\ UNCHANGED <<storeVars, usedAt, trusted>> /\ request.at = "found"
      /\ request' = [request EXCEPT !.at = "open", !.read = NoKey, !.resolved = now]
  BY DEF Stamp
<1>2. request \in Request /\ now \in Nat /\ stopped \in [Keys -> Time]
  BY DEF ApiKeysInv, KeyShapes
<1>3. request' = [at |-> "open", key |-> request.key, read |-> NoKey, resolved |-> now]
  BY <1>1, <1>2 DEF Request
<1>4. request' \in Request
  BY <1>2, <1>3 DEF Request, Time
<1>5. ReadsOk'
  BY <1>1, <1>2, <1>3 DEF ReadsOk, storeVars
<1>6. request.read \in Nat /\ now <= request.read + LongestRead
  BY <1>1 DEF ApiKeysInv, ReadsOk
<1>7. ASSUME NEW k \in Keys, request.key = k, stopped[k] # NoKey
      PROVE  now <= stopped[k] + LongestRead
  <2>1. request.read <= stopped[k] /\ stopped[k] \in Nat
    BY <1>1, <1>2, <1>7 DEF ApiKeysInv, ReadBeforeStopped, Time
  <2> QED
    BY <1>2, <1>6, <2>1
<1>8. ReadBeforeStopped'
  BY <1>1, <1>3, <1>7 DEF ReadBeforeStopped, storeVars
<1> QED
  BY <1>1, <1>4, <1>5, <1>8, RequestAlone

LEMMA LoseKeeps == ASSUME ApiKeysInv, LoseRecord PROVE ApiKeysInv'
<1>1. /\ UNCHANGED <<storeVars, usedAt, trusted>> /\ request.at = "open"
      /\ request' = [request EXCEPT !.at = "bare", !.resolved = NoKey]
  BY DEF LoseRecord
<1>2. request \in Request /\ request.read = NoKey
  BY <1>1 DEF ApiKeysInv, KeyShapes, ReadsOk
<1>3. request' = [at |-> "bare", key |-> request.key, read |-> NoKey, resolved |-> NoKey]
  BY <1>1, <1>2 DEF Request
<1>4. request' \in Request
  BY <1>2, <1>3 DEF Request, Time
<1>5. ReadsOk' /\ ReadBeforeStopped'
  BY <1>3 DEF ReadsOk, ReadBeforeStopped
<1> QED
  BY <1>1, <1>4, <1>5, RequestAlone

LEMMA RecordKeeps == ASSUME ApiKeysInv, RecordOfRequest PROVE ApiKeysInv'
<1>0. UNCHANGED <<storeVars, usedAt, trusted>>
  BY DEF RecordOfRequest
<1>1. CASE request.key \in enabled \cup {Keyless, Internal}
  <2>1. request' = [request EXCEPT !.at = "found", !.read = now]
    BY <1>1 DEF RecordOfRequest
  <2>2. request \in Request /\ now \in Nat
    BY DEF ApiKeysInv, KeyShapes
  <2>3. request' = [at |-> "found", key |-> request.key, read |-> now,
                    resolved |-> request.resolved]
    BY <2>1, <2>2 DEF Request
  <2>4. request' \in Request
    BY <2>2, <2>3 DEF Request, Time
  <2>5. ReadsOk' /\ ReadBeforeStopped'
    BY <1>0, <1>1, <2>3, <2>4, FreshRead
  <2> QED
    BY <1>0, <2>4, <2>5, RequestAlone
<1>2. CASE request.key \notin enabled \cup {Keyless, Internal}
  BY <1>0, <1>2, NoRequestIsFine, RequestAlone DEF RecordOfRequest
<1> QED
  BY <1>1, <1>2

LEMMA AgainKeeps == ASSUME ApiKeysInv, ReadKeyAgain PROVE ApiKeysInv'
<1>0. UNCHANGED <<storeVars, usedAt, trusted>>
  BY DEF ReadKeyAgain
<1>1. CASE request.key \in enabled
  <2>1. request' = [request EXCEPT !.at = "again", !.read = now]
    BY <1>1 DEF ReadKeyAgain
  <2>2. request \in Request /\ now \in Nat
    BY DEF ApiKeysInv, KeyShapes
  <2>3. request' = [at |-> "again", key |-> request.key, read |-> now,
                    resolved |-> request.resolved]
    BY <2>1, <2>2 DEF Request
  <2>4. request' \in Request
    BY <2>2, <2>3 DEF Request, Time
  <2>5. ReadsOk' /\ ReadBeforeStopped'
    BY <1>0, <1>1, <2>3, <2>4, FreshRead
  <2> QED
    BY <1>0, <2>4, <2>5, RequestAlone
<1>2. CASE request.key \notin enabled
  BY <1>0, <1>2, NoRequestIsFine, RequestAlone DEF ReadKeyAgain
<1> QED
  BY <1>1, <1>2

\* The tool runs soon enough after the key was stopped, and for who may have it.
LEMMA RunKeeps ==
  ASSUME ApiKeysInv, RunIfAllowed, request' = NoRequest, UNCHANGED storeVars,
         \A k \in Keys : request.key = k /\ stopped[k] # NoKey =>
                           now <= stopped[k] + Reauth + LongestRead
  PROVE  ApiKeysInv'
<1> USE ApiKeysAssumption
<1>0. request' \in Request /\ ReadsOk' /\ ReadBeforeStopped'
  BY NoRequestIsFine
<1>1. CASE UNCHANGED <<usedAt, trusted>>
  BY <1>0, <1>1, RequestAlone
<1>2. ASSUME NEW tool \in Tools, Registered(tool), Allowed(request.key, tool),
             trusted' = trusted \cup (IF tool \in PublicTools THEN {} ELSE {request.key}),
             usedAt' = [k \in Keys |-> IF k = request.key THEN now ELSE usedAt[k]]
      PROVE  ApiKeysInv'
  <2>1. now \in Nat /\ usedAt \in [Keys -> Time] /\ stopped \in [Keys -> Time]
    BY DEF ApiKeysInv, KeyShapes
  <2>2. KeyShapes'
    BY <1>0, <1>2, <2>1
    DEF ApiKeysInv, KeyShapes, storeVars, Time, Issued, Consumer, Exchange
  <2>3. StoppedForGood'
    BY DEF ApiKeysInv, StoppedForGood, storeVars
  <2>4. UsedInThePast'
    BY <1>2, <2>1 DEF ApiKeysInv, UsedInThePast, storeVars
  <2>5. RevokedKeysExpire'
    BY <1>2 DEF ApiKeysInv, AccessIsBounded, RevokedKeysExpire, storeVars
  <2>6. ScopesHold'
    BY <1>2 DEF ApiKeysInv, AccessIsBounded, ScopesHold, Registered, Allowed, Scope
  <2> QED
    BY <1>0, <2>2, <2>3, <2>4, <2>5, <2>6
    DEF ApiKeysInv, AccessIsBounded, PriorKeysAreRevoked, storeVars
<1> QED
  BY <1>1, <1>2 DEF RunIfAllowed

LEMMA CallKeeps == ASSUME ApiKeysInv, CallTool PROVE ApiKeysInv'
<1> USE ApiKeysAssumption
<1>1. /\ request.at = "open" /\ Fresh /\ RunIfAllowed
      /\ request' = NoRequest /\ UNCHANGED storeVars
  BY DEF CallTool
<1>2. ASSUME NEW k \in Keys, request.key = k, stopped[k] # NoKey
      PROVE  now <= stopped[k] + Reauth + LongestRead
  <2>1. request.resolved \in Nat /\ request.resolved <= stopped[k] + LongestRead
    BY <1>1, <1>2 DEF ApiKeysInv, ReadsOk, ReadBeforeStopped
  <2>2. k \in Nat /\ stopped[k] \in Nat /\ now \in Nat
    BY <1>2 DEF ApiKeysInv, KeyShapes, Keys, Time
  <2>3. now < request.resolved + Reauth
    BY <1>1, <1>2, <2>2 DEF Fresh
  <2> QED
    BY <2>1, <2>2, <2>3
<1> QED
  BY <1>1, <1>2, RunKeeps

LEMMA CallAgainKeeps == ASSUME ApiKeysInv, CallToolAgain PROVE ApiKeysInv'
<1> USE ApiKeysAssumption
<1>1. /\ request.at = "again" /\ RunIfAllowed
      /\ request' = NoRequest /\ UNCHANGED storeVars
  BY DEF CallToolAgain
<1>2. ASSUME NEW k \in Keys, request.key = k, stopped[k] # NoKey
      PROVE  now <= stopped[k] + Reauth + LongestRead
  <2>1. /\ request.read \in Nat /\ request.read <= stopped[k]
        /\ now <= request.read + LongestRead
    BY <1>1, <1>2 DEF ApiKeysInv, ReadsOk, ReadBeforeStopped
  <2>2. stopped[k] \in Nat /\ now \in Nat
    BY <1>2 DEF ApiKeysInv, KeyShapes, Time
  <2> QED
    BY <2>1, <2>2
<1> QED
  BY <1>1, <1>2, RunKeeps

LEMMA TickKeeps == ASSUME ApiKeysInv, TickKeys PROVE ApiKeysInv'
<1> USE ApiKeysAssumption
<1>1. /\ now' = now + 1 /\ now \in Nat
      /\ request.read # NoKey => now < request.read + LongestRead
      /\ UNCHANGED <<consumer, tokens, exchanges, enabled, issued, stopped, request,
                     usedAt, trusted>>
  BY DEF TickKeys, ApiKeysInv, KeyShapes
<1>2. KeyShapes'
  BY <1>1 DEF ApiKeysInv, KeyShapes, Issued, Consumer, Exchange
<1>3. StoppedForGood' /\ UsedInThePast'
  BY <1>1 DEF ApiKeysInv, KeyShapes, StoppedForGood, UsedInThePast, Time
<1>4. ReadsOk'
  BY <1>1 DEF ApiKeysInv, KeyShapes, ReadsOk, Request, Time
<1>5. ReadBeforeStopped' /\ AccessIsBounded'
  BY <1>1 DEF ApiKeysInv, ReadBeforeStopped, AccessIsBounded, PriorKeysAreRevoked,
              RevokedKeysExpire, ScopesHold
<1> QED
  BY <1>2, <1>3, <1>4, <1>5 DEF ApiKeysInv

LEMMA ApiKeysKept == ApiKeysInv /\ [ApiKeysNext]_keyVars => ApiKeysInv'
<1> SUFFICES ASSUME ApiKeysInv, [ApiKeysNext]_keyVars PROVE ApiKeysInv'
  OBVIOUS
<1>1. CASE \/ AskForToken \/ MailToken \/ ConsumeToken
           \/ \E x \in exchanges : MarkVerified(x) \/ AbandonExchange(x)
  BY <1>1, TokensKeep
<1>2. CASE \E x \in exchanges : RevokePrior(x) \/ IssueKey(x)
  BY <1>2, RevokeKeeps, IssueKeyKeeps
<1>3. CASE FindKey \/ Stamp \/ LoseRecord \/ RecordOfRequest \/ ReadKeyAgain
  BY <1>3, FindKeyKeeps, StampKeeps, LoseKeeps, RecordKeeps, AgainKeeps
<1>4. CASE CallTool \/ CallToolAgain
  BY <1>4, CallKeeps, CallAgainKeeps
<1>5. CASE CloseRequest
  BY <1>5, NoRequestIsFine, RequestAlone DEF CloseRequest
<1>6. CASE TickKeys
  BY <1>6, TickKeeps
<1>7. CASE UNCHANGED keyVars
  BY <1>7, RequestAlone
  DEF keyVars, storeVars, ApiKeysInv, KeyShapes, ReadsOk, ReadBeforeStopped
<1> QED
  BY <1>1, <1>2, <1>3, <1>4, <1>5, <1>6, <1>7 DEF ApiKeysNext

LEMMA KeysInvariance == ApiKeysSpec => []ApiKeysInv
<1> QED
  BY ApiKeysBegin, ApiKeysKept, PTL DEF ApiKeysSpec

\* However tokens, exchanges and requests interleave, no tool runs for a key later than
\* the re-authorisation time and one read after it was revoked, and none outside the scope.
THEOREM AccessBounded == ApiKeysSpec => []AccessIsBounded
<1>1. ApiKeysInv => AccessIsBounded
  BY DEF ApiKeysInv
<1> QED
  BY <1>1, KeysInvariance, PTL

\* A key that was revoked is never enabled again.
THEOREM RevokedForGood == ApiKeysSpec => []StoppedForGood
<1>1. ApiKeysInv => StoppedForGood
  BY DEF ApiKeysInv
<1> QED
  BY <1>1, KeysInvariance, PTL

-----------------------------------------------------------------------------
(* Accounts, with their bounds. *)

\* The epoch counts the disablings and at most MaxChanges resets.
KeptAccount ==
  {a \in Account : a.disablings <= a.epoch /\ a.epoch - a.disablings <= MaxChanges}

InFlight == [at : {"cookie"}, cookie : Cookie] \cup ToReread \cup ByEmail \cup ToLink
              \cup ToWrite

AccountsTyped ==
  /\ account \in [Emails -> KeptAccount \cup {Unset}]
  /\ accounts \in 0..MaxAccounts
  /\ requests \subseteq InFlight
  /\ IsFiniteSet(requests) /\ Cardinality(requests) <= MaxRequests
  /\ cookies \subseteq Cookie

LEMMA CookieTyped ==
  ASSUME NEW a \in Account, NEW by \in Ways
  PROVE  CookieOf(a, by) \in Cookie
BY DEF CookieOf, Account, Cookie, Ways

LEMMA HolderTyped ==
  ASSUME AccountsTyped, NEW e \in Emails, HasAccount(e)
  PROVE  account[e] \in KeptAccount /\ account[e] \in Account
BY DEF AccountsTyped, HasAccount, KeptAccount

\* A request is begun if there is room for it; it may go on, and end.
LEMMA RequestsCounted ==
  ASSUME IsFiniteSet(requests), Cardinality(requests) <= MaxRequests,
         \/ UNCHANGED requests
         \/ \E q : BeginRequest(q)
         \/ \E q \in requests : EndRequest(q) \/ \E r : ContinueRequest(q, r)
  PROVE  IsFiniteSet(requests') /\ Cardinality(requests') <= MaxRequests
<1>1. Cardinality(requests) \in Nat
  BY FS_CardinalityType
<1>2. ASSUME NEW q, BeginRequest(q)
      PROVE  IsFiniteSet(requests') /\ Cardinality(requests') <= MaxRequests
  <2>1. /\ IsFiniteSet(requests \cup {q})
        /\ \/ Cardinality(requests \cup {q}) = Cardinality(requests)
           \/ Cardinality(requests \cup {q}) = Cardinality(requests) + 1
    BY FS_AddElement
  <2> QED
    BY <1>1, <1>2, <2>1, AccountsAssumption DEF BeginRequest
<1>3. ASSUME NEW q \in requests
      PROVE  /\ IsFiniteSet(requests \ {q})
             /\ Cardinality(requests \ {q}) = Cardinality(requests) - 1
  BY <1>3, FS_RemoveElement
<1>4. ASSUME NEW q \in requests, EndRequest(q)
      PROVE  IsFiniteSet(requests') /\ Cardinality(requests') <= MaxRequests
  BY <1>1, <1>3, <1>4, AccountsAssumption DEF EndRequest
<1>5. ASSUME NEW q \in requests, NEW r, ContinueRequest(q, r)
      PROVE  IsFiniteSet(requests') /\ Cardinality(requests') <= MaxRequests
  <2> DEFINE S == requests \ {q}
  <2>1. IsFiniteSet(S) /\ Cardinality(S) = Cardinality(requests) - 1
    BY <1>3
  <2>2. /\ IsFiniteSet(S \cup {r})
        /\ Cardinality(S \cup {r}) = Cardinality(S)
             \/ Cardinality(S \cup {r}) = Cardinality(S) + 1
    BY <2>1, FS_AddElement
  <2>3. requests' = S \cup {r}
    BY <1>5 DEF ContinueRequest
  <2> HIDE DEF S
  <2> QED
    BY <1>1, <2>1, <2>2, <2>3, AccountsAssumption
<1> QED
  BY <1>2, <1>4, <1>5

LEMMA AccountInserted ==
  ASSUME AccountsTyped, NEW e \in Emails, NEW admin \in BOOLEAN,
         NEW google \in GoogleIds \cup {Unset}, NEW password \in {0, Unset},
         InsertAccount(e, admin, google, password)
  PROVE  /\ account' \in [Emails -> KeptAccount \cup {Unset}]
         /\ accounts' \in 0..MaxAccounts
         /\ accounts' \in Nat
<1>1. /\ accounts \in Nat /\ accounts < MaxAccounts /\ MaxAccounts \in Nat
      /\ MaxChanges \in Nat
  BY AccountsAssumption DEF AccountsTyped, InsertAccount
<1>2. accounts + 1 \in 1..MaxAccounts /\ 0 \in 0..MaxChanges /\ 0 \in 0..(2 * MaxChanges)
  BY <1>1
<1>3. NewAccount(admin, google, password) \in KeptAccount
  BY <1>1, <1>2 DEF NewAccount, KeptAccount, Account
<1> QED
  BY <1>1, <1>2, <1>3 DEF AccountsTyped, InsertAccount

LEMMA AccountsTypesKept ==
  ASSUME AccountsTyped, [AccountsNext]_accountVars
  PROVE  AccountsTyped'
<1>1. /\ {MaxRequests, MaxAccounts, MaxChanges, MaxCookies} \subseteq Nat
      /\ requests \subseteq InFlight /\ cookies \subseteq Cookie
      /\ IsFiniteSet(requests) /\ Cardinality(requests) <= MaxRequests
  BY AccountsAssumption DEF AccountsTyped
<1>2. \A a \in Account : a.id \in Nat
  BY <1>1 DEF Account
<1>3. ASSUME NEW e \in Emails, LogIn(e) PROVE AccountsTyped'
  <2>1. CookieOf(account[e], "login") \in Cookie
    BY <1>3, HolderTyped, CookieTyped DEF LogIn, Ways
  <2>2. requests' \subseteq InFlight
    BY <1>1, <1>3, <2>1 DEF LogIn, BeginRequest, InFlight
  <2>3. IsFiniteSet(requests') /\ Cardinality(requests') <= MaxRequests
    BY <1>1, <1>3, RequestsCounted DEF LogIn
  <2> QED
    BY <1>3, <2>2, <2>3 DEF LogIn, AccountsTyped
<1>4. ASSUME NEW e \in Emails, SignUp(e) PROVE AccountsTyped'
  <2>1. CASE Insertable(e, Unset)
    <3>1. /\ InsertAccount(e, FALSE, Unset, 0)
          /\ BeginRequest([at |-> "reread", id |-> accounts', by |-> "signup"])
      BY <1>4, <2>1 DEF SignUp
    <3>2. /\ account' \in [Emails -> KeptAccount \cup {Unset}]
          /\ accounts' \in 0..MaxAccounts /\ accounts' \in Nat
      BY <3>1, AccountInserted
    <3>3. requests' \subseteq InFlight
      BY <1>1, <3>1, <3>2 DEF BeginRequest, InFlight, ToReread, Ways
    <3>4. IsFiniteSet(requests') /\ Cardinality(requests') <= MaxRequests
      BY <1>1, <3>1, RequestsCounted
    <3> QED
      BY <1>4, <3>2, <3>3, <3>4 DEF SignUp, AccountsTyped
  <2>2. CASE ~Insertable(e, Unset)
    BY <1>4, <2>2 DEF SignUp, AccountsTyped
  <2> QED
    BY <2>1, <2>2
<1>5. ASSUME NEW ga \in Google, ReturnFromGoogle(ga[1], ga[2]) PROVE AccountsTyped'
  <2>1. ASSUME NEW o \in BySubject(ga[1])
        PROVE  [at |-> "reread", by |-> "google", id |-> account[o].id] \in InFlight
    <3>1. account[o].id \in Nat
      BY <1>2, HolderTyped DEF BySubject
    <3> QED
      BY <3>1 DEF InFlight, ToReread, Ways
  <2>2. [at |-> "email", google |-> ga[1], email |-> ga[2]] \in InFlight
    BY AccountsAssumption DEF InFlight, ByEmail, GoogleIds
  <2>3. PICK q \in InFlight : BeginRequest(q)
    BY <1>5, <2>1, <2>2 DEF ReturnFromGoogle
  <2>4. requests' \subseteq InFlight
    BY <1>1, <2>3 DEF BeginRequest
  <2>5. IsFiniteSet(requests') /\ Cardinality(requests') <= MaxRequests
    BY <1>1, <2>3, RequestsCounted
  <2> QED
    BY <1>5, <2>4, <2>5 DEF ReturnFromGoogle, AccountsTyped
<1>6. ASSUME NEW q \in requests, NEW r \in InFlight,
             EndRequest(q) \/ ContinueRequest(q, r)
      PROVE  /\ requests' \subseteq InFlight
             /\ IsFiniteSet(requests') /\ Cardinality(requests') <= MaxRequests
  <2>1. requests' \subseteq InFlight
    BY <1>1, <1>6 DEF EndRequest, ContinueRequest
  <2>2. IsFiniteSet(requests') /\ Cardinality(requests') <= MaxRequests
    BY <1>1, <1>6, RequestsCounted
  <2> QED
    BY <2>1, <2>2
<1>7. ASSUME NEW q \in requests
      PROVE  q \in InFlight
  BY <1>1
<1>8. ASSUME NEW q \in requests, Reread(q) PROVE AccountsTyped'
  <2>1. q \in ToReread
    BY <1>7, <1>8 DEF Reread, InFlight, ToReread, ByEmail, ToLink, ToWrite
  <2>2. \A e \in Holder(q.id) :
          [at |-> "cookie", cookie |-> CookieOf(account[e], q.by)] \in InFlight
    <3> SUFFICES ASSUME NEW e \in Holder(q.id)
                 PROVE  CookieOf(account[e], q.by) \in Cookie
      BY DEF InFlight
    <3> QED
      BY <2>1, HolderTyped, CookieTyped DEF Holder, ToReread
  <2>3. \E r \in InFlight : EndRequest(q) \/ ContinueRequest(q, r)
    BY <1>7, <1>8, <2>2 DEF Reread
  <2> QED
    BY <1>6, <1>8, <2>3 DEF Reread, AccountsTyped
<1>9. ASSUME NEW q \in requests, IssueCookie(q) PROVE AccountsTyped'
  <2>1. q.cookie \in Cookie
    BY <1>7, <1>9 DEF IssueCookie, InFlight, ToReread, ByEmail, ToLink, ToWrite
  <2>2. cookies' \subseteq Cookie
    BY <1>1, <1>9, <2>1 DEF IssueCookie
  <2> QED
    BY <1>6, <1>7, <1>9, <2>2 DEF IssueCookie, AccountsTyped
<1>10. ASSUME NEW q \in requests, FindByEmail(q) PROVE AccountsTyped'
  <2>1. q \in ByEmail
    BY <1>7, <1>10 DEF FindByEmail, InFlight, ToReread, ByEmail, ToLink, ToWrite
  <2>2. HasAccount(q.email) => account[q.email].id \in Nat
    BY <1>2, <2>1, HolderTyped DEF ByEmail
  <2>3. HasAccount(q.email) =>
          /\ [at |-> "link", google |-> q.google, id |-> account[q.email].id] \in InFlight
          /\ [at |-> "reread", by |-> "google", id |-> account[q.email].id] \in InFlight
    BY <2>1, <2>2 DEF InFlight, ByEmail, ToLink, ToReread, Ways
  <2>4. [q EXCEPT !.at = "create"] \in InFlight
    BY <2>1 DEF InFlight, ByEmail
  <2>5. \E r \in InFlight : EndRequest(q) \/ ContinueRequest(q, r)
    BY <1>7, <1>10, <2>3, <2>4 DEF FindByEmail
  <2> QED
    BY <1>6, <1>10, <2>5 DEF FindByEmail, AccountsTyped
<1>11. ASSUME NEW q \in requests, LinkGoogle(q) PROVE AccountsTyped'
  <2>1. q \in ToLink
    BY <1>7, <1>11 DEF LinkGoogle, InFlight, ToReread, ByEmail, ToLink, ToWrite
  <2>2. [at |-> "reread", by |-> "google", id |-> q.id] \in InFlight
    BY <2>1 DEF ToLink, InFlight, ToReread, Ways
  <2>3. \E r \in InFlight : EndRequest(q) \/ ContinueRequest(q, r)
    BY <1>11, <2>2 DEF LinkGoogle
  <2>4. \A e \in Holder(q.id) : [account[e] EXCEPT !.google = q.google] \in KeptAccount
    <3> SUFFICES ASSUME NEW e \in Holder(q.id)
                 PROVE  [account[e] EXCEPT !.google = q.google] \in KeptAccount
      OBVIOUS
    <3>1. account[e] \in KeptAccount
      BY HolderTyped DEF Holder
    <3> QED
      BY <2>1, <3>1 DEF KeptAccount, Account, ToLink
  <2>5. account' \in [Emails -> KeptAccount \cup {Unset}]
    BY <1>11, <2>4 DEF LinkGoogle, AccountsTyped
  <2> QED
    BY <1>6, <1>11, <2>3, <2>5 DEF LinkGoogle, AccountsTyped
<1>12. ASSUME NEW q \in requests, CreateGoogle(q) PROVE AccountsTyped'
  <2>1. q \in ByEmail
    BY <1>7, <1>12 DEF CreateGoogle, InFlight, ToReread, ByEmail, ToLink, ToWrite
  <2>2. CASE Insertable(q.email, q.google)
    <3>1. /\ InsertAccount(q.email, FALSE, q.google, Unset)
          /\ ContinueRequest(q, [at |-> "reread", by |-> "google", id |-> accounts'])
      BY <1>12, <2>2 DEF CreateGoogle
    <3>2. /\ account' \in [Emails -> KeptAccount \cup {Unset}]
          /\ accounts' \in 0..MaxAccounts /\ accounts' \in Nat
      BY <2>1, <3>1, AccountInserted DEF ByEmail
    <3>3. [at |-> "reread", by |-> "google", id |-> accounts'] \in InFlight
      BY <3>2 DEF InFlight, ToReread, Ways
    <3> QED
      BY <1>6, <1>12, <3>1, <3>2, <3>3 DEF CreateGoogle, AccountsTyped
  <2>3. CASE ~Insertable(q.email, q.google)
    BY <1>6, <1>7, <1>12, <2>3 DEF CreateGoogle, AccountsTyped
  <2> QED
    BY <2>2, <2>3
<1>13. ASSUME NEW q \in requests, WriteAccount(q) PROVE AccountsTyped'
  <2>1. q \in ToWrite
    BY <1>7, <1>13 DEF WriteAccount, InFlight, ToReread, ByEmail, ToLink, ToWrite
  <2>2. ASSUME NEW e \in Holder(q.id)
        PROVE  Changed(account[e], q.op) \in KeptAccount \cup {Unset}
    <3>1. PICK a : a = account[e]
      OBVIOUS
    <3>2. /\ a \in KeptAccount /\ a \in Account
          /\ q.op = "password" => a.epoch - a.disablings < MaxChanges
          /\ q.op = "disable" => a.disablings < MaxChanges
      BY <1>13, <3>1, HolderTyped DEF Holder, WriteAccount
    <3>3. a.epoch \in Nat /\ a.disablings \in Nat /\ a.disablings <= a.epoch
      BY <1>1, <3>2 DEF KeptAccount, Account
    <3>4. CASE q.op = "password"
      <4> DEFINE password == a.epoch - a.disablings + 1
                 epoch == a.epoch + 1
                 b == [a EXCEPT !.password = password, !.epoch = epoch]
      <4>1. /\ password \in 0..MaxChanges /\ epoch \in 0..(2 * MaxChanges)
            /\ a.disablings <= epoch /\ epoch - a.disablings <= MaxChanges
        BY <1>1, <3>2, <3>3, <3>4 DEF KeptAccount, Account
      <4>2. Changed(a, q.op) = b
        BY <3>2, <3>4 DEF Changed, SetPassword, Account
      <4> HIDE DEF password, epoch
      <4>3. b \in Account /\ b.epoch = epoch /\ b.disablings = a.disablings
        BY <3>2, <4>1 DEF Account
      <4> QED
        BY <3>1, <4>1, <4>2, <4>3 DEF KeptAccount
    <3>5. CASE q.op = "disable"
      <4> DEFINE disablings == a.disablings + 1
                 epoch == a.epoch + 1
                 b == [a EXCEPT !.disabled = TRUE, !.epoch = epoch,
                                !.disablings = disablings]
      <4>1. /\ disablings \in 0..MaxChanges /\ epoch \in 0..(2 * MaxChanges)
            /\ disablings <= epoch /\ epoch - disablings <= MaxChanges
        BY <1>1, <3>2, <3>3, <3>5 DEF KeptAccount, Account
      <4>2. Changed(a, q.op) = b
        BY <3>2, <3>5 DEF Changed, SetDisabled, Account
      <4> HIDE DEF disablings, epoch
      <4>3. b \in Account /\ b.epoch = epoch /\ b.disablings = disablings
        BY <3>2, <4>1 DEF Account
      <4> QED
        BY <3>1, <4>1, <4>2, <4>3 DEF KeptAccount
    <3>6. CASE q.op = "enable"
      <4> DEFINE b == [a EXCEPT !.disabled = FALSE]
      <4>1. Changed(a, q.op) = b
        BY <3>6 DEF Changed, SetDisabled
      <4>2. b \in Account /\ b.epoch = a.epoch /\ b.disablings = a.disablings
        BY <3>2 DEF Account
      <4> QED
        BY <3>1, <3>2, <4>1, <4>2 DEF KeptAccount
    <3>7. CASE q.op = "delete"
      BY <3>7 DEF Changed
    <3> QED
      BY <2>1, <3>4, <3>5, <3>6, <3>7 DEF ToWrite
  <2>3. account' \in [Emails -> KeptAccount \cup {Unset}]
    BY <1>13, <2>2 DEF WriteAccount, AccountsTyped
  <2> QED
    BY <1>6, <1>7, <1>13, <2>3 DEF WriteAccount, AccountsTyped
<1>14. ASSUME Administer PROVE AccountsTyped'
  <2>1. PICK e \in Emails, op \in {"password", "disable", "enable", "delete"} :
          /\ HasAccount(e)
          /\ BeginRequest([at |-> "write", op |-> op, id |-> account[e].id])
    BY <1>14 DEF Administer
  <2>2. [at |-> "write", op |-> op, id |-> account[e].id] \in InFlight
    <3>1. account[e].id \in Nat
      BY <1>2, <2>1, HolderTyped
    <3> QED
      BY <3>1 DEF InFlight, ToWrite
  <2>3. requests' \subseteq InFlight
    BY <1>1, <2>1, <2>2 DEF BeginRequest
  <2>4. IsFiniteSet(requests') /\ Cardinality(requests') <= MaxRequests
    BY <1>1, <2>1, RequestsCounted
  <2> QED
    BY <1>14, <2>3, <2>4 DEF Administer, AccountsTyped
<1>15. ASSUME CreateUser PROVE AccountsTyped'
  <2>1. PICK e \in Emails, admin \in BOOLEAN : InsertAccount(e, admin, Unset, 0)
    BY <1>15 DEF CreateUser
  <2>2. account' \in [Emails -> KeptAccount \cup {Unset}] /\ accounts' \in 0..MaxAccounts
    BY <2>1, AccountInserted
  <2> QED
    BY <1>15, <2>2 DEF CreateUser, AccountsTyped
<1>16. ASSUME DropCookie PROVE AccountsTyped'
  BY <1>16 DEF DropCookie, AccountsTyped
<1>17. ASSUME UNCHANGED accountVars PROVE AccountsTyped'
  BY <1>17 DEF accountVars, AccountsTyped
<1> QED
  BY <1>3, <1>4, <1>5, <1>8, <1>9, <1>10, <1>11, <1>12, <1>13, <1>14, <1>15, <1>16, <1>17
  DEF AccountsNext

(***************************************************************************)
(* The documents, cookies and requests of the accounts have their types    *)
(* and stay within their bounds: an epoch counts the disablings and the    *)
(* resets of the password, so both bound it, and no more requests are in   *)
(* flight than there is room for, for any addresses, Google accounts,      *)
(* accounts, changes and requests (auth.py, users_repository.py).          *)
(***************************************************************************)
THEOREM AccountsTypes == AccountsSpec => []AccountsTypeOK
<1>1. AccountsInit => AccountsTyped
  <2> SUFFICES ASSUME AccountsInit PROVE AccountsTyped
    OBVIOUS
  <2>1. PICK google \in {Unset, AdminSubject} :
          account = [e \in Emails |->
            IF e = Administrator
            THEN [id |-> 1, admin |-> TRUE, disabled |-> FALSE, epoch |-> 0,
                  google |-> google, password |-> 0, disablings |-> 0]
            ELSE Unset]
    BY DEF AccountsInit
  <2>2. /\ 1 \in 1..MaxAccounts /\ 0 \in 0..MaxChanges /\ 0 \in 0..(2 * MaxChanges)
        /\ 0 <= MaxRequests /\ 0 - 0 <= MaxChanges
    BY AccountsAssumption
  <2>3. [id |-> 1, admin |-> TRUE, disabled |-> FALSE, epoch |-> 0, google |-> google,
         password |-> 0, disablings |-> 0] \in KeptAccount
    BY <2>2 DEF KeptAccount, Account, GoogleIds
  <2>4. IsFiniteSet({}) /\ Cardinality({}) = 0
    BY FS_EmptySet
  <2>5. account \in [Emails -> KeptAccount \cup {Unset}]
    BY <2>1, <2>3
  <2>6. accounts \in 0..MaxAccounts
    BY <2>2, AccountsAssumption DEF AccountsInit
  <2> QED
    BY <2>2, <2>4, <2>5, <2>6 DEF AccountsInit, AccountsTyped
<1>2. AccountsTyped => AccountsTypeOK
  <2> SUFFICES ASSUME AccountsTyped PROVE AccountsTypeOK
    OBVIOUS
  <2>1. account \in [Emails -> Account \cup {Unset}]
    BY DEF AccountsTyped, KeptAccount
  <2>2. Cardinality(requests) \in 0..MaxRequests
    BY FS_CardinalityType, AccountsAssumption DEF AccountsTyped
  <2>3. \A q \in requests :
          q.at \in {"cookie", "reread", "email", "link", "create", "write"}
    BY DEF AccountsTyped, InFlight, ToReread, ByEmail, ToLink, ToWrite
  <2> QED
    BY <2>1, <2>2, <2>3 DEF AccountsTyped, AccountsTypeOK
<1> QED
  BY <1>1, <1>2, AccountsTypesKept, PTL DEF AccountsSpec

-----------------------------------------------------------------------------
(* Keys, with their bounds. *)

Exchanging == [at : {"revoke", "issue", "mark"}, token : Keys, prior : Keys \cup {NoKey},
               key : Keys \cup {NoKey}]

\* The exchanges that have no key yet, and the token that was mailed last.
Redeemed == {x \in exchanges : x.at \in {"revoke", "issue"}}
Unspent == IF consumer.token = NoKey THEN 0 ELSE 1

McpRequest == [at : {"idle", "found", "open", "again", "bare"},
               key : Principals \cup {NoKey}, read : Times \cup {NoKey},
               resolved : Times \cup {NoKey}]

KeysTyped ==
  /\ now \in Times
  /\ consumer \in [token : Keys \cup {NoKey}, expires : Nat \cup {NoKey},
                   key : Keys \cup {NoKey}]
  /\ tokens \in 0..MaxTokens /\ asks \in 0..MaxAsks /\ issued \in Nat
  /\ exchanges \subseteq Exchanging /\ IsFiniteSet(exchanges)
  /\ issued + Cardinality(Redeemed) + Unspent <= tokens
  /\ enabled \subseteq 1..issued
  /\ stopped \in [Keys -> Times \cup {NoKey}] /\ usedAt \in [Keys -> Times \cup {NoKey}]
  /\ request \in McpRequest
  /\ trusted \subseteq Principals

LEMMA RedeemedCounted ==
  ASSUME KeysTyped
  PROVE  /\ IsFiniteSet(Redeemed) /\ Cardinality(Redeemed) \in Nat
         /\ issued \in 0..MaxTokens /\ Unspent \in {0, 1}
         /\ tokens \in Nat /\ tokens <= MaxTokens /\ now \in Nat /\ now <= MaxNow
         /\ MaxTokens \in Nat /\ MaxAsks \in Nat /\ MaxNow \in Nat
<1>1. IsFiniteSet(Redeemed)
  <2>1. Redeemed \subseteq exchanges
    BY DEF Redeemed
  <2> QED
    BY <2>1, FS_Subset DEF KeysTyped
<1>2. Cardinality(Redeemed) \in Nat /\ Unspent \in {0, 1}
  BY <1>1, FS_CardinalityType DEF Unspent
<1> QED
  BY <1>1, <1>2, ApiKeysAssumption DEF KeysTyped, Times

\* A step that leaves the tokens, the exchanges and the keys alone.
LEMMA RequestStepTyped ==
  ASSUME KeysTyped, UNCHANGED storeVars,
         usedAt' \in [Keys -> Times \cup {NoKey}], trusted' \subseteq Principals,
         request' \in McpRequest
  PROVE  KeysTyped'
<1>1. Redeemed' = Redeemed /\ Unspent' = Unspent
  BY DEF storeVars, Redeemed, Unspent
<1>2. issued' + Cardinality(Redeemed') + Unspent' <= tokens'
  BY <1>1 DEF storeVars, KeysTyped
<1> QED
  BY <1>2 DEF storeVars, KeysTyped

LEMMA TokensTyped ==
  ASSUME KeysTyped, AskForToken \/ MailToken \/ ConsumeToken
  PROVE  KeysTyped'
<1>1. CASE AskForToken
  BY <1>1, RedeemedCounted DEF AskForToken, KeysTyped, Redeemed, Unspent
<1>2. CASE MailToken
  <2>1. /\ tokens + 1 \in Nat /\ tokens + 1 \in Keys /\ tokens + 1 \in 0..MaxTokens
        /\ now + TokenLife \in Nat /\ asks - 1 \in 0..MaxAsks
    <3>1. /\ asks \in Nat /\ asks > 0 /\ asks <= MaxAsks /\ tokens < MaxTokens
          /\ TokenLife \in Nat
      BY <1>2, ApiKeysAssumption DEF MailToken, KeysTyped
    <3> QED
      BY <3>1, RedeemedCounted DEF Keys
  <2>2. /\ consumer' = [consumer EXCEPT !.token = tokens + 1, !.expires = now + TokenLife]
        /\ tokens' = tokens + 1 /\ asks' = asks - 1
        /\ UNCHANGED <<now, exchanges, enabled, issued, stopped, request, usedAt, trusted>>
    BY <1>2 DEF MailToken
  <2>3. consumer' \in [token : Keys \cup {NoKey}, expires : Nat \cup {NoKey},
                       key : Keys \cup {NoKey}]
    BY <2>1, <2>2 DEF KeysTyped
  <2>4. issued' + Cardinality(Redeemed') + Unspent' <= tokens'
    <3>1. Redeemed' = Redeemed /\ Unspent' \in {0, 1}
      BY <2>2 DEF Redeemed, Unspent
    <3> QED
      BY <2>2, <3>1, RedeemedCounted DEF KeysTyped
  <2> QED
    BY <2>1, <2>2, <2>3, <2>4 DEF KeysTyped
<1>3. CASE ConsumeToken
  <2> DEFINE x == [at |-> FirstStep(consumer.key), token |-> consumer.token,
                   prior |-> consumer.key, key |-> NoKey]
  <2>1. /\ consumer' = [consumer EXCEPT !.token = NoKey, !.expires = NoKey]
        /\ exchanges' = exchanges \cup {x} /\ consumer.token # NoKey
        /\ UNCHANGED <<now, tokens, asks, enabled, issued, stopped, request, usedAt,
                       trusted>>
    BY <1>3 DEF ConsumeToken
  <2>2. consumer' \in [token : Keys \cup {NoKey}, expires : Nat \cup {NoKey},
                       key : Keys \cup {NoKey}]
    BY <2>1 DEF KeysTyped
  <2>3. x \in Exchanging
    BY <2>1 DEF KeysTyped, Exchanging, FirstStep
  <2>4. exchanges' \subseteq Exchanging /\ IsFiniteSet(exchanges')
    BY <2>1, <2>3, FS_AddElement DEF KeysTyped
  <2>5. issued' + Cardinality(Redeemed') + Unspent' <= tokens'
    <3>1. Redeemed' = Redeemed \cup {x}
      BY <2>1 DEF Redeemed, FirstStep
    <3>2. Cardinality(Redeemed') \in {Cardinality(Redeemed), Cardinality(Redeemed) + 1}
      BY <3>1, RedeemedCounted, FS_AddElement
    <3>3. Unspent = 1 /\ Unspent' = 0
      BY <2>1 DEF Unspent, KeysTyped
    <3> QED
      BY <2>1, <3>2, <3>3, RedeemedCounted DEF KeysTyped
  <2> QED
    BY <2>1, <2>2, <2>4, <2>5 DEF KeysTyped
<1> QED
  BY <1>1, <1>2, <1>3

\* What an exchange that goes on leaves to be issued.
LEMMA ExchangeGoesOn ==
  ASSUME KeysTyped, NEW x \in exchanges, NEW at \in {"revoke", "issue", "mark"},
         NEW key \in Keys \cup {NoKey}, GoOn(x, at, key)
  PROVE  /\ exchanges' \subseteq Exchanging /\ IsFiniteSet(exchanges')
         /\ x.at \in {"revoke", "issue"} => Cardinality(Redeemed') <= Cardinality(Redeemed)
         /\ x.at \in {"revoke", "issue"} /\ at = "mark" =>
              Cardinality(Redeemed') = Cardinality(Redeemed) - 1
<1> DEFINE y == [x EXCEPT !.at = at, !.key = key]
           rest == Redeemed \ {x}
<1>1. y \in Exchanging /\ y.at = at /\ exchanges' = (exchanges \ {x}) \cup {y}
  BY DEF KeysTyped, Exchanging, GoOn
<1>2. exchanges' \subseteq Exchanging /\ IsFiniteSet(exchanges')
  <2>1. IsFiniteSet(exchanges \ {x})
    BY FS_RemoveElement DEF KeysTyped
  <2> QED
    BY <1>1, <2>1, FS_AddElement DEF KeysTyped
<1>3. Redeemed' = rest \cup (IF at = "mark" THEN {} ELSE {y})
  BY <1>1 DEF Redeemed
<1>4. ASSUME x.at \in {"revoke", "issue"}
      PROVE  IsFiniteSet(rest) /\ Cardinality(rest) = Cardinality(Redeemed) - 1
  BY <1>4, RedeemedCounted, FS_RemoveElement DEF Redeemed
<1> HIDE DEF rest, y
<1>5. ASSUME x.at \in {"revoke", "issue"}
      PROVE  Cardinality(rest \cup {y}) \in {Cardinality(rest), Cardinality(rest) + 1}
  BY <1>4, <1>5, FS_AddElement
<1>6. CASE at = "mark"
  BY <1>2, <1>3, <1>4, <1>6, RedeemedCounted
<1>7. CASE at # "mark"
  <2>1. Redeemed' = rest \cup {y}
    BY <1>3, <1>7
  <2> QED
    BY <1>2, <1>4, <1>5, <1>7, <2>1, RedeemedCounted
<1> QED
  BY <1>6, <1>7

LEMMA ExchangesTyped ==
  ASSUME KeysTyped, NEW x \in exchanges,
         RevokePrior(x) \/ IssueKey(x) \/ MarkVerified(x) \/ AbandonExchange(x)
  PROVE  KeysTyped'
<1>1. CASE RevokePrior(x)
  <2>1. /\ GoOn(x, "issue", NoKey) /\ x.at = "revoke"
        /\ enabled' = enabled \ {x.prior}
        /\ stopped' = [stopped EXCEPT ![x.prior] = IF @ = NoKey THEN now ELSE @]
        /\ UNCHANGED <<now, consumer, tokens, asks, issued, request, usedAt, trusted>>
    BY <1>1 DEF RevokePrior, Revoke
  <2>2. /\ exchanges' \subseteq Exchanging /\ IsFiniteSet(exchanges')
        /\ Cardinality(Redeemed') <= Cardinality(Redeemed)
    BY <2>1, ExchangeGoesOn
  <2>3. Cardinality(Redeemed') \in Nat
    <3>1. Redeemed' \subseteq exchanges'
      BY DEF Redeemed
    <3> QED
      BY <2>2, <3>1, FS_Subset, FS_CardinalityType
  <2>4. issued' + Cardinality(Redeemed') + Unspent' <= tokens'
    <3>1. Unspent' = Unspent
      BY <2>1 DEF Unspent
    <3> QED
      BY <2>1, <2>2, <2>3, <3>1, RedeemedCounted DEF KeysTyped
  <2> QED
    BY <2>1, <2>2, <2>4 DEF KeysTyped
<1>2. CASE IssueKey(x)
  <2>1. /\ GoOn(x, "mark", issued + 1) /\ x.at = "issue" /\ issued' = issued + 1
        /\ enabled' = enabled \cup {issued + 1}
        /\ UNCHANGED <<now, consumer, tokens, asks, stopped, request, usedAt, trusted>>
    BY <1>2 DEF IssueKey
  <2>2. Cardinality(Redeemed) >= 1
    <3>1. x \in Redeemed
      BY <2>1 DEF Redeemed
    <3> QED
      BY <3>1, RedeemedCounted, FS_EmptySet
  <2>3. issued + 1 \in Keys
    BY <2>2, RedeemedCounted DEF KeysTyped, Keys
  <2>4. /\ exchanges' \subseteq Exchanging /\ IsFiniteSet(exchanges')
        /\ Cardinality(Redeemed') = Cardinality(Redeemed) - 1
    BY <2>1, <2>3, ExchangeGoesOn
  <2>5. issued' + Cardinality(Redeemed') + Unspent' <= tokens'
    <3>1. Unspent' = Unspent
      BY <2>1 DEF Unspent
    <3> QED
      BY <2>1, <2>4, <3>1, RedeemedCounted DEF KeysTyped
  <2>6. enabled' \subseteq 1..issued' /\ issued' \in Nat
    BY <2>1, RedeemedCounted DEF KeysTyped
  <2> QED
    BY <2>1, <2>4, <2>5, <2>6 DEF KeysTyped
<1>3. CASE MarkVerified(x) \/ AbandonExchange(x)
  <2>1. /\ exchanges' = exchanges \ {x}
        /\ UNCHANGED <<now, tokens, asks, enabled, issued, stopped, request, usedAt,
                       trusted>>
        /\ \/ consumer' = [token |-> NoKey, expires |-> NoKey, key |-> x.key]
           \/ consumer' = consumer
    BY <1>3 DEF MarkVerified, AbandonExchange
  <2>2. consumer' \in [token : Keys \cup {NoKey}, expires : Nat \cup {NoKey},
                       key : Keys \cup {NoKey}]
    BY <2>1 DEF KeysTyped, Exchanging
  <2>3. exchanges' \subseteq Exchanging /\ IsFiniteSet(exchanges')
    BY <2>1, FS_RemoveElement DEF KeysTyped
  <2>4. Cardinality(Redeemed') \in Nat /\ Cardinality(Redeemed') <= Cardinality(Redeemed)
    <3>1. Redeemed' \subseteq Redeemed
      BY <2>1 DEF Redeemed
    <3> QED
      BY <3>1, RedeemedCounted, FS_Subset, FS_CardinalityType
  <2>5. Unspent' \in Nat /\ Unspent' <= Unspent
    BY <2>1 DEF Unspent
  <2>6. issued' + Cardinality(Redeemed') + Unspent' <= tokens'
    BY <2>1, <2>4, <2>5, RedeemedCounted DEF KeysTyped
  <2> QED
    BY <2>1, <2>2, <2>3, <2>6 DEF KeysTyped
<1> QED
  BY <1>1, <1>2, <1>3

LEMMA RequestsTyped ==
  ASSUME KeysTyped,
         \/ FindKey \/ Stamp \/ LoseRecord \/ RecordOfRequest
         \/ CallTool \/ ReadKeyAgain \/ CallToolAgain \/ CloseRequest
  PROVE  KeysTyped'
<1>1. request \in McpRequest /\ NoRequest \in McpRequest /\ now \in Times
  BY DEF KeysTyped, NoRequest, McpRequest
<1>2. enabled \cup {Keyless, Internal} \subseteq Principals
  <2>1. enabled \subseteq 1..issued
    BY DEF KeysTyped
  <2>2. 1..issued \subseteq Keys
    BY RedeemedCounted DEF Keys
  <2> QED
    BY <2>1, <2>2 DEF Principals
<1>3. request' \in McpRequest
  BY <1>1, <1>2
  DEF McpRequest, FindKey, Stamp, LoseRecord, RecordOfRequest, CallTool, ReadKeyAgain,
    CallToolAgain, CloseRequest
<1>4. /\ usedAt' \in [Keys -> Times \cup {NoKey}]
      /\ trusted' \subseteq Principals
  <2>1. CASE RunIfAllowed
    <3>1. CASE UNCHANGED <<usedAt, trusted>>
      BY <3>1 DEF KeysTyped
    <3>2. ASSUME NEW tool \in Tools, Allowed(request.key, tool),
                 trusted' = trusted \cup (IF tool \in PublicTools THEN {}
                                          ELSE {request.key}),
                 usedAt' = [k \in Keys |-> IF k = request.key THEN now ELSE usedAt[k]]
          PROVE  /\ usedAt' \in [Keys -> Times \cup {NoKey}]
                 /\ trusted' \subseteq Principals
      <4>1. usedAt' \in [Keys -> Times \cup {NoKey}]
        BY <1>1, <3>2 DEF KeysTyped
      <4>2. tool \notin PublicTools => request.key = Internal
        BY <3>2 DEF Allowed, Scope
      <4> QED
        BY <3>2, <4>1, <4>2 DEF KeysTyped, Principals
    <3> QED
      BY <2>1, <3>1, <3>2 DEF RunIfAllowed
  <2>2. CASE UNCHANGED <<usedAt, trusted>>
    BY <2>2 DEF KeysTyped
  <2> QED
    BY <2>1, <2>2
    DEF FindKey, Stamp, LoseRecord, RecordOfRequest, CallTool, ReadKeyAgain,
        CallToolAgain, CloseRequest
<1>5. UNCHANGED storeVars
  BY DEF FindKey, Stamp, LoseRecord, RecordOfRequest, CallTool, ReadKeyAgain,
         CallToolAgain, CloseRequest
<1>6. /\ request' \in McpRequest /\ UNCHANGED storeVars
      /\ usedAt' \in [Keys -> Times \cup {NoKey}] /\ trusted' \subseteq Principals
  BY <1>3, <1>4, <1>5
<1> QED
  BY <1>6, RequestStepTyped

\* A key is issued only for a token that was made, so that there are no more of them.

(***************************************************************************)
(* The consumer, its tokens and keys and the request of the transport keep *)
(* their types: a token that is redeemed twice or by two requests at once  *)
(* yields one key at most, so no more keys are issued than tokens can be   *)
(* mailed, for any number of tokens and keys and any lifetimes (the        *)
(* consumers API, the MCP authentication middleware).                      *)
(***************************************************************************)
THEOREM ApiKeysTypes == ApiKeysSpec => []ApiKeysTypeOK
<1>1. ApiKeysInit => KeysTyped
  <2> SUFFICES ASSUME ApiKeysInit PROVE KeysTyped
    OBVIOUS
  <2>1. Redeemed = {} /\ Unspent = 0
    BY DEF ApiKeysInit, Redeemed, Unspent
  <2>2. IsFiniteSet({}) /\ Cardinality({}) = 0
    BY FS_EmptySet
  <2>3. 0 \in Times /\ 0 \in 0..MaxTokens /\ 0 \in 0..MaxAsks
    BY ApiKeysAssumption DEF Times
  <2>4. NoRequest \in McpRequest
    BY DEF NoRequest, McpRequest
  <2> QED
    BY <2>1, <2>2, <2>3, <2>4 DEF ApiKeysInit, KeysTyped
<1>2. KeysTyped /\ [ApiKeysNext]_keyVars => KeysTyped'
  <2> SUFFICES ASSUME KeysTyped, [ApiKeysNext]_keyVars PROVE KeysTyped'
    OBVIOUS
  <2>1. CASE TickKeys
    <3>1. now + 1 \in Times
      BY <2>1, RedeemedCounted DEF TickKeys, Times
    <3>2. Redeemed' = Redeemed /\ Unspent' = Unspent
      BY <2>1 DEF TickKeys, Redeemed, Unspent
    <3>3. issued' + Cardinality(Redeemed') + Unspent' <= tokens'
      BY <2>1, <3>2 DEF TickKeys, KeysTyped
    <3> QED
      BY <2>1, <3>1, <3>3 DEF TickKeys, KeysTyped
  <2>2. CASE UNCHANGED keyVars
    BY <2>2, RequestStepTyped DEF keyVars, KeysTyped
  <2> QED
    BY <2>1, <2>2, TokensTyped, ExchangesTyped, RequestsTyped DEF ApiKeysNext
<1>3. KeysTyped => ApiKeysTypeOK
  BY RedeemedCounted DEF KeysTyped, ApiKeysTypeOK, Exchanging, McpRequest
<1> QED
  BY <1>1, <1>2, <1>3, PTL DEF ApiKeysSpec

-----------------------------------------------------------------------------
(* Memories. *)

AgentMemorySpec == AgentMemoryInit /\ [][AgentMemoryNext]_memoryVars

Memory == [user : MemoryUsers, namespace : Namespaces, there : BOOLEAN]

MemoryTurn == [at : {"idle", "tools", "asked", "write"}, ids : SUBSET MemoryIds,
               before : Seq(Namespaces), questions : Seq(MemoryIds \cup {Elsewhere}),
               answers : Seq({"approve", "reject"}), asks : 0..MaxQuestions,
               items : Seq(Namespaces)]

\* A turn that is asked has a question; if a message asks one at most, there is no
\* decision yet.
QuestionFits(t) ==
  /\ t.at = "asked" => t.asks # 0 /\ t.questions # << >>
  /\ t.asks = 0 => t.questions = << >> /\ t.answers = << >>
  /\ MaxQuestions =< 1 /\ t.at = "asked" => t.answers = << >> /\ Len(t.questions) = 1

(***************************************************************************)
(* A turn and the history speak of ids that were drawn: an id that is      *)
(* drawn later is none that a user agreed to delete.                       *)
(***************************************************************************)
MemoryInv ==
  /\ memories \in Seq(Memory) /\ Len(memories) <= MaxMemories
  /\ recall \in [MemorySessions -> MemoryTurn]
  /\ consents \subseteq DOMAIN memories /\ vouched \subseteq DOMAIN memories
  /\ \A s \in MemorySessions :
       recall[s].ids \subseteq DOMAIN memories /\ QuestionFits(recall[s])
  /\ MaxQuestions =< 1 => MemoriesAreTheirUsers

\* No memory loses its owner or its kind, none comes back, and those that are added are
\* there.
MemoriesOnlyGrow ==
  /\ memories' \in Seq(Memory) /\ Len(memories') <= MaxMemories
  /\ DOMAIN memories \subseteq DOMAIN memories'
  /\ \A id \in DOMAIN memories :
       /\ memories'[id].user = memories[id].user
       /\ memories'[id].namespace = memories[id].namespace
       /\ memories'[id].there => memories[id].there
  /\ \A id \in DOMAIN memories' \ DOMAIN memories : memories'[id].there
  /\ consents \subseteq consents' /\ consents' \subseteq DOMAIN memories
  /\ vouched' \subseteq DOMAIN memories

\* None is dropped but for a reason.
DropsAreAgreed ==
  \A id \in DOMAIN memories :
    /\ memories[id].there /\ ~memories'[id].there =>
         memories[id].namespace = "episodic" \/ id \in consents'
    /\ id \in vouched' => ~memories'[id].there

MemoriesMove == MemoriesOnlyGrow /\ (MaxQuestions =< 1 => DropsAreAgreed)

TurnsMove ==
  /\ recall' \in [MemorySessions -> MemoryTurn]
  /\ \A s \in MemorySessions :
       recall'[s].ids \subseteq recall[s].ids \cup Held(UserOf[s]) /\ QuestionFits(recall'[s])

LEMMA MemoryMoves ==
  ASSUME MemoryInv, MemoriesMove, TurnsMove
  PROVE  MemoryInv'
<1>1. ASSUME NEW s \in MemorySessions, NEW id \in recall'[s].ids
      PROVE  id \in DOMAIN memories'
  BY <1>1 DEF MemoryInv, MemoriesMove, MemoriesOnlyGrow, TurnsMove, Held
<1>2. ASSUME MaxQuestions =< 1 PROVE MemoriesAreTheirUsers'
  <2>1. ASSUME NEW id \in DOMAIN memories'
        PROVE  /\ memories'[id].there \/ memories'[id].namespace = "episodic"
                     \/ id \in consents'
               /\ id \in vouched' => ~memories'[id].there
    <3>1. CASE id \in DOMAIN memories
      BY <1>2, <3>1
      DEF MemoryInv, MemoriesMove, MemoriesOnlyGrow, DropsAreAgreed, MemoriesAreTheirUsers
    <3>2. CASE id \notin DOMAIN memories
      BY <2>1, <3>2 DEF MemoriesMove, MemoriesOnlyGrow
    <3> QED
      BY <3>1, <3>2
  <2>2. ASSUME NEW s \in MemorySessions, NEW id \in recall'[s].ids
        PROVE  memories'[id].user = UserOf[s]
    <3>1. id \in DOMAIN memories /\ memories[id].user = UserOf[s]
      BY <1>2, <2>2 DEF MemoryInv, TurnsMove, Held, MemoriesAreTheirUsers
    <3> QED
      BY <3>1 DEF MemoriesMove, MemoriesOnlyGrow
  <2> QED
    BY <2>1, <2>2 DEF MemoriesAreTheirUsers
<1> QED
  BY <1>1, <1>2 DEF MemoryInv, MemoriesMove, MemoriesOnlyGrow, TurnsMove

LEMMA StoreStays ==
  ASSUME MemoryInv, UNCHANGED <<memories, consents, vouched>>
  PROVE  MemoriesMove
BY DEF MemoryInv, MemoriesMove, MemoriesOnlyGrow, DropsAreAgreed, MemoriesAreTheirUsers

LEMMA TurnsStay ==
  ASSUME MemoryInv, UNCHANGED recall
  PROVE  TurnsMove
BY DEF MemoryInv, TurnsMove

LEMMA IsSequence ==
  ASSUME NEW S, NEW n \in Nat, NEW f \in [1..n -> S]
  PROVE  f \in Seq(S) /\ Len(f) = n /\ DOMAIN f = 1..n
<1>1. f \in Seq(S)
  OBVIOUS
<1>2. DOMAIN f = 1..n
  OBVIOUS
<1> QED
  BY <1>1, <1>2, LenProperties

LEMMA MemoriesTyped ==
  ASSUME NEW all \in Seq(Memory)
  PROVE  /\ DOMAIN all = 1..Len(all) /\ Len(all) \in Nat
         /\ \A m \in DOMAIN all : all[m] \in Memory
BY LenProperties

Added(user, ns) == [i \in DOMAIN ns |-> Stored(user, ns[i])]

Extends(all, rest, user, ns) == all = rest \o Added(user, ns)

\* What is written anew comes after what was there, and is there.
LEMMA Grows ==
  ASSUME NEW rest \in Seq(Memory), NEW user \in MemoryUsers, NEW ns \in Seq(Namespaces),
         NEW all, Extends(all, rest, user, ns)
  PROVE  /\ all \in Seq(Memory) /\ Len(all) = Len(rest) + Len(ns)
         /\ DOMAIN rest \subseteq DOMAIN all
         /\ \A id \in DOMAIN rest : all[id] = rest[id]
         /\ \A id \in DOMAIN all \ DOMAIN rest : all[id].there
<1> DEFINE new == [i \in DOMAIN ns |-> Stored(user, ns[i])]
<1>1. /\ new \in Seq(Memory) /\ Len(new) = Len(ns)
      /\ \A i \in 1..Len(new) : new[i].there
  <2>1. DOMAIN ns = 1..Len(ns) /\ Len(ns) \in Nat
    OBVIOUS
  <2>2. \A i \in DOMAIN ns : new[i] \in Memory /\ new[i].there
    BY DEF Stored, Memory
  <2>3. new \in [1..Len(ns) -> Memory]
    BY <2>1, <2>2
  <2> HIDE DEF new
  <2> QED
    BY <2>1, <2>2, <2>3, IsSequence
<1> HIDE DEF new
<1>2. all = rest \o new
  BY DEF new, Added, Extends
<1>3. /\ all \in Seq(Memory) /\ Len(all) = Len(rest) + Len(new)
      /\ \A id \in 1..Len(rest) + Len(new) :
           all[id] = IF id <= Len(rest) THEN rest[id] ELSE new[id - Len(rest)]
  <2>1. rest \in Seq(Memory) /\ new \in Seq(Memory)
    BY <1>1
  <2>2. /\ rest \o new \in Seq(Memory) /\ Len(rest \o new) = Len(rest) + Len(new)
        /\ \A id \in 1..Len(rest) + Len(new) :
             (rest \o new)[id] = IF id <= Len(rest) THEN rest[id] ELSE new[id - Len(rest)]
    BY <2>1, ConcatProperties, Zenon
  <2> QED
    BY <1>2, <2>2
<1>4. /\ DOMAIN rest = 1..Len(rest) /\ Len(rest) \in Nat /\ Len(new) \in Nat
      /\ DOMAIN all = 1..Len(rest) + Len(new)
  BY <1>1, <1>3, MemoriesTyped
<1>5. \A id \in 1..Len(rest) : all[id] = rest[id]
  BY <1>3, <1>4
<1>6. ASSUME NEW id \in DOMAIN all \ DOMAIN rest PROVE all[id].there
  <2>1. all[id] = new[id - Len(rest)] /\ id - Len(rest) \in 1..Len(new)
    BY <1>3, <1>4, <1>6
  <2> QED
    BY <1>1, <2>1
<1>7. \A id \in DOMAIN rest : id \in DOMAIN all /\ all[id] = rest[id]
  BY <1>4, <1>5
<1> QED
  BY <1>1, <1>3, <1>6, <1>7

LEMMA AputMoves ==
  ASSUME MemoryInv, NEW u \in MemoryUsers, NEW new \in Seq(Namespaces), Aput(u, new),
         UNCHANGED <<consents, vouched>>
  PROVE  MemoriesMove
<1>1. memories \in Seq(Memory)
  BY DEF MemoryInv
<1>2. Extends(memories', memories, u, new) /\ Len(memories) + Len(new) <= MaxMemories
  BY DEF Aput, Added, Extends
<1>3. /\ memories' \in Seq(Memory) /\ Len(memories') <= MaxMemories
      /\ DOMAIN memories \subseteq DOMAIN memories'
      /\ \A id \in DOMAIN memories : memories'[id] = memories[id]
      /\ \A id \in DOMAIN memories' \ DOMAIN memories : memories'[id].there
  BY <1>1, <1>2, Grows
<1> QED
  BY <1>3
  DEF MemoryInv, MemoriesMove, MemoriesOnlyGrow, DropsAreAgreed, MemoriesAreTheirUsers

\* What a deletion leaves.
LEMMA Deletes ==
  ASSUME MemoryInv, NEW user, NEW ids, NEW rest, rest = Adelete(user, ids)
  PROVE  /\ rest \in Seq(Memory) /\ Len(rest) = Len(memories)
         /\ DOMAIN rest = DOMAIN memories
         /\ \A m \in DOMAIN memories :
              /\ rest[m].user = memories[m].user
              /\ rest[m].namespace = memories[m].namespace
              /\ rest[m].there => memories[m].there
              /\ m \notin Own(user, ids) => rest[m] = memories[m]
              /\ m \in Own(user, ids) => ~rest[m].there
<1>1. DOMAIN memories = 1..Len(memories) /\ Len(memories) \in Nat
      /\ \A m \in DOMAIN memories : memories[m] \in Memory
  BY MemoriesTyped DEF MemoryInv
<1>2. DOMAIN rest = DOMAIN memories
  BY DEF Adelete
<1>3. ASSUME NEW m \in DOMAIN memories
      PROVE  /\ rest[m] \in Memory
             /\ rest[m].user = memories[m].user
             /\ rest[m].namespace = memories[m].namespace
             /\ rest[m].there => memories[m].there
             /\ m \notin Own(user, ids) => rest[m] = memories[m]
             /\ m \in Own(user, ids) => ~rest[m].there
  BY <1>1 DEF Adelete, Own, OfUser, Memory
<1>4. rest \in [1..Len(memories) -> Memory]
  BY <1>1, <1>3 DEF Adelete
<1> QED
  BY <1>1, <1>2, <1>3, <1>4, IsSequence

\* A deletion, with the consent of the one whose memories they are if a message asks one
\* question at most, whatever is stored after it.
LEMMA ForgetMoves ==
  ASSUME MemoryInv, NEW user, NEW ids, NEW rest, rest = Adelete(user, ids),
         memories' \in Seq(Memory), Len(memories') <= MaxMemories,
         DOMAIN rest \subseteq DOMAIN memories',
         \A m \in DOMAIN rest : memories'[m] = rest[m],
         \A m \in DOMAIN memories' \ DOMAIN rest : memories'[m].there,
         consents \subseteq consents', consents' \subseteq DOMAIN memories,
         MaxQuestions =< 1 => Own(user, ids) \subseteq consents',
         vouched' \in {vouched, vouched \cup Own(user, ids)}
  PROVE  MemoriesMove
<1>1. /\ DOMAIN rest = DOMAIN memories
      /\ \A m \in DOMAIN memories :
           /\ rest[m].user = memories[m].user
           /\ rest[m].namespace = memories[m].namespace
           /\ rest[m].there => memories[m].there
           /\ m \notin Own(user, ids) => rest[m] = memories[m]
           /\ m \in Own(user, ids) => ~rest[m].there
  BY Deletes
<1>2. Own(user, ids) \subseteq DOMAIN memories
  BY DEF Own
<1>3. MemoriesOnlyGrow
  BY <1>1, <1>2 DEF MemoryInv, MemoriesOnlyGrow
<1>4. ASSUME MaxQuestions =< 1, NEW m \in DOMAIN memories
      PROVE  /\ memories[m].there /\ ~memories'[m].there =>
                  memories[m].namespace = "episodic" \/ m \in consents'
             /\ m \in vouched' => ~memories'[m].there
  BY <1>1, <1>4 DEF MemoryInv, MemoriesAreTheirUsers
<1> QED
  BY <1>3, <1>4 DEF MemoriesMove, DropsAreAgreed

\* The questions of a node that runs again.
LEMMA AgainTyped ==
  ASSUME NEW S, NEW qs \in Seq(S), NEW questions \in RunAgain(qs)
  PROVE  /\ questions \in Seq(S)
         /\ Len(qs) = 1 => questions \in {qs, << >>}
<1>1. CASE questions = qs
  BY <1>1
<1>2. ASSUME NEW i \in DOMAIN qs, questions = RemoveAt(qs, i)
      PROVE  questions \in Seq(S) /\ (Len(qs) = 1 => questions = << >>)
  <2>1. i \in 1..Len(qs) /\ Len(qs) \in Nat
    OBVIOUS
  <2>2. /\ SubSeq(qs, 1, i - 1) \in Seq(S) /\ Len(SubSeq(qs, 1, i - 1)) = i - 1
        /\ SubSeq(qs, i + 1, Len(qs)) \in Seq(S)
        /\ Len(SubSeq(qs, i + 1, Len(qs))) = Len(qs) - i
    BY <2>1
  <2> DEFINE a == SubSeq(qs, 1, i - 1)
             b == SubSeq(qs, i + 1, Len(qs))
  <2>3. questions = a \o b
    BY <1>2 DEF RemoveAt
  <2> HIDE DEF a, b
  <2>4. a \in Seq(S) /\ b \in Seq(S) /\ Len(a) = i - 1 /\ Len(b) = Len(qs) - i
    BY <2>2 DEF a, b
  <2>5. questions \in Seq(S) /\ Len(questions) = Len(a) + Len(b)
    BY <2>3, <2>4, ConcatProperties, Zenon
  <2>6. Len(qs) = 1 => Len(questions) = 0
    BY <2>1, <2>4, <2>5
  <2> QED
    BY <2>5, <2>6, EmptySeq
<1> QED
  BY <1>1, <1>2 DEF RunAgain

LEMMA OneMoreAsks ==
  ASSUME NEW most \in Nat, NEW n \in 0..most, n < most
  PROVE  n + 1 \in 0..most /\ n + 1 # 0 /\ (most =< 1 => n = 0)
OBVIOUS

\* A turn whose questions are of no use any more.
LEMMA Lighter ==
  ASSUME NEW t \in MemoryTurn, t.at = "tools", QuestionFits(t)
  PROVE  /\ Unburdened(t) \in MemoryTurn /\ Unburdened(t).ids = t.ids
         /\ QuestionFits(Unburdened(t))
<1>1. CASE t.asks < MaxQuestions
  BY <1>1 DEF Unburdened
<1>2. CASE ~(t.asks < MaxQuestions)
  <2>1. Unburdened(t) = [at |-> "tools", ids |-> t.ids, before |-> << >>,
                         questions |-> << >>, answers |-> << >>, asks |-> t.asks,
                         items |-> << >>]
    BY <1>2 DEF Unburdened, NoTurn
  <2> QED
    BY <2>1 DEF MemoryTurn, QuestionFits
<1> QED
  BY <1>1, <1>2

LEMMA SessionStep ==
  ASSUME MemoryInv, NEW s \in MemorySessions,
         \/ LoadMemory(s) \/ Remember(s) \/ NextMessage(s) \/ AskUser(s)
         \/ \E decision \in {"approve", "reject"} : Decide(s, decision)
         \/ WriteOn(s) \/ EndTools(s) \/ PersistMemory(s) \/ EndMemoryTurn(s)
  PROVE  MemoryInv'
<1> USE AgentMemoryAssumption
<1>1. UserOf[s] \in MemoryUsers /\ recall[s] \in MemoryTurn
                      /\ QuestionFits(recall[s])
  BY DEF MemoryUsers, MemoryInv
<1>2. NoTurn \in MemoryTurn /\ NoTurn.ids = {} /\ QuestionFits(NoTurn)
  BY DEF NoTurn, MemoryTurn, QuestionFits
\* The ids that were drawn.
<1>0. DOMAIN memories \subseteq MemoryIds
  <2>1. DOMAIN memories = 1..Len(memories) /\ Len(memories) \in Nat
    BY MemoriesTyped DEF MemoryInv
  <2> QED
    BY <2>1 DEF MemoryInv, MemoryIds
\* A turn that is replaced.
<1>3. ASSUME NEW t \in MemoryTurn, recall' = [recall EXCEPT ![s] = t],
             t.ids \subseteq recall[s].ids \cup Held(UserOf[s]), QuestionFits(t)
      PROVE  TurnsMove
  BY <1>3 DEF MemoryInv, TurnsMove
\* One whose calls go on.
<1>4. ASSUME NEW ns \in Seq(Namespaces), recall' = [recall EXCEPT ![s].before = ns]
      PROVE  TurnsMove
  <2> DEFINE t == [recall[s] EXCEPT !.before = ns]
  <2>1. t \in MemoryTurn /\ t.ids = recall[s].ids /\ QuestionFits(t)
    BY <1>1, <1>4 DEF MemoryTurn, QuestionFits
  <2>2. recall' = [recall EXCEPT ![s] = t]
    BY <1>4
  <2> HIDE DEF t
  <2> QED
    BY <1>3, <2>1, <2>2
<1>5. CASE LoadMemory(s)
  <2>1. PICK ids \in SUBSET Held(UserOf[s]) :
          recall' = [recall EXCEPT ![s] = [NoTurn EXCEPT !.at = "tools", !.ids = ids]]
    BY <1>5 DEF LoadMemory
  <2> DEFINE t == [NoTurn EXCEPT !.at = "tools", !.ids = ids]
  <2>2. ids \subseteq MemoryIds
    BY <1>0 DEF Held
  <2>3. t \in MemoryTurn /\ t.ids = ids /\ QuestionFits(t)
    BY <1>2, <2>2 DEF NoTurn, MemoryTurn, QuestionFits
  <2> HIDE DEF t
  <2>4. TurnsMove
    BY <1>3, <2>1, <2>3 DEF t
  <2> QED
    BY <1>5, <2>4, StoreStays, MemoryMoves DEF LoadMemory
<1>6. CASE Remember(s)
  <2>1. PICK n \in Namespaces :
          Aput(UserOf[s], <<n>>) /\ recall' = [recall EXCEPT ![s].before = Append(@, n)]
    BY <1>6 DEF Remember
  <2>2. Append(recall[s].before, n) \in Seq(Namespaces)
    BY <1>1 DEF MemoryTurn
  <2>3. TurnsMove
    BY <1>1, <1>4, <1>6, <2>1, <2>2 DEF Remember
  <2>4. MemoriesMove
    <3>1. <<n>> \in Seq(Namespaces)
      OBVIOUS
    <3> QED
      BY <1>1, <1>6, <2>1, <3>1, AputMoves, Zenon DEF Remember
  <2> QED
    BY <2>3, <2>4, MemoryMoves
<1>7. CASE NextMessage(s)
  <2> DEFINE t == [NoTurn EXCEPT !.at = "tools", !.ids = recall[s].ids]
  <2>1. t \in MemoryTurn /\ t.ids = recall[s].ids /\ QuestionFits(t)
    BY <1>1, <1>2 DEF NoTurn, MemoryTurn, QuestionFits
  <2>2. recall' = [recall EXCEPT ![s] = t]
    BY <1>7 DEF NextMessage
  <2> HIDE DEF t
  <2>3. TurnsMove
    BY <1>3, <2>1, <2>2
  <2> QED
    BY <1>7, <2>3, StoreStays, MemoryMoves DEF NextMessage
<1>8. CASE AskUser(s)
  <2>1. PICK q \in DOMAIN memories \cup {Elsewhere} :
          LET questions == Append(recall[s].questions, q)
              answers == recall[s].answers IN
          IF Len(answers) < Len(questions)
          THEN /\ recall' = [recall EXCEPT ![s].at = "asked", ![s].questions = questions,
                                           ![s].asks = @ + 1]
               /\ UNCHANGED <<memories, vouched>>
          ELSE /\ recall' = [recall EXCEPT ![s].questions = questions, ![s].asks = @ + 1]
               /\ memories' = Adelete(UserOf[s], Agreed(questions, answers))
               /\ Forgets(s, Agreed(questions, answers))
    BY <1>8 DEF AskUser
  <2>2. PICK qs : qs = Append(recall[s].questions, q)
    OBVIOUS
  <2>3. /\ recall[s].questions \in Seq(MemoryIds \cup {Elsewhere})
        /\ recall[s].answers \in Seq({"approve", "reject"})
        /\ recall[s].asks \in 0..MaxQuestions /\ recall[s].asks < MaxQuestions
        /\ recall[s].at = "tools" /\ q \in MemoryIds \cup {Elsewhere}
    BY <1>0, <1>1, <1>8 DEF MemoryTurn, AskUser
  <2>4. /\ qs \in Seq(MemoryIds \cup {Elsewhere}) /\ qs # << >>
        /\ Len(qs) = Len(recall[s].questions) + 1
    BY <2>2, <2>3
  <2>5. /\ recall[s].asks + 1 \in 0..MaxQuestions /\ recall[s].asks + 1 # 0
        /\ MaxQuestions =< 1 => recall[s].answers = << >> /\ Len(qs) = 1
    <3>1. MaxQuestions \in Nat
      OBVIOUS
    <3>2. recall[s].asks + 1 \in 0..MaxQuestions /\ recall[s].asks + 1 # 0
      BY <2>3, <3>1, OneMoreAsks
    <3>3. MaxQuestions =< 1 => recall[s].asks = 0
      BY <2>3, <3>1, OneMoreAsks
    <3>4. MaxQuestions =< 1 => recall[s].answers = << >> /\ recall[s].questions = << >>
      BY <1>1, <3>3 DEF QuestionFits
    <3>5. MaxQuestions =< 1 => Len(qs) = 1
      BY <2>4, <3>4, Len(<< >>) = 0
    <3> QED
      BY <3>2, <3>4, <3>5
  <2>6. CASE Len(recall[s].answers) < Len(qs)
    <3> DEFINE t == [recall[s] EXCEPT !.at = "asked", !.questions = qs, !.asks = @ + 1]
    <3>1. t \in MemoryTurn /\ t.ids = recall[s].ids /\ QuestionFits(t)
      BY <1>1, <2>4, <2>5 DEF MemoryTurn, QuestionFits
    <3>2. recall' = [recall EXCEPT ![s] = t] /\ UNCHANGED <<memories, vouched>>
      BY <2>1, <2>2, <2>6 DEF MemoryInv
    <3> HIDE DEF t
    <3>3. TurnsMove
      BY <1>3, <3>1, <3>2
    <3> QED
      BY <1>8, <3>2, <3>3, StoreStays, MemoryMoves DEF AskUser
  <2>7. CASE ~(Len(recall[s].answers) < Len(qs))
    <3> DEFINE t == [recall[s] EXCEPT !.questions = qs, !.asks = @ + 1]
    <3>0. ~(MaxQuestions =< 1)
      <4> SUFFICES ASSUME MaxQuestions =< 1 PROVE FALSE
        OBVIOUS
      <4>1. recall[s].answers = << >> /\ Len(qs) = 1
        BY <2>5
      <4>2. Len(recall[s].answers) = 0
        BY <4>1
      <4> QED
        BY <2>7, <4>1, <4>2
    <3>1. t \in MemoryTurn /\ t.ids = recall[s].ids /\ QuestionFits(t)
      BY <1>1, <2>3, <2>4, <2>5, <3>0 DEF MemoryTurn, QuestionFits
    <3>2. recall' = [recall EXCEPT ![s] = t]
      BY <2>1, <2>2, <2>7 DEF MemoryInv
    <3> HIDE DEF t
    <3>3. TurnsMove
      BY <1>3, <3>1, <3>2
    <3>4. PICK ids : ids = Agreed(qs, recall[s].answers)
      OBVIOUS
    <3>5. /\ memories' = Adelete(UserOf[s], ids) /\ consents' = consents
          /\ vouched' = vouched \cup Own(UserOf[s], ids)
      BY <1>8, <2>1, <2>2, <2>7, <3>4 DEF AskUser, Forgets
    <3>6. memories' \in Seq(Memory) /\ Len(memories') = Len(memories)
          /\ DOMAIN memories' = DOMAIN memories
      BY <3>5, Deletes
    <3>7. MemoriesMove
      BY <3>0, <3>5, <3>6, ForgetMoves DEF MemoryInv
    <3> QED
      BY <3>3, <3>7, MemoryMoves
  <2> QED
    BY <2>6, <2>7
<1>10. ASSUME NEW d \in {"approve", "reject"}, Decide(s, d) PROVE MemoryInv'
  <2>1. PICK answers : answers = Append(recall[s].answers, d)
    OBVIOUS
  <2>2. PICK questions \in RunAgain(recall[s].questions) :
          /\ memories' = Adelete(UserOf[s], Agreed(questions, answers)) \o
                           [i \in DOMAIN recall[s].before |->
                              Stored(UserOf[s], recall[s].before[i])]
          /\ Forgets(s, Agreed(questions, answers))
          /\ recall' = [recall EXCEPT ![s] = Unburdened([recall[s] EXCEPT !.at = "tools",
                                        !.questions = questions, !.answers = answers])]
    BY <1>10, <2>1 DEF Decide, MemoryInv
  <2>3. /\ recall[s].questions \in Seq(MemoryIds \cup {Elsewhere})
        /\ recall[s].answers \in Seq({"approve", "reject"})
        /\ recall[s].before \in Seq(Namespaces)
        /\ recall[s].at = "asked" /\ recall[s].asks # 0 /\ recall[s].questions # << >>
        /\ MaxQuestions =< 1 => recall[s].answers = << >> /\ Len(recall[s].questions) = 1
    BY <1>1, <1>10 DEF MemoryTurn, QuestionFits, Decide
  <2>4. /\ questions \in Seq(MemoryIds \cup {Elsewhere})
        /\ Len(recall[s].questions) = 1 => questions \in {recall[s].questions, << >>}
    BY <2>3, AgainTyped
  <2>5. answers \in Seq({"approve", "reject"})
    BY <2>1, <2>3
  <2>6. TurnsMove
    <3> DEFINE t == [recall[s] EXCEPT !.at = "tools", !.questions = questions,
                                      !.answers = answers]
    <3>1. t \in MemoryTurn /\ t.ids = recall[s].ids /\ QuestionFits(t)
      BY <1>1, <2>3, <2>4, <2>5 DEF MemoryTurn, QuestionFits
    <3>2. recall' = [recall EXCEPT ![s] = Unburdened(t)]
      BY <2>2
    <3>3. t.at = "tools"
      BY <1>1 DEF MemoryTurn
    <3> HIDE DEF t
    <3>4. /\ Unburdened(t) \in MemoryTurn /\ Unburdened(t).ids = t.ids
          /\ QuestionFits(Unburdened(t))
      BY <3>1, <3>3, Lighter
    <3> QED
      BY <1>3, <3>1, <3>2, <3>4
  <2>7. PICK ids : ids = Agreed(questions, answers)
    OBVIOUS
  <2>8. PICK agreed : agreed = IF d = "approve" THEN {Last(recall[s].questions)} ELSE {}
    OBVIOUS
  <2>9. /\ consents' = consents \cup Own(UserOf[s], agreed)
        /\ vouched' = vouched \cup Own(UserOf[s], ids)
        /\ Len(memories) + Len(recall[s].before) <= MaxMemories
    BY <1>10, <2>2, <2>7, <2>8 DEF Decide, Forgets
  <2>10. ASSUME MaxQuestions =< 1 PROVE ids \subseteq agreed
    <3>1. Len(answers) = 1 /\ answers[1] = d
      BY <2>1, <2>3, <2>10
    <3>2. CASE questions = recall[s].questions
      <4>1. DOMAIN questions = {1} /\ Last(recall[s].questions) = questions[1]
        BY <2>3, <2>10, <3>2 DEF Last
      <4> QED
        BY <2>7, <2>8, <3>1, <4>1 DEF Agreed
    <3>3. CASE questions = << >>
      BY <2>7, <3>3 DEF Agreed
    <3> QED
      BY <2>3, <2>4, <2>10, <3>2, <3>3
  <2>11. MaxQuestions =< 1 => Own(UserOf[s], ids) \subseteq consents'
    BY <2>9, <2>10 DEF Own
  <2>12. /\ consents \subseteq consents' /\ consents' \subseteq DOMAIN memories
    BY <2>9 DEF Own, MemoryInv
  <2>13. PICK rest : rest = Adelete(UserOf[s], ids)
    OBVIOUS
  <2>14. /\ rest \in Seq(Memory) /\ Len(rest) = Len(memories)
    BY <2>13, Deletes
  <2>15. Extends(memories', rest, UserOf[s], recall[s].before)
    BY <2>2, <2>7, <2>13 DEF Extends, Added
  <2>16. /\ memories' \in Seq(Memory) /\ Len(memories') = Len(rest) + Len(recall[s].before)
         /\ DOMAIN rest \subseteq DOMAIN memories'
         /\ \A m \in DOMAIN rest : memories'[m] = rest[m]
         /\ \A m \in DOMAIN memories' \ DOMAIN rest : memories'[m].there
    BY <1>1, <2>3, <2>14, <2>15, Grows
  <2>17. Len(memories') <= MaxMemories
    BY <2>9, <2>14, <2>16
  <2>18. vouched' \in {vouched, vouched \cup Own(UserOf[s], ids)}
    BY <2>9
  <2>19. MemoriesMove
    BY <2>11, <2>12, <2>13, <2>16, <2>17, <2>18, ForgetMoves
  <2> QED
    BY <2>6, <2>19, MemoryMoves
<1>12. CASE WriteOn(s) \/ EndMemoryTurn(s)
  <2>1. TurnsMove
    BY <1>2, <1>3, <1>12 DEF WriteOn, EndMemoryTurn
  <2> QED
    BY <1>12, <2>1, StoreStays, MemoryMoves DEF WriteOn, EndMemoryTurn
<1>13. CASE EndTools(s)
  <2>1. PICK n \in 0..MaxExtracted : \E items \in [1..n -> Namespaces] :
          recall' = [recall EXCEPT ![s] = [NoTurn EXCEPT !.at = "write", !.items = items]]
    BY <1>13 DEF EndTools
  <2>2. PICK items \in Seq(Namespaces) :
          recall' = [recall EXCEPT ![s] = [NoTurn EXCEPT !.at = "write", !.items = items]]
    <3>1. n \in Nat
      OBVIOUS
    <3>2. [1..n -> Namespaces] \subseteq Seq(Namespaces)
      BY <3>1
    <3> QED
      BY <2>1, <3>2
  <2>3. TurnsMove
    <3> DEFINE t == [NoTurn EXCEPT !.at = "write", !.items = items]
    <3>1. t \in MemoryTurn /\ t.ids = {} /\ QuestionFits(t)
      BY <1>2, <2>2 DEF NoTurn, MemoryTurn, QuestionFits
    <3> HIDE DEF t
    <3> QED
      BY <1>3, <2>2, <3>1 DEF t
  <2> QED
    BY <1>13, <2>3, StoreStays, MemoryMoves DEF EndTools
<1>14. CASE PersistMemory(s)
  <2>1. recall[s].items \in Seq(Namespaces) /\ recall[s].items # << >>
    BY <1>1, <1>14 DEF PersistMemory, MemoryTurn
  <2>2. Tail(recall[s].items) \in Seq(Namespaces)
        /\ <<Head(recall[s].items)>> \in Seq(Namespaces)
    BY <2>1
  <2> DEFINE t == [recall[s] EXCEPT !.items = Tail(@)]
  <2>3. t \in MemoryTurn /\ t.ids = recall[s].ids /\ QuestionFits(t)
    BY <1>1, <2>2 DEF MemoryTurn, QuestionFits
  <2>4. TurnsMove
    <3>1. recall' = [recall EXCEPT ![s] = t]
      BY <1>14 DEF PersistMemory
    <3> HIDE DEF t
    <3> QED
      BY <1>3, <2>3, <3>1
  <2>5. MemoriesMove
    BY <1>1, <1>14, <2>2, AputMoves, Zenon DEF PersistMemory
  <2> QED
    BY <2>4, <2>5, MemoryMoves
<1> QED
  BY <1>5, <1>6, <1>7, <1>8, <1>10, <1>12, <1>13, <1>14

LEMMA OtherMemoryStep ==
  ASSUME MemoryInv, (\E user \in MemoryUsers : DeleteMemory(user)) \/ ExpireMemory
  PROVE  MemoryInv'
<1>1. TurnsMove
  BY TurnsStay DEF DeleteMemory, ExpireMemory
<1>2. ASSUME NEW user \in MemoryUsers, DeleteMemory(user) PROVE MemoriesMove
  <2>1. PICK id \in DOMAIN memories :
          /\ consents' = consents \cup Own(user, {id})
          /\ memories' = Adelete(user, {id})
          /\ vouched' \in {vouched, vouched \cup Own(user, {id})}
    BY <1>2 DEF DeleteMemory
  <2>2. /\ memories' \in Seq(Memory) /\ DOMAIN memories' = DOMAIN memories
        /\ Len(memories') = Len(memories)
    BY <2>1, Deletes
  <2>3. Own(user, {id}) \subseteq DOMAIN memories
    BY DEF Own
  <2> QED
    BY <2>1, <2>2, <2>3, ForgetMoves DEF MemoryInv
<1>3. ASSUME ExpireMemory PROVE MemoriesMove
  <2>1. PICK id \in DOMAIN memories :
          /\ memories[id].namespace = "episodic"
          /\ memories' = [memories EXCEPT ![id].there = FALSE]
          /\ UNCHANGED <<consents, vouched>>
    BY <1>3 DEF ExpireMemory
  <2>2. memories[id] \in Memory /\ id \in 1..Len(memories)
    BY MemoriesTyped DEF MemoryInv
  <2> DEFINE gone == [memories[id] EXCEPT !.there = FALSE]
  <2>3. /\ gone \in Memory /\ gone.user = memories[id].user
        /\ gone.namespace = memories[id].namespace /\ ~gone.there
    BY <2>2 DEF Memory
  <2>4. memories' = [memories EXCEPT ![id] = gone]
    BY <2>1
  <2> HIDE DEF gone
  <2>5. /\ memories' \in Seq(Memory) /\ DOMAIN memories' = DOMAIN memories
        /\ Len(memories') = Len(memories)
        /\ \A m \in DOMAIN memories :
             memories'[m] = IF m = id THEN gone ELSE memories[m]
    BY <2>2, <2>3, <2>4, ExceptSeq, MemoriesTyped DEF MemoryInv
  <2>6. ASSUME NEW m \in DOMAIN memories
        PROVE  /\ memories'[m].user = memories[m].user
               /\ memories'[m].namespace = memories[m].namespace
               /\ memories'[m].there => memories[m].there
               /\ memories[m].there /\ ~memories'[m].there =>
                    memories[m].namespace = "episodic"
               /\ MaxQuestions =< 1 /\ m \in vouched => ~memories'[m].there
    BY <2>1, <2>3, <2>5 DEF MemoryInv, MemoriesAreTheirUsers
  <2>7. /\ consents' = consents /\ vouched' = vouched
        /\ consents \subseteq DOMAIN memories /\ vouched \subseteq DOMAIN memories
    BY <2>1 DEF MemoryInv
  <2> QED
    BY <2>5, <2>6, <2>7 DEF MemoryInv, MemoriesMove, MemoriesOnlyGrow, DropsAreAgreed
<1> QED
  BY <1>1, <1>2, <1>3, MemoryMoves

LEMMA MemoryInvariance == AgentMemorySpec => []MemoryInv
<1>1. AgentMemoryInit => MemoryInv
  <2> SUFFICES ASSUME AgentMemoryInit PROVE MemoryInv
    OBVIOUS
  <2>1. NoTurn \in MemoryTurn /\ NoTurn.ids = {} /\ QuestionFits(NoTurn)
    BY AgentMemoryAssumption DEF NoTurn, MemoryTurn, QuestionFits
  <2>2. MemoriesAreTheirUsers
    BY <2>1 DEF AgentMemoryInit, MemoriesAreTheirUsers
  <2>3. memories \in Seq(Memory) /\ Len(memories) <= MaxMemories
    BY AgentMemoryAssumption DEF AgentMemoryInit
  <2> QED
    BY <2>1, <2>2, <2>3 DEF AgentMemoryInit, MemoryInv
<1>2. MemoryInv /\ [AgentMemoryNext]_memoryVars => MemoryInv'
  <2>1. MemoryInv /\ UNCHANGED memoryVars => MemoryInv'
    BY StoreStays, TurnsStay, MemoryMoves DEF memoryVars
  <2> QED
    BY <2>1, SessionStep, OtherMemoryStep DEF AgentMemoryNext
<1> QED
  BY <1>1, <1>2, PTL DEF AgentMemorySpec

(***************************************************************************)
(* While a message of the model asks one question at most, a memory that   *)
(* does not expire goes only with its own user's consent, one its user was *)
(* told is deleted stays deleted, and no turn recalls another user's       *)
(* (forget, delete_memory, the extractor): for any users and sessions, and *)
(* whatever tool nodes run again.                                          *)
(***************************************************************************)
THEOREM MemoriesStayTheirUsers ==
  ASSUME MaxQuestions =< 1
  PROVE  AgentMemorySpec => []MemoriesAreTheirUsers
<1>1. MemoryInv => MemoriesAreTheirUsers
  BY DEF MemoryInv
<1> QED
  BY <1>1, MemoryInvariance, PTL

-----------------------------------------------------------------------------
(* A turn. *)

AgentSpec == AgentInit /\ [][AgentNext]_agentVars

Message == [kind : {"human", "text", "summary"}]
             \cup [kind : {"calls"}, size : Nat]
             \cup [kind : {"answer"}, call : Nat]

Decisions == {"approve", "reject"}

TurnShape == [at : {"idle", "agent", "tools", "paused", "memory"}, calls : Seq(ToolCalls),
              next : Nat \ {0}, answers : Seq(Message), interrupts : Nat,
              decisions : Seq(Decisions)]

TurnTyped == history \in Seq(Message) /\ turn \in TurnShape

LEMMA ThreadMessages ==
  /\ Human \in Message /\ Plain \in Message /\ Summary \in Message
  /\ \A n \in Nat : Calls(n) \in Message /\ Answer(n) \in Message
  /\ \A n \in Nat : Calls(n).kind = "calls" /\ Calls(n).size = n
                    /\ Answer(n).kind = "answer"
  /\ {Human.kind, Plain.kind, Summary.kind} \cap {"calls", "answer"} = {}
BY DEF Human, Plain, Summary, Calls, Answer, Message

\* A turn with some of its parts replaced.
LEMMA TurnAt ==
  ASSUME NEW t \in TurnShape, NEW p \in {"idle", "agent", "tools", "paused", "memory"}
  PROVE  [t EXCEPT !.at = p] \in TurnShape
BY DEF TurnShape

LEMMA TurnAnswering ==
  ASSUME NEW t \in TurnShape, NEW n \in Nat \ {0}, NEW a \in Seq(Message)
  PROVE  [t EXCEPT !.next = n, !.answers = a] \in TurnShape
BY DEF TurnShape

LEMMA TurnAsking ==
  ASSUME NEW t \in TurnShape, NEW i \in Nat
  PROVE  [t EXCEPT !.interrupts = i] \in TurnShape
BY DEF TurnShape

LEMMA TurnBegins ==
  ASSUME NEW t \in TurnShape, NEW c \in Seq(ToolCalls)
  PROVE  [t EXCEPT !.at = "tools", !.calls = c] \in TurnShape
BY DEF TurnShape

LEMMA TurnAgain ==
  ASSUME NEW t \in TurnShape, NEW d \in Seq(Decisions)
  PROVE  [t EXCEPT !.at = "tools", !.next = 1, !.answers = << >>, !.interrupts = 0,
                   !.decisions = d] \in TurnShape
<1>1. << >> \in Seq(Message) /\ 1 \in Nat \ {0} /\ 0 \in Nat
  OBVIOUS
<1> QED
  BY <1>1 DEF TurnShape

LEMMA PauseTyped ==
  /\ Pause \in TurnShape
  /\ \A p \in {"agent", "memory"} : [Pause EXCEPT !.at = p] \in TurnShape
<1>1. /\ << >> \in Seq(ToolCalls) /\ << >> \in Seq(Message) /\ << >> \in Seq(Decisions)
      /\ 1 \in Nat \ {0} /\ 0 \in Nat
  OBVIOUS
<1>2. Pause \in TurnShape
  BY <1>1 DEF Pause, TurnShape
<1> QED
  BY <1>2, TurnAt

LEMMA AnsweredIs ==
  ASSUME TurnTyped
  PROVE  /\ Answered \in TurnShape
         /\ Answered.at = turn.at /\ Answered.calls = turn.calls
         /\ Answered.next = turn.next + 1
         /\ Answered.answers = Append(turn.answers, Answer(turn.next))
         /\ Answered.interrupts = turn.interrupts /\ Answered.decisions = turn.decisions
<1> DEFINE n == turn.next + 1
           a == Append(turn.answers, Answer(turn.next))
<1>1. a \in Seq(Message) /\ n \in Nat \ {0}
  BY ThreadMessages DEF TurnTyped, TurnShape
<1>2. Answered = [turn EXCEPT !.next = n, !.answers = a]
  BY DEF Answered
<1> HIDE DEF n, a
<1>3. Answered \in TurnShape
  BY <1>1, <1>2, TurnAnswering DEF TurnTyped
<1>4. /\ Answered.at = turn.at /\ Answered.calls = turn.calls
      /\ Answered.next = n /\ Answered.answers = a
      /\ Answered.interrupts = turn.interrupts /\ Answered.decisions = turn.decisions
  BY <1>2 DEF TurnTyped, TurnShape
<1> QED
  BY <1>3, <1>4 DEF n, a

LEMMA BatchTyped ==
  ASSUME NEW batch \in Batches
  PROVE  batch \in Seq(ToolCalls)
<1>1. PICK n \in 1..MaxCalls : batch \in [1..n -> ToolCalls]
  BY DEF Batches
<1>2. n \in Nat
  BY AgentAssumption
<1> QED
  BY <1>1, <1>2, IsSequence

\* Of a batch with one deletion at most.
LEMMA OneDeletion ==
  ASSUME MaxDeletes =< 1, NEW batch \in Batches,
         NEW i \in DOMAIN batch, NEW j \in DOMAIN batch,
         batch[i].tool = "delete", batch[j].tool = "delete"
  PROVE  i = j
<1> DEFINE D == {k \in DOMAIN batch : batch[k].tool = "delete"}
<1>1. Cardinality(D) =< 1
  <2>1. Cardinality(D) =< MaxDeletes
    BY DEF Batches
  <2>2. IsFiniteSet(D)
    <3>1. DOMAIN batch = 1..Len(batch) /\ Len(batch) \in Nat
      BY BatchTyped, LenProperties
    <3>2. IsFiniteSet(DOMAIN batch)
      BY <3>1, FS_Interval
    <3> QED
      BY <3>2, FS_Subset
  <2>3. Cardinality(D) \in Nat /\ MaxDeletes \in Nat
    BY <2>2, FS_CardinalityType, AgentAssumption
  <2> QED
    BY <2>1, <2>3
<1>2. IsFiniteSet(D) /\ Cardinality(D) \in Nat
  <2>1. DOMAIN batch = 1..Len(batch) /\ Len(batch) \in Nat
    BY BatchTyped, LenProperties
  <2>2. IsFiniteSet(DOMAIN batch)
    BY <2>1, FS_Interval
  <2> QED
    BY <2>2, FS_Subset, FS_CardinalityType
<1>3. Cardinality(D) = 1 => \E x : D = {x}
  BY <1>2, FS_Singleton
<1>4. i \in D /\ j \in D
  OBVIOUS
<1>5. Cardinality(D) # 0
  BY <1>2, <1>4, FS_EmptySet
<1> HIDE DEF D
<1> QED
  BY <1>1, <1>2, <1>3, <1>4, <1>5

LEMMA TurnTypeKept == TurnTyped /\ [AgentNext]_agentVars => TurnTyped'
<1> SUFFICES ASSUME TurnTyped, [AgentNext]_agentVars PROVE TurnTyped'
  OBVIOUS
<1>1. ASSUME NEW m \in Message, history' = Append(history, m)
      PROVE  history' \in Seq(Message)
  BY <1>1 DEF TurnTyped
<1>2. CASE StartTurn
  BY <1>1, <1>2, ThreadMessages, PauseTyped DEF StartTurn, TurnTyped
<1>3. CASE ModelAnswers
  BY <1>1, <1>3, ThreadMessages, PauseTyped DEF ModelAnswers, TurnTyped
<1>4. CASE ModelCalls
  <2>1. PICK batch \in Batches :
          /\ history' = Append(history, Calls(Len(batch)))
          /\ turn' = [Pause EXCEPT !.at = "tools", !.calls = batch]
    BY <1>4 DEF ModelCalls
  <2>2. batch \in Seq(ToolCalls) /\ Len(batch) \in Nat
    BY BatchTyped
  <2>3. turn' \in TurnShape
    BY <2>1, <2>2, TurnBegins, PauseTyped
  <2> QED
    BY <1>1, <2>1, <2>2, <2>3, ThreadMessages DEF TurnTyped
<1>5. CASE RefuseCall \/ RunTool \/ DeleteUnknown
  BY <1>5, AnsweredIs DEF RefuseCall, Refused, RunTool, DeleteUnknown, TurnTyped
<1>6. CASE Interrupt
  BY <1>6 DEF Interrupt, TurnTyped, TurnShape
<1>7. CASE DeleteSchedule
  <2>1. turn' = [Answered EXCEPT !.interrupts = @ + 1] /\ history' = history
    BY <1>7 DEF DeleteSchedule
  <2>2. Answered \in TurnShape /\ Answered.interrupts + 1 \in Nat
    BY AnsweredIs DEF TurnShape
  <2> QED
    BY <2>1, <2>2, TurnAsking DEF TurnTyped
<1>8. CASE ToolsEnd
  <2>1. history' = history \o turn.answers
        /\ turn' \in {[Pause EXCEPT !.at = "memory"], [Pause EXCEPT !.at = "agent"]}
    BY <1>8 DEF ToolsEnd
  <2>2. history' \in Seq(Message)
    BY <2>1 DEF TurnTyped, TurnShape
  <2> QED
    BY <2>1, <2>2, PauseTyped DEF TurnTyped
<1>9. CASE EndTurn
  <2> DEFINE last == SubSeq(history, Len(history) - KeepRecent + 1, Len(history))
  <2>1. history' \in {history, Append(last, Summary)} /\ turn' = Pause
    BY <1>9 DEF EndTurn
  <2>2. CASE history' # history
    <3>1. KeepRecent < Len(history) /\ KeepRecent \in Nat /\ Len(history) \in Nat
      BY <1>9, <2>2, AgentAssumption DEF EndTurn, TurnTyped
    <3>2. \A i \in Len(history) - KeepRecent + 1..Len(history) : history[i] \in Message
      BY <3>1 DEF TurnTyped
    <3>3. last \in Seq(Message)
      BY <3>1, <3>2, SubSeqProperties
    <3> HIDE DEF last
    <3>4. Append(last, Summary) \in Seq(Message)
      BY <3>3, ThreadMessages
    <3> QED
      BY <2>1, <2>2, <3>4, PauseTyped DEF TurnTyped
  <2> QED
    BY <2>1, <2>2, PauseTyped DEF TurnTyped
<1>10. CASE Resume
  <2>1. PICK decision \in Decisions :
          turn' = [turn EXCEPT !.at = "tools", !.next = 1, !.answers = << >>,
                               !.interrupts = 0, !.decisions = Append(@, decision)]
    BY <1>10 DEF Resume, Decisions
  <2>2. Append(turn.decisions, decision) \in Seq(Decisions)
    BY DEF TurnTyped, TurnShape
  <2> QED
    BY <1>10, <2>1, <2>2, TurnAgain DEF Resume, TurnTyped
<1>11. CASE Disconnect \/ OtherChange \/ UNCHANGED agentVars
  BY <1>11, PauseTyped DEF Disconnect, OtherChange, agentVars, TurnTyped
<1> QED
  BY <1>2, <1>3, <1>4, <1>5, <1>6, <1>7, <1>8, <1>9, <1>10, <1>11 DEF AgentNext, TurnStep

-----------------------------------------------------------------------------
(***************************************************************************)
(* With one deletion in a message at most, its decision is the one the     *)
(* user was asked for: a node that starts again asks nothing else before   *)
(* it comes to that call.                                                  *)
(***************************************************************************)
IsDeletion(i) == i \in DOMAIN turn.calls /\ turn.calls[i].tool = "delete"

ApprovalFits ==
  /\ \A i, j : IsDeletion(i) /\ IsDeletion(j) => i = j
  /\ turn.at = "paused" => IsDeletion(turn.next) /\ turn.decisions = << >>
  /\ turn.decisions = << >> => deleted = {} /\ turn.interrupts = 0
  /\ turn.decisions # << >> =>
       /\ Len(turn.decisions) = 1
       /\ turn.interrupts \in {0, 1}
       /\ \A i : IsDeletion(i) => /\ i \in DOMAIN asked /\ asked[i] = turn.decisions[1]
                                  /\ turn.interrupts = 1 => i < turn.next
  /\ \A i \in deleted : IsDeletion(i) /\ asked[i] = "approve"

ApprovalInv ==
  /\ TurnTyped
  /\ turn.at \in {"tools", "paused"} => ApprovalFits
  /\ DeletesAreApproved

LEMMA ApprovalKept ==
  ASSUME MaxDeletes =< 1, ApprovalInv, [AgentNext]_agentVars
  PROVE  ApprovalInv'
<1>1. TurnTyped'
  BY TurnTypeKept DEF ApprovalInv
<1>2. ASSUME deleted' = {}, turn'.at \notin {"tools", "paused"} PROVE ApprovalInv'
  BY <1>1, <1>2 DEF ApprovalInv, DeletesAreApproved
<1>3. ASSUME deleted' = deleted, asked' = asked, turn'.at \notin {"tools", "paused"}
      PROVE  ApprovalInv'
  BY <1>1, <1>3 DEF ApprovalInv, DeletesAreApproved
<1>4. CASE StartTurn \/ ModelAnswers \/ ToolsEnd \/ Disconnect
  <2>1. /\ deleted' = {}
        /\ turn' \in {Pause} \cup {[Pause EXCEPT !.at = p] : p \in {"agent", "memory"}}
    BY <1>4 DEF StartTurn, ModelAnswers, ToolsEnd, Disconnect
  <2>2. turn'.at \notin {"tools", "paused"}
    BY <2>1 DEF Pause
  <2> QED
    BY <1>2, <2>1, <2>2
<1>5. CASE EndTurn
  BY <1>3, <1>5 DEF EndTurn, Pause
<1>6. CASE OtherChange \/ UNCHANGED agentVars
  BY <1>1, <1>6
  DEF OtherChange, agentVars, ApprovalInv, ApprovalFits, IsDeletion, DeletesAreApproved
<1>7. CASE ModelCalls
  <2>1. PICK batch \in Batches : turn' = [Pause EXCEPT !.at = "tools", !.calls = batch]
    BY <1>7 DEF ModelCalls
  <2>2. /\ turn'.calls = batch /\ turn'.decisions = << >> /\ turn'.interrupts = 0
        /\ turn'.at = "tools" /\ deleted' = {}
    BY <1>7, <2>1 DEF ModelCalls, Pause
  <2>3. \A i, j : IsDeletion(i)' /\ IsDeletion(j)' => i = j
    BY <2>2, OneDeletion DEF IsDeletion
  <2> QED
    BY <1>1, <2>2, <2>3 DEF ApprovalInv, ApprovalFits, DeletesAreApproved
<1>8. CASE RefuseCall \/ RunTool \/ DeleteUnknown
  <2>1. /\ turn' = Answered /\ UNCHANGED <<asked, deleted>> /\ turn.at = "tools"
    BY <1>8 DEF RefuseCall, Refused, RunTool, DeleteUnknown, InTools, Asks
  <2>2. /\ turn'.at = "tools" /\ turn'.calls = turn.calls /\ turn'.next = turn.next + 1
        /\ turn'.interrupts = turn.interrupts /\ turn'.decisions = turn.decisions
    BY <2>1, AnsweredIs DEF ApprovalInv
  <2>3. \A i : IsDeletion(i)' <=> IsDeletion(i)
    BY <2>2 DEF IsDeletion
  <2>4. turn.next \in Nat /\ \A i : IsDeletion(i) => i \in Nat
    BY LenProperties DEF ApprovalInv, TurnTyped, TurnShape, IsDeletion
  <2>5. ApprovalFits'
    BY <2>1, <2>2, <2>3, <2>4 DEF ApprovalInv, ApprovalFits
  <2> QED
    BY <1>1, <2>1, <2>5 DEF ApprovalInv, DeletesAreApproved
<1>9. CASE Interrupt
  <2>1. /\ turn' = [turn EXCEPT !.at = "paused"] /\ UNCHANGED <<asked, deleted>>
        /\ IsDeletion(turn.next) /\ turn.at = "tools"
        /\ turn.interrupts = Len(turn.decisions)
    BY <1>9
    DEF Interrupt, Asks, InTools, Call, IsDeletion, ApprovalInv, TurnTyped, TurnShape
  <2>2. turn.decisions = << >>
    <3>1. turn.next \in Nat
      BY DEF ApprovalInv, TurnTyped, TurnShape
    <3>2. turn.decisions # << >> => turn.interrupts = 1 /\ turn.next < turn.next
      BY <2>1 DEF ApprovalInv, ApprovalFits
    <3> QED
      BY <3>1, <3>2
  <2>3. /\ turn'.at = "paused" /\ turn'.calls = turn.calls /\ turn'.next = turn.next
        /\ turn'.interrupts = turn.interrupts /\ turn'.decisions = turn.decisions
    BY <2>1 DEF ApprovalInv, TurnTyped, TurnShape
  <2>4. \A i : IsDeletion(i)' <=> IsDeletion(i)
    BY <2>3 DEF IsDeletion
  <2>5. ApprovalFits'
    BY <2>1, <2>2, <2>3, <2>4 DEF ApprovalInv, ApprovalFits
  <2> QED
    BY <1>1, <2>1, <2>5 DEF ApprovalInv, DeletesAreApproved
<1>10. CASE DeleteSchedule
  <2>1. /\ turn' = [Answered EXCEPT !.interrupts = @ + 1] /\ asked' = asked
        /\ IsDeletion(turn.next) /\ turn.at = "tools"
        /\ turn.interrupts < Len(turn.decisions)
        /\ IF turn.decisions[turn.interrupts + 1] = "approve"
           THEN deleted' = deleted \cup {turn.next} ELSE deleted' = deleted
    BY <1>10 DEF DeleteSchedule, Approved, Asks, InTools, Call, IsDeletion, ApprovalInv,
                 TurnTyped, TurnShape
  <2>2. /\ turn'.at = "tools" /\ turn'.calls = turn.calls /\ turn'.next = turn.next + 1
        /\ turn'.interrupts = turn.interrupts + 1 /\ turn'.decisions = turn.decisions
    BY <2>1, AnsweredIs DEF ApprovalInv, TurnShape
  <2>3. turn.next \in Nat /\ turn.interrupts \in Nat /\ Len(turn.decisions) \in Nat
        /\ turn.decisions \in Seq(Decisions)
    BY DEF ApprovalInv, TurnTyped, TurnShape
  <2>4. turn.decisions # << >> /\ Len(turn.decisions) = 1 /\ turn.interrupts = 0
    BY <2>1, <2>3 DEF ApprovalInv, ApprovalFits
  <2>5. \A i : IsDeletion(i)' <=> IsDeletion(i)
    BY <2>2 DEF IsDeletion
  <2>6. \A i : IsDeletion(i) => i = turn.next
    BY <2>1 DEF ApprovalInv, ApprovalFits
  <2>7. ApprovalFits'
    BY <2>1, <2>2, <2>3, <2>4, <2>5, <2>6 DEF ApprovalInv, ApprovalFits
  <2>8. \A i \in deleted' : i \in DOMAIN asked
    BY <2>1, <2>4 DEF ApprovalInv, ApprovalFits
  <2> QED
    BY <1>1, <2>1, <2>2, <2>7, <2>8 DEF ApprovalInv, ApprovalFits, DeletesAreApproved
<1>11. CASE Resume
  <2>1. PICK decision \in Decisions :
          /\ asked' = [i \in DOMAIN asked \cup {turn.next} |->
                         IF i = turn.next THEN decision ELSE asked[i]]
          /\ turn' = [turn EXCEPT !.at = "tools", !.next = 1, !.answers = << >>,
                                  !.interrupts = 0, !.decisions = Append(@, decision)]
    BY <1>11 DEF Resume, Decisions
  <2>2. turn.at = "paused" /\ deleted' = deleted
    BY <1>11 DEF Resume
  <2>3. IsDeletion(turn.next) /\ turn.decisions = << >> /\ deleted = {}
    BY <2>2 DEF ApprovalInv, ApprovalFits
  <2>4. /\ turn'.at = "tools" /\ turn'.calls = turn.calls /\ turn'.interrupts = 0
        /\ turn'.decisions = Append(turn.decisions, decision)
    BY <2>1 DEF ApprovalInv, TurnTyped, TurnShape
  <2>5. turn'.decisions = <<decision>>
    BY <2>3, <2>4
  <2>6. turn'.decisions # << >> /\ Len(turn'.decisions) = 1 /\ turn'.decisions[1] = decision
    BY <2>5
  <2>7. \A i : IsDeletion(i)' <=> IsDeletion(i)
    BY <2>4 DEF IsDeletion
  <2>8. \A i : IsDeletion(i) => i = turn.next
    BY <2>2, <2>3 DEF ApprovalInv, ApprovalFits
  <2>9. ApprovalFits'
    BY <2>1, <2>2, <2>3, <2>4, <2>6, <2>7, <2>8 DEF ApprovalFits
  <2> QED
    BY <1>1, <2>2, <2>3, <2>9 DEF ApprovalInv, DeletesAreApproved
<1> QED
  BY <1>4, <1>5, <1>6, <1>7, <1>8, <1>9, <1>10, <1>11 DEF AgentNext, TurnStep

LEMMA TurnBegun == AgentInit => TurnTyped
BY PauseTyped DEF AgentInit, TurnTyped

(***************************************************************************)
(* A tool call deletes a schedule only if the user, asked about that call, *)
(* approved (delete_schedule), however often the node is interrupted and   *)
(* run again and whatever happens to the schedules meanwhile, if a message *)
(* of the model holds one deletion at most (the run agent_approval shows   *)
(* what happens with two).                                                 *)
(***************************************************************************)
THEOREM DeletesApproved ==
  ASSUME MaxDeletes =< 1
  PROVE  AgentSpec => []DeletesAreApproved
<1>1. AgentInit => ApprovalInv
  BY TurnBegun DEF AgentInit, Pause, ApprovalInv, DeletesAreApproved
<1>2. ApprovalInv /\ [AgentNext]_agentVars => ApprovalInv'
  BY ApprovalKept
<1>3. ApprovalInv => DeletesAreApproved
  BY DEF ApprovalInv
<1> QED
  BY <1>1, <1>2, <1>3, PTL DEF AgentSpec
-----------------------------------------------------------------------------
(***************************************************************************)
(* The thread: outside the tools every call has its answers, and while     *)
(* they run only the last message has not.                                 *)
(***************************************************************************)
CallAnswered(h, i) ==
  /\ \A k \in 1..h[i].size : i + k \in DOMAIN h /\ h[i + k] = Answer(k)
  /\ i + h[i].size + 1 \in DOMAIN h => h[i + h[i].size + 1].kind # "answer"

Settled(h) == \A i \in DOMAIN h : h[i].kind = "calls" => CallAnswered(h, i)

OpenFor(h, n) ==
  /\ Len(h) # 0 /\ h[Len(h)] = Calls(n)
  /\ \A i \in 1..(Len(h) - 1) : h[i].kind = "calls" => CallAnswered(h, i)

AnswersFit ==
  /\ OpenFor(history, Len(turn.calls))
  /\ turn.next <= Len(turn.calls) + 1 /\ Len(turn.answers) = turn.next - 1
  /\ \A k \in 1..Len(turn.answers) : turn.answers[k] = Answer(k)

ThreadInv ==
  /\ TurnTyped
  /\ turn.at \in {"idle", "agent", "memory"} => Settled(history)
  /\ turn.at \in {"tools", "paused"} => AnswersFit

LEMMA CallTyped ==
  ASSUME NEW m \in Message, m.kind = "calls"
  PROVE  m.size \in Nat
BY DEF Message

\* A longer thread, whose next message answers nothing.
LEMMA StaysAnswered ==
  ASSUME NEW h \in Seq(Message), NEW g \in Seq(Message), Len(h) <= Len(g),
         \A i \in 1..Len(h) : g[i] = h[i],
         NEW j \in 1..Len(h), h[j].kind = "calls", CallAnswered(h, j),
         j + h[j].size + 1 = Len(h) + 1 /\ Len(h) < Len(g) =>
           g[Len(h) + 1].kind # "answer"
  PROVE  CallAnswered(g, j)
<1>1. DOMAIN h = 1..Len(h) /\ DOMAIN g = 1..Len(g) /\ Len(h) \in Nat /\ Len(g) \in Nat
  BY LenProperties
<1>2. h[j].size \in Nat /\ g[j] = h[j]
  BY <1>1, CallTyped
<1>3. ASSUME NEW k \in 1..h[j].size
      PROVE  j + k \in DOMAIN g /\ g[j + k] = Answer(k)
  BY <1>1, <1>2 DEF CallAnswered
<1>4. j + h[j].size <= Len(h)
  <2>1. CASE h[j].size = 0
    BY <1>1, <2>1
  <2>2. CASE h[j].size # 0
    BY <1>1, <1>2, <2>2 DEF CallAnswered
  <2> QED
    BY <2>1, <2>2
<1>5. ASSUME j + h[j].size + 1 \in DOMAIN g
      PROVE  g[j + h[j].size + 1].kind # "answer"
  <2>1. CASE j + h[j].size = Len(h)
    <3>1. j + h[j].size + 1 = Len(h) + 1 /\ Len(h) < Len(g)
      BY <1>1, <1>2, <1>5, <2>1
    <3> QED
      BY <3>1
  <2>2. CASE j + h[j].size # Len(h)
    <3>1. j + h[j].size + 1 \in DOMAIN h
      BY <1>1, <1>2, <1>4, <2>2
    <3> QED
      BY <1>1, <3>1 DEF CallAnswered
  <2> QED
    BY <2>1, <2>2
<1> QED
  BY <1>2, <1>3, <1>5 DEF CallAnswered

LEMMA AppendSettled ==
  ASSUME NEW h \in Seq(Message), NEW m \in Message, Settled(h),
         m.kind \notin {"calls", "answer"}
  PROVE  Settled(Append(h, m))
<1> DEFINE g == Append(h, m)
<1>1. /\ g \in Seq(Message) /\ Len(g) = Len(h) + 1 /\ Len(h) \in Nat
      /\ DOMAIN g = 1..Len(h) + 1 /\ DOMAIN h = 1..Len(h)
      /\ g[Len(h) + 1] = m /\ \A i \in 1..Len(h) : g[i] = h[i]
  BY AppendProperties, LenProperties
<1> HIDE DEF g
<1>2. ASSUME NEW i \in DOMAIN g, g[i].kind = "calls" PROVE CallAnswered(g, i)
  <2>1. i \in 1..Len(h) /\ h[i].kind = "calls"
    BY <1>1, <1>2
  <2>2. CallAnswered(h, i)
    BY <1>1, <2>1 DEF Settled
  <2> QED
    BY <1>1, <2>1, <2>2, StaysAnswered
<1>3. Settled(g)
  BY <1>2 DEF Settled
<1> QED
  BY <1>3 DEF g

LEMMA CallsOpen ==
  ASSUME NEW h \in Seq(Message), NEW n \in Nat, Settled(h)
  PROVE  OpenFor(Append(h, Calls(n)), n)
<1> DEFINE g == Append(h, Calls(n))
<1>1. /\ g \in Seq(Message) /\ Len(g) = Len(h) + 1 /\ Len(h) \in Nat
      /\ DOMAIN h = 1..Len(h)
      /\ g[Len(h) + 1] = Calls(n) /\ \A i \in 1..Len(h) : g[i] = h[i]
  BY AppendProperties, LenProperties, ThreadMessages
<1> HIDE DEF g
<1>2. ASSUME NEW i \in 1..(Len(g) - 1), g[i].kind = "calls" PROVE CallAnswered(g, i)
  <2>1. i \in 1..Len(h) /\ h[i].kind = "calls"
    BY <1>1, <1>2
  <2>2. CallAnswered(h, i)
    BY <1>1, <2>1 DEF Settled
  <2>3. g[Len(h) + 1].kind # "answer"
    BY <1>1, ThreadMessages
  <2> QED
    BY <1>1, <2>1, <2>2, <2>3, StaysAnswered
<1>3. OpenFor(g, n)
  BY <1>1, <1>2 DEF OpenFor
<1> QED
  BY <1>3 DEF g

AnswersTo(a, n) == Len(a) = n /\ \A k \in 1..n : a[k] = Answer(k)

LEMMA AnswersSettle ==
  ASSUME NEW h \in Seq(Message), NEW n \in Nat, OpenFor(h, n),
         NEW a \in Seq(Message), AnswersTo(a, n)
  PROVE  Settled(h \o a)
<1> DEFINE g == h \o a
<1>1. /\ g \in Seq(Message) /\ Len(h) \in Nat /\ Len(h) # 0
      /\ Len(g) = Len(h) + n /\ DOMAIN g = 1..Len(h) + n /\ DOMAIN h = 1..Len(h)
      /\ \A i \in 1..Len(h) : g[i] = h[i]
      /\ \A k \in 1..n : g[Len(h) + k] = Answer(k)
  <2>1. /\ g \in Seq(Message) /\ Len(g) = Len(h) + Len(a)
        /\ \A i \in 1..Len(h) + Len(a) :
             g[i] = IF i <= Len(h) THEN h[i] ELSE a[i - Len(h)]
    BY ConcatProperties, Zenon
  <2>2. Len(a) = n /\ \A k \in 1..n : a[k] = Answer(k)
    BY DEF AnswersTo
  <2> HIDE DEF g
  <2>3. Len(h) \in Nat /\ Len(h) # 0 /\ DOMAIN h = 1..Len(h) /\ DOMAIN g = 1..Len(g)
    BY <2>1, LenProperties DEF OpenFor
  <2>4. \A i \in 1..Len(h) : g[i] = h[i]
    BY <2>1, <2>2, <2>3
  <2>5. ASSUME NEW k \in 1..n PROVE g[Len(h) + k] = Answer(k)
    BY <2>1, <2>2, <2>3
  <2> QED
    BY <2>1, <2>2, <2>3, <2>4, <2>5
<1> HIDE DEF g
<1>2. g[Len(h)] = Calls(n) /\ h[Len(h)] = Calls(n)
  BY <1>1 DEF OpenFor
<1>3. CallAnswered(g, Len(h))
  <2>1. g[Len(h)].size = n
    BY <1>2, ThreadMessages
  <2>2. /\ \A k \in 1..n : Len(h) + k \in DOMAIN g
        /\ Len(h) + n + 1 \notin DOMAIN g
    BY <1>1
  <2> QED
    BY <1>1, <2>1, <2>2 DEF CallAnswered
<1>4. ASSUME NEW i \in DOMAIN g, g[i].kind = "calls" PROVE CallAnswered(g, i)
  <2>1. CASE i \in 1..(Len(h) - 1)
    <3>1. i \in 1..Len(h) /\ h[i].kind = "calls" /\ CallAnswered(h, i)
      BY <1>1, <1>4, <2>1 DEF OpenFor
    <3>2. h[i].size \in Nat
      BY <1>1, <3>1, CallTyped
    <3>3. i + h[i].size + 1 # Len(h) + 1
      <4>1. CASE h[i].size = 0
        BY <1>1, <2>1, <4>1
      <4>2. CASE h[i].size # 0
        <5>1. PICK z \in Nat : z = h[i].size
          BY <3>2
        <5>2. \A k \in 1..z : h[i + k] = Answer(k)
          BY <3>1, <5>1, Zenon DEF CallAnswered
        <5>3. z \in 1..z
          BY <4>2, <5>1
        <5>4. h[i + z] = Answer(z)
          BY <5>2, <5>3, Zenon
        <5>5. i + z # Len(h)
          <6>1. ASSUME i + z = Len(h) PROVE Answer(z) = Calls(n)
            BY <1>2, <5>4, <6>1, Zenon
          <6>2. Answer(z) # Calls(n)
            BY ThreadMessages
          <6> QED
            BY <6>1, <6>2, Zenon
        <5> QED
          BY <1>1, <2>1, <5>1, <5>5
      <4> QED
        BY <4>1, <4>2
    <3>4. Len(h) <= Len(g)
      BY <1>1
    <3> QED
      BY <1>1, <3>1, <3>3, <3>4, StaysAnswered
  <2>2. CASE i = Len(h)
    BY <1>3, <2>2
  <2>3. CASE i \in Len(h) + 1..Len(h) + n
    <3>1. i - Len(h) \in 1..n /\ i = Len(h) + (i - Len(h))
      BY <1>1, <2>3
    <3>2. g[i] = Answer(i - Len(h))
      BY <1>1, <3>1
    <3> QED
      BY <1>4, <3>1, <3>2, ThreadMessages
  <2> QED
    BY <1>1, <2>1, <2>2, <2>3
<1>5. Settled(g)
  BY <1>4 DEF Settled
<1> QED
  BY <1>5 DEF g

LEMMA SuffixSettled ==
  ASSUME NEW h \in Seq(Message), Settled(h), NEW n \in Nat, n < Len(h)
  PROVE  /\ SubSeq(h, Len(h) - n + 1, Len(h)) \in Seq(Message)
         /\ Settled(SubSeq(h, Len(h) - n + 1, Len(h)))
<1> DEFINE g == SubSeq(h, Len(h) - n + 1, Len(h))
<1>1. Len(h) \in Nat /\ DOMAIN h = 1..Len(h) /\ \A i \in 1..Len(h) : h[i] \in Message
  BY LenProperties
<1>2. /\ g \in Seq(Message) /\ Len(g) = n /\ DOMAIN g = 1..n
      /\ \A i \in 1..n : g[i] = h[Len(h) - n + i]
  <2>1. /\ g \in Seq(Message)
        /\ Len(g) = IF Len(h) - n + 1 <= Len(h) THEN Len(h) - (Len(h) - n + 1) + 1 ELSE 0
        /\ \A i \in 1..Len(h) - (Len(h) - n + 1) + 1 : g[i] = h[Len(h) - n + 1 + i - 1]
    BY <1>1, SubSeqProperties
  <2> HIDE DEF g
  <2> QED
    BY <1>1, <2>1, LenProperties
<1> HIDE DEF g
<1>3. ASSUME NEW i \in DOMAIN g, g[i].kind = "calls" PROVE CallAnswered(g, i)
  <2> DEFINE j == Len(h) - n + i
  <2>1. j \in DOMAIN h /\ h[j] = g[i] /\ CallAnswered(h, j) /\ g[i].size \in Nat
    BY <1>1, <1>2, <1>3, CallTyped DEF Settled
  <2>2. ASSUME NEW k \in 1..g[i].size PROVE i + k \in DOMAIN g /\ g[i + k] = Answer(k)
    <3>1. j + k \in DOMAIN h /\ h[j + k] = Answer(k)
      BY <2>1 DEF CallAnswered
    <3>2. i + k \in 1..n /\ j + k = Len(h) - n + (i + k)
      <4>1. k \in Nat /\ i \in 1..n
        BY <1>2, <2>1
      <4>2. j + k \in 1..Len(h)
        BY <1>1, <3>1
      <4> QED
        BY <1>1, <4>1, <4>2
    <3> HIDE DEF j
    <3> QED
      BY <1>2, <3>1, <3>2
  <2>3. ASSUME i + g[i].size + 1 \in DOMAIN g PROVE g[i + g[i].size + 1].kind # "answer"
    <3>1. PICK z \in Nat : z = g[i].size
      BY <2>1
    <3>2. i \in 1..n /\ i + z + 1 \in 1..n
      BY <1>2, <2>3, <3>1
    <3>3. j + z + 1 = Len(h) - n + (i + z + 1) /\ j + z + 1 \in DOMAIN h
      BY <1>1, <3>2
    <3>4. h[j + z + 1].kind # "answer"
      BY <2>1, <3>1, <3>3 DEF CallAnswered
    <3>5. g[i + z + 1] = h[j + z + 1]
      BY <1>2, <3>2, <3>3
    <3> QED
      BY <3>1, <3>4, <3>5
  <2> QED
    BY <2>2, <2>3 DEF CallAnswered
<1>4. Settled(g)
  BY <1>3 DEF Settled
<1> QED
  BY <1>2, <1>4 DEF g

LEMMA AnswersGo ==
  ASSUME ThreadInv, InTools, turn' \in TurnShape, history' = history,
         turn'.at = "tools", turn'.calls = turn.calls, turn'.next = turn.next + 1,
         turn'.answers = Append(turn.answers, Answer(turn.next))
  PROVE  ThreadInv'
<1>1. /\ turn.next \in Nat /\ turn.answers \in Seq(Message) /\ AnswersFit
      /\ Len(turn.answers) \in Nat /\ Len(turn.calls) \in Nat
      /\ turn.next <= Len(turn.calls)
  BY LenProperties DEF ThreadInv, TurnTyped, TurnShape, InTools
<1> DEFINE a == turn'.answers
<1>2. Len(a) = turn.next /\ \A k \in 1..Len(a) : a[k] = Answer(k)
  <2>1. Len(a) = Len(turn.answers) + 1 /\ a[Len(turn.answers) + 1] = Answer(turn.next)
        /\ \A k \in 1..Len(turn.answers) : a[k] = turn.answers[k]
    BY <1>1, AppendProperties, ThreadMessages
  <2>2. Len(turn.answers) = turn.next - 1
        /\ \A k \in 1..Len(turn.answers) : turn.answers[k] = Answer(k)
    BY <1>1 DEF AnswersFit
  <2> HIDE DEF a
  <2>3. Len(a) = turn.next
    BY <1>1, <2>1, <2>2
  <2>4. ASSUME NEW k \in 1..Len(a) PROVE a[k] = Answer(k)
    <3>1. Len(turn.answers) + 1 = turn.next
      BY <1>1, <2>2
    <3>2. a[turn.next] = Answer(turn.next)
      BY <2>1, <3>1
    <3>3. k \in 1..Len(turn.answers) \/ k = turn.next
      BY <1>1, <2>2, <2>3
    <3> QED
      BY <2>1, <2>2, <3>2, <3>3
  <2> QED
    BY <2>3, <2>4
<1>3. AnswersFit'
  BY <1>1, <1>2 DEF AnswersFit
<1> QED
  BY <1>3 DEF ThreadInv, TurnTyped

LEMMA ThreadKept ==
  ASSUME AnswersFirst, AwaitsTools, ThreadInv, [AgentNext]_agentVars
  PROVE  ThreadInv'
<1>1. TurnTyped' /\ TurnTyped
  BY TurnTypeKept DEF ThreadInv
<1>2. ASSUME Settled(history'), turn'.at \in {"idle", "agent", "memory"} PROVE ThreadInv'
  BY <1>1, <1>2 DEF ThreadInv
<1>3. Pause.at = "idle" /\ \A p \in {"agent", "memory"} : [Pause EXCEPT !.at = p].at = p
  BY DEF Pause
<1>4. CASE StartTurn \/ ModelAnswers
  <2>1. /\ Settled(history)
        /\ history' \in {history, Append(history, Human), Append(history, Plain)}
        /\ turn' \in {Pause} \cup {[Pause EXCEPT !.at = p] : p \in {"agent", "memory"}}
    BY <1>4 DEF StartTurn, ModelAnswers, ThreadInv
  <2>2. Settled(history')
    BY <1>1, <2>1, AppendSettled, ThreadMessages DEF TurnTyped
  <2> QED
    BY <1>2, <1>3, <2>1, <2>2
<1>5. CASE Disconnect
  BY <1>2, <1>3, <1>5 DEF Disconnect, ThreadInv
<1>6. CASE ModelCalls
  <2>1. PICK batch \in Batches :
          /\ history' = Append(history, Calls(Len(batch)))
          /\ turn' = [Pause EXCEPT !.at = "tools", !.calls = batch]
    BY <1>6 DEF ModelCalls
  <2>2. Len(batch) \in Nat /\ Settled(history)
    BY <1>6, BatchTyped, LenProperties DEF ModelCalls, ThreadInv
  <2>3. OpenFor(history', Len(batch))
    BY <1>1, <2>1, <2>2, CallsOpen DEF TurnTyped
  <2>4. /\ turn'.at = "tools" /\ turn'.calls = batch /\ turn'.next = 1
        /\ turn'.answers = << >>
    BY <2>1 DEF Pause
  <2> QED
    BY <1>1, <2>2, <2>3, <2>4 DEF ThreadInv, AnswersFit
<1>7. CASE RefuseCall \/ RunTool \/ DeleteUnknown
  <2>1. turn' = Answered /\ history' = history /\ InTools
    BY <1>7 DEF RefuseCall, Refused, RunTool, DeleteUnknown, Asks
  <2> QED
    BY <1>1, <2>1, AnsweredIs, AnswersGo DEF InTools
<1>8. CASE Interrupt
  <2>1. turn' = [turn EXCEPT !.at = "paused"] /\ history' = history /\ turn.at = "tools"
    BY <1>8 DEF Interrupt, Asks, InTools
  <2>2. turn'.at = "paused" /\ turn'.calls = turn.calls /\ turn'.next = turn.next
        /\ turn'.answers = turn.answers
    BY <1>1, <2>1 DEF TurnTyped, TurnShape
  <2> QED
    BY <1>1, <2>1, <2>2 DEF ThreadInv, AnswersFit
<1>9. CASE DeleteSchedule
  <2>1. turn' = [Answered EXCEPT !.interrupts = @ + 1] /\ history' = history /\ InTools
    BY <1>9 DEF DeleteSchedule, Asks
  <2>2. /\ turn'.at = turn.at /\ turn'.calls = turn.calls /\ turn'.next = turn.next + 1
        /\ turn'.answers = Append(turn.answers, Answer(turn.next))
    BY <1>1, <2>1, AnsweredIs DEF TurnShape
  <2> QED
    BY <1>1, <2>1, <2>2, AnswersGo DEF InTools, TurnTyped
<1>10. CASE Resume
  <2>1. /\ turn'.at = "tools" /\ turn'.calls = turn.calls /\ turn'.next = 1
        /\ turn'.answers = << >> /\ history' = history /\ turn.at = "paused"
    BY <1>1, <1>10 DEF Resume, TurnTyped, TurnShape
  <2>2. Len(turn.calls) \in Nat
    BY <1>1 DEF TurnTyped, TurnShape
  <2> QED
    BY <1>1, <2>1, <2>2 DEF ThreadInv, AnswersFit
<1>11. CASE ToolsEnd
  <2>1. history' = history \o turn.answers
        /\ turn' \in {[Pause EXCEPT !.at = p] : p \in {"agent", "memory"}}
    BY <1>11 DEF ToolsEnd
  <2>2. /\ AnswersFit /\ Len(turn.calls) \in Nat /\ turn.next \in Nat
        /\ Len(turn.calls) < turn.next
    BY <1>1, <1>11 DEF ToolsEnd, ThreadInv, TurnTyped, TurnShape
  <2>3. OpenFor(history, Len(turn.calls)) /\ AnswersTo(turn.answers, Len(turn.calls))
    BY <2>2 DEF AnswersFit, AnswersTo
  <2>4. Settled(history')
    BY <1>1, <2>1, <2>2, <2>3, AnswersSettle, Zenon DEF TurnTyped, TurnShape
  <2> QED
    BY <1>2, <1>3, <2>1, <2>4
<1>12. CASE EndTurn
  <2> DEFINE last == SubSeq(history, Len(history) - KeepRecent + 1, Len(history))
  <2>1. /\ Settled(history) /\ turn' = Pause
        /\ \/ history' = history
           \/ KeepRecent < Len(history) /\ history' = Append(last, Summary)
    BY <1>12 DEF EndTurn, ThreadInv
  <2>2. CASE history' = Append(last, Summary) /\ KeepRecent < Len(history)
    <3>1. last \in Seq(Message) /\ Settled(last)
      BY <1>1, <2>1, <2>2, SuffixSettled, AgentAssumption DEF TurnTyped
    <3>2. history' = Append(last, Summary)
      BY <2>2
    <3> HIDE DEF last
    <3>3. Settled(history')
      BY <3>1, <3>2, AppendSettled, ThreadMessages
    <3> QED
      BY <1>2, <1>3, <2>1, <3>3
  <2> QED
    BY <1>2, <1>3, <2>1, <2>2
<1>13. CASE OtherChange \/ UNCHANGED agentVars
  BY <1>1, <1>13 DEF OtherChange, agentVars, ThreadInv, AnswersFit
<1> QED
  BY <1>4, <1>5, <1>6, <1>7, <1>8, <1>9, <1>10, <1>11, <1>12, <1>13 DEF AgentNext, TurnStep

(***************************************************************************)
(* When the model is called every tool call in the thread has exactly one  *)
(* answer, in order, over budget or not, resumed or not, summarised or     *)
(* not, if the user answers before writing on and stays connected while    *)
(* tools run: for any batches, budgets, thresholds and lengths.            *)
(***************************************************************************)
THEOREM CallsAnswered == AgentSpec => []EveryCallIsAnswered
<1>1. CASE AnswersFirst /\ AwaitsTools
  <2>1. AgentInit => ThreadInv
    BY TurnBegun DEF AgentInit, Pause, ThreadInv, Settled
  <2>2. ThreadInv /\ [AgentNext]_agentVars => ThreadInv'
    BY <1>1, ThreadKept
  <2>3. ThreadInv => EveryCallIsAnswered
    BY DEF ThreadInv, Settled, CallAnswered, EveryCallIsAnswered
  <2> QED
    BY <2>1, <2>2, <2>3, PTL DEF AgentSpec
<1>2. CASE ~(AnswersFirst /\ AwaitsTools)
  <2>1. EveryCallIsAnswered
    BY <1>2 DEF EveryCallIsAnswered
  <2> QED
    BY <2>1, PTL
<1> QED
  BY <1>1, <1>2

(***************************************************************************)
(* The memories and the turns that recall, add and delete them have their  *)
(* types, and no more memories are drawn than the bound allows, for any    *)
(* users, sessions, namespaces and memories, however many questions a      *)
(* message asks, and whatever tool nodes run again (memory tools, the      *)
(* extractor).                                                             *)
(***************************************************************************)
THEOREM MemoryTypes == AgentMemorySpec => []AgentMemoryTypeOK
<1>1. MemoryInv => AgentMemoryTypeOK
  <2> SUFFICES ASSUME MemoryInv PROVE AgentMemoryTypeOK
    OBVIOUS
  <2>1. DOMAIN memories \subseteq MemoryIds
    <3>1. DOMAIN memories = 1..Len(memories) /\ Len(memories) \in Nat
      BY MemoriesTyped DEF MemoryInv
    <3> QED
      BY <3>1, AgentMemoryAssumption DEF MemoryInv, MemoryIds
  <2>2. memories \in Seq([user : MemoryUsers, namespace : Namespaces, there : BOOLEAN])
    BY DEF MemoryInv, Memory
  <2> QED
    BY <2>1, <2>2 DEF MemoryInv, MemoryTurn, AgentMemoryTypeOK
<1> QED
  BY <1>1, MemoryInvariance, PTL

-----------------------------------------------------------------------------
(* Turns, with their bounds. *)

DeletionsBefore(calls, n) == {i \in DOMAIN calls : i < n /\ calls[i].tool = "delete"}

\* The node asks at most as often as it has passed a deletion.
TurnBounded ==
  /\ schedules \subseteq Schedules
  /\ turn.calls \in Batches \cup {<< >>} /\ turn.next <= Len(turn.calls) + 1
  /\ turn.at = "paused" => turn.next \in DOMAIN turn.calls
  /\ turn.at = "memory" => turn.calls = << >>
  /\ turn.interrupts <= Cardinality(DeletionsBefore(turn.calls, turn.next))
  /\ used \in 0..MaxToolCalls
  /\ DOMAIN asked \subseteq DOMAIN turn.calls /\ deleted \subseteq DOMAIN turn.calls

LEMMA DeletionsCounted ==
  ASSUME NEW c \in Batches \cup {<< >>}, NEW n \in Nat
  PROVE  /\ Cardinality(DeletionsBefore(c, n)) \in 0..MaxDeletes
         /\ Cardinality(DeletionsBefore(c, n)) <= Cardinality(DeletionsBefore(c, n + 1))
         /\ n \in DOMAIN c /\ c[n].tool = "delete" =>
              Cardinality(DeletionsBefore(c, n + 1))
                 = Cardinality(DeletionsBefore(c, n)) + 1
<1> DEFINE all == {i \in DOMAIN c : c[i].tool = "delete"}
           some == DeletionsBefore(c, n)
           more == DeletionsBefore(c, n + 1)
<1>1. DOMAIN c = 1..Len(c) /\ Len(c) \in Nat
  BY BatchTyped, LenProperties
<1>2. IsFiniteSet(DOMAIN c)
  BY <1>1, FS_Interval
<1>3. some \subseteq more /\ more \subseteq all /\ all \subseteq DOMAIN c
  BY <1>1 DEF DeletionsBefore
<1>4. n \in DOMAIN c /\ c[n].tool = "delete" => more = some \cup {n} /\ n \notin some
  BY <1>1 DEF DeletionsBefore
<1>5. Cardinality(all) <= MaxDeletes /\ MaxDeletes \in Nat
  <2>1. CASE c \in Batches
    BY <2>1, AgentAssumption DEF Batches
  <2>2. CASE c = << >>
    <3>1. all = {}
      BY <2>2
    <3>2. MaxDeletes \in Nat
      BY AgentAssumption
    <3> HIDE DEF all
    <3> QED
      BY <3>1, <3>2, FS_EmptySet
  <2> QED
    BY <2>1, <2>2
<1> HIDE DEF all, some, more
<1>6. IsFiniteSet(all) /\ IsFiniteSet(more) /\ IsFiniteSet(some)
  BY <1>2, <1>3, FS_Subset
<1>7. /\ Cardinality(some) \in Nat /\ Cardinality(more) \in Nat /\ Cardinality(all) \in Nat
      /\ Cardinality(some) <= Cardinality(more) /\ Cardinality(more) <= Cardinality(all)
  BY <1>3, <1>6, FS_Subset, FS_CardinalityType
<1>8. n \in DOMAIN c /\ c[n].tool = "delete" => Cardinality(more) = Cardinality(some) + 1
  BY <1>4, <1>6, FS_AddElement
<1> QED
  BY <1>5, <1>7, <1>8 DEF some, more

LEMMA BatchBounded ==
  ASSUME NEW c \in Batches \cup {<< >>}
  PROVE  c \in Seq(ToolCalls) /\ DOMAIN c = 1..Len(c) /\ Len(c) \in 0..MaxCalls
<1>1. CASE c = << >>
  BY <1>1, AgentAssumption
<1>2. CASE c \in Batches
  <2>1. PICK n \in 1..MaxCalls : c \in [1..n -> ToolCalls]
    BY <1>2 DEF Batches
  <2>2. n \in Nat
    BY AgentAssumption
  <2>3. c \in Seq(ToolCalls) /\ Len(c) = n /\ DOMAIN c = 1..n
    BY <2>1, <2>2, IsSequence
  <2> QED
    BY <2>2, <2>3, AgentAssumption
<1> QED
  BY <1>1, <1>2

LEMMA TurnBoundKept ==
  ASSUME TurnTyped, TurnBounded, [AgentNext]_agentVars
  PROVE  TurnBounded'
<1>1. /\ turn.next \in Nat \ {0} /\ turn.interrupts \in Nat /\ turn.calls \in Seq(ToolCalls)
      /\ DOMAIN turn.calls = 1..Len(turn.calls) /\ Len(turn.calls) \in Nat
      /\ MaxToolCalls \in Nat /\ MaxDeletes \in Nat
  BY LenProperties, AgentAssumption DEF TurnTyped, TurnShape
<1>2. ASSUME NEW t \in TurnShape, turn' = t, t.calls = << >>, t.interrupts = 0, t.next = 1,
             t.at # "paused", schedules' = schedules, used' \in 0..MaxToolCalls,
             DOMAIN asked' = {}, deleted' = {}
      PROVE  TurnBounded'
  <2>1. Cardinality(DeletionsBefore(<< >>, 1)) \in Nat /\ Len(<< >>) = 0
    BY <1>1, DeletionsCounted
  <2> QED
    BY <1>2, <2>1 DEF TurnBounded
<1>3. /\ Pause.calls = << >> /\ Pause.interrupts = 0 /\ Pause.next = 1
      /\ \A p \in {"agent", "memory"} :
           /\ [Pause EXCEPT !.at = p].calls = << >>
           /\ [Pause EXCEPT !.at = p].interrupts = 0
           /\ [Pause EXCEPT !.at = p].next = 1
           /\ [Pause EXCEPT !.at = p].at # "paused"
      /\ Pause.at # "paused" /\ DOMAIN << >> = {}
  BY DEF Pause
<1>4. CASE StartTurn \/ ModelAnswers \/ Disconnect
  <2>1. /\ \/ turn' = Pause
           \/ \E p \in {"agent", "memory"} : turn' = [Pause EXCEPT !.at = p]
        /\ asked' = << >> /\ deleted' = {} /\ UNCHANGED <<schedules, used>>
    BY <1>4 DEF StartTurn, ModelAnswers, Disconnect
  <2> QED
    BY <1>2, <1>3, <2>1, PauseTyped DEF TurnBounded
<1>5. CASE ToolsEnd
  <2>1. /\ \E p \in {"agent", "memory"} : turn' = [Pause EXCEPT !.at = p]
        /\ asked' = << >> /\ deleted' = {} /\ schedules' = schedules /\ used' = Charged
    BY <1>5 DEF ToolsEnd
  <2>2. Charged \in 0..MaxToolCalls
    BY <1>1 DEF Charged, Remaining, TurnBounded
  <2> QED
    BY <1>2, <1>3, <2>1, <2>2, PauseTyped
<1>6. CASE EndTurn
  <2>1. /\ turn' = Pause /\ UNCHANGED <<schedules, used, asked, deleted>>
        /\ turn.calls = << >>
    BY <1>6 DEF EndTurn, TurnBounded
  <2>2. DOMAIN asked = {} /\ deleted = {}
    BY <1>3, <2>1 DEF TurnBounded
  <2> QED
    BY <1>2, <1>3, <2>1, <2>2, PauseTyped DEF TurnBounded
<1>7. CASE ModelCalls
  <2>1. PICK batch \in Batches : turn' = [Pause EXCEPT !.at = "tools", !.calls = batch]
    BY <1>7 DEF ModelCalls
  <2>2. /\ turn'.calls = batch /\ turn'.next = 1 /\ turn'.interrupts = 0
        /\ turn'.at = "tools"
    BY <2>1 DEF Pause
  <2>3. Len(batch) \in Nat
    BY BatchBounded
  <2>4. Cardinality(DeletionsBefore(batch, 1)) \in Nat
    BY <1>1, DeletionsCounted
  <2>5. /\ asked' = << >> /\ deleted' = {} /\ UNCHANGED <<schedules, used>>
    BY <1>7 DEF ModelCalls
  <2> QED
    BY <1>3, <2>2, <2>3, <2>4, <2>5 DEF TurnBounded
<1>8. CASE RefuseCall \/ RunTool \/ DeleteUnknown
  <2>1. /\ turn' = Answered /\ UNCHANGED <<used, asked, deleted>>
        /\ turn.at = "tools" /\ turn.next <= Len(turn.calls)
        /\ schedules' \subseteq Schedules
    <3>1. InTools /\ Call = turn.calls[turn.next]
      BY <1>8 DEF RefuseCall, RunTool, DeleteUnknown, Asks, Call
    <3>2. turn.next \in DOMAIN turn.calls
      BY <1>1, <3>1 DEF InTools
    <3>3. Call \in ToolCalls
      BY <1>1, <3>1, <3>2
    <3>4. Call.tool = "create" => Call.schedule \in Schedules
      BY <3>3 DEF ToolCalls
    <3> QED
      BY <1>8, <3>1, <3>4
      DEF RefuseCall, Refused, RunTool, DeleteUnknown, InTools, TurnBounded
  <2>2. /\ turn'.at = "tools" /\ turn'.calls = turn.calls /\ turn'.next = turn.next + 1
        /\ turn'.interrupts = turn.interrupts
    BY <2>1, AnsweredIs
  <2>3. turn.interrupts <= Cardinality(DeletionsBefore(turn.calls, turn.next + 1))
    <3>1. /\ Cardinality(DeletionsBefore(turn.calls, turn.next)) \in Nat
          /\ Cardinality(DeletionsBefore(turn.calls, turn.next + 1)) \in Nat
          /\ Cardinality(DeletionsBefore(turn.calls, turn.next))
               <= Cardinality(DeletionsBefore(turn.calls, turn.next + 1))
      BY <1>1, DeletionsCounted DEF TurnBounded
    <3> QED
      BY <1>1, <3>1 DEF TurnBounded
  <2>4. turn.next + 1 <= Len(turn.calls) + 1
    BY <1>1, <2>1
  <2> QED
    BY <2>1, <2>2, <2>3, <2>4 DEF TurnBounded
<1>9. CASE Interrupt
  <2>1. /\ turn' = [turn EXCEPT !.at = "paused"] /\ turn.next \in DOMAIN turn.calls
        /\ UNCHANGED <<schedules, used, asked, deleted>>
    BY <1>1, <1>9 DEF Interrupt, Asks, InTools
  <2>2. /\ turn'.at = "paused" /\ turn'.calls = turn.calls /\ turn'.next = turn.next
        /\ turn'.interrupts = turn.interrupts
    BY <2>1 DEF TurnTyped, TurnShape
  <2> QED
    BY <2>1, <2>2 DEF TurnBounded
<1>10. CASE DeleteSchedule
  <2>1. /\ turn' = [Answered EXCEPT !.interrupts = @ + 1]
        /\ turn.next \in DOMAIN turn.calls /\ turn.calls[turn.next].tool = "delete"
        /\ UNCHANGED <<used, asked>> /\ schedules' \subseteq schedules
        /\ deleted' \subseteq deleted \cup {turn.next} /\ turn.at = "tools"
    BY <1>1, <1>10 DEF DeleteSchedule, Asks, InTools, Call
  <2>2. /\ turn'.at = "tools" /\ turn'.calls = turn.calls /\ turn'.next = turn.next + 1
        /\ turn'.interrupts = turn.interrupts + 1
    BY <2>1, AnsweredIs DEF TurnShape
  <2>3. turn.interrupts + 1 <= Cardinality(DeletionsBefore(turn.calls, turn.next + 1))
    <3>1. /\ Cardinality(DeletionsBefore(turn.calls, turn.next)) \in Nat
          /\ Cardinality(DeletionsBefore(turn.calls, turn.next + 1))
               = Cardinality(DeletionsBefore(turn.calls, turn.next)) + 1
      BY <1>1, <2>1, DeletionsCounted DEF TurnBounded
    <3> QED
      BY <1>1, <3>1 DEF TurnBounded
  <2>4. turn.next + 1 <= Len(turn.calls) + 1
    BY <1>1, <2>1
  <2> QED
    BY <2>1, <2>2, <2>3, <2>4 DEF TurnBounded
<1>11. CASE Resume
  <2>1. PICK decision \in Decisions :
          /\ asked' = [i \in DOMAIN asked \cup {turn.next} |->
                         IF i = turn.next THEN decision ELSE asked[i]]
          /\ turn' = [turn EXCEPT !.at = "tools", !.next = 1, !.answers = << >>,
                                  !.interrupts = 0, !.decisions = Append(@, decision)]
    BY <1>11 DEF Resume, Decisions
  <2>2. /\ turn'.at = "tools" /\ turn'.calls = turn.calls /\ turn'.next = 1
        /\ turn'.interrupts = 0
    BY <2>1 DEF TurnTyped, TurnShape
  <2>3. /\ DOMAIN asked' = DOMAIN asked \cup {turn.next} /\ turn.next \in DOMAIN turn.calls
        /\ UNCHANGED <<schedules, used, deleted>>
    BY <1>11, <2>1 DEF Resume, TurnBounded
  <2>4. Cardinality(DeletionsBefore(turn.calls, 1)) \in Nat
    <3>1. turn.calls \in Batches \cup {<< >>} /\ 1 \in Nat
      BY DEF TurnBounded
    <3>2. Cardinality(DeletionsBefore(turn.calls, 1)) \in 0..MaxDeletes
      BY <3>1, DeletionsCounted
    <3> QED
      BY <3>2
  <2> QED
    BY <1>1, <2>2, <2>3, <2>4 DEF TurnBounded
<1>12. CASE OtherChange \/ UNCHANGED agentVars
  <2>1. turn' = turn /\ UNCHANGED <<used, asked, deleted>> /\ schedules' \subseteq Schedules
    BY <1>12 DEF OtherChange, agentVars, TurnBounded
  <2> QED
    BY <2>1 DEF TurnBounded
<1> QED
  BY <1>4, <1>5, <1>6, <1>7, <1>8, <1>9, <1>10, <1>11, <1>12 DEF AgentNext, TurnStep

(***************************************************************************)
(* The turn, the thread and the schedules have their types: a node asks no *)
(* more often than it has passed deletions, its place stays within the     *)
(* calls of its message, and the budget is never exceeded, for any         *)
(* schedules, budgets, batches of calls and lengths of the thread (the     *)
(* graph of the agent, its tool nodes and approvals).                      *)
(***************************************************************************)
THEOREM TurnTypes == AgentSpec => []AgentTypeOK
<1>1. AgentInit => TurnTyped /\ TurnBounded
  <2> SUFFICES ASSUME AgentInit PROVE TurnTyped /\ TurnBounded
    OBVIOUS
  <2>1. Cardinality(DeletionsBefore(<< >>, 1)) \in Nat /\ Len(<< >>) = 0
        /\ DOMAIN << >> = {} /\ MaxToolCalls \in Nat
    <3>1. Cardinality(DeletionsBefore(<< >>, 1)) \in 0..MaxDeletes
      BY DeletionsCounted
    <3>2. MaxDeletes \in Nat /\ MaxToolCalls \in Nat
      BY AgentAssumption
    <3> QED
      BY <3>1, <3>2
  <2> QED
    BY <2>1, TurnBegun DEF AgentInit, Pause, TurnBounded
<1>2. TurnTyped /\ TurnBounded /\ [AgentNext]_agentVars => (TurnTyped /\ TurnBounded)'
  BY TurnTypeKept, TurnBoundKept
<1>3. TurnTyped /\ TurnBounded => AgentTypeOK
  <2> SUFFICES ASSUME TurnTyped, TurnBounded PROVE AgentTypeOK
    OBVIOUS
  <2>1. \A m \in ToSet(history) : m.kind \in {"human", "text", "calls", "answer", "summary"}
    BY DEF TurnTyped, ToSet, Message
  <2>2. turn.next \in 1..(MaxCalls + 1) /\ turn.interrupts \in 0..MaxDeletes
    <3>1. /\ turn.next \in Nat \ {0} /\ turn.interrupts \in Nat
          /\ Len(turn.calls) \in 0..MaxCalls /\ MaxCalls \in Nat /\ MaxDeletes \in Nat
      BY BatchBounded, AgentAssumption DEF TurnTyped, TurnShape, TurnBounded
    <3>2. Cardinality(DeletionsBefore(turn.calls, turn.next)) \in 0..MaxDeletes
      BY <3>1, DeletionsCounted DEF TurnBounded
    <3>3. /\ turn.next <= Len(turn.calls) + 1
          /\ turn.interrupts <= Cardinality(DeletionsBefore(turn.calls, turn.next))
      BY DEF TurnBounded
    <3> QED
      BY <3>1, <3>2, <3>3
  <2> QED
    BY <2>1, <2>2 DEF TurnTyped, TurnShape, Decisions, TurnBounded, AgentTypeOK
<1> QED
  BY <1>1, <1>2, <1>3, PTL DEF AgentSpec
=================================================================================
