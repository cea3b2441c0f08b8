------------------------------- MODULE Accounts -------------------------------
(***************************************************************************)
(* User accounts and their sessions: login and sign-up                     *)
(* (src/src/api/auth.py), the return from Google                           *)
(* (src/src/api/google_oauth.py), the administration of the accounts       *)
(* (src/src/api/admin_users.py) and the documents they share               *)
(* (src/src/db/repositories/users.py).  A session is a cookie with the id  *)
(* and the epoch of an account; nothing about it is kept by the server.    *)
(* Each request reads the account before it writes it or makes a cookie.   *)
(***************************************************************************)
EXTENDS Naturals, FiniteSets

CONSTANTS Emails,        \* normalised addresses
          Administrator, \* the address of the first account
          AdminSubject,  \* the Google subject it may be linked to
          Allowlist,     \* addresses that may sign up
          Google,        \* Google accounts, as <<subject, verified address>>
          MaxRequests,   \* requests in flight together
          MaxAccounts,   \* accounts ever created
          MaxChanges,    \* password resets and disablings of an account
          MaxCookies,    \* cookies held at the same time
          Unset          \* no account, no Google subject, no password

ASSUME AccountsAssumption ==
  /\ Administrator \in Emails /\ Allowlist \subseteq Emails
  /\ \A ga \in Google : ga[2] \in Emails
  /\ {MaxRequests, MaxAccounts, MaxChanges, MaxCookies} \subseteq Nat
  /\ MaxAccounts # 0

GoogleIds == {AdminSubject} \cup {ga[1] : ga \in Google}

VARIABLES account,   \* account[e]: the document with the address e
          accounts,  \* how many have been created: the last user_id
          requests,  \* the requests in flight: what each is about to do
          cookies    \* the cookies that browsers hold

accountVars == <<account, accounts, requests, cookies>>

\* A password is known by the number of the reset that set it; "disablings" counts
\* those of the account (history), so that the epoch is the sum of the two.
Account == [id : 1..MaxAccounts, admin : BOOLEAN, disabled : BOOLEAN,
            epoch : 0..(2 * MaxChanges), google : GoogleIds \cup {Unset},
            password : 0..MaxChanges \cup {Unset}, disablings : 0..MaxChanges]

\* What is remembered of the account when a cookie is made, and how it was obtained.
Cookie == [id : 1..MaxAccounts, epoch : 0..(2 * MaxChanges),
           by : {"login", "signup", "google"}, password : 0..MaxChanges \cup {Unset},
           disablings : 0..MaxChanges]

AccountsTypeOK ==
  /\ account \in [Emails -> Account \cup {Unset}]
  /\ accounts \in 0..MaxAccounts
  /\ \A q \in requests : q.at \in {"cookie", "reread", "email", "link", "create", "write"}
  /\ Cardinality(requests) \in 0..MaxRequests
  /\ cookies \subseteq Cookie

NewAccount(admin, google, password) ==
  [id |-> accounts + 1, admin |-> admin, disabled |-> FALSE, epoch |-> 0,
   google |-> google, password |-> password, disablings |-> 0]

\* The first administrator is made by a script, and may have come by Google since.
AccountsInit ==
  /\ \E google \in {Unset, AdminSubject} :
       account = [e \in Emails |->
                    IF e = Administrator
                    THEN [id |-> 1, admin |-> TRUE, disabled |-> FALSE, epoch |-> 0,
                          google |-> google, password |-> 0, disablings |-> 0]
                    ELSE Unset]
  /\ accounts = 1
  /\ requests = {}
  /\ cookies = {}

-----------------------------------------------------------------------------
HasAccount(e) == account[e] # Unset

Holder(id) == {e \in Emails : HasAccount(e) /\ account[e].id = id}

BeginRequest(q) == Cardinality(requests) < MaxRequests /\ requests' = requests \cup {q}

ContinueRequest(q, next) == requests' = (requests \ {q}) \cup {next}

EndRequest(q) == requests' = requests \ {q}

CookieOf(a, by) ==
  [id |-> a.id, epoch |-> a.epoch, by |-> by, password |-> a.password,
   disablings |-> a.disablings]

\* The indexes on email and google_sub are unique; the second is sparse, but a null
\* that is stored is indexed.
Insertable(e, google) ==
  /\ ~HasAccount(e)
  /\ \A other \in Emails : HasAccount(other) => account[other].google # google

InsertAccount(e, admin, google, password) ==
  /\ accounts < MaxAccounts
  /\ account' = [account EXCEPT ![e] = NewAccount(admin, google, password)]
  /\ accounts' = accounts + 1

\* login: the account is read and the password checked; the cookie follows the
\* write of last_seen_at.
LogIn(e) ==
  /\ HasAccount(e) /\ account[e].password # Unset /\ ~account[e].disabled
  /\ BeginRequest([at |-> "cookie", cookie |-> CookieOf(account[e], "login")])
  /\ UNCHANGED <<account, accounts, cookies>>

\* signup: the account is created with the password and read back.
SignUp(e) ==
  /\ e \in Allowlist /\ Cardinality(requests) < MaxRequests
  /\ IF Insertable(e, Unset)
     THEN /\ InsertAccount(e, FALSE, Unset, 0)
          /\ BeginRequest([at |-> "reread", id |-> accounts', by |-> "signup"])
     ELSE UNCHANGED <<account, accounts, requests>>
  /\ UNCHANGED cookies

\* The account is read by its id; Google's callback looks at its flag.
Reread(q) ==
  /\ q.at = "reread"
  /\ IF \E e \in Holder(q.id) : q.by = "google" => ~account[e].disabled
     THEN \E e \in Holder(q.id) :
            ContinueRequest(q, [at |-> "cookie", cookie |-> CookieOf(account[e], q.by)])
     ELSE EndRequest(q)
  /\ UNCHANGED <<account, accounts, cookies>>

IssueCookie(q) ==
  /\ q.at = "cookie"
  /\ Cardinality(cookies) < MaxCookies
  /\ cookies' = cookies \cup {q.cookie}
  /\ EndRequest(q)
  /\ UNCHANGED <<account, accounts>>

\* logout, or the cookie's time is over.
DropCookie ==
  /\ \E c \in cookies : cookies' = cookies \ {c}
  /\ UNCHANGED <<account, accounts, requests>>

-----------------------------------------------------------------------------
(* google_callback: the account is looked for by subject, then by address. *)

BySubject(g) == {e \in Emails : HasAccount(e) /\ account[e].google = g}

ReturnFromGoogle(g, e) ==
  /\ IF BySubject(g) # {}
     THEN \E o \in BySubject(g) :
             BeginRequest([at |-> "reread", by |-> "google", id |-> account[o].id])
     ELSE BeginRequest([at |-> "email", google |-> g, email |-> e])
  /\ UNCHANGED <<account, accounts, cookies>>

FindByEmail(q) ==
  /\ q.at = "email"
  /\ \/ /\ HasAccount(q.email) /\ account[q.email].google = Unset
        /\ ContinueRequest(q, [at |-> "link", google |-> q.google,
                                id |-> account[q.email].id])
     \/ /\ HasAccount(q.email) /\ account[q.email].google = q.google
        /\ ContinueRequest(q, [at |-> "reread", by |-> "google",
                                id |-> account[q.email].id])
     \/ /\ HasAccount(q.email) /\ account[q.email].google \notin {Unset, q.google}
        /\ EndRequest(q)
     \/ /\ ~HasAccount(q.email) /\ q.email \in Allowlist
        /\ ContinueRequest(q, [q EXCEPT !.at = "create"])
     \/ /\ ~HasAccount(q.email) /\ q.email \notin Allowlist
        /\ EndRequest(q)
  /\ UNCHANGED <<account, accounts, cookies>>

\* The account is given the subject, whatever subject it has by now, unless another
\* account has it.
LinkGoogle(q) ==
  /\ q.at = "link"
  /\ IF \E o \in Emails : /\ HasAccount(o) /\ account[o].google = q.google
                         /\ account[o].id # q.id
     THEN UNCHANGED account /\ EndRequest(q)
     ELSE /\ account' = [e \in Emails |-> IF e \in Holder(q.id)
                                          THEN [account[e] EXCEPT !.google = q.google]
                                          ELSE account[e]]
          /\ ContinueRequest(q, [at |-> "reread", by |-> "google", id |-> q.id])
  /\ UNCHANGED <<accounts, cookies>>

CreateGoogle(q) ==
  /\ q.at = "create"
  /\ IF Insertable(q.email, q.google)
     THEN /\ InsertAccount(q.email, FALSE, q.google, Unset)
          /\ ContinueRequest(q, [at |-> "reread", by |-> "google", id |-> accounts'])
     ELSE UNCHANGED <<account, accounts>> /\ EndRequest(q)
  /\ UNCHANGED cookies

-----------------------------------------------------------------------------
(* The administration.  require_session admits a cookie whose account exists, *)
(* is not disabled and has the cookie's epoch; the role is the account's.     *)

Admits(c, e) == c.id = account[e].id /\ ~account[e].disabled /\ c.epoch = account[e].epoch

Admitted(e) == HasAccount(e) /\ \E c \in cookies : Admits(c, e)

\* An admitted administrator asks for a change of someone's account; nobody disables
\* or deletes their own.
Administer ==
  /\ \E a, e \in Emails, op \in {"password", "disable", "enable", "delete"} :
       /\ Admitted(a) /\ account[a].admin
       /\ HasAccount(e)
       /\ op \in {"disable", "delete"} => e # a
       /\ BeginRequest([at |-> "write", op |-> op, id |-> account[e].id])
  /\ UNCHANGED <<account, accounts, cookies>>

CreateUser ==
  /\ \E a, e \in Emails, admin \in BOOLEAN :
       /\ Admitted(a) /\ account[a].admin
       /\ Insertable(e, Unset)
       /\ InsertAccount(e, admin, Unset, 0)
  /\ UNCHANGED <<requests, cookies>>

\* Slip: a new password, and the old epoch.
SetPasswordSlip(a) == [a EXCEPT !.password = a.epoch - a.disablings + 1]

\* set_password and set_disabled: one update each, with the epoch in it.
SetPassword(a) == [a EXCEPT !.password = a.epoch - a.disablings + 1, !.epoch = @ + 1]

SetDisabled(a, disabled) ==
  IF disabled THEN [a EXCEPT !.disabled = TRUE, !.epoch = @ + 1, !.disablings = @ + 1]
              ELSE [a EXCEPT !.disabled = FALSE]

Changed(a, op) ==
  CASE op = "password" -> SetPassword(a)
    [] op = "disable"  -> SetDisabled(a, TRUE)
    [] op = "enable"   -> SetDisabled(a, FALSE)
    [] op = "delete"   -> Unset

\* The write finds the account by its id, if it is still there.
WriteAccount(q) ==
  /\ q.at = "write"
  /\ \A e \in Holder(q.id) :
       /\ q.op = "password" => account[e].epoch - account[e].disablings < MaxChanges
       /\ q.op = "disable" => account[e].disablings < MaxChanges
  /\ account' = [e \in Emails |-> IF e \in Holder(q.id) THEN Changed(account[e], q.op)
                                                        ELSE account[e]]
  /\ EndRequest(q)
  /\ UNCHANGED <<accounts, cookies>>

AccountsNext ==
  \/ \E e \in Emails : LogIn(e) \/ SignUp(e)
  \/ \E ga \in Google : ReturnFromGoogle(ga[1], ga[2])
  \/ \E q \in requests :
       \/ Reread(q) \/ IssueCookie(q)
       \/ FindByEmail(q) \/ LinkGoogle(q) \/ CreateGoogle(q)
       \/ WriteAccount(q)
  \/ Administer \/ CreateUser \/ DropCookie

-----------------------------------------------------------------------------
(***************************************************************************)
(* A cookie that is admitted was made for the account as it is: since its  *)
(* account was read the password has not been reset, if the cookie was     *)
(* obtained with it, and the account has not been disabled, even if it was *)
(* enabled again, or deleted and created again ("a password reset forces   *)
(* re-login everywhere", "Disabling also revokes live sessions",           *)
(* users.py), also when the login was under way at that time.              *)
(***************************************************************************)
SessionsEndWithAccess ==
  \A c \in cookies, e \in Emails :
    HasAccount(e) /\ Admits(c, e) =>
      /\ c.by = "login" => c.password = account[e].password
      /\ c.disablings = account[e].disablings
=============================================================================
