--------------------------- MODULE MCNewsletterRun ---------------------------
(* Two runs in one directory over two chats; one run over three. *)
EXTENDS NewsletterRun, TLC

CONSTANTS first, second, ann, bob, eve

Pair(a, b) == (first :> a) @@ (second :> b)

Edition(force) ==
  [chats |-> {ann, bob}, consolidate |-> TRUE, merge |-> TRUE, force |-> force,
   select |-> FALSE, concurrent |-> FALSE, label |-> FALSE, translate |-> TRUE,
   actions |-> {"mail"} \cup IF force THEN {"webhook"} ELSE {}]

Selection == [Edition(FALSE) EXCEPT !.select = TRUE]

OneChat(force) ==
  [Edition(force) EXCEPT !.chats = {ann}, !.label = TRUE]

ThreeChats == [Edition(FALSE) EXCEPT !.chats = {ann, bob, eve}, !.translate = FALSE]

Concurrent == [OneChat(FALSE) EXCEPT !.concurrent = TRUE, !.translate = FALSE, !.label = FALSE]

\* A digest and its re-run, plain or forced; a selection and a digest after it;
\* one chat, forced again; one chat by two runs at the same time; a digest of three
\* chats, so that one of them may fail, and one chat after it.
MCRequests ==
  {Pair(Edition(FALSE), Edition(FALSE)), Pair(Edition(FALSE), Edition(TRUE)),
   Pair(Selection, OneChat(FALSE)),
   Pair(OneChat(FALSE), OneChat(TRUE)), Pair(Concurrent, Concurrent),
   Pair(ThreeChats, OneChat(FALSE))}
=============================================================================
