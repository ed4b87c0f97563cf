-------------------------- MODULE IdempotentCreate --------------------------
(***************************************************************************)
(* What POST /notifications promises about idempotency keys: the first     *)
(* creation under a key binds the key to one new notification, and every   *)
(* request with that key that gets an answer gets that notification.  A    *)
(* request may also be refused or dropped; that changes nothing here.      *)
(***************************************************************************)
CONSTANTS Requests, Keys, Ids, NoKey, NoId

VARIABLES
  asked,    \* the key each request came with
  binding,  \* the notification each key stands for
  answer    \* the notification each request was told

vars == <<asked, binding, answer>>

Init ==
  /\ asked = [r \in Requests |-> NoKey]
  /\ binding = [k \in Keys |-> NoId]
  /\ answer = [r \in Requests |-> NoId]

Ask(r, k) ==
  /\ asked[r] = NoKey
  /\ asked' = [asked EXCEPT ![r] = k]
  /\ UNCHANGED <<binding, answer>>

Bind(k, id) ==
  /\ binding[k] = NoId
  /\ \A other \in Keys : binding[other] # id
  /\ \E r \in Requests : asked[r] = k
  /\ binding' = [binding EXCEPT ![k] = id]
  /\ UNCHANGED <<asked, answer>>

Answer(r) ==
  /\ asked[r] # NoKey
  /\ answer[r] = NoId
  /\ binding[asked[r]] # NoId
  /\ answer' = [answer EXCEPT ![r] = binding[asked[r]]]
  /\ UNCHANGED <<asked, binding>>

Next ==
  \/ \E r \in Requests : Answer(r) \/ \E k \in Keys : Ask(r, k)
  \/ \E k \in Keys, id \in Ids : Bind(k, id)

Spec == Init /\ [][Next]_vars
=============================================================================
