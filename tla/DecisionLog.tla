----------------------------- MODULE DecisionLog -----------------------------
(***************************************************************************)
(* What recording decisions promises, with no transaction, no connection   *)
(* and no identifier in sight.                                             *)
(*                                                                         *)
(* A request is recorded at most once, and with it, in the same step, the  *)
(* notification when the rule allowed it.  A client is told of a decision  *)
(* only once it is recorded.  Nothing recorded or told is taken back.      *)
(***************************************************************************)
CONSTANTS Requests, Allowed, KeyOf

VARIABLES
  recorded,   \* requests with an audit event
  notified,   \* requests with an outbox job
  told        \* requests whose client got the decision

vars == <<recorded, notified, told>>

Init == recorded = {} /\ notified = {} /\ told = {}

\* Of the requests that share a request id only one is ever recorded.
Record(r) ==
  /\ \A q \in recorded : KeyOf[q] # KeyOf[r]
  /\ recorded' = recorded \cup {r}
  /\ notified' = IF r \in Allowed THEN notified \cup {r} ELSE notified
  /\ UNCHANGED told

Tell(r) ==
  /\ r \in recorded
  /\ told' = told \cup {r}
  /\ UNCHANGED <<recorded, notified>>

Next == \E r \in Requests : Record(r) \/ Tell(r)

Spec == Init /\ [][Next]_vars
=============================================================================
