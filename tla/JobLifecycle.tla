---------------------------- MODULE JobLifecycle ----------------------------
(***************************************************************************)
(* What the durable outbox promises about one notification, with no        *)
(* worker, no snapshot and no version in sight.                            *)
(*                                                                         *)
(* A job is accepted once.  It may be handed to the publisher any number   *)
(* of times.  It is settled only after it was handed over, it is given up  *)
(* only after MaxAttempts recorded misses, and it never leaves "settled"   *)
(* or "given_up".                                                          *)
(***************************************************************************)
EXTENDS Naturals

CONSTANTS Jobs, MaxAttempts

VARIABLES
  state,    \* where each job stands
  misses,   \* recorded failed attempts of each job
  handed    \* whether the publisher ever accepted the job

vars == <<state, misses, handed>>

Init ==
  /\ state  = [j \in Jobs |-> "none"]
  /\ misses = [j \in Jobs |-> 0]
  /\ handed = [j \in Jobs |-> FALSE]

Accept(j) ==
  /\ state[j] = "none"
  /\ state' = [state EXCEPT ![j] = "open"]
  /\ UNCHANGED <<misses, handed>>

\* A slow sender may hand a job over after another one closed it.
HandOver(j) ==
  /\ state[j] # "none"
  /\ handed' = [handed EXCEPT ![j] = TRUE]
  /\ UNCHANGED <<state, misses>>

Miss(j) ==
  /\ state[j] = "open"
  /\ misses[j] + 1 < MaxAttempts
  /\ misses' = [misses EXCEPT ![j] = @ + 1]
  /\ UNCHANGED <<state, handed>>

GiveUp(j) ==
  /\ state[j] = "open"
  /\ misses[j] + 1 = MaxAttempts
  /\ misses' = [misses EXCEPT ![j] = @ + 1]
  /\ state'  = [state EXCEPT ![j] = "given_up"]
  /\ UNCHANGED handed

Settle(j) ==
  /\ state[j] = "open"
  /\ handed[j]
  /\ state' = [state EXCEPT ![j] = "settled"]
  /\ UNCHANGED <<misses, handed>>

Next == \E j \in Jobs : Accept(j) \/ HandOver(j) \/ Miss(j) \/ GiveUp(j) \/ Settle(j)

Spec == Init /\ [][Next]_vars
=============================================================================
