----------------------------- MODULE Deadlines -----------------------------
(***************************************************************************)
(* The rule about contexts of downstream operations                        *)
(* (policy/context_deadline_is_forwarded.go): a client describes an        *)
(* operation it has started, and asks whether deadline and cancellation    *)
(* were forwarded to it.                                                   *)
(***************************************************************************)
EXTENDS Naturals

CONSTANTS
  Times,      \* instants
  Undecided   \* no answer yet

NoTime == 0

VARIABLES ctx, allowed
vars == <<ctx, allowed>>

Context == [Now : Times, Deadline : Times \cup {NoTime}, HasRequestID : BOOLEAN,
            Flags : SUBSET {"cancel_propagates"}]

\* Both flags and deadline of types.go; the rule passes TRUE for the deadline.
CancellationForwarded(flags, deadlinePresent) ==
  deadlinePresent \/ "cancel_propagates" \in flags

ContextDeadlineIsForwarded(c) ==
  /\ c.Deadline # NoTime
  /\ c.Now < c.Deadline
  /\ c.HasRequestID
  /\ CancellationForwarded(c.Flags, TRUE)

Init == ctx \in Context /\ allowed = Undecided

Ask ==
  /\ allowed = Undecided
  /\ allowed' = ContextDeadlineIsForwarded(ctx)
  /\ UNCHANGED ctx

Spec == Init /\ [][Ask]_vars

-----------------------------------------------------------------------------
\* An operation whose cancellation is detached is not accepted
\* (TestContextDeadlineRequiresCancellationPropagation in policy_test.go).
DetachedIsDenied == allowed = TRUE => "cancel_propagates" \in ctx.Flags
=============================================================================
