---------------------------- MODULE MCWorkflow ----------------------------
(***************************************************************************)
(* The workflows for TLC: forecasts and quantities at the limits of the    *)
(* rules.                                                                  *)
(***************************************************************************)
EXTENDS Workflow, TLC

Forecast(confidence, wind, wave) == [Confidence |-> confidence, WindKPH |-> wind, WaveCM |-> wave]

FromTo(starts, ends) == [starts |-> starts, ends |-> ends]

\* Windows that touch, lie inside each other, and an empty one.
MCWindows == {FromTo(1, 2), FromTo(2, 4), FromTo(1, 4), FromTo(2, 2)}

\* Shifts that touch, and one that ends before it starts.
MCShifts == {FromTo(2, 3), FromTo(3, 4), FromTo(3, 2)}

MCForecasts == {Forecast(70, 70, 250), Forecast(69, 70, 250), Forecast(70, 71, 250), Forecast(70, 70, 251)}

MCRequests == {-1, 0, 1, 3, MaxInt}

\* Sums at the limit and above it, a negative line, and sums beyond MaxInt: one comes back
\* below the limit when it is wrapped around.
MCLines == {<<2, 2>>, <<2, 3>>, <<7, 7, 4>>, <<7, 7, 7>>, <<5, -1>>}

MCManifests == {<<1, 1>>, <<1, 2>>, <<7, 7, 7>>}

MCChecksums == {[hash |-> "a", length |-> 64], [hash |-> "b", length |-> 31]}

Symmetry == Permutations(Campaigns)

-----------------------------------------------------------------------------
\* Dispatches of two priorities and two ids, up to four at a time.
Queues == UNION {[1..n -> [value : 1..2, id : 1..2]] : n \in 0..4}

FirstOf(x, y) == x.value > y.value \/ (x.value = y.value /\ x.id <= y.id)

\* Dispatches come out by falling value and, among equals, by rising id, each as often
\* as it went in, whatever order they were given in.
ASSUME PriorityIsStable == \A given \in Queues :
  LET order == DispatchPriority(given)
  IN /\ \A i, j \in DOMAIN order : i < j => FirstOf(order[i], order[j])
     /\ \E p \in Permutations(DOMAIN given) : order = [i \in DOMAIN given |-> given[p[i]]]
=============================================================================
