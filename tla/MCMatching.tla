----------------------------- MODULE MCMatching -----------------------------
(* Matching for TLC.  A behaviour is a tick with any edges and its buckets   *)
(* taken in their order (any other order is a renaming of the buckets), the  *)
(* choice of slots with any deadlines (it does not look at the edges), the   *)
(* solver with any matrix of costs, or the comparison of what came of the    *)
(* recommendations: of one work, over the board or over the snapshots.       *)
EXTENDS Matching, DispatchCompare

VARIABLE part

MCPairCost == [x \in Candidates \X Buckets |-> (x[1] + x[2]) % 2]

\* The terminal's truck is busy next to a free one, free and nearer, or not there.
Fleet(tos, other) == [yt \in CmpTrucks |-> IF yt = TosTruck THEN tos ELSE other]
MCFleets == {Fleet([d |-> 1, free |-> FALSE], [d |-> 0, free |-> TRUE]),
             Fleet([d |-> 0, free |-> TRUE], [d |-> 1, free |-> TRUE]),
             Fleet([d |-> Nowhere, free |-> FALSE], [d |-> 1, free |-> TRUE])}
SomeFleet == CHOOSE f \in Fleets : f[TosTruck].d # Nowhere

CompareStep ==
    /\ CompareNext
    /\ part = "snapshots" => recos' = recos /\ updates' <= 1
    /\ part = "board" => /\ hist' # hist => now = 2 /\ hist' = {[ts |-> 2, fleet |-> SomeFleet]}
                         /\ now' > 2 => hist' # {}
                         /\ \A r \in recos' : r.yt = TosTruck
                         /\ updates' > 0 => job'.dis

Init ==
    /\ MatchInit /\ ClockInit /\ CompareInit
    /\ \/ part = "solver" /\ edges = {} /\ \A b \in Buckets : bucket[b] = [n |-> 0, base |-> 0]
       \/ part = "cover" /\ edges = Candidates \X Buckets
       \/ /\ part \in {"board", "snapshots"}
          /\ edges = {} /\ \A b \in Buckets : bucket[b] = [n |-> 0, base |-> 0]
       \/ part = "tick" /\ \A b \in Buckets : bucket[b].base = 0

MatchStep ==
    \/ part = "tick" /\ MatchNext
    \/ part = "cover" /\ CoverNext /\ UNCHANGED <<slots_in, solverVars>>
    \/ part = "solver" /\ SolverNext /\ UNCHANGED <<slots_in, coverVars>>

Next ==
    /\ \/ MatchStep /\ UNCHANGED <<now, compareVars>>
       \/ part \in {"board", "snapshots"} /\ CompareStep /\ UNCHANGED matchVars
    /\ UNCHANGED part

Spec == Init /\ [][Next]_<<part, matchVars, now, compareVars>>
=============================================================================
