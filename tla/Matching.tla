------------------------------ MODULE Matching ------------------------------
(***************************************************************************)
(* The match of one tick (crates/api/src/livemap.rs, the end of a tick of  *)
(* spawn_stage2_shadow): the cover says which of the due slots get a truck,*)
(* and only those go to the solver, which says which truck each one gets.  *)
(***************************************************************************)
EXTENDS DeadlineCover, Assignment

CONSTANT PairCost        \* cost of the edge between a truck and a bucket

\* The solver is called with any number of trucks and slots a tick can have.
ASSUME MatchAssumption ==
    /\ PairCost \in [Candidates \X Buckets -> 0 .. MaxCost]
    /\ NTrucks <= MaxTrucks /\ NTrucks <= MaxSlots

VARIABLE slots_in        \* slot_wpos of the tick: the bucket of each covered slot

matchVars == <<slots_in, coverVars, solverVars>>

MatchInit == CoverInit /\ SolverInit /\ slots_in = <<>>

MutAllSlots == slot_wpos

\* The covered slots, in the order of the cover.
Rank(s) == Cardinality({r \in Covered : r <= s})
CoveredSlots ==
    [k \in 1 .. Cardinality(Covered) |-> slot_wpos[CHOOSE s \in Covered : Rank(s) = k]]

\* assign_slots with the edges of the covered slots.
AssignCovered ==
    /\ stage = "done" /\ phase = "idle"
    /\ slots_in' = CoveredSlots
    /\ Call(NTrucks, Len(slots_in'),
            [x \in Candidates \X DOMAIN slots_in' |->
                LET pair == <<x[1], slots_in'[x[2]]>> IN
                IF pair \in edges THEN PairCost[pair] ELSE Forbidden])
    /\ stage' = "assigned"
    /\ UNCHANGED <<bucket, edges, kept, slot_wpos, truck_slot, covered, path, seen>>

MatchNext ==
    \/ CoverNext /\ UNCHANGED <<slots_in, solverVars>>
    \/ AssignCovered
    \/ Solve /\ UNCHANGED <<slots_in, coverVars>>

MatchSpec == MatchInit /\ [][MatchNext]_matchVars

\* No covered slot goes without a truck: the solver, which looks at costs alone
\* and may put a slot on a forbidden pair, joins all the slots the cover promised
\* (the warning "fewer than the deadline cover ... a defect").
CoveredAreAssigned ==
    stage = "assigned" /\ phase = "done" => Cardinality(Result) = Len(slots_in)
=============================================================================
