--------------------------- MODULE DeadlineCover ---------------------------
(***************************************************************************)
(* Which work gets a truck when there are not enough of them               *)
(* (crates/api/src/livemap.rs: the due slots of spawn_stage2_shadow,       *)
(* allocate_due and deadline_cover).  The due slots of the buckets are cut *)
(* to the number of candidate trucks, earliest bucket first; then one slot *)
(* after another looks for a truck along an alternating path, which may    *)
(* move the trucks of earlier slots but must not lose them.                *)
(*                                                                         *)
(* Buckets, edges and deadlines are the input: every small one is an       *)
(* initial state.  The recursion of try_slot is in `path`: the trucks that *)
(* the calls on the stack are asking for, the outermost one first.         *)
(***************************************************************************)
EXTENDS Integers, Sequences, FiniteSets

CONSTANTS
    NTrucks,     \* candidate trucks, idle or soon free
    NBuckets,
    MaxN,        \* boxes of a bucket
    MaxBase,     \* deadline of the first box of a bucket
    MoveS,       \* DS_MOVE_S / LD_MOVE_S
    Cutoff       \* now + pool_margin

ASSUME CoverAssumption ==
    /\ NTrucks \in Nat /\ NBuckets \in Nat \ {0} /\ MaxN \in Nat
    /\ MaxBase \in Nat /\ MoveS \in Nat \ {0} /\ Cutoff \in Nat

Candidates  == 1 .. NTrucks
Buckets == 1 .. NBuckets

VARIABLES
    bucket,          \* n and dispatch_deadline of each bucket
    edges,           \* the allowed (truck, bucket) pairs
    kept,            \* the buckets allocate_due has taken
    slot_wpos,       \* bucket of each slot, in the order of the cover
    truck_slot,      \* the slot a truck covers, or 0
    covered,         \* of the slots looked at so far
    path, seen,      \* the search for the next one, and the trucks it has asked
    stage

coverVars == <<bucket, edges, kept, slot_wpos, truck_slot, covered, path, seen, stage>>

CoverTypeOK ==
    /\ bucket \in [Buckets -> [n : 0 .. MaxN, base : 0 .. MaxBase]]
    /\ edges \subseteq Candidates \X Buckets
    /\ kept \subseteq Buckets
    /\ slot_wpos \in Seq(Buckets) /\ Len(slot_wpos) <= NTrucks
    /\ truck_slot \in [Candidates -> 0 .. Len(slot_wpos)]
    /\ covered \in Seq(BOOLEAN) /\ Len(covered) <= Len(slot_wpos)
    /\ path \in Seq(Candidates) /\ seen \subseteq Candidates
    /\ stage \in {"due", "cover", "search", "done", "assigned"}

CoverInit ==
    /\ bucket \in [Buckets -> [n : 0 .. MaxN, base : 0 .. MaxBase]]
    /\ edges \in SUBSET (Candidates \X Buckets)
    /\ kept = {} /\ slot_wpos = <<>>
    /\ truck_slot = [t \in Candidates |-> 0] /\ covered = <<>>
    /\ path = <<>> /\ seen = {}
    /\ stage = "due"

-----------------------------------------------------------------------------

\* Deadline of the j-th box (from 0) of bucket b.
Deadline(b, j) == bucket[b].base + j * MoveS

\* The boxes of bucket b that are due.
DueSlots(b) == Cardinality({j \in 0 .. bucket[b].n - 1 : Deadline(b, j) <= Cutoff})

DueBuckets == {b \in Buckets : DueSlots(b) > 0}

\* The (stable) sort of allocate_due.
Earlier(b, c) == bucket[b].base < bucket[c].base \/ (bucket[b].base = bucket[c].base /\ b < c)

MutAllOrNothing(acc, slots) == IF slots <= NTrucks - acc THEN slots ELSE 0

\* What the loop of allocate_due gives a bucket.
Allocate(acc, slots) == IF slots <= NTrucks - acc THEN slots ELSE NTrucks - acc

\* One turn of the loop: the next bucket, its slots one after another.
allocate_due ==
    /\ stage = "due" /\ Len(slot_wpos) < NTrucks
    /\ \E b \in DueBuckets \ kept :
        /\ \A c \in DueBuckets \ kept : b = c \/ Earlier(b, c)
        /\ slot_wpos' = slot_wpos \o [k \in 1 .. Allocate(Len(slot_wpos), DueSlots(b)) |-> b]
        /\ kept' = kept \cup {b}
    /\ UNCHANGED <<bucket, edges, truck_slot, covered, path, seen, stage>>

ChooseWork ==
    /\ stage = "due"
    /\ Len(slot_wpos) >= NTrucks \/ DueBuckets \subseteq kept
    /\ stage' = "cover"
    /\ UNCHANGED <<bucket, edges, kept, slot_wpos, truck_slot, covered, path, seen>>

\* The trucks a slot can have.
adj(s) == {t \in Candidates : <<t, slot_wpos[s]>> \in edges}

\* One turn of the loop of deadline_cover: try_slot of the next slot.
CoverSlot ==
    /\ stage = "cover" /\ Len(covered) < Len(slot_wpos)
    /\ stage' = "search" /\ path' = <<>> /\ seen' = {}
    /\ UNCHANGED <<bucket, edges, kept, slot_wpos, truck_slot, covered>>

\* The slot of the k-th call of try_slot, and of the innermost one.
Frame(k) == IF k = 1 THEN Len(covered) + 1 ELSE truck_slot[path[k - 1]]
Here == Frame(Len(path) + 1)

\* The trucks the innermost call has left to ask, and the next one: the edges
\* of a bucket are in the order of the trucks.
Unseen == adj(Here) \ seen
NextTruck(t) == t \in Unseen /\ \A r \in Unseen : t <= r

MutFree(t) == TRUE

Free(t) == truck_slot[t] = 0

\* A free truck: every call on the stack gets the truck it was asking for.
Reassign ==
    /\ stage = "search"
    /\ \E t \in Candidates :
        /\ NextTruck(t) /\ Free(t)
        /\ LET asked == Append(path, t)
           IN truck_slot' = [r \in Candidates |->
                  IF \E k \in DOMAIN asked : asked[k] = r
                  THEN Frame(CHOOSE k \in DOMAIN asked : asked[k] = r) ELSE truck_slot[r]]
    /\ covered' = Append(covered, TRUE) /\ stage' = "cover"
    /\ UNCHANGED <<bucket, edges, kept, slot_wpos, path, seen>>

\* A truck with a slot: that slot is asked to find another one.
Descend ==
    /\ stage = "search"
    /\ \E t \in Candidates :
        /\ NextTruck(t) /\ ~Free(t)
        /\ path' = Append(path, t) /\ seen' = seen \cup {t}
    /\ UNCHANGED <<bucket, edges, kept, slot_wpos, truck_slot, covered, stage>>

\* No truck is left to ask: the innermost call, or the whole search, fails.
GiveUp ==
    /\ stage = "search" /\ Unseen = {}
    /\ IF path = <<>>
         THEN covered' = Append(covered, FALSE) /\ stage' = "cover" /\ UNCHANGED path
         ELSE path' = SubSeq(path, 1, Len(path) - 1) /\ UNCHANGED <<covered, stage>>
    /\ UNCHANGED <<bucket, edges, kept, slot_wpos, truck_slot, seen>>

try_slot == Reassign \/ Descend \/ GiveUp

Finish ==
    /\ stage = "cover" /\ Len(covered) = Len(slot_wpos)
    /\ stage' = "done"
    /\ UNCHANGED <<bucket, edges, kept, slot_wpos, truck_slot, covered, path, seen>>

CoverNext == allocate_due \/ ChooseWork \/ CoverSlot \/ try_slot \/ Finish

CoverSpec == CoverInit /\ [][CoverNext]_coverVars

-----------------------------------------------------------------------------

\* The slots covered so far.
Covered == {s \in 1 .. Len(covered) : covered[s]}

\* A set of slots that trucks can serve together.
Coverable(S) ==
    \E f \in [S -> Candidates] :
        /\ \A s \in S : <<f[s], slot_wpos[s]>> \in edges
        /\ \A s, r \in S : f[s] = f[r] => s = r

\* The trucks always serve exactly the covered slots, each along an edge.
Served ==
    /\ {truck_slot[t] : t \in Candidates} \ {0} = Covered
    /\ \A t, r \in Candidates : truck_slot[t] = truck_slot[r] /\ truck_slot[t] # 0 => t = r
    /\ \A t \in Candidates : truck_slot[t] # 0 => <<t, slot_wpos[truck_slot[t]]>> \in edges

\* The earlier slot goes first: a slot is left out only if no choice of
\* trucks serves it together with the covered slots before it, no covered slot
\* is lost however often its truck is moved, and no larger set of slots can be
\* served (the doc comment of deadline_cover).
EarliestFirst ==
    /\ Served
    /\ \A s \in 1 .. Len(covered) :
        covered[s] <=> Coverable({r \in Covered : r < s} \cup {s})
    /\ (stage = "done") =>
        \A S \in SUBSET (1 .. Len(slot_wpos)) :
            Cardinality(S) > Cardinality(Covered) => ~ Coverable(S)

\* The choice of the slots, at every step.
CoverInv == CoverTypeOK /\ EarliestFirst

\* The boxes that are due.
DueBoxes == {x \in Buckets \X (0 .. MaxN) :
                x[2] < bucket[x[1]].n /\ Deadline(x[1], x[2]) <= Cutoff}

\* The due slots are cut to the number of trucks, and no further.
TrucksAreUsed ==
    (stage # "due") =>
        Len(slot_wpos) = IF Cardinality(DueBoxes) < NTrucks
                         THEN Cardinality(DueBoxes) ELSE NTrucks
=============================================================================
