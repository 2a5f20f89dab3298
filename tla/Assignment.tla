----------------------------- MODULE Assignment -----------------------------
(***************************************************************************)
(* The minimum-cost assignment of trucks to work slots                     *)
(* (crates/api/src/livemap.rs, assign_slots and hungarian), one step per   *)
(* turn of the loops of `hungarian`.  A call comes with any matrix of      *)
(* costs.  Column 0 and row 0 are the code's sentinels; the potentials and *)
(* the alternating path are kept in arrays that are only partly meaningful *)
(* at any moment, which is what the invariants are about.                  *)
(***************************************************************************)
EXTENDS Integers, FiniteSets

CONSTANTS
    MaxTrucks, MaxSlots,
    MaxCost,      \* costs are 0 .. MaxCost,
    Forbidden     \*   or FORBIDDEN_COST for a pair without an edge

Costs == 0 .. MaxCost \cup {Forbidden}

\* A forbidden pair costs more than all the pairs of a matching.
ASSUME AssignmentAssumption ==
    /\ MaxTrucks \in Nat /\ MaxSlots \in Nat /\ MaxCost \in Nat
    /\ Forbidden \in Nat /\ Forbidden > MaxCost * MaxTrucks /\ Forbidden > MaxCost * MaxSlots

VARIABLES
    n_trucks, n_slots,
    cost,             \* c_of
    u, v,             \* potentials of rows and columns
    p,                \* the row a column is given to
    way, minv, used,  \* the search for an alternating path
    i, j0, phase

solverVars == <<n_trucks, n_slots, cost, u, v, p, way, minv, used, i, j0, phase>>

Vehicles == 1 .. n_trucks
Slots  == 1 .. n_slots

\* The smaller side gives the rows.
Transposed == n_trucks > n_slots
n == IF Transposed THEN n_slots ELSE n_trucks
m == IF Transposed THEN n_trucks ELSE n_slots

Cols == 0 .. m

Infinity == Forbidden * (MaxTrucks + MaxSlots + 2)

SolverTypeOK ==
    /\ n_trucks \in 0 .. MaxTrucks /\ n_slots \in 0 .. MaxSlots
    /\ cost \in [Vehicles \X Slots -> Costs]
    /\ u \in [0 .. n -> Int] /\ v \in [Cols -> Int] /\ minv \in [Cols -> Int]
    /\ p \in [Cols -> 0 .. n] /\ way \in [Cols -> Cols]
    /\ used \subseteq Cols /\ i \in 0 .. n /\ j0 \in Cols
    /\ phase \in {"idle", "row", "scan", "augment", "done"}

a(r, c) == IF Transposed THEN cost[<<c, r>>] ELSE cost[<<r, c>>]

SolverInit ==
    /\ n_trucks = 0 /\ n_slots = 0 /\ cost = [x \in {} |-> 0]
    /\ u = [r \in {0} |-> 0] /\ v = u /\ p = u /\ way = u /\ minv = u
    /\ used = {} /\ i = 0 /\ j0 = 0 /\ phase = "idle"

-----------------------------------------------------------------------------

\* assign_slots is called with the matrix c; without trucks or without slots
\* it returns at once.
Call(trucks, slots, c) ==
    /\ n_trucks' = trucks /\ n_slots' = slots /\ cost' = c
    /\ u' = [r \in 0 .. n' |-> 0] /\ v' = [k \in Cols' |-> 0]
    /\ p' = v' /\ way' = v' /\ minv' = v'
    /\ phase' = IF n' = 0 THEN "done" ELSE "row"
    /\ UNCHANGED <<used, i, j0>>

\* The outer loop: the next row asks for a column.
NextRow ==
    /\ phase = "row"
    /\ IF i = n
         THEN phase' = "done" /\ UNCHANGED <<i, p, j0, minv, used>>
         ELSE /\ i' = i + 1 /\ p' = [p EXCEPT ![0] = i + 1] /\ j0' = 0
              /\ minv' = [c \in Cols |-> Infinity] /\ used' = {}
              /\ phase' = "scan"
    /\ UNCHANGED <<n_trucks, n_slots, cost, u, v, way>>

Reduced(r, c) == a(r, c) - u[r] - v[c]

MutRaise(U, delta) == [r \in 0 .. n |-> u[r] + (IF r = p[j0] THEN delta ELSE 0)]

\* u[p[j]] += delta for every used column j.
Raise(U, delta) == [r \in 0 .. n |-> u[r] + delta * Cardinality({c \in U : p[c] = r})]

\* The columns the search may still enter.
Open(U) == (1 .. m) \ U

Reached == used \cup {j0}

\* One turn of the search: the slack of the open columns through the row of
\* column j0, and the first column of least slack.
Scan ==
    /\ phase = "scan"
    /\ LET U     == Reached
           open  == Open(U)
           best  == {c \in open : Reduced(p[j0], c) < minv[c]}
           slack == [c \in Cols |-> IF c \in best THEN Reduced(p[j0], c) ELSE minv[c]]
           j1    == CHOOSE c \in open : \A d \in open :
                        slack[c] < slack[d] \/ (slack[c] = slack[d] /\ c <= d)
           delta == slack[j1]
       IN /\ used' = U
          /\ way' = [c \in Cols |-> IF c \in best THEN j0 ELSE way[c]]
          /\ u' = Raise(U, delta)
          /\ v' = [c \in Cols |-> IF c \in U THEN v[c] - delta ELSE v[c]]
          /\ minv' = [c \in Cols |-> IF c \in U THEN slack[c] ELSE slack[c] - delta]
          /\ j0' = j1
          /\ phase' = IF p[j1] = 0 THEN "augment" ELSE "scan"
    /\ UNCHANGED <<n_trucks, n_slots, cost, p, i>>

\* One turn of the walk back along the path.
Augment ==
    /\ phase = "augment"
    /\ p' = [p EXCEPT ![j0] = p[way[j0]]]
    /\ j0' = way[j0]
    /\ phase' = IF j0' = 0 THEN "row" ELSE "augment"
    /\ UNCHANGED <<n_trucks, n_slots, cost, u, v, way, minv, used, i>>

AnyCall ==
    /\ phase = "idle"
    /\ \E trucks \in 0 .. MaxTrucks, slots \in 0 .. MaxSlots :
          \E c \in [(1 .. trucks) \X (1 .. slots) -> Costs] : Call(trucks, slots, c)

Solve == NextRow \/ Scan \/ Augment

SolverNext == AnyCall \/ Solve

SolverSpec == SolverInit /\ [][SolverNext]_solverVars

-----------------------------------------------------------------------------

MutNotTransposed ==
    {x \in Vehicles \X Slots : p[x[2]] = x[1] /\ cost[x] < Forbidden}

\* The pairs of truck and slot assign_slots returns: those with an edge.
Result ==
    {x \in Vehicles \X Slots :
        /\ IF Transposed THEN p[x[1]] = x[2] ELSE p[x[2]] = x[1]
        /\ cost[x] < Forbidden}

\* The sum of the costs of M, counted in units.
Weight(M) ==
    Cardinality({unit \in M \X (1 .. MaxCost) : cost[unit[1]] >= unit[2]})

\* The matchings of the trucks of S along edges, and every matching.
MatchingsOf(S) ==
    LET given == {f \in [S -> Slots] :
                    \A t \in S : /\ cost[<<t, f[t]>>] < Forbidden
                                 /\ \A r \in S : f[r] = f[t] => r = t}
    IN  {{<<t, f[t]>> : t \in S} : f \in given}

AllMatchings == UNION {MatchingsOf(S) : S \in SUBSET Vehicles}

\* The result joins as many pairs as can be joined, and of the matchings with
\* that many pairs it costs least (the doc comment of assign_slots; the
\* forbidden cost and the transposition must not spoil either).
BestMatching ==
    (phase = "done") =>
        /\ Result \in AllMatchings
        /\ \A M \in AllMatchings :
            \/ Cardinality(M) < Cardinality(Result)
            \/ Cardinality(M) = Cardinality(Result) /\ Weight(M) >= Weight(Result)

\* At every step of the search the potentials prove the assignment so far to
\* be the cheapest one of its rows: no pair is cheaper than its potentials,
\* a chosen pair is exactly as dear, and a column nobody has has none.
Certificate ==
    phase # "idle" =>
        /\ \A r \in 1 .. n, c \in 1 .. m : u[r] + v[c] <= a(r, c)
        /\ \A c \in 1 .. m : p[c] # 0 => u[p[c]] + v[c] = a(p[c], c)
        /\ \A c \in 1 .. m : p[c] = 0 => v[c] = 0

\* The solver returns from every call: the search enters no column twice, and the
\* walk back along the path, which has crossed rows that changed columns since,
\* comes to column 0: no set of columns without it is closed under a step of the
\* walk (the two inner loops of hungarian).
PathEnds ==
    /\ phase = "scan" => j0 \notin used
    /\ phase = "augment" =>
        \A S \in SUBSET Cols : j0 \in S /\ (\A c \in S \ {0} : way[c] \in S) => 0 \in S

\* Each turn of the outer loop leaves the rows so far with a column of their own,
\* and the last one all of them (the doc comment of hungarian).
RowsServed ==
    /\ phase \in {"row", "done"} =>
        /\ \A r \in 1 .. i : \E c \in 1 .. m : p[c] = r
        /\ \A c, d \in 1 .. m : p[c] # 0 /\ p[c] = p[d] => c = d
    /\ phase = "done" => i = n

\* The solver at every turn of its loops: its arrays, its proof, its path, its rows.
SolverInv == SolverTypeOK /\ Certificate /\ PathEnds /\ RowsServed
=============================================================================
