-------------------------- MODULE AssignmentProofs --------------------------
(***************************************************************************)
(* The solver, for every size of the matrix and all its costs: at every     *)
(* turn of its loops the potentials prove the assignment so far, the search *)
(* comes to an end and every row so far has a column of its own.            *)
(*                                                                          *)
(* The invariants that make this inductive: while a path is sought, the     *)
(* columns already entered have rows of their own and hang together by      *)
(* pairs that are exactly as dear as their potentials (Tree), and minv is   *)
(* the slack that is left of every other column (Slack); on the way back    *)
(* the columns that are still to be walked are as they were found.  That    *)
(* a first column is always found rests on the potentials being bounded by  *)
(* the cost of a forbidden pair (INF is never the least slack).             *)
(*                                                                          *)
(* When it is done, the assignment is the best matching: what the potentials*)
(* of the rows add up to is what the given pairs cost, and no matching,     *)
(* with a forbidden pair for each row it leaves out, costs less.            *)
(*                                                                          *)
(* The cover before it, for any edges and deadlines: a slot left out has    *)
(* earlier covered slots with which it competes for fewer trucks (Refused), *)
(* and that stays true however the trucks are moved.  So the trucks of the  *)
(* cover are a matching of the solver's matrix, and its result, which is no *)
(* smaller, gives a truck to every covered slot.                            *)
(***************************************************************************)
EXTENDS Matching, FiniteSetTheorems, WellFoundedInduction, TLAPS

Seeking == phase \in {"scan", "augment"}

\* Between two rows nothing is under way.
AtRest ==
    /\ ~Seeking => j0 = 0
    /\ phase = "idle" => i = 0 /\ used = {}

\* Columns that have a row have their own, but for the column the walk stands at.
OwnRows ==
    LET settled == IF phase = "scan" THEN Cols ELSE Cols \ {j0}
    IN  /\ \A c, d \in settled : p[c] # 0 /\ p[c] = p[d] => c = d
        /\ \A c \in Cols : p[c] <= i
        /\ phase # "idle" => \A r \in 1 .. i : \E c \in settled : p[c] = r
        /\ phase = "done" => i = n

\* The columns entered, in their order, and how each was reached.
Tree ==
    Seeking =>
        /\ i > 0 /\ \A c \in used : p[c] # 0
        /\ IF phase = "scan" THEN p[j0] # 0 ELSE j0 # 0 /\ 0 \in used
        /\ \E rank \in [Cols -> Nat] :
            /\ phase = "scan" => \A c \in used : rank[c] < rank[j0]
            /\ \A c \in Reached \ {0} :
                rank[c] <= rank[j0] => /\ way[c] \in used /\ rank[way[c]] < rank[c]
                                       /\ Reduced(p[way[c]], c) = 0

\* What the search knows of the columns it has not entered.
Slack ==
    phase = "scan" =>
        /\ p[0] = i /\ j0 \notin used
        /\ used = {} => j0 = 0 /\ \A c \in 1 .. m : minv[c] = Infinity
        /\ used # {} =>
            /\ 0 \in used
            /\ \A c \in (1 .. m) \ used :
                /\ way[c] \in used /\ minv[c] = Reduced(p[way[c]], c)
                /\ \A d \in used : minv[c] <= Reduced(p[d], c)

\* The potential of a row is only ever raised.
RaisedOnly == \A r \in 0 .. n : u[r] >= 0

\* The potential of a row stays within that of a forbidden pair, that of a column is
\* only ever lowered.
Bounded == (\A r \in 1 .. n : u[r] <= Forbidden) /\ \A c \in Cols : v[c] <= 0

SolverIInv ==
    /\ SolverTypeOK /\ Certificate
    /\ AtRest /\ OwnRows /\ Tree /\ Slack /\ RaisedOnly /\ Bounded

--------------------------------------------------------------------------------
\* The matrix: never more rows than columns, and nothing dearer than a forbidden pair.
LEMMA Sizes ==
    ASSUME SolverTypeOK
    PROVE  /\ n \in Nat /\ m \in Nat /\ n <= m
           /\ Forbidden \in Nat /\ Infinity \in Int /\ (n > 0 => 2 * Forbidden < Infinity)
           /\ \A r \in 1 .. n, c \in 1 .. m : a(r, c) \in 0 .. Forbidden
<1> USE AssignmentAssumption
<1>1. n_trucks \in 0 .. MaxTrucks /\ n_slots \in 0 .. MaxSlots
      /\ cost \in [Vehicles \X Slots -> Costs]
  BY DEF SolverTypeOK
<1>2. n \in Nat /\ m \in Nat /\ n <= m
  BY <1>1 DEF n, m, Transposed
<1>3. n > 0 => MaxTrucks > 0 /\ MaxSlots > 0
  BY <1>1 DEF n, Transposed
<1>4. n > 0 => MaxCost <= Forbidden /\ Forbidden > 0
  <2>1. \A x \in Nat, y \in Nat : y > 0 => x * y >= x
    <3>1. SUFFICES ASSUME NEW x \in Nat, NEW y \in Nat, y > 0 PROVE x * y >= x
      OBVIOUS
    <3>2. x * y = x * (y - 1) + x /\ x * (y - 1) >= 0
      BY <3>1
    <3> QED
      BY <3>2
  <2>2. \A x \in Nat, y \in Nat : x * y \in Nat
    OBVIOUS
  <2> QED
    BY <1>3, <2>1, <2>2
<1>5. Infinity \in Int /\ (n > 0 => 2 * Forbidden < Infinity)
  <2>1. ASSUME NEW x \in Nat, NEW k \in Nat, x > 0, k > 2
        PROVE  2 * x < x * k
    <3>1. x * k = 2 * x + x * (k - 2) /\ x * (k - 2) > 0
      BY <2>1
    <3> QED
      BY <3>1
  <2>2. MaxTrucks + MaxSlots + 2 \in Nat
    OBVIOUS
  <2>3. n > 0 => MaxTrucks + MaxSlots + 2 > 2
    BY <1>3
  <2> QED
    BY <1>4, <2>1, <2>2, <2>3 DEF Infinity
<1>6. ASSUME NEW r \in 1 .. n, NEW c \in 1 .. m
      PROVE  a(r, c) \in 0 .. Forbidden
  <2>1. a(r, c) \in Costs
    BY <1>1 DEF a, n, m, Transposed, Vehicles, Slots
  <2>2. n > 0
    BY <1>2
  <2> QED
    BY <1>4, <2>1, <2>2 DEF Costs
<1> QED
  BY <1>2, <1>5, <1>6

\* Within a call the matrix does not change.
LEMMA SameMatrix ==
    ASSUME UNCHANGED <<n_trucks, n_slots, cost>>
    PROVE  /\ n' = n /\ m' = m /\ Cols' = Cols /\ Vehicles' = Vehicles /\ Slots' = Slots
           /\ \A r, c : a(r, c)' = a(r, c)
BY DEF n, m, Cols, Transposed, Vehicles, Slots, a

LEMMA SolverStart ==
    ASSUME SolverInit
    PROVE  SolverIInv
<1> USE AssignmentAssumption DEF SolverInit
<1>1. n = 0 /\ m = 0 /\ Cols = {0} /\ 0 .. n = {0} /\ 1 .. n = {} /\ 1 .. m = {}
  BY DEF n, m, Cols, Transposed
<1>2. SolverTypeOK
  BY <1>1 DEF SolverTypeOK, Vehicles, Slots
<1> QED
  BY <1>1, <1>2 DEF SolverIInv, Certificate, AtRest, OwnRows, Tree, Slack, RaisedOnly, Bounded, Seeking

\* A call: nothing is given yet, and no pair is cheaper than nothing.
LEMMA CallStep ==
    ASSUME SolverIInv, AnyCall
    PROVE  SolverIInv'
<1> USE AssignmentAssumption DEF SolverIInv
<1>1. PICK trucks \in 0 .. MaxTrucks, slots \in 0 .. MaxSlots :
        \E c \in [(1 .. trucks) \X (1 .. slots) -> Costs] : Call(trucks, slots, c)
  BY DEF AnyCall
<1>2. PICK table \in [(1 .. trucks) \X (1 .. slots) -> Costs] : Call(trucks, slots, table)
  BY <1>1
<1>3. /\ n_trucks' = trucks /\ n_slots' = slots /\ cost' = table
      /\ u' = [r \in 0 .. n' |-> 0] /\ v' = [k \in Cols' |-> 0]
      /\ p' = v' /\ way' = v' /\ minv' = v'
      /\ phase' = IF n' = 0 THEN "done" ELSE "row"
      /\ used' = used /\ i' = i /\ j0' = j0
  BY <1>2 DEF Call
<1>4. i = 0 /\ used = {} /\ j0 = 0
  BY DEF AnyCall, AtRest, Seeking
<1>5. n' \in Nat /\ m' \in Nat /\ Cols' = 0 .. m'
  BY <1>3 DEF n, m, Cols, Transposed
<1>6. SolverTypeOK'
  <2>1. cost' \in [Vehicles' \X Slots' -> Costs]
    BY <1>3 DEF Vehicles, Slots
  <2> QED
    <3>1. n_trucks' \in 0 .. MaxTrucks /\ n_slots' \in 0 .. MaxSlots
      BY <1>3
    <3>2. /\ 0 \in Cols' /\ 0 \in 0 .. n'
          /\ v' \in [Cols' -> Int] /\ v' \in [Cols' -> Cols'] /\ v' \in [Cols' -> 0 .. n']
          /\ u' \in [0 .. n' -> Int]
      BY <1>3, <1>5
    <3>3. phase' \in {"row", "done"}
      BY <1>3
    <3> QED
      BY <1>3, <1>4, <2>1, <3>1, <3>2, <3>3 DEF SolverTypeOK
<1>7. Certificate'
  <2>1. ASSUME NEW r \in 1 .. n', NEW c \in 1 .. m'
        PROVE  a(r, c)' \in Nat
    <3>1. a(r, c)' \in Costs
      BY <1>3 DEF a, n, m, Transposed
    <3> QED
      BY <3>1 DEF Costs
  <2>2. \A r \in 1 .. n' : u'[r] = 0
    BY <1>3, <1>5
  <2>3. \A c \in 1 .. m' : v'[c] = 0 /\ p'[c] = 0
    BY <1>3, <1>5
  <2> QED
    BY <2>1, <2>2, <2>3 DEF Certificate
<1>8. AtRest' /\ Tree' /\ Slack'
  BY <1>3, <1>4 DEF AtRest, Tree, Slack, Seeking
<1>9. OwnRows' /\ RaisedOnly' /\ Bounded'
  <2>1. \A c \in Cols' : p'[c] = 0
    BY <1>3
  <2>2. Bounded'
    BY <1>3, <1>5 DEF Bounded
  <2> QED
    BY <1>3, <1>4, <1>5, <2>1, <2>2 DEF OwnRows, RaisedOnly
<1> QED
  BY <1>6, <1>7, <1>8, <1>9

\* The next row asks for a column from column 0.
LEMMA RowStep ==
    ASSUME SolverIInv, NextRow
    PROVE  SolverIInv'
<1> USE DEF SolverIInv
<1>1. /\ phase = "row" /\ UNCHANGED <<n_trucks, n_slots, cost, u, v, way>>
      /\ j0 = 0
  BY DEF NextRow, AtRest, Seeking
<1>2. /\ n \in Nat /\ m \in Nat /\ n' = n /\ m' = m /\ Cols' = Cols
      /\ Vehicles' = Vehicles /\ Slots' = Slots
      /\ \A r, c : a(r, c)' = a(r, c)
      /\ Infinity \in Int
  BY <1>1, Sizes, SameMatrix
<1>3. /\ u \in [0 .. n -> Int] /\ v \in [Cols -> Int] /\ minv \in [Cols -> Int]
      /\ p \in [Cols -> 0 .. n] /\ way \in [Cols -> Cols] /\ used \subseteq Cols
      /\ i \in 0 .. n
  BY DEF SolverTypeOK
<1>4. Cols = 0 .. m
  BY DEF Cols
<1>5. CASE i = n
  <2>1. phase' = "done" /\ UNCHANGED <<i, p, j0, minv, used>>
    BY <1>5 DEF NextRow
  <2>2. SolverTypeOK'
    BY <1>1, <1>2, <2>1 DEF SolverTypeOK
  <2>3. Certificate' /\ RaisedOnly' /\ Bounded'
    BY <1>1, <1>2, <2>1 DEF Certificate, RaisedOnly, Bounded
  <2>4. OwnRows'
    BY <1>1, <1>2, <1>5, <2>1 DEF OwnRows
  <2>5. AtRest' /\ Tree' /\ Slack'
    BY <1>1, <2>1 DEF AtRest, Tree, Slack, Seeking
  <2> QED
    BY <2>2, <2>3, <2>4, <2>5
<1>6. CASE i # n
  <2>1. /\ i' = i + 1 /\ p' = [p EXCEPT ![0] = i + 1] /\ j0' = 0
        /\ minv' = [c \in Cols |-> Infinity] /\ used' = {} /\ phase' = "scan"
    BY <1>6 DEF NextRow
  <2>2. /\ i + 1 \in 1 .. n /\ p'[0] = i + 1 /\ 0 \in Cols
        /\ \A c \in Cols : c # 0 => p'[c] = p[c]
        /\ p' \in [Cols -> 0 .. n]
    <3>1. i + 1 \in 1 .. n /\ i + 1 \in 0 .. n /\ 0 \in Cols
      BY <1>2, <1>3, <1>4, <1>6
    <3> QED
      BY <1>3, <2>1, <3>1
  <2>3. SolverTypeOK'
    BY <1>1, <1>2, <2>1, <2>2 DEF SolverTypeOK
  <2>4. Certificate'
    <3>1. \A c \in 1 .. m : p'[c] = p[c]
      BY <1>4, <2>2
    <3> QED
      BY <1>1, <1>2, <3>1 DEF Certificate
  <2>5. OwnRows'
    <3>1. \A c \in Cols \ {0} : p[c] <= i /\ p[c] \in Nat
      BY <1>2, <1>3 DEF OwnRows
    <3>2. \A c, d \in Cols : p'[c] # 0 /\ p'[c] = p'[d] => c = d
      <4>1. \A c, d \in Cols \ {0} : p[c] # 0 /\ p[c] = p[d] => c = d
        BY <1>1 DEF OwnRows
      <4>2. \A c \in Cols \ {0} : p'[c] = p[c] /\ p'[c] # p'[0]
        BY <1>3, <2>2, <3>1
      <4> QED
        BY <2>2, <4>1, <4>2
    <3>3. \A c \in Cols : p'[c] <= i'
      BY <1>3, <2>1, <2>2, <3>1
    <3>4. ASSUME NEW r \in 1 .. (i + 1)
          PROVE  \E c \in Cols : p'[c] = r
      <4>1. CASE r = i + 1
        BY <2>2, <4>1
      <4>2. CASE r # i + 1
        <5>1. r \in 1 .. i
          BY <1>3, <4>2
        <5>2. PICK c \in Cols \ {0} : p[c] = r
          BY <1>1, <5>1 DEF OwnRows
        <5> QED
          BY <2>2, <5>2
      <4> QED
        BY <4>1, <4>2
    <3> QED
      BY <1>2, <2>1, <3>2, <3>3, <3>4 DEF OwnRows
  <2>6. AtRest' /\ RaisedOnly' /\ Bounded'
    BY <1>1, <1>2, <2>1 DEF AtRest, RaisedOnly, Bounded, Seeking
  <2>7. Tree'
    <3>1. i' > 0 /\ p'[j0'] # 0 /\ Reached' = {0}
      BY <1>3, <2>1, <2>2 DEF Reached
    <3>2. [c \in Cols |-> 0] \in [Cols -> Nat]
      OBVIOUS
    <3> QED
      BY <1>2, <2>1, <3>1, <3>2 DEF Tree
  <2>8. Slack'
    BY <1>2, <1>4, <2>1, <2>2 DEF Slack
  <2> QED
    BY <2>3, <2>4, <2>5, <2>6, <2>7, <2>8
<1> QED
  BY <1>5, <1>6

\* A turn of the walk back: column j0 gets the row of the column it was reached
\* from, which is exactly as dear there, and the rest of the path is as it was.
LEMMA AugmentStep ==
    ASSUME SolverIInv, Augment
    PROVE  SolverIInv'
<1> USE DEF SolverIInv
<1> DEFINE from == way[j0]
<1>1. /\ phase = "augment" /\ Seeking
      /\ p' = [p EXCEPT ![j0] = p[from]] /\ j0' = from
      /\ phase' = IF from = 0 THEN "row" ELSE "augment"
      /\ UNCHANGED <<n_trucks, n_slots, cost, u, v, way, minv, used, i>>
  BY DEF Augment, Seeking
<1>2. /\ n \in Nat /\ m \in Nat /\ n' = n /\ m' = m /\ Cols' = Cols
      /\ Vehicles' = Vehicles /\ Slots' = Slots
      /\ \A r, c : a(r, c)' = a(r, c)
  BY <1>1, Sizes, SameMatrix
<1>3. /\ u \in [0 .. n -> Int] /\ v \in [Cols -> Int] /\ p \in [Cols -> 0 .. n]
      /\ way \in [Cols -> Cols] /\ used \subseteq Cols /\ i \in 0 .. n /\ j0 \in Cols
  BY DEF SolverTypeOK
<1>4. /\ i > 0 /\ j0 # 0 /\ 0 \in used /\ \A c \in used : p[c] # 0
  BY <1>1 DEF Tree
<1>5. PICK rank \in [Cols -> Nat] :
        \A c \in Reached \ {0} :
            rank[c] <= rank[j0] => /\ way[c] \in used /\ rank[way[c]] < rank[c]
                                   /\ Reduced(p[way[c]], c) = 0
  BY <1>1 DEF Tree
<1>6. /\ from \in used /\ from \in Cols /\ rank[from] < rank[j0] /\ from # j0
      /\ Reduced(p[from], j0) = 0 /\ p[from] # 0 /\ p[from] \in 1 .. n
  <2>1. j0 \in Reached \ {0} /\ rank[j0] \in Nat
    BY <1>3, <1>4 DEF Reached
  <2>2. from \in used /\ rank[from] < rank[j0] /\ Reduced(p[from], j0) = 0
    BY <1>5, <2>1
  <2>3. from \in Cols /\ p[from] # 0
    BY <1>3, <1>4, <2>2
  <2>4. p[from] \in 1 .. n /\ from # j0
    BY <1>2, <1>3, <2>1, <2>2, <2>3
  <2> QED
    BY <2>2, <2>3, <2>4
<1>7. p'[j0] = p[from] /\ \A c \in Cols : c # j0 => p'[c] = p[c]
  BY <1>1, <1>3
<1>8. SolverTypeOK'
  BY <1>1, <1>2, <1>3, <1>6 DEF SolverTypeOK
<1>9. Certificate'
  <2>1. \A c \in 1 .. m : c \in Cols
    BY DEF Cols
  <2>2. j0 \in 1 .. m
    BY <1>2, <1>3, <1>4 DEF Cols
  <2>3. u[p[from]] + v[j0] = a(p[from], j0)
    <3>1. a(p[from], j0) \in Int
      BY <1>6, <2>2, Sizes
    <3>2. u[p[from]] \in Int /\ v[j0] \in Int
      BY <1>3, <1>6
    <3> QED
      BY <1>6, <3>1, <3>2 DEF Reduced
  <2> QED
    BY <1>1, <1>2, <1>6, <1>7, <2>1, <2>3 DEF Certificate
<1>10. OwnRows'
  <2>1. /\ \A c, d \in Cols \ {j0} : p[c] # 0 /\ p[c] = p[d] => c = d
        /\ \A c \in Cols : p[c] <= i
        /\ \A r \in 1 .. i : \E c \in Cols \ {j0} : p[c] = r
    BY <1>1 DEF OwnRows
  <2>2. \A c, d \in Cols \ {from} : p'[c] # 0 /\ p'[c] = p'[d] => c = d
    <3>1. SUFFICES ASSUME NEW c \in Cols \ {from}, NEW d \in Cols \ {from},
                          p'[c] # 0, p'[c] = p'[d], c # d
                   PROVE  FALSE
      OBVIOUS
    <3>2. CASE c = j0
      BY <1>6, <1>7, <2>1, <3>1, <3>2
    <3>3. CASE d = j0
      BY <1>6, <1>7, <2>1, <3>1, <3>3
    <3>4. CASE c # j0 /\ d # j0
      BY <1>7, <2>1, <3>1, <3>4
    <3> QED
      BY <3>2, <3>3, <3>4
  <2>3. \A c \in Cols : p'[c] <= i
    BY <1>6, <1>7, <2>1
  <2>4. ASSUME NEW r \in 1 .. i
        PROVE  \E c \in Cols \ {from} : p'[c] = r
    <3>1. PICK c \in Cols \ {j0} : p[c] = r
      BY <2>1
    <3>2. CASE c = from
      BY <1>3, <1>6, <1>7, <3>1, <3>2
    <3>3. CASE c # from
      BY <1>7, <3>1, <3>3
    <3> QED
      BY <3>2, <3>3
  <2>5. phase' # "scan" /\ phase' # "done" /\ i' = i /\ j0' = from
    BY <1>1
  <2> HIDE DEF from
  <2> QED
    BY <1>2, <2>2, <2>3, <2>4, <2>5 DEF OwnRows
<1>11. AtRest' /\ RaisedOnly' /\ Bounded'
  BY <1>1, <1>2 DEF AtRest, RaisedOnly, Bounded, Seeking
<1>12. Tree'
  <2>1. SUFFICES ASSUME phase' = "augment" PROVE Tree'
    BY <1>1 DEF Tree, Seeking
  <2>2. from # 0
    BY <1>1, <2>1
  <2>3. \A c \in used : p'[c] # 0
    BY <1>3, <1>4, <1>6, <1>7
  <2>4. ASSUME NEW c \in (used \cup {from}) \ {0}, rank[c] <= rank[from]
        PROVE  way[c] \in used /\ rank[way[c]] < rank[c] /\ Reduced(p[way[c]], c)' = 0
    <3>1. c \in Cols /\ rank[c] \in Nat /\ rank[from] \in Nat /\ rank[j0] \in Nat
      BY <1>3, <1>6
    <3>2. c \in Reached \ {0} /\ rank[c] <= rank[j0]
      BY <1>6, <2>4, <3>1 DEF Reached
    <3>3. /\ way[c] \in used /\ rank[way[c]] < rank[c] /\ Reduced(p[way[c]], c) = 0
      BY <1>5, <3>2
    <3>4. way[c] # j0 /\ way[c] \in Cols
      BY <1>3, <1>6, <2>4, <3>1, <3>3
    <3>5. p'[way[c]] = p[way[c]]
      BY <1>7, <3>4
    <3> QED
      BY <1>1, <1>2, <3>3, <3>5 DEF Reduced
  <2>5. /\ j0' = from /\ Reached' = used \cup {from} /\ used' = used /\ way' = way /\ i' = i
    BY <1>1 DEF Reached
  <2> HIDE DEF from
  <2> QED
    BY <1>2, <1>4, <2>1, <2>2, <2>3, <2>4, <2>5 DEF Tree
<1>13. Slack'
  BY <1>1 DEF Slack
<1> QED
  BY <1>8, <1>9, <1>10, <1>11, <1>12, <1>13

--------------------------------------------------------------------------------
\* While a row asks for a column there is one that nobody has: the rows so far are
\* fewer than the columns.
LEMMA FreeColumn ==
    ASSUME SolverIInv, phase = "scan"
    PROVE  \E c \in 1 .. m : p[c] = 0
<1> USE DEF SolverIInv
<1>1. /\ n \in Nat /\ m \in Nat /\ n <= m /\ i \in 0 .. n /\ p \in [Cols -> 0 .. n]
      /\ Cols = 0 .. m
  BY Sizes DEF SolverTypeOK, Cols
<1>2. SUFFICES ASSUME \A c \in 1 .. m : p[c] # 0
               PROVE  FALSE
  OBVIOUS
<1>3. p[0] = i /\ i > 0
  BY DEF Slack, Tree, Seeking
<1>4. \A c \in Cols : p[c] # 0 /\ p[c] <= i /\ p[c] \in Nat
  <2>1. \A c \in Cols : c = 0 \/ c \in 1 .. m
    BY <1>1
  <2> QED
    BY <1>1, <1>2, <1>3, <2>1 DEF OwnRows
<1>5. p \in [Cols -> 1 .. i]
  BY <1>1, <1>4
<1>6. /\ IsFiniteSet(Cols) /\ Cardinality(Cols) = m + 1
      /\ IsFiniteSet(1 .. i) /\ Cardinality(1 .. i) = i
  BY <1>1, <1>3, FS_Interval
<1>7. \E c, d \in Cols : c # d /\ p[c] = p[d]
  <2>1. Cardinality(1 .. i) < Cardinality(Cols)
    BY <1>1, <1>6
  <2> QED
    BY <1>5, <1>6, <2>1, FS_PigeonHole
<1> QED
  BY <1>4, <1>7 DEF OwnRows

\* The slack of a pair is never negative and always less than INF.
LEMMA SlackBound ==
    ASSUME SolverIInv, phase = "scan", NEW r \in 1 .. n, NEW c \in 1 .. m
    PROVE  Reduced(r, c) \in Nat /\ Reduced(r, c) < Infinity
<1> USE DEF SolverIInv
<1>1. /\ n \in Nat /\ m \in Nat /\ Forbidden \in Nat /\ Infinity \in Int
      /\ 2 * Forbidden < Infinity
      /\ \A x \in 1 .. n, y \in 1 .. m : a(x, y) \in 0 .. Forbidden
  BY Sizes
<1>2. /\ u \in [0 .. n -> Int] /\ v \in [Cols -> Int] /\ p \in [Cols -> 0 .. n]
      /\ 1 .. m \subseteq Cols /\ 1 .. n \subseteq 0 .. n
  <2>1. 1 .. m \subseteq Cols /\ 1 .. n \subseteq 0 .. n
    BY <1>1 DEF Cols
  <2> QED
    BY <2>1 DEF SolverTypeOK
<1>3. \A x \in 1 .. n : u[x] \in Int /\ u[x] >= 0 /\ u[x] <= Forbidden
  <2>1. SUFFICES ASSUME NEW x \in 1 .. n
                 PROVE  u[x] \in Int /\ u[x] >= 0 /\ u[x] <= Forbidden
    OBVIOUS
  <2>2. PICK free \in 1 .. m : p[free] = 0
    BY FreeColumn
  <2>3. u[x] + v[free] <= a(x, free) /\ v[free] = 0
    BY <2>2 DEF Certificate
  <2> QED
    BY <1>1, <1>2, <2>3 DEF RaisedOnly
<1>4. v[c] \in Int /\ v[c] >= 0 - Forbidden
  <2>1. CASE p[c] = 0
    BY <1>1, <2>1 DEF Certificate
  <2>2. CASE p[c] # 0
    <3>1. p[c] \in 1 .. n
      BY <1>1, <1>2, <2>2
    <3>2. u[p[c]] + v[c] = a(p[c], c)
      BY <2>2 DEF Certificate
    <3>3. u[p[c]] \in Int /\ u[p[c]] <= Forbidden /\ a(p[c], c) \in 0 .. Forbidden /\ v[c] \in Int
      BY <1>1, <1>2, <1>3, <3>1
    <3> QED
      BY <1>1, <3>2, <3>3
  <2> QED
    BY <2>1, <2>2
<1>5. u[r] + v[c] <= a(r, c)
  BY DEF Certificate
<1>6. a(r, c) \in 0 .. Forbidden /\ u[r] \in Int /\ u[r] >= 0
  BY <1>1, <1>3
<1> QED
  BY <1>1, <1>4, <1>5, <1>6 DEF Reduced

LEMMA LeastNumber ==
    ASSUME NEW S \in SUBSET Nat, S # {}
    PROVE  \E x \in S : \A y \in S : x <= y
<1> DEFINE R == OpToRel(<, Nat)
<1>1. PICK x \in S : \A y \in S : ~(<<y, x>> \in R)
  BY NatLessThanWellFounded, WFMin
<1>2. \A y \in S : ~(y < x)
  BY <1>1 DEF OpToRel
<1> QED
  BY <1>2

\* The first column of least slack.
LEMMA FirstLeast ==
    ASSUME NEW S \in SUBSET Nat, S # {}, NEW f, \A c \in S : f[c] \in Nat
    PROVE  \E c \in S : \A d \in S : f[c] < f[d] \/ (f[c] = f[d] /\ c <= d)
<1>1. PICK least \in {f[c] : c \in S} : \A y \in {f[c] : c \in S} : least <= y
  <2>1. {f[c] : c \in S} \subseteq Nat /\ {f[c] : c \in S} # {}
    OBVIOUS
  <2> QED
    BY <2>1, LeastNumber
<1>2. PICK first \in {c \in S : f[c] = least} : \A d \in {c \in S : f[c] = least} : first <= d
  <2>1. {c \in S : f[c] = least} \subseteq Nat /\ {c \in S : f[c] = least} # {}
    BY <1>1
  <2> QED
    BY <2>1, LeastNumber
<1>3. ASSUME NEW d \in S
      PROVE  f[first] < f[d] \/ (f[first] = f[d] /\ first <= d)
  <2>1. f[first] = least /\ least <= f[d] /\ f[d] \in Nat /\ least \in Nat
    BY <1>1, <1>2
  <2> QED
    BY <1>2, <2>1
<1> QED
  BY <1>2, <1>3

\* Each row of the tree is raised once: its columns are its own.
LEMMA RaisedOnce ==
    ASSUME SolverIInv, phase = "scan", NEW delta \in Int, NEW r \in 0 .. n
    PROVE  Raise(Reached, delta)[r] = u[r] + IF \E c \in Reached : p[c] = r THEN delta ELSE 0
<1> USE DEF SolverIInv
<1> DEFINE mine == {c \in Reached : p[c] = r}
<1>1. Raise(Reached, delta)[r] = u[r] + delta * Cardinality(mine)
  BY DEF Raise
<1>2. Reached \subseteq Cols /\ \A c \in Reached : p[c] # 0
  BY DEF Reached, SolverTypeOK, Tree, Seeking
<1>3. CASE \E c \in Reached : p[c] = r
  <2>1. PICK c \in Reached : p[c] = r
    BY <1>3
  <2>2. mine = {c}
    BY <1>2, <2>1 DEF OwnRows
  <2>3. Cardinality(mine) = 1
    BY <2>2, FS_Singleton
  <2> QED
    BY <1>1, <2>1, <2>3
<1>4. CASE ~\E c \in Reached : p[c] = r
  <2>1. mine = {}
    BY <1>4
  <2>2. Cardinality(mine) = 0
    BY <2>1, FS_EmptySet
  <2> QED
    BY <1>1, <1>4, <2>2
<1> QED
  BY <1>3, <1>4

\* What a turn of the search finds, in terms of the slack that each open column has
\* left: the columns entered (U), the next one (j1) and how dear it is (delta).
LEMMA TurnFinds ==
    ASSUME SolverIInv, Scan
    PROVE  \E slack \in [Cols -> Int], j1 \in Open(Reached), delta \in Nat :
             /\ \A c \in Open(Reached) :
                   /\ way'[c] \in Reached /\ slack[c] = Reduced(p[way'[c]], c)
                   /\ \A d \in Reached : slack[c] <= Reduced(p[d], c)
                   /\ delta <= slack[c]
             /\ \A c \in Reached : way'[c] = way[c]
             /\ way' \in [Cols -> Cols]
             /\ delta = slack[j1] /\ j0' = j1 /\ used' = Reached
             /\ u' = Raise(Reached, delta)
             /\ v' = [c \in Cols |-> IF c \in Reached THEN v[c] - delta ELSE v[c]]
             /\ minv' = [c \in Cols |-> IF c \in Reached THEN slack[c] ELSE slack[c] - delta]
             /\ phase' = IF p[j1] = 0 THEN "augment" ELSE "scan"
             /\ UNCHANGED <<n_trucks, n_slots, cost, p, i>>
<1> USE DEF SolverIInv
<1> DEFINE U == Reached
           open == Open(U)
           best == {c \in open : Reduced(p[j0], c) < minv[c]}
           slack == [c \in Cols |-> IF c \in best THEN Reduced(p[j0], c) ELSE minv[c]]
           First(c) == \A d \in open : slack[c] < slack[d] \/ (slack[c] = slack[d] /\ c <= d)
           j1 == CHOOSE c \in open : First(c)
           delta == slack[j1]
<1>1. /\ phase = "scan" /\ used' = U
      /\ way' = [c \in Cols |-> IF c \in best THEN j0 ELSE way[c]]
      /\ u' = Raise(U, delta)
      /\ v' = [c \in Cols |-> IF c \in U THEN v[c] - delta ELSE v[c]]
      /\ minv' = [c \in Cols |-> IF c \in U THEN slack[c] ELSE slack[c] - delta]
      /\ j0' = j1
      /\ phase' = IF p[j1] = 0 THEN "augment" ELSE "scan"
      /\ UNCHANGED <<n_trucks, n_slots, cost, p, i>>
  BY DEF Scan
<1>2. /\ m \in Nat /\ Cols = 0 .. m /\ Infinity \in Int
      /\ p \in [Cols -> 0 .. n] /\ way \in [Cols -> Cols] /\ minv \in [Cols -> Int]
      /\ used \subseteq Cols /\ j0 \in Cols /\ n \in Nat
  BY Sizes DEF SolverTypeOK, Cols
<1>3. /\ U = used \cup {j0} /\ U \subseteq Cols
      /\ open = (1 .. m) \ U /\ open \subseteq Cols /\ open \subseteq Nat
  <2>1. U = used \cup {j0} /\ open = (1 .. m) \ U
    BY DEF Reached, Open
  <2>2. \A c \in 1 .. m : c \in Cols /\ c \in Nat
    <3>1. \A c \in 1 .. m : c \in 0 .. m /\ c \in Nat
      BY <1>2
    <3> QED
      BY <1>2, <3>1
  <2> HIDE DEF U, open
  <2> QED
    BY <1>2, <2>1, <2>2
<1>4. \A d \in U : p[d] # 0 /\ p[d] \in 1 .. n
  <2>1. \A d \in U : p[d] # 0
    BY <1>1, <1>3 DEF Tree, Seeking
  <2>2. \A d \in U : p[d] \in 0 .. n
    BY <1>2, <1>3
  <2>3. \A r \in 0 .. n : r # 0 => r \in 1 .. n
    BY <1>2
  <2> HIDE DEF U
  <2> QED
    BY <2>1, <2>2, <2>3
<1>5. open # {}
  <2>1. PICK c \in 1 .. m : p[c] = 0
    BY <1>1, FreeColumn
  <2> QED
    BY <1>3, <1>4, <2>1
<1>6. \A r \in 1 .. n, c \in open : Reduced(r, c) \in Nat /\ Reduced(r, c) < Infinity
  BY <1>1, <1>3, SlackBound
<1> HIDE DEF U, open
<1>7. ASSUME NEW c \in open
      PROVE  /\ way'[c] \in U /\ slack[c] = Reduced(p[way'[c]], c)
             /\ \A d \in U : slack[c] <= Reduced(p[d], c)
             /\ slack[c] \in Nat
  <2>1. /\ slack[c] = IF Reduced(p[j0], c) < minv[c] THEN Reduced(p[j0], c) ELSE minv[c]
        /\ way'[c] = IF Reduced(p[j0], c) < minv[c] THEN j0 ELSE way[c]
    BY <1>1, <1>3
  <2>2. /\ j0 \in U /\ p[j0] \in 1 .. n /\ Reduced(p[j0], c) \in Nat /\ Reduced(p[j0], c) < Infinity
        /\ minv[c] \in Int
    BY <1>2, <1>3, <1>4, <1>6
  <2> HIDE DEF slack
  <2>3. CASE used = {}
    <3>1. minv[c] = Infinity /\ U = {j0}
      BY <1>1, <1>3, <2>3 DEF Slack
    <3> QED
      BY <1>2, <2>1, <2>2, <3>1
  <2>4. CASE used # {}
    <3>1. /\ way[c] \in used /\ minv[c] = Reduced(p[way[c]], c)
          /\ \A d \in used : minv[c] <= Reduced(p[d], c)
      BY <1>1, <1>3, <2>4 DEF Slack
    <3>2. way[c] \in U /\ Reduced(p[way[c]], c) \in Nat
      BY <1>3, <1>4, <1>6, <3>1
    <3>3. \A d \in U : Reduced(p[d], c) \in Nat /\ (d = j0 \/ d \in used)
      BY <1>3, <1>4, <1>6
    <3> QED
      BY <2>1, <2>2, <3>1, <3>2, <3>3
  <2> QED
    BY <2>3, <2>4
<1>8. \A c \in U : c \notin open /\ c \notin best
  BY <1>3 DEF open
<1>9. slack \in [Cols -> Int] /\ way' \in [Cols -> Cols]
  <2>1. \A c \in Cols : slack[c] \in Int
    <3>1. ASSUME NEW c \in best
          PROVE  Reduced(p[j0], c) \in Int
      <4>1. c \in open /\ p[j0] \in 1 .. n
        BY <1>3, <1>4
      <4> HIDE DEF best
      <4> QED
        BY <1>6, <4>1
    <3>2. \A c \in Cols : minv[c] \in Int
      BY <1>2
    <3> HIDE DEF best
    <3> QED
      BY <3>1, <3>2
  <2> QED
    BY <1>1, <1>2, <2>1
<1>10. \A c \in U : way'[c] = way[c]
  BY <1>1, <1>3, <1>8
<1> HIDE DEF slack, best
<1>11. j1 \in open /\ First(j1)
  <2>1. \E c \in open : First(c)
    BY <1>3, <1>5, <1>7, FirstLeast, SMTT(30)
  <2> HIDE DEF First
  <2> QED
    BY <2>1
<1> HIDE DEF j1
<1>12. delta \in Nat /\ \A c \in open : delta <= slack[c]
  BY <1>7, <1>11
<1> QED
  BY <1>1, <1>7, <1>9, <1>10, <1>11, <1>12, SMTT(30) DEF U, open

\* A turn of the search: the rows of the columns entered are raised by the least
\* slack, which no pair of theirs falls short of, and the next column is entered
\* over a pair that is now exactly as dear.
LEMMA ScanStep ==
    ASSUME SolverIInv, Scan
    PROVE  SolverIInv'
<1> USE DEF SolverIInv
<1> DEFINE U == Reached
           open == Open(U)
           raised(r) == \E c \in U : p[c] = r
<1>1. PICK slack \in [Cols -> Int], j1 \in open, delta \in Nat :
             /\ \A c \in open :
                   /\ way'[c] \in U /\ slack[c] = Reduced(p[way'[c]], c)
                   /\ \A d \in U : slack[c] <= Reduced(p[d], c)
                   /\ delta <= slack[c]
             /\ \A c \in U : way'[c] = way[c]
             /\ way' \in [Cols -> Cols]
             /\ delta = slack[j1] /\ j0' = j1 /\ used' = U
             /\ u' = Raise(U, delta)
             /\ v' = [c \in Cols |-> IF c \in U THEN v[c] - delta ELSE v[c]]
             /\ minv' = [c \in Cols |-> IF c \in U THEN slack[c] ELSE slack[c] - delta]
             /\ phase' = IF p[j1] = 0 THEN "augment" ELSE "scan"
             /\ UNCHANGED <<n_trucks, n_slots, cost, p, i>>
  BY TurnFinds
<1>2. phase = "scan" /\ Seeking
  BY DEF Scan, Seeking
<1>3. /\ n \in Nat /\ m \in Nat /\ n' = n /\ m' = m /\ Cols' = Cols
      /\ Vehicles' = Vehicles /\ Slots' = Slots
      /\ \A r, c : a(r, c)' = a(r, c)
      /\ \A r \in 1 .. n, c \in 1 .. m : a(r, c) \in Int
  BY <1>1, Sizes, SameMatrix
<1>4. /\ u \in [0 .. n -> Int] /\ v \in [Cols -> Int] /\ p \in [Cols -> 0 .. n]
      /\ used \subseteq Cols /\ j0 \in Cols /\ i \in 0 .. n
  BY DEF SolverTypeOK
<1>5. /\ U = used \cup {j0} /\ open = (1 .. m) \ U
      /\ 0 \in Cols /\ (\A c \in 1 .. m : c \in Cols)
      /\ \A c \in Cols \ {0} : c \in 1 .. m
  BY <1>3 DEF Reached, Open, Cols
<1>6. U \subseteq Cols /\ j1 \in 1 .. m /\ j1 \in Cols /\ j1 # 0 /\ j1 \notin U
  <2>1. j1 \in 1 .. m /\ j1 \notin U
    BY <1>5
  <2> HIDE DEF U, open
  <2> QED
    BY <1>3, <1>4, <1>5, <2>1
<1>7. \A d \in U : p[d] # 0 /\ p[d] \in 1 .. n
  <2>1. \A d \in U : p[d] # 0
    BY <1>2, <1>5 DEF Tree
  <2>2. \A d \in U : p[d] \in 0 .. n
    BY <1>4, <1>6
  <2>3. \A r \in 0 .. n : r # 0 => r \in 1 .. n
    BY <1>3
  <2> HIDE DEF U
  <2> QED
    BY <2>1, <2>2, <2>3
<1>8. 0 \in U
  BY <1>2, <1>5 DEF Slack
<1>9. /\ \A r \in 0 .. n : u'[r] = u[r] + IF raised(r) THEN delta ELSE 0
      /\ u' \in [0 .. n -> Int]
  <2>1. ASSUME NEW r \in 0 .. n
        PROVE  u'[r] = u[r] + IF raised(r) THEN delta ELSE 0
    BY <1>1, <1>2, RaisedOnce
  <2>2. ASSUME NEW r \in 0 .. n
        PROVE  u[r] + (IF raised(r) THEN delta ELSE 0) \in Int
    <3>1. u[r] \in Int /\ delta \in Int
      BY <1>4
    <3> HIDE DEF raised
    <3> QED
      BY <3>1
  <2>3. u' = [r \in 0 .. n |-> u'[r]]
    BY <1>1 DEF Raise
  <2> HIDE DEF U, open, raised
  <2> QED
    BY <2>1, <2>2, <2>3
<1> HIDE DEF U, open
<1>10. /\ \A c \in Cols : v'[c] = IF c \in U THEN v[c] - delta ELSE v[c]
       /\ v' \in [Cols -> Int] /\ minv' \in [Cols -> Int]
  <2>1. \A c \in Cols : v[c] \in Int /\ slack[c] \in Int /\ delta \in Int
    BY <1>4
  <2>2. /\ v' = [c \in Cols |-> IF c \in U THEN v[c] - delta ELSE v[c]]
        /\ minv' = [c \in Cols |-> IF c \in U THEN slack[c] ELSE slack[c] - delta]
    BY <1>1
  <2>3. \A c \in Cols : (IF c \in U THEN v[c] - delta ELSE v[c]) \in Int
    BY <2>1
  <2>4. \A c \in Cols : (IF c \in U THEN slack[c] ELSE slack[c] - delta) \in Int
    BY <2>1
  <2> QED
    BY <2>2, <2>3, <2>4
<1>11. \A d \in U : raised(p[d])
  OBVIOUS
<1>12. ASSUME NEW c \in Cols \ U, p[c] # 0
       PROVE  ~raised(p[c])
  BY <1>2, <1>6, <1>12 DEF OwnRows
<1> HIDE DEF raised
<1>13. ASSUME NEW r \in 1 .. n, NEW c \in 1 .. m
       PROVE  /\ Reduced(r, c) \in Nat
              /\ Reduced(r, c)' = Reduced(r, c) + (IF c \in U THEN delta ELSE 0)
                                                - (IF raised(r) THEN delta ELSE 0)
  <2>1. Reduced(r, c) \in Nat
    BY <1>2, SlackBound
  <2>2. r \in 0 .. n /\ c \in Cols
    BY <1>5
  <2>3. /\ u'[r] = u[r] + (IF raised(r) THEN delta ELSE 0)
        /\ v'[c] = IF c \in U THEN v[c] - delta ELSE v[c]
        /\ u[r] \in Int /\ v[c] \in Int /\ a(r, c) \in Int /\ a(r, c)' = a(r, c)
    BY <1>3, <1>4, <1>9, <1>10, <2>2
  <2>4. Reduced(r, c)' = a(r, c)' - u'[r] - v'[c] /\ Reduced(r, c) = a(r, c) - u[r] - v[c]
    BY DEF Reduced
  <2>5. delta \in Int
    OBVIOUS
  <2> QED
    BY <2>1, <2>3, <2>4, <2>5
<1>14. SolverTypeOK'
  <2>1. phase' \in {"idle", "row", "scan", "augment", "done"}
    BY <1>1
  <2>2. n_trucks' \in 0 .. MaxTrucks /\ n_slots' \in 0 .. MaxSlots
    BY <1>1 DEF SolverTypeOK
  <2>3. cost' \in [Vehicles' \X Slots' -> Costs]
    BY <1>1, <1>3 DEF SolverTypeOK
  <2>4. p' \in [Cols' -> 0 .. n'] /\ i' \in 0 .. n' /\ used' \subseteq Cols' /\ j0' \in Cols'
    BY <1>1, <1>3, <1>4, <1>6
  <2>5. /\ u' \in [0 .. n' -> Int] /\ v' \in [Cols' -> Int] /\ minv' \in [Cols' -> Int]
        /\ way' \in [Cols' -> Cols']
    BY <1>1, <1>3, <1>9, <1>10
  <2> QED
    BY <2>1, <2>2, <2>3, <2>4, <2>5 DEF SolverTypeOK
<1>15. Certificate'
  <2>1. ASSUME NEW r \in 1 .. n, NEW c \in 1 .. m
        PROVE  Reduced(r, c)' >= 0
    <3>1. CASE c \in U \/ ~raised(r)
      BY <1>13, <3>1
    <3>2. CASE c \notin U /\ raised(r)
      <4>1. PICK d \in U : p[d] = r
        BY <3>2 DEF raised
      <4>2. c \in open
        BY <1>5, <3>2 DEF open, U
      <4>3. slack[c] <= Reduced(r, c) /\ delta <= slack[c] /\ slack[c] \in Int
        BY <1>1, <1>5, <4>1, <4>2
      <4> QED
        BY <1>13, <3>2, <4>3
    <3> QED
      BY <3>1, <3>2
  <2>2. ASSUME NEW c \in 1 .. m, p[c] # 0
        PROVE  Reduced(p[c], c)' = 0 /\ p[c] \in 1 .. n
    <3>1. c \in Cols /\ p[c] \in 1 .. n
      <4>1. c \in Cols /\ p[c] \in 0 .. n
        BY <1>4, <1>5
      <4> QED
        BY <1>3, <2>2, <4>1
    <3>2. u[p[c]] + v[c] = a(p[c], c)
      BY <1>2, <2>2 DEF Certificate
    <3>3. Reduced(p[c], c) = 0
      <4>1. u[p[c]] \in Int /\ v[c] \in Int /\ a(p[c], c) \in Int
        BY <1>3, <1>4, <3>1
      <4> QED
        BY <3>2, <4>1 DEF Reduced
    <3>4. c \in U <=> raised(p[c])
      BY <1>11, <1>12, <2>2, <3>1
    <3>5. p'[c] = p[c]
      BY <1>1
    <3> QED
      BY <1>1, <1>13, <3>1, <3>3, <3>4, <3>5
  <2>3. ASSUME NEW c \in 1 .. m, p[c] = 0
        PROVE  v'[c] = 0
    <3>1. c \notin U /\ v[c] = 0 /\ c \in Cols
      BY <1>2, <1>5, <1>7, <2>3 DEF Certificate
    <3> QED
      BY <1>10, <3>1
  <2>4. ASSUME NEW r \in 1 .. n, NEW c \in 1 .. m
        PROVE  /\ u'[r] \in Int /\ v'[c] \in Int /\ a(r, c)' \in Int
               /\ Reduced(r, c)' = a(r, c)' - u'[r] - v'[c]
    <3>1. r \in 0 .. n /\ c \in Cols
      BY <1>5
    <3> QED
      BY <1>3, <1>9, <1>10, <3>1 DEF Reduced
  <2>5. \A r \in 1 .. n, c \in 1 .. m : u'[r] + v'[c] <= a(r, c)'
    BY <2>1, <2>4
  <2>6. \A c \in 1 .. m : p[c] # 0 => u'[p[c]] + v'[c] = a(p[c], c)'
    <3>1. SUFFICES ASSUME NEW c \in 1 .. m, p[c] # 0
                   PROVE  u'[p[c]] + v'[c] = a(p[c], c)'
      BY <1>1
    <3>2. Reduced(p[c], c)' = 0 /\ p[c] \in 1 .. n /\ p'[c] = p[c]
      BY <1>1, <2>2, <3>1
    <3>3. PICK r \in 1 .. n : r = p[c]
      BY <3>2
    <3>4. /\ u'[r] \in Int /\ v'[c] \in Int /\ a(r, c)' \in Int
          /\ Reduced(r, c)' = a(r, c)' - u'[r] - v'[c]
      BY <2>4
    <3>5. p'[c] = r /\ Reduced(r, c)' = 0
      BY <3>2, <3>3
    <3>6. u'[r] + v'[c] = a(r, c)'
      BY <3>4, <3>5
    <3> QED
      BY <3>3, <3>5, <3>6
  <2>7. \A r \in 1 .. n', c \in 1 .. m' : u'[r] + v'[c] <= a(r, c)'
    BY <1>3, <2>5
  <2>8. \A c \in 1 .. m' : p'[c] # 0 => u'[p'[c]] + v'[c] = a(p[c], c)'
    <3>1. p' = p /\ 1 .. m' = 1 .. m
      BY <1>1, <1>3
    <3> QED
      BY <2>6, <3>1
  <2>9. \A c \in 1 .. m' : p'[c] = 0 => v'[c] = 0
    BY <1>1, <1>3, <2>3
  <2> QED
    BY <2>7, <2>8, <2>9 DEF Certificate
<1>16. OwnRows'
  <2>1. /\ \A c, d \in Cols : p[c] # 0 /\ p[c] = p[d] => c = d
        /\ \A c \in Cols : p[c] <= i
        /\ \A r \in 1 .. i : \E c \in Cols : p[c] = r
    BY <1>2 DEF OwnRows
  <2>2. phase' \in {"scan", "augment"} /\ (phase' = "augment" => p[j1] = 0)
    BY <1>1
  <2>3. \A r \in 1 .. i : \E c \in Cols : p[c] = r /\ (phase' = "augment" => c # j1)
    <3>1. \A r \in 1 .. i : r # 0
      BY <1>4
    <3> QED
      BY <2>1, <2>2, <3>1
  <2>4. p' = p /\ i' = i /\ j0' = j1
    BY <1>1
  <2> QED
    BY <1>3, <2>1, <2>2, <2>3, <2>4 DEF OwnRows
<1>17. AtRest' /\ RaisedOnly'
  <2>1. \A r \in 0 .. n : u[r] \in Int /\ u[r] >= 0
    BY <1>4 DEF RaisedOnly
  <2>2. \A r \in 0 .. n : u'[r] >= 0
    BY <1>9, <2>1
  <2> QED
    BY <1>1, <1>3, <2>2 DEF AtRest, RaisedOnly, Seeking
<1>21. Bounded'
  <2>1. PICK free \in 1 .. m : p[free] = 0
    BY <1>2, FreeColumn
  <2>2. ASSUME NEW r \in 1 .. n
        PROVE  u'[r] <= Forbidden
    <3>1. u'[r] + v'[free] <= a(r, free)' /\ v'[free] = 0
      BY <1>1, <1>3, <1>15, <2>1 DEF Certificate
    <3>2. a(r, free)' \in 0 .. Forbidden /\ Forbidden \in Nat
      BY <1>3, Sizes
    <3>3. u'[r] \in Int
      BY <1>3, <1>9
    <3> QED
      BY <3>1, <3>2, <3>3
  <2>3. ASSUME NEW c \in Cols
        PROVE  v'[c] <= 0
    <3>1. v[c] \in Int /\ v[c] <= 0
      BY <1>4 DEF Bounded
    <3> QED
      BY <1>10, <3>1
  <2> QED
    BY <1>3, <2>2, <2>3 DEF Bounded
<1>18. \A c \in open : way'[c] \in U /\ Reduced(p[way[c]], c)' = slack[c] - delta
  <2>1. SUFFICES ASSUME NEW c \in open
                 PROVE  way'[c] \in U /\ Reduced(p[way[c]], c)' = slack[c] - delta
    OBVIOUS
  <2>2. c \in 1 .. m /\ c \notin U /\ way'[c] \in U /\ slack[c] = Reduced(p[way'[c]], c)
    BY <1>1, <1>5 DEF U, open
  <2>3. p[way'[c]] \in 1 .. n /\ raised(p[way'[c]]) /\ p' = p
    BY <1>1, <1>7, <1>11, <2>2
  <2>4. PICK r \in 1 .. n : r = p[way'[c]]
    BY <2>3
  <2>5. Reduced(r, c)' = Reduced(r, c) - delta /\ Reduced(r, c) = slack[c]
    BY <1>13, <2>2, <2>3, <2>4
  <2>6. p'[way'[c]] = r
    BY <2>3, <2>4
  <2> QED
    BY <2>2, <2>5, <2>6
<1>19. Tree'
  <2>1. PICK rank \in [Cols -> Nat] :
          /\ \A c \in used : rank[c] < rank[j0]
          /\ \A c \in U \ {0} :
              rank[c] <= rank[j0] => /\ way[c] \in used /\ rank[way[c]] < rank[c]
                                     /\ Reduced(p[way[c]], c) = 0
    BY <1>2 DEF Tree, U
  <2> DEFINE longer == [rank EXCEPT ![j1] = rank[j0] + 1]
  <2>2. /\ longer \in [Cols -> Nat] /\ longer[j1] = rank[j0] + 1
        /\ \A c \in U : longer[c] = rank[c] /\ rank[c] <= rank[j0]
    <3>1. rank[j0] \in Nat /\ \A c \in U : rank[c] \in Nat /\ c # j1
      BY <1>4, <1>6
    <3>2. \A c \in U : rank[c] <= rank[j0]
      BY <1>5, <2>1, <3>1
    <3> QED
      BY <1>6, <3>1, <3>2
  <2> HIDE DEF longer
  <2>3. ASSUME NEW c \in (U \cup {j1}) \ {0}
        PROVE  way'[c] \in U /\ longer[way'[c]] < longer[c] /\ Reduced(p[way[c]], c)' = 0
    <3>1. CASE c = j1
      <4>1. way'[j1] \in U /\ Reduced(p[way[j1]], j1)' = slack[j1] - delta
        BY <1>18
      <4>2. slack[j1] - delta = 0
        BY <1>1
      <4>3. longer[way'[j1]] < longer[j1]
        <5>1. rank[j0] \in Nat /\ rank[way'[j1]] \in Nat
          BY <1>4, <1>6, <4>1
        <5> QED
          BY <2>2, <4>1, <5>1
      <4> QED
        BY <1>1, <3>1, <4>1, <4>2, <4>3
    <3>2. CASE c \in U
      <4>1. way[c] \in U /\ rank[way[c]] < rank[c] /\ Reduced(p[way[c]], c) = 0 /\ way'[c] = way[c]
        BY <1>1, <1>5, <2>1, <2>2, <2>3, <3>2
      <4>2. c \in 1 .. m /\ p[way[c]] \in 1 .. n /\ raised(p[way[c]]) /\ p' = p
        BY <1>1, <1>5, <1>6, <1>7, <1>11, <2>3, <3>2, <4>1
      <4> DEFINE r == p[way[c]]
      <4>3. Reduced(r, c)' = 0
        <5>1. p'[way'[c]] = r
          BY <4>1, <4>2
        <5> HIDE DEF r
        <5> QED
          BY <1>13, <3>2, <4>1, <4>2 DEF r
      <4>4. longer[way[c]] < longer[c]
        BY <2>2, <3>2, <4>1
      <4> QED
        BY <4>1, <4>2, <4>3, <4>4
    <3> QED
      BY <2>3, <3>1, <3>2
  <2>4. /\ used' = U /\ j0' = j1 /\ Reached' = U \cup {j1} /\ p' = p /\ i' = i
        /\ phase' = IF p[j1] = 0 THEN "augment" ELSE "scan"
    BY <1>1 DEF Reached
  <2>5. i > 0 /\ \A c \in U : longer[c] < longer[j1]
    <3>1. rank[j0] \in Nat /\ \A c \in U : rank[c] \in Nat
      BY <1>4, <1>6
    <3> QED
      BY <1>2, <2>2, <3>1 DEF Tree
  <2>6. longer \in [Cols' -> Nat]
    BY <1>3, <2>2
  <2> QED
    BY <1>6, <1>7, <1>8, <2>3, <2>4, <2>5, <2>6 DEF Tree
<1>20. Slack'
  <2>1. p' = p /\ i' = i /\ used' = U /\ j0' = j1 /\ p[0] = i
    BY <1>1, <1>2 DEF Slack
  <2>2. ASSUME NEW c \in (1 .. m) \ U
        PROVE  /\ way'[c] \in U /\ minv'[c] = Reduced(p[way[c]], c)'
               /\ \A d \in U : minv'[c] <= Reduced(p[d], c)'
    <3>1. c \in open /\ c \in Cols
      BY <1>5 DEF U, open
    <3>2. minv'[c] = slack[c] - delta
      BY <1>1, <2>2, <3>1
    <3>3. ASSUME NEW d \in U
          PROVE  minv'[c] <= Reduced(p[d], c)'
      <4>1. p[d] \in 1 .. n /\ raised(p[d]) /\ slack[c] <= Reduced(p[d], c) /\ slack[c] \in Int
        BY <1>1, <1>7, <1>11, <3>1
      <4> DEFINE r == p[d]
      <4>2. Reduced(r, c)' = Reduced(r, c) - delta /\ Reduced(r, c) \in Nat
        <5> HIDE DEF r
        <5> QED
          BY <1>13, <2>1, <2>2, <4>1 DEF r
      <4> QED
        BY <2>1, <3>2, <4>1, <4>2
    <3> QED
      BY <1>18, <3>1, <3>2, <3>3
  <2>3. j1 \notin U /\ 0 \in U /\ m' = m
    BY <1>3, <1>6, <1>8
  <2> QED
    BY <2>1, <2>2, <2>3 DEF Slack
<1> QED
  BY <1>14, <1>15, <1>16, <1>17, <1>19, <1>20, <1>21

--------------------------------------------------------------------------------
\* A walk that is at rank k of the path can only go on below it, so it ends, and it
\* can end at column 0 only.
LEMMA WalkEnds ==
    ASSUME SolverIInv, phase = "augment", NEW S \in SUBSET Cols,
           j0 \in S, \A c \in S \ {0} : way[c] \in S
    PROVE  0 \in S
<1> USE DEF SolverIInv
<1>1. SUFFICES ASSUME 0 \notin S PROVE FALSE
  OBVIOUS
<1>2. PICK rank \in [Cols -> Nat] :
        \A c \in Reached \ {0} :
            rank[c] <= rank[j0] => way[c] \in used /\ rank[way[c]] < rank[c]
  BY DEF Tree, Seeking
<1> DEFINE ahead == {c \in S \cap Reached : rank[c] <= rank[j0]}
<1>3. j0 \in ahead
  BY DEF Reached
<1>4. PICK c \in ahead : \A d \in ahead : rank[c] <= rank[d]
  <2>1. {rank[d] : d \in ahead} \subseteq Nat /\ {rank[d] : d \in ahead} # {}
    BY <1>3
  <2>2. PICK least \in {rank[d] : d \in ahead} : \A y \in {rank[d] : d \in ahead} : least <= y
    BY <2>1, LeastNumber
  <2> QED
    BY <2>2
<1>5. way[c] \in S /\ way[c] \in used /\ rank[way[c]] < rank[c]
  BY <1>1, <1>2
<1>6. way[c] \in ahead
  <2>1. rank[way[c]] \in Nat /\ rank[c] \in Nat /\ rank[j0] \in Nat
    BY <1>5
  <2> QED
    BY <1>5, <2>1 DEF Reached
<1>7. rank[way[c]] \in Nat /\ rank[c] \in Nat
  BY <1>5
<1> HIDE DEF ahead
<1> QED
  BY <1>4, <1>5, <1>6, <1>7

LEMMA SolverStep == SolverIInv /\ [SolverNext]_solverVars => SolverIInv'
<1>1. ASSUME SolverIInv, UNCHANGED solverVars
      PROVE  SolverIInv'
  <2> USE <1>1 DEF SolverIInv, solverVars
  <2>1. SolverTypeOK' /\ RaisedOnly' /\ Bounded' /\ AtRest'
    BY SameMatrix DEF SolverTypeOK, RaisedOnly, Bounded, AtRest, Seeking
  <2>2. Certificate'
    BY SameMatrix DEF Certificate
  <2>3. OwnRows'
    BY SameMatrix DEF OwnRows
  <2>4. Tree' /\ Slack'
    BY DEF Tree, Slack, Seeking, Reached, Reduced, a, Cols, n, m, Transposed
  <2> QED
    BY <2>1, <2>2, <2>3, <2>4
<1> QED
  BY <1>1, CallStep, RowStep, ScanStep, AugmentStep DEF SolverNext, Solve

--------------------------------------------------------------------------------
\* Sets are compared by pairing their elements off.
LEMMA NoMore ==
    ASSUME NEW S, NEW T, IsFiniteSet(T), NEW f \in [S -> T],
           \A x, y \in S : f[x] = f[y] => x = y
    PROVE  IsFiniteSet(S) /\ Cardinality(S) <= Cardinality(T)
BY FS_Injection DEF Injection, IsInjective

LEMMA TwoParts ==
    ASSUME NEW S, NEW T, IsFiniteSet(S), IsFiniteSet(T), S \cap T = {}
    PROVE  IsFiniteSet(S \cup T) /\ Cardinality(S \cup T) = Cardinality(S) + Cardinality(T)
<1>1. /\ IsFiniteSet(S \cup T)
      /\ Cardinality(S \cup T) = Cardinality(S) + Cardinality(T) - Cardinality(S \cap T)
      /\ Cardinality(S) \in Nat /\ Cardinality(T) \in Nat
  BY FS_Union, FS_CardinalityType
<1>2. Cardinality(S \cap T) = 0
  BY FS_EmptySet
<1> QED BY <1>1, <1>2

\* Sets are as large when their elements are paired off.
LEMMA AsMany ==
    ASSUME NEW S, NEW Y, NEW f \in [S -> Y], IsFiniteSet(S),
           \A x, y \in S : f[x] = f[y] => x = y, \A y \in Y : \E x \in S : f[x] = y
    PROVE  IsFiniteSet(Y) /\ Cardinality(Y) = Cardinality(S)
<1>1. f \in Bijection(S, Y)
  BY DEF Bijection, Injection, Surjection, IsInjective
<1> QED BY <1>1, FS_Bijection DEF ExistsBijection

LEMMA Interval ==
    ASSUME NEW k \in Nat
    PROVE  IsFiniteSet(1 .. k) /\ Cardinality(1 .. k) = k
<1>1. IsFiniteSet(1 .. k) /\ Cardinality(1 .. k) = IF 1 > k THEN 0 ELSE k - 1 + 1
  BY FS_Interval
<1> QED BY <1>1

\* The sum of h over the rows of R is the number of its units.
Load(R, h) == {unit \in R \X (1 .. Forbidden) : unit[2] <= h[unit[1]]}

LEMMA LoadFinite ==
    ASSUME NEW R, IsFiniteSet(R)
    PROVE  /\ \A h : IsFiniteSet(Load(R, h)) /\ Cardinality(Load(R, h)) \in Nat
           /\ IsFiniteSet(R \X (1 .. Forbidden))
           /\ Cardinality(R \X (1 .. Forbidden)) = Cardinality(R) * Forbidden
<1>1. IsFiniteSet(1 .. Forbidden) /\ Cardinality(1 .. Forbidden) = Forbidden
  BY AssignmentAssumption, FS_Interval
<1>2. /\ IsFiniteSet(R \X (1 .. Forbidden))
      /\ Cardinality(R \X (1 .. Forbidden)) = Cardinality(R) * Forbidden
  BY <1>1, FS_Product
<1>3. ASSUME NEW h PROVE Load(R, h) \in SUBSET (R \X (1 .. Forbidden))
  BY DEF Load
<1>4. ASSUME NEW h PROVE IsFiniteSet(Load(R, h))
  BY <1>2, <1>3, FS_Subset
<1> QED BY <1>2, <1>4, FS_CardinalityType

LEMMA LoadSum ==
    ASSUME NEW R, IsFiniteSet(R), NEW h, NEW g, NEW k,
           \A r \in R : /\ h[r] \in 0 .. Forbidden /\ g[r] \in 0 .. Forbidden /\ k[r] \in 0 .. Forbidden
                        /\ h[r] <= g[r] + k[r]
    PROVE  Cardinality(Load(R, h)) <= Cardinality(Load(R, g)) + Cardinality(Load(R, k))
<1> USE AssignmentAssumption
<1> DEFINE low == Load(R, h) \cap Load(R, g)
           high == Load(R, h) \ Load(R, g)
           f == [unit \in high |-> <<unit[1], unit[2] - g[unit[1]]>>]
<1>1. Load(R, h) = low \cup high /\ low \cap high = {} /\ low \in SUBSET Load(R, g)
      /\ low \in SUBSET Load(R, h) /\ high \in SUBSET Load(R, h)
  OBVIOUS
<1>2. \A unit \in high : /\ unit[1] \in R /\ unit[2] \in 1 .. Forbidden
                         /\ unit[2] > g[unit[1]] /\ unit[2] <= h[unit[1]]
                         /\ unit = <<unit[1], unit[2]>>
  BY DEF Load
<1>3. \A unit \in high : f[unit] \in Load(R, k)
  <2> SUFFICES ASSUME NEW unit \in high PROVE <<unit[1], unit[2] - g[unit[1]]>> \in Load(R, k)
    OBVIOUS
  <2>1. unit[2] - g[unit[1]] \in 1 .. Forbidden /\ unit[2] - g[unit[1]] <= k[unit[1]]
    BY <1>2
  <2> HIDE DEF high
  <2> QED BY <1>2, <2>1 DEF Load
<1>4. \A x, y \in high : f[x] = f[y] => x = y
  <2> SUFFICES ASSUME NEW x \in high, NEW y \in high, f[x] = f[y] PROVE x = y
    OBVIOUS
  <2>1. x[1] = y[1] /\ x[2] - g[x[1]] = y[2] - g[y[1]]
    OBVIOUS
  <2>2. x[2] = y[2]
    <3>1. g[x[1]] = g[y[1]] /\ g[x[1]] \in Int /\ x[2] \in Int /\ y[2] \in Int
      BY <1>2, <2>1
    <3> QED BY <2>1, <3>1
  <2> QED BY <1>2, <2>1, <2>2
<1>5. f \in [high -> Load(R, k)]
  BY <1>3
<1> HIDE DEF low, high, f
<1>6. Cardinality(high) <= Cardinality(Load(R, k))
  BY <1>4, <1>5, LoadFinite, NoMore
<1>7. IsFiniteSet(low) /\ IsFiniteSet(high) /\ Cardinality(low) <= Cardinality(Load(R, g))
  BY <1>1, LoadFinite, FS_Subset
<1>8. Cardinality(Load(R, h)) = Cardinality(low) + Cardinality(high)
  BY <1>1, <1>7, TwoParts
<1>9. /\ Cardinality(low) \in Nat /\ Cardinality(high) \in Nat
      /\ Cardinality(Load(R, g)) \in Nat /\ Cardinality(Load(R, k)) \in Nat
  BY <1>7, LoadFinite, FS_CardinalityType
<1> QED BY <1>6, <1>7, <1>8, <1>9

LEMMA LoadSplit ==
    ASSUME NEW R, IsFiniteSet(R), NEW h, NEW g, NEW k,
           \A r \in R : /\ h[r] \in 0 .. Forbidden /\ g[r] \in 0 .. Forbidden /\ k[r] \in 0 .. Forbidden
                        /\ g[r] + k[r] <= h[r]
    PROVE  Cardinality(Load(R, g)) + Cardinality(Load(R, k)) <= Cardinality(Load(R, h))
<1> USE AssignmentAssumption
<1> DEFINE rest == Load(R, h) \ Load(R, g)
           f == [unit \in Load(R, k) |-> <<unit[1], unit[2] + g[unit[1]]>>]
<1>1. \A unit \in Load(R, k) : /\ unit[1] \in R /\ unit[2] \in 1 .. Forbidden
                               /\ unit[2] <= k[unit[1]] /\ unit = <<unit[1], unit[2]>>
  BY DEF Load
<1>2. \A unit \in Load(R, k) : f[unit] \in rest
  <2> SUFFICES ASSUME NEW unit \in Load(R, k) PROVE <<unit[1], unit[2] + g[unit[1]]>> \in rest
    OBVIOUS
  <2>1. /\ unit[2] + g[unit[1]] \in 1 .. Forbidden /\ unit[2] + g[unit[1]] <= h[unit[1]]
        /\ ~(unit[2] + g[unit[1]] <= g[unit[1]])
    BY <1>1
  <2> QED BY <1>1, <2>1 DEF Load
<1>3. \A x, y \in Load(R, k) : f[x] = f[y] => x = y
  <2> SUFFICES ASSUME NEW x \in Load(R, k), NEW y \in Load(R, k), f[x] = f[y] PROVE x = y
    OBVIOUS
  <2>1. x[1] = y[1] /\ x[2] + g[x[1]] = y[2] + g[y[1]]
    OBVIOUS
  <2>2. x[2] = y[2]
    <3>1. g[x[1]] = g[y[1]] /\ g[x[1]] \in Int /\ x[2] \in Int /\ y[2] \in Int
      BY <1>1, <2>1
    <3> QED BY <2>1, <3>1
  <2> QED BY <1>1, <2>1, <2>2
<1>4. f \in [Load(R, k) -> rest]
  BY <1>2
<1>5. Load(R, g) \cup rest = Load(R, h) /\ Load(R, g) \cap rest = {} /\ rest \in SUBSET Load(R, h)
  <2>1. Load(R, g) \subseteq Load(R, h)
    <3> SUFFICES ASSUME NEW unit \in Load(R, g) PROVE unit[2] <= h[unit[1]]
      BY DEF Load
    <3>1. unit[1] \in R /\ unit[2] \in 1 .. Forbidden /\ unit[2] <= g[unit[1]]
      BY DEF Load
    <3> QED BY <3>1
  <2> QED BY <2>1
<1> HIDE DEF rest, f
<1>6. IsFiniteSet(rest)
  BY <1>5, LoadFinite, FS_Subset
<1>7. Cardinality(Load(R, k)) <= Cardinality(rest)
  BY <1>3, <1>4, <1>6, NoMore
<1>8. Cardinality(Load(R, h)) = Cardinality(Load(R, g)) + Cardinality(rest)
  BY <1>5, <1>6, LoadFinite, TwoParts
<1>9. /\ Cardinality(rest) \in Nat
      /\ Cardinality(Load(R, g)) \in Nat /\ Cardinality(Load(R, k)) \in Nat
  BY <1>6, LoadFinite, FS_CardinalityType
<1> QED BY <1>7, <1>8, <1>9

\* The side of the matrix a truck and a slot of a pair are on.
RowOf(x) == IF Transposed THEN x[2] ELSE x[1]
ColOf(x) == IF Transposed THEN x[1] ELSE x[2]

IsMatching(M) ==
    /\ M \subseteq Vehicles \X Slots
    /\ \A x \in M : cost[x] < Forbidden
    /\ \A x, y \in M : x[1] = y[1] \/ x[2] = y[2] => x = y

LEMMA MatchingsAre ==
    ASSUME NEW M
    PROVE  M \in AllMatchings <=> IsMatching(M)
<1>1. ASSUME M \in AllMatchings PROVE IsMatching(M)
  <2>1. PICK S \in SUBSET Vehicles : M \in MatchingsOf(S)
    BY <1>1 DEF AllMatchings
  <2>2. PICK f \in [S -> Slots] : /\ M = {<<t, f[t]>> : t \in S}
                                  /\ \A t \in S : /\ cost[<<t, f[t]>>] < Forbidden
                                                  /\ \A r \in S : f[r] = f[t] => r = t
    BY <2>1 DEF MatchingsOf
  <2> QED BY <2>2 DEF IsMatching
<1>2. ASSUME IsMatching(M) PROVE M \in AllMatchings
  <2> DEFINE S == {x[1] : x \in M}
             f == [t \in S |-> CHOOSE s \in Slots : <<t, s>> \in M]
  <2>1. \A x \in M : x[1] \in Vehicles /\ x[2] \in Slots /\ x = <<x[1], x[2]>>
    BY <1>2 DEF IsMatching
  <2>2. \A t \in S : f[t] \in Slots /\ <<t, f[t]>> \in M
    <3> SUFFICES ASSUME NEW t \in S PROVE \E s \in Slots : <<t, s>> \in M
      OBVIOUS
    <3> QED BY <2>1
  <2>3. \A t, r \in S : f[r] = f[t] => r = t
    <3> SUFFICES ASSUME NEW t \in S, NEW r \in S, f[r] = f[t] PROVE r = t
      OBVIOUS
    <3>1. <<t, f[t]>> \in M /\ <<r, f[r]>> \in M
      BY <2>2
    <3> HIDE DEF f, S
    <3>2. <<t, f[t]>> = <<r, f[r]>>
      BY <1>2, <3>1 DEF IsMatching
    <3> QED BY <3>2
  <2>4. M = {<<t, f[t]>> : t \in S}
    <3>1. \A x \in M : x = <<x[1], f[x[1]]>>
      <4> SUFFICES ASSUME NEW x \in M PROVE x = <<x[1], f[x[1]]>>
        OBVIOUS
      <4>1. x[1] \in S
        OBVIOUS
      <4>2. <<x[1], f[x[1]]>> \in M
        BY <2>2, <4>1
      <4> HIDE DEF f, S
      <4> QED BY <1>2, <4>2 DEF IsMatching
    <3> HIDE DEF f
    <3> QED BY <2>2, <3>1
  <2>5. S \in SUBSET Vehicles /\ f \in [S -> Slots]
    BY <2>1, <2>2
  <2>6. \A t \in S : cost[<<t, f[t]>>] < Forbidden
    BY <1>2, <2>2 DEF IsMatching
  <2> HIDE DEF f, S
  <2>7. M \in MatchingsOf(S)
    BY <2>3, <2>4, <2>5, <2>6 DEF MatchingsOf
  <2> QED BY <2>5, <2>7 DEF AllMatchings
<1> QED BY <1>1, <1>2

\* What is served of a matching M, row by row, and what its columns are worth.
GivenRows(M) == {RowOf(x) : x \in M}
PairAt(M, r) == CHOOSE x \in M : RowOf(x) = r
CostOf(M) == [r \in 1 .. n |-> IF r \in GivenRows(M) THEN cost[PairAt(M, r)] ELSE Forbidden]
Worth(M) == [r \in 1 .. n |-> IF r \in GivenRows(M) THEN 0 - v[ColOf(PairAt(M, r))] ELSE 0]
Credit == [c \in 1 .. m |-> 0 - v[c]]

\* The pairs of a matching by their rows.
LEMMA ByRow ==
    ASSUME SolverTypeOK, NEW M, IsMatching(M)
    PROVE  /\ \A x \in M : /\ RowOf(x) \in 1 .. n /\ ColOf(x) \in 1 .. m /\ RowOf(x) \in GivenRows(M)
                           /\ cost[x] = a(RowOf(x), ColOf(x)) /\ cost[x] \in 0 .. MaxCost
                           /\ PairAt(M, RowOf(x)) = x
           /\ \A x, y \in M : RowOf(x) = RowOf(y) \/ ColOf(x) = ColOf(y) => x = y
           /\ GivenRows(M) \subseteq 1 .. n
           /\ \A r \in GivenRows(M) : PairAt(M, r) \in M /\ RowOf(PairAt(M, r)) = r
           /\ IsFiniteSet(M) /\ Cardinality(M) = Cardinality(GivenRows(M)) /\ Cardinality(M) <= n
<1>0. cost \in [Vehicles \X Slots -> Costs] /\ n \in Nat /\ m \in Nat
  BY Sizes DEF SolverTypeOK
<1>1. \A x \in M : /\ RowOf(x) \in 1 .. n /\ ColOf(x) \in 1 .. m
                   /\ cost[x] = a(RowOf(x), ColOf(x)) /\ cost[x] \in 0 .. MaxCost
  <2> SUFFICES ASSUME NEW x \in M
               PROVE  /\ RowOf(x) \in 1 .. n /\ ColOf(x) \in 1 .. m
                      /\ cost[x] = a(RowOf(x), ColOf(x)) /\ cost[x] \in 0 .. MaxCost
    OBVIOUS
  <2>1. x \in Vehicles \X Slots /\ cost[x] < Forbidden /\ x = <<x[1], x[2]>>
    BY DEF IsMatching
  <2>2. cost[x] \in 0 .. MaxCost
    BY <1>0, <2>1, AssignmentAssumption DEF Costs
  <2> QED BY <2>1, <2>2 DEF RowOf, ColOf, a, n, m, Vehicles, Slots
<1>2. \A x, y \in M : RowOf(x) = RowOf(y) \/ ColOf(x) = ColOf(y) => x = y
  BY DEF IsMatching, RowOf, ColOf
<1>3. \A r \in GivenRows(M) : PairAt(M, r) \in M /\ RowOf(PairAt(M, r)) = r
  BY DEF GivenRows, PairAt
<1>4. \A x \in M : RowOf(x) \in GivenRows(M)
  BY DEF GivenRows
<1>5. \A x \in M : PairAt(M, RowOf(x)) = x
  BY <1>2, <1>3, <1>4
<1>6. GivenRows(M) \subseteq 1 .. n
  BY <1>1 DEF GivenRows
<1>7. IsFiniteSet(1 .. n) /\ Cardinality(1 .. n) = n
  BY <1>0, FS_Interval
<1>8. IsFiniteSet(GivenRows(M)) /\ Cardinality(GivenRows(M)) <= n
  BY <1>6, <1>7, FS_Subset
<1> DEFINE f == [x \in M |-> RowOf(x)]
<1>9. f \in Bijection(M, GivenRows(M))
  <2>1. f \in [M -> GivenRows(M)]
    BY <1>4
  <2>2. \A x, y \in M : f[x] = f[y] => x = y
    BY <1>2
  <2>3. \A r \in GivenRows(M) : \E x \in M : f[x] = r
    BY <1>3
  <2> HIDE DEF f
  <2> QED BY <2>1, <2>2, <2>3 DEF Bijection, Injection, Surjection, IsInjective
<1>10. IsFiniteSet(M) /\ Cardinality(M) = Cardinality(GivenRows(M))
  <2>1. f \in Injection(M, GivenRows(M)) /\ f \in Surjection(M, GivenRows(M))
    BY <1>9 DEF Bijection
  <2> HIDE DEF f
  <2> QED BY <1>8, <2>1, FS_Injection
<1> QED BY <1>1, <1>2, <1>3, <1>4, <1>5, <1>6, <1>8, <1>10

\* The rows of a matching and those it leaves out.
LEMMA RestOfRows ==
    ASSUME SolverTypeOK, NEW M, IsMatching(M)
    PROVE  LET rest == (1 .. n) \ GivenRows(M)
           IN  /\ IsFiniteSet(rest) /\ Cardinality(rest) = n - Cardinality(M)
               /\ IsFiniteSet(rest \X (1 .. Forbidden))
               /\ Cardinality(rest \X (1 .. Forbidden)) = (n - Cardinality(M)) * Forbidden
<1> DEFINE rest == (1 .. n) \ GivenRows(M)
<1>1. n \in Nat /\ IsFiniteSet(1 .. n) /\ Cardinality(1 .. n) = n
  BY Sizes, FS_Interval
<1>2. GivenRows(M) \subseteq 1 .. n /\ Cardinality(M) = Cardinality(GivenRows(M))
  BY ByRow
<1>3. (1 .. n) \cap GivenRows(M) = GivenRows(M)
  BY <1>2
<1>4. IsFiniteSet(rest) /\ Cardinality(rest) = n - Cardinality(M)
  <2>1. /\ IsFiniteSet((1 .. n) \ GivenRows(M))
        /\ Cardinality((1 .. n) \ GivenRows(M)) = Cardinality(1 .. n) - Cardinality((1 .. n) \cap GivenRows(M))
    BY <1>1, FS_Difference
  <2> QED BY <1>1, <1>2, <1>3, <2>1
<1> HIDE DEF rest
<1>5. /\ IsFiniteSet(rest \X (1 .. Forbidden))
      /\ Cardinality(rest \X (1 .. Forbidden)) = Cardinality(rest) * Forbidden
  BY <1>4, LoadFinite
<1> QED BY <1>4, <1>5 DEF rest

UnitsOf(M) == {unit \in M \X (1 .. MaxCost) : cost[unit[1]] >= unit[2]}

LEMMA UnitsFinite ==
    ASSUME NEW M, IsFiniteSet(M)
    PROVE  /\ IsFiniteSet(UnitsOf(M)) /\ Weight(M) = Cardinality(UnitsOf(M)) /\ Weight(M) \in Nat
           /\ Weight(M) <= Cardinality(M) * MaxCost
<1>1. IsFiniteSet(1 .. MaxCost) /\ Cardinality(1 .. MaxCost) = MaxCost
  BY AssignmentAssumption, FS_Interval
<1>2. /\ IsFiniteSet(M \X (1 .. MaxCost))
      /\ Cardinality(M \X (1 .. MaxCost)) = Cardinality(M) * MaxCost
  BY <1>1, FS_Product
<1>3. UnitsOf(M) \in SUBSET (M \X (1 .. MaxCost))
  BY DEF UnitsOf
<1>4. IsFiniteSet(UnitsOf(M)) /\ Cardinality(UnitsOf(M)) <= Cardinality(M) * MaxCost
  BY <1>2, <1>3, FS_Subset
<1>5. Weight(M) = Cardinality(UnitsOf(M))
  BY DEF Weight, UnitsOf
<1> QED BY <1>4, <1>5, FS_CardinalityType

\* Row by row a matching costs its weight, and a forbidden pair for each row without one.
LEMMA CostAtMost ==
    ASSUME SolverTypeOK, NEW M, IsMatching(M)
    PROVE  Cardinality(Load(1 .. n, CostOf(M))) <= Weight(M) + (n - Cardinality(M)) * Forbidden
<1> USE AssignmentAssumption
<1> DEFINE rest == ((1 .. n) \ GivenRows(M)) \X (1 .. Forbidden)
           mine == {unit \in Load(1 .. n, CostOf(M)) : unit[1] \in GivenRows(M)}
           others == {unit \in Load(1 .. n, CostOf(M)) : unit[1] \notin GivenRows(M)}
           f == [unit \in mine |-> <<PairAt(M, unit[1]), unit[2]>>]
<1>1. n \in Nat /\ IsFiniteSet(1 .. n)
  BY Sizes, FS_Interval
<1>2. /\ Load(1 .. n, CostOf(M)) = mine \cup others /\ mine \cap others = {}
      /\ mine \in SUBSET Load(1 .. n, CostOf(M)) /\ others \in SUBSET Load(1 .. n, CostOf(M))
      /\ others \in SUBSET rest
  BY DEF Load
<1>3. \A unit \in mine : /\ unit = <<unit[1], unit[2]>> /\ unit[1] \in GivenRows(M) /\ unit[2] \in 1 .. Forbidden
                         /\ unit[2] <= cost[PairAt(M, unit[1])]
  BY DEF Load, CostOf
<1>4. f \in [mine -> UnitsOf(M)]
  <2> SUFFICES ASSUME NEW unit \in mine PROVE <<PairAt(M, unit[1]), unit[2]>> \in UnitsOf(M)
    OBVIOUS
  <2>1. PairAt(M, unit[1]) \in M /\ cost[PairAt(M, unit[1])] \in 0 .. MaxCost
    BY <1>3, ByRow
  <2>2. unit[2] \in 1 .. MaxCost /\ cost[PairAt(M, unit[1])] >= unit[2]
    BY <1>3, <2>1
  <2> HIDE DEF mine
  <2> QED BY <2>1, <2>2 DEF UnitsOf
<1>5. \A x, y \in mine : f[x] = f[y] => x = y
  <2> SUFFICES ASSUME NEW x \in mine, NEW y \in mine, f[x] = f[y] PROVE x = y
    OBVIOUS
  <2>1. PairAt(M, x[1]) = PairAt(M, y[1]) /\ x[2] = y[2]
    OBVIOUS
  <2>2. x[1] = y[1]
    BY <1>3, <2>1, ByRow
  <2> HIDE DEF mine, f
  <2> QED BY <1>3, <2>1, <2>2
<1> HIDE DEF mine, others, f, rest
<1>6. IsFiniteSet(UnitsOf(M)) /\ Weight(M) = Cardinality(UnitsOf(M)) /\ Weight(M) \in Nat
  BY ByRow, UnitsFinite
<1>7. IsFiniteSet(mine) /\ Cardinality(mine) <= Weight(M)
  BY <1>4, <1>5, <1>6, NoMore
<1>8. IsFiniteSet(rest) /\ Cardinality(rest) = (n - Cardinality(M)) * Forbidden
  BY RestOfRows DEF rest
<1>9. IsFiniteSet(others) /\ Cardinality(others) <= Cardinality(rest)
  BY <1>2, <1>8, FS_Subset
<1>10. Cardinality(Load(1 .. n, CostOf(M))) = Cardinality(mine) + Cardinality(others)
  BY <1>2, <1>7, <1>9, TwoParts
<1>11. Cardinality(mine) \in Nat /\ Cardinality(others) \in Nat /\ Cardinality(rest) \in Nat
  BY <1>7, <1>8, <1>9, FS_CardinalityType
<1> DEFINE load == Cardinality(Load(1 .. n, CostOf(M)))
           nr == (n - Cardinality(M)) * Forbidden
<1>12. load = Cardinality(mine) + Cardinality(others) /\ Cardinality(rest) = nr
  BY <1>8, <1>10
<1> HIDE DEF load, nr
<1>13. load <= Weight(M) + nr
  BY <1>6, <1>7, <1>9, <1>11, <1>12
<1> QED BY <1>13 DEF load, nr

LEMMA CostAtLeast ==
    ASSUME SolverTypeOK, NEW M, IsMatching(M), NEW h,
           \A r \in 1 .. n : h[r] = IF r \in GivenRows(M) THEN cost[PairAt(M, r)] ELSE Forbidden
    PROVE  Weight(M) + (n - Cardinality(M)) * Forbidden <= Cardinality(Load(1 .. n, h))
<1> USE AssignmentAssumption
<1> DEFINE rest == ((1 .. n) \ GivenRows(M)) \X (1 .. Forbidden)
           mine == Load(1 .. n, h) \ rest
           f == [unit \in UnitsOf(M) |-> <<RowOf(unit[1]), unit[2]>>]
<1>1. n \in Nat /\ IsFiniteSet(1 .. n)
  BY Sizes, FS_Interval
<1>2. rest \subseteq Load(1 .. n, h)
  <2> SUFFICES ASSUME NEW unit \in rest PROVE unit \in Load(1 .. n, h)
    OBVIOUS
  <2>1. unit[1] \in 1 .. n /\ unit[1] \notin GivenRows(M) /\ unit[2] \in 1 .. Forbidden
        /\ unit = <<unit[1], unit[2]>>
    OBVIOUS
  <2>2. unit[2] <= h[unit[1]]
    BY <2>1
  <2> HIDE DEF rest
  <2> QED BY <2>1, <2>2 DEF Load
<1>3. /\ Load(1 .. n, h) = mine \cup rest /\ mine \cap rest = {}
      /\ mine \in SUBSET Load(1 .. n, h)
  BY <1>2
<1>4. \A unit \in UnitsOf(M) : /\ unit = <<unit[1], unit[2]>> /\ unit[1] \in M /\ unit[2] \in 1 .. MaxCost
                               /\ unit[2] <= cost[unit[1]]
  BY DEF UnitsOf
<1>5. f \in [UnitsOf(M) -> mine]
  <2> SUFFICES ASSUME NEW unit \in UnitsOf(M) PROVE <<RowOf(unit[1]), unit[2]>> \in mine
    OBVIOUS
  <2>1. /\ RowOf(unit[1]) \in 1 .. n /\ RowOf(unit[1]) \in GivenRows(M) /\ PairAt(M, RowOf(unit[1])) = unit[1]
        /\ cost[unit[1]] \in 0 .. MaxCost /\ cost[unit[1]] < Forbidden
    BY <1>4, ByRow DEF IsMatching
  <2>2. unit[2] \in 1 .. Forbidden /\ unit[2] <= h[RowOf(unit[1])]
    BY <1>4, <2>1
  <2> QED BY <2>1, <2>2 DEF Load
<1>6. \A x, y \in UnitsOf(M) : f[x] = f[y] => x = y
  <2> SUFFICES ASSUME NEW x \in UnitsOf(M), NEW y \in UnitsOf(M), f[x] = f[y] PROVE x = y
    OBVIOUS
  <2>1. RowOf(x[1]) = RowOf(y[1]) /\ x[2] = y[2]
    OBVIOUS
  <2>2. x[1] = y[1]
    BY <1>4, <2>1, ByRow
  <2> HIDE DEF f
  <2> QED BY <1>4, <2>1, <2>2
<1> HIDE DEF mine, f, rest
<1>7. Weight(M) = Cardinality(UnitsOf(M)) /\ Weight(M) \in Nat
  BY ByRow, UnitsFinite
<1>8. IsFiniteSet(rest) /\ Cardinality(rest) = (n - Cardinality(M)) * Forbidden
  BY RestOfRows DEF rest
<1>9. IsFiniteSet(mine)
  BY <1>1, <1>3, LoadFinite, FS_Subset
<1>10. Weight(M) <= Cardinality(mine)
  BY <1>5, <1>6, <1>7, <1>9, NoMore
<1>11. Cardinality(Load(1 .. n, h)) = Cardinality(mine) + Cardinality(rest)
  BY <1>3, <1>8, <1>9, TwoParts
<1>12. Cardinality(mine) \in Nat /\ Cardinality(rest) \in Nat
  BY <1>8, <1>9, FS_CardinalityType
<1> DEFINE load == Cardinality(Load(1 .. n, h))
           nr == (n - Cardinality(M)) * Forbidden
<1>13. load = Cardinality(mine) + Cardinality(rest) /\ Cardinality(rest) = nr
  BY <1>8, <1>11
<1> HIDE DEF load, nr
<1>14. Weight(M) + nr <= load
  BY <1>7, <1>10, <1>12, <1>13
<1> QED BY <1>14 DEF load, nr

\* The potentials of rows and the credits of columns are costs.
LEMMA PotentialsAreCosts ==
    ASSUME SolverIInv, phase # "idle"
    PROVE  /\ \A r \in 1 .. n : u[r] \in 0 .. Forbidden
           /\ \A c \in 1 .. m : v[c] \in Int /\ 0 - v[c] \in 0 .. Forbidden
<1> USE DEF SolverIInv
<1>1. /\ n \in Nat /\ m \in Nat /\ Forbidden \in Nat
      /\ \A r \in 1 .. n, c \in 1 .. m : a(r, c) \in 0 .. Forbidden
  BY Sizes
<1>2. \A r \in 1 .. n : r \in 0 .. n
  BY <1>1
<1>3. \A c \in 1 .. m : c \in Cols
  BY <1>1 DEF Cols
<1>4. \A r \in 1 .. n : u[r] \in 0 .. Forbidden
  <2> SUFFICES ASSUME NEW r \in 1 .. n PROVE u[r] \in 0 .. Forbidden
    OBVIOUS
  <2>1. u[r] \in Int /\ u[r] >= 0 /\ u[r] <= Forbidden
    BY <1>2 DEF SolverTypeOK, RaisedOnly, Bounded
  <2> QED BY <1>1, <2>1
<1>5. ASSUME NEW c \in 1 .. m PROVE v[c] \in Int /\ 0 - v[c] \in 0 .. Forbidden
  <2>1. v[c] \in Int /\ v[c] <= 0 /\ p[c] \in 0 .. n
    BY <1>3 DEF SolverTypeOK, Bounded
  <2>2. CASE p[c] = 0
    BY <1>1, <2>2 DEF Certificate
  <2>3. CASE p[c] # 0
    <3>1. p[c] \in 1 .. n
      BY <1>1, <2>1, <2>3
    <3>2. u[p[c]] + v[c] = a(p[c], c) /\ a(p[c], c) \in 0 .. Forbidden /\ u[p[c]] \in 0 .. Forbidden
      BY <1>1, <1>4, <2>3, <3>1 DEF Certificate
    <3> QED BY <1>1, <2>1, <3>2
  <2> QED BY <2>2, <2>3
<1> QED BY <1>4, <1>5

\* No matching is worth more than the credit of all columns.
LEMMA WorthAtMost ==
    ASSUME SolverIInv, phase # "idle", NEW M, IsMatching(M)
    PROVE  Cardinality(Load(1 .. n, Worth(M))) <= Cardinality(Load(1 .. m, Credit))
<1> DEFINE f == [unit \in Load(1 .. n, Worth(M)) |-> <<ColOf(PairAt(M, unit[1])), unit[2]>>]
<1>0. SolverTypeOK
  BY DEF SolverIInv
<1>1. \A unit \in Load(1 .. n, Worth(M)) :
        /\ unit = <<unit[1], unit[2]>> /\ unit[1] \in GivenRows(M) /\ unit[2] \in 1 .. Forbidden
        /\ unit[2] <= 0 - v[ColOf(PairAt(M, unit[1]))]
  <2> SUFFICES ASSUME NEW unit \in Load(1 .. n, Worth(M))
               PROVE  /\ unit = <<unit[1], unit[2]>> /\ unit[1] \in GivenRows(M) /\ unit[2] \in 1 .. Forbidden
                      /\ unit[2] <= 0 - v[ColOf(PairAt(M, unit[1]))]
    OBVIOUS
  <2>1. unit = <<unit[1], unit[2]>> /\ unit[1] \in 1 .. n /\ unit[2] \in 1 .. Forbidden
        /\ unit[2] <= Worth(M)[unit[1]]
    BY DEF Load
  <2>2. unit[1] \in GivenRows(M)
    BY <2>1 DEF Worth
  <2> QED BY <2>1, <2>2 DEF Worth
<1>2. \A unit \in Load(1 .. n, Worth(M)) : PairAt(M, unit[1]) \in M /\ ColOf(PairAt(M, unit[1])) \in 1 .. m
  BY <1>0, <1>1, ByRow
<1>3. f \in [Load(1 .. n, Worth(M)) -> Load(1 .. m, Credit)]
  BY <1>1, <1>2 DEF Load, Credit
<1>4. \A x, y \in Load(1 .. n, Worth(M)) : f[x] = f[y] => x = y
  <2> SUFFICES ASSUME NEW x \in Load(1 .. n, Worth(M)), NEW y \in Load(1 .. n, Worth(M)), f[x] = f[y]
               PROVE  x = y
    OBVIOUS
  <2>1. ColOf(PairAt(M, x[1])) = ColOf(PairAt(M, y[1])) /\ x[2] = y[2]
    OBVIOUS
  <2>2. PairAt(M, x[1]) = PairAt(M, y[1])
    BY <1>0, <1>2, <2>1, ByRow
  <2>3. x[1] = y[1]
    BY <1>0, <1>1, <2>2, ByRow
  <2> HIDE DEF f
  <2> QED BY <1>1, <2>1, <2>3
<1>5. m \in Nat /\ IsFiniteSet(1 .. m)
  BY <1>0, Sizes, FS_Interval
<1> HIDE DEF f
<1> QED BY <1>3, <1>4, <1>5, LoadFinite, NoMore

\* What the solver returns: a matching, whose rows have the columns p gives them.
LEMMA ResultMatches ==
    ASSUME SolverIInv, phase = "done"
    PROVE  /\ IsMatching(Result)
           /\ \A c, d \in 1 .. m : p[c] # 0 /\ p[c] = p[d] => c = d
           /\ \A r \in 1 .. n : \E c \in 1 .. m :
                /\ p[c] = r
                /\ a(r, c) = IF r \in GivenRows(Result) THEN cost[PairAt(Result, r)] ELSE Forbidden
<1> USE DEF SolverIInv
<1>1. /\ \A c, d \in Cols \ {0} : p[c] # 0 /\ p[c] = p[d] => c = d
      /\ \A r \in 1 .. n : \E c \in Cols \ {0} : p[c] = r
  BY DEF OwnRows, AtRest, Seeking
<1>2. /\ n \in Nat /\ m \in Nat /\ Forbidden \in Nat
      /\ \A r \in 1 .. n, c \in 1 .. m : a(r, c) \in 0 .. Forbidden
  BY Sizes
<1>3. Cols \ {0} = 1 .. m
  BY <1>2 DEF Cols
<1>4. \A x \in Result : /\ x \in Vehicles \X Slots /\ cost[x] < Forbidden /\ p[ColOf(x)] = RowOf(x)
                        /\ RowOf(x) \in 1 .. n /\ ColOf(x) \in 1 .. m
  BY DEF Result, RowOf, ColOf, n, m, Vehicles, Slots
<1>5. IsMatching(Result)
  <2>1. ASSUME NEW x \in Result, NEW y \in Result, x[1] = y[1] \/ x[2] = y[2]
        PROVE  x = y
    <3>1. x = <<x[1], x[2]>> /\ y = <<y[1], y[2]>>
      BY <1>4
    <3>2. RowOf(x) = RowOf(y) \/ ColOf(x) = ColOf(y)
      BY <2>1 DEF RowOf, ColOf
    <3>3. RowOf(x) = RowOf(y) /\ ColOf(x) = ColOf(y)
      <4>1. RowOf(x) # 0
        BY <1>4
      <4> QED BY <1>1, <1>3, <1>4, <3>2, <4>1
    <3>4. x[1] = y[1] /\ x[2] = y[2]
      BY <3>3 DEF RowOf, ColOf
    <3> QED BY <3>1, <3>4
  <2> QED BY <1>4, <2>1 DEF IsMatching
<1>6. ASSUME NEW r \in 1 .. n
      PROVE  \E c \in 1 .. m :
                /\ p[c] = r
                /\ a(r, c) = IF r \in GivenRows(Result) THEN cost[PairAt(Result, r)] ELSE Forbidden
  <2>1. PICK c \in 1 .. m : p[c] = r
    BY <1>1, <1>3
  <2> DEFINE x == IF Transposed THEN <<c, r>> ELSE <<r, c>>
  <2>2. x \in Vehicles \X Slots /\ cost[x] = a(r, c) /\ RowOf(x) = r /\ ColOf(x) = c
    BY DEF a, RowOf, ColOf, n, m, Vehicles, Slots
  <2>3. CASE cost[x] < Forbidden
    <3>1. x \in Result
      BY <2>1, <2>2, <2>3 DEF Result, RowOf, ColOf
    <3>2. r \in GivenRows(Result) /\ PairAt(Result, r) = x
      BY <1>5, <2>2, <3>1, ByRow
    <3> QED BY <2>1, <2>2, <3>2
  <2>4. CASE ~(cost[x] < Forbidden)
    <3>1. r \notin GivenRows(Result)
      <4> SUFFICES ASSUME NEW y \in Result, RowOf(y) = r PROVE FALSE
        BY DEF GivenRows
      <4>1. ColOf(y) = c
        <5>1. r # 0 /\ p[ColOf(y)] = r /\ ColOf(y) \in 1 .. m
          BY <1>4
        <5> QED BY <1>1, <1>3, <2>1, <5>1
      <4>2. cost[y] = a(r, c) /\ cost[y] < Forbidden
        BY <1>4, <1>5, <4>1, ByRow
      <4> QED BY <2>2, <2>4, <4>2
    <3>2. a(r, c) = Forbidden
      BY <1>2, <2>2, <2>4
    <3> QED BY <2>1, <3>1, <3>2
  <2> QED BY <2>3, <2>4
<1> QED BY <1>1, <1>3, <1>5, <1>6

\* Nothing can be saved: the potentials of the rows are the price of what was given,
\* and no other matching costs less than they ask.
LEMMA CheapestOfAll ==
    ASSUME SolverIInv, phase = "done", NEW M, IsMatching(M)
    PROVE  Weight(Result) + (n - Cardinality(Result)) * Forbidden
             <= Weight(M) + (n - Cardinality(M)) * Forbidden
<1> DEFINE R == 1 .. n
           col(r) == CHOOSE c \in 1 .. m :
                        /\ p[c] = r
                        /\ a(r, c) = IF r \in GivenRows(Result) THEN cost[PairAt(Result, r)] ELSE Forbidden
           given == [r \in R |-> a(r, col(r))]
           worth == [r \in R |-> 0 - v[col(r)]]
<1>0. SolverTypeOK /\ Certificate /\ IsMatching(Result)
  BY ResultMatches DEF SolverIInv
<1>1. /\ n \in Nat /\ m \in Nat /\ Forbidden \in Nat /\ IsFiniteSet(R) /\ IsFiniteSet(1 .. m)
      /\ \A r \in 1 .. n, c \in 1 .. m : a(r, c) \in 0 .. Forbidden
  BY <1>0, Sizes, FS_Interval
<1>2. /\ \A r \in 1 .. n : u[r] \in 0 .. Forbidden
      /\ \A c \in 1 .. m : v[c] \in Int /\ 0 - v[c] \in 0 .. Forbidden
  BY PotentialsAreCosts
<1>3. \A r \in R : /\ col(r) \in 1 .. m /\ p[col(r)] = r
                   /\ a(r, col(r)) = IF r \in GivenRows(Result) THEN cost[PairAt(Result, r)] ELSE Forbidden
  BY ResultMatches
<1> HIDE DEF col
<1>4. Cardinality(Load(R, given)) + Cardinality(Load(R, worth)) <= Cardinality(Load(R, u))
  <2>1. ASSUME NEW r \in R
        PROVE  /\ u[r] \in 0 .. Forbidden /\ given[r] \in 0 .. Forbidden /\ worth[r] \in 0 .. Forbidden
               /\ given[r] + worth[r] <= u[r]
    <3>1. u[r] \in 0 .. Forbidden /\ a(r, col(r)) \in 0 .. Forbidden
          /\ v[col(r)] \in Int /\ 0 - v[col(r)] \in 0 .. Forbidden
      BY <1>1, <1>2, <1>3
    <3>2. u[r] + v[col(r)] = a(r, col(r))
      <4>1. r # 0
        BY <1>1
      <4> QED BY <1>0, <1>3, <4>1 DEF Certificate
    <3>3. given[r] = a(r, col(r)) /\ worth[r] = 0 - v[col(r)]
      OBVIOUS
    <3> QED BY <3>1, <3>2, <3>3
  <2> HIDE DEF given, worth
  <2> QED BY <1>1, <2>1, LoadSplit
<1>5. Cardinality(Load(R, u)) <= Cardinality(Load(R, CostOf(M))) + Cardinality(Load(R, Worth(M)))
  <2>1. ASSUME NEW r \in R
        PROVE  /\ u[r] \in 0 .. Forbidden /\ CostOf(M)[r] \in 0 .. Forbidden /\ Worth(M)[r] \in 0 .. Forbidden
               /\ u[r] <= CostOf(M)[r] + Worth(M)[r]
    <3>1. CASE r \in GivenRows(M)
      <4> DEFINE c == ColOf(PairAt(M, r))
      <4>1. c \in 1 .. m /\ cost[PairAt(M, r)] = a(r, c)
        BY <1>0, <3>1, ByRow
      <4>2. CostOf(M)[r] = a(r, c) /\ Worth(M)[r] = 0 - v[c]
        BY <3>1, <4>1 DEF CostOf, Worth
      <4> HIDE DEF c
      <4>3. u[r] + v[c] <= a(r, c)
        BY <1>0, <4>1 DEF Certificate
      <4>4. u[r] \in 0 .. Forbidden /\ a(r, c) \in 0 .. Forbidden
            /\ v[c] \in Int /\ 0 - v[c] \in 0 .. Forbidden
        BY <1>1, <1>2, <4>1
      <4> QED BY <4>2, <4>3, <4>4
    <3>2. CASE r \notin GivenRows(M)
      <4>1. CostOf(M)[r] = Forbidden /\ Worth(M)[r] = 0
        BY <3>2 DEF CostOf, Worth
      <4> QED BY <1>1, <1>2, <4>1
    <3> QED BY <3>1, <3>2
  <2> QED BY <1>1, <2>1, LoadSum
<1>6. Cardinality(Load(1 .. m, Credit)) <= Cardinality(Load(R, worth))
  <2> DEFINE f == [unit \in Load(1 .. m, Credit) |-> <<p[unit[1]], unit[2]>>]
  <2>1. \A unit \in Load(1 .. m, Credit) :
          /\ unit = <<unit[1], unit[2]>> /\ unit[1] \in 1 .. m /\ unit[2] \in 1 .. Forbidden
          /\ unit[2] <= 0 - v[unit[1]]
    BY DEF Load, Credit
  <2>2. \A unit \in Load(1 .. m, Credit) : p[unit[1]] \in R /\ col(p[unit[1]]) = unit[1]
    <3> SUFFICES ASSUME NEW unit \in Load(1 .. m, Credit)
                 PROVE  p[unit[1]] \in R /\ col(p[unit[1]]) = unit[1]
      OBVIOUS
    <3>1. v[unit[1]] # 0
      BY <1>2, <2>1
    <3>2. p[unit[1]] # 0
      BY <1>0, <2>1, <3>1 DEF Certificate
    <3>3. p[unit[1]] \in 0 .. n
      BY <1>0, <1>1, <2>1 DEF SolverTypeOK, Cols
    <3>4. p[unit[1]] \in R
      BY <1>1, <3>2, <3>3
    <3> QED BY <1>3, <2>1, <3>2, <3>4, ResultMatches
  <2>3. f \in [Load(1 .. m, Credit) -> Load(R, worth)]
    <3> SUFFICES ASSUME NEW unit \in Load(1 .. m, Credit)
                 PROVE  <<p[unit[1]], unit[2]>> \in Load(R, worth)
      OBVIOUS
    <3>1. worth[p[unit[1]]] = 0 - v[unit[1]]
      BY <2>2
    <3> HIDE DEF worth, R
    <3> QED BY <2>1, <2>2, <3>1 DEF Load
  <2>4. \A x, y \in Load(1 .. m, Credit) : f[x] = f[y] => x = y
    <3> SUFFICES ASSUME NEW x \in Load(1 .. m, Credit), NEW y \in Load(1 .. m, Credit), f[x] = f[y]
                 PROVE  x = y
      OBVIOUS
    <3>1. p[x[1]] = p[y[1]] /\ x[2] = y[2]
      OBVIOUS
    <3>2. x[1] = y[1]
      BY <2>2, <3>1
    <3> HIDE DEF f
    <3> QED BY <2>1, <3>1, <3>2
  <2> HIDE DEF f, worth, R
  <2> QED BY <1>1, <2>3, <2>4, LoadFinite, NoMore
<1>7. Cardinality(Load(R, Worth(M))) <= Cardinality(Load(1 .. m, Credit))
  BY WorthAtMost
<1>8. Cardinality(Load(R, CostOf(M))) <= Weight(M) + (n - Cardinality(M)) * Forbidden
  BY <1>0, CostAtMost
<1>9. Weight(Result) + (n - Cardinality(Result)) * Forbidden <= Cardinality(Load(R, given))
  <2>1. \A r \in 1 .. n : given[r] = IF r \in GivenRows(Result) THEN cost[PairAt(Result, r)] ELSE Forbidden
    BY <1>3
  <2> HIDE DEF given
  <2> QED BY <1>0, <2>1, CostAtLeast
<1>10. /\ Cardinality(Load(R, given)) \in Nat /\ Cardinality(Load(R, worth)) \in Nat
       /\ Cardinality(Load(R, u)) \in Nat /\ Cardinality(Load(R, CostOf(M))) \in Nat
       /\ Cardinality(Load(R, Worth(M))) \in Nat /\ Cardinality(Load(1 .. m, Credit)) \in Nat
  BY <1>1, LoadFinite
<1>11. /\ Weight(M) + (n - Cardinality(M)) * Forbidden \in Int
       /\ Weight(Result) + (n - Cardinality(Result)) * Forbidden \in Int
  <2>1. \A X : IsMatching(X) => Weight(X) \in Nat /\ Cardinality(X) \in Nat
    BY <1>0, ByRow, UnitsFinite, FS_CardinalityType
  <2> QED BY <1>0, <1>1, <2>1
<1> DEFINE w1 == Weight(Result) + (n - Cardinality(Result)) * Forbidden
           w2 == Weight(M) + (n - Cardinality(M)) * Forbidden
           l1 == Cardinality(Load(R, given))
           l2 == Cardinality(Load(R, worth))
           l3 == Cardinality(Load(R, u))
           l4 == Cardinality(Load(R, CostOf(M)))
           l5 == Cardinality(Load(R, Worth(M)))
           l6 == Cardinality(Load(1 .. m, Credit))
<1>12. /\ w1 <= l1 /\ l1 + l2 <= l3 /\ l3 <= l4 + l5 /\ l6 <= l2 /\ l5 <= l6 /\ l4 <= w2
       /\ w1 \in Int /\ w2 \in Int /\ l1 \in Int /\ l2 \in Int /\ l3 \in Int /\ l4 \in Int
       /\ l5 \in Int /\ l6 \in Int
  BY <1>4, <1>5, <1>6, <1>7, <1>8, <1>9, <1>10, <1>11
<1>13. w1 <= w2
  <2> HIDE DEF w1, w2, l1, l2, l3, l4, l5, l6
  <2> QED BY <1>12
<1> QED BY <1>13

\* A missing pair costs more than all pairs of a matching.
LEMMA SolverBest ==
    ASSUME SolverIInv
    PROVE  BestMatching
<1> USE AssignmentAssumption
<1> SUFFICES ASSUME phase = "done"
             PROVE  /\ Result \in AllMatchings
                    /\ \A M \in AllMatchings :
                        \/ Cardinality(M) < Cardinality(Result)
                        \/ Cardinality(M) = Cardinality(Result) /\ Weight(M) >= Weight(Result)
  BY DEF BestMatching
<1>0. SolverTypeOK /\ IsMatching(Result)
  BY ResultMatches DEF SolverIInv
<1>1. Result \in AllMatchings
  BY <1>0, MatchingsAre
<1>2. ASSUME NEW M \in AllMatchings
      PROVE  \/ Cardinality(M) < Cardinality(Result)
             \/ Cardinality(M) = Cardinality(Result) /\ Weight(M) >= Weight(Result)
  <2> DEFINE q == Cardinality(M)
             k == Cardinality(Result)
             w == Weight(M)
             z == Weight(Result)
  <2>1. IsMatching(M)
    BY MatchingsAre
  <2>2. /\ q \in Nat /\ k \in Nat /\ w \in Nat /\ z \in Nat /\ n \in Nat /\ q <= n
        /\ w <= q * MaxCost
    BY <1>0, <2>1, ByRow, UnitsFinite, Sizes, FS_CardinalityType
  <2>3. z + (n - k) * Forbidden <= w + (n - q) * Forbidden
    BY <2>1, CheapestOfAll
  <2>4. n <= MaxTrucks
    BY <1>0 DEF SolverTypeOK, n, Transposed
  <2> HIDE DEF q, k, w, z
  <2>5. w < Forbidden
    <3>1. q * MaxCost <= MaxTrucks * MaxCost
      <4>1. MaxTrucks - q \in Nat
        BY <2>2, <2>4
      <4>2. (MaxTrucks - q) * MaxCost >= 0
        BY <4>1
      <4>3. (MaxTrucks - q) * MaxCost = MaxTrucks * MaxCost - q * MaxCost
        BY <2>2
      <4> QED BY <2>2, <4>2, <4>3
    <3> QED BY <2>2, <3>1
  <2>6. (n - k) * Forbidden = n * Forbidden - k * Forbidden /\ (n - q) * Forbidden = n * Forbidden - q * Forbidden
    BY <2>2
  <2>7. z + q * Forbidden <= w + k * Forbidden
    BY <2>2, <2>3, <2>6
  <2>8. q <= k
    <3> SUFFICES ASSUME q > k PROVE FALSE
      BY <2>2
    <3>1. (q - k) * Forbidden >= Forbidden
      <4>1. q - k - 1 \in Nat
        BY <2>2
      <4>2. (q - k - 1) * Forbidden >= 0
        BY <4>1
      <4>3. (q - k - 1) * Forbidden = (q - k) * Forbidden - Forbidden
        BY <2>2
      <4> QED BY <2>2, <4>2, <4>3
    <3>2. (q - k) * Forbidden = q * Forbidden - k * Forbidden
      BY <2>2
    <3> QED BY <2>2, <2>5, <2>7, <3>1, <3>2
  <2>9. q = k => z <= w
    <3> SUFFICES ASSUME q = k PROVE z <= w
      OBVIOUS
    <3>1. q * Forbidden = k * Forbidden /\ k * Forbidden \in Int
      BY <2>2
    <3> QED BY <2>2, <2>7, <3>1
  <2> QED BY <2>2, <2>8, <2>9 DEF q, k, w, z
<1> QED BY <1>1, <1>2

--------------------------------------------------------------------------------
LEMMA SolverTold == SolverIInv => SolverInv
<1>1. SUFFICES ASSUME SolverIInv PROVE PathEnds /\ RowsServed
  BY DEF SolverIInv, SolverInv
<1>2. PathEnds
  BY <1>1, WalkEnds DEF PathEnds, SolverIInv, Slack
<1>3. RowsServed
  <2>1. SUFFICES ASSUME phase \in {"row", "done"} PROVE RowsServed
    BY DEF RowsServed
  <2>2. Cols \ {0} = 1 .. m /\ j0 = 0
    <3>1. m \in Nat
      BY <1>1, Sizes DEF SolverIInv
    <3> QED
      BY <1>1, <2>1, <3>1 DEF SolverIInv, AtRest, Seeking, Cols
  <2> QED
    BY <1>1, <2>1, <2>2 DEF RowsServed, SolverIInv, OwnRows
<1> QED
  BY <1>2, <1>3

\* Whatever the sizes and the costs: the potentials prove the assignment of the rows
\* so far to be the cheapest, both inner loops of hungarian end, and each row so far
\* has a column of its own.
THEOREM SolverCertified == SolverSpec => []SolverInv
<1>1. SolverInit => SolverIInv
  BY SolverStart
<1> QED
  BY <1>1, SolverStep, SolverTold, PTL DEF SolverSpec

\* Whatever the sizes and the costs, forbidden pairs and more trucks than slots
\* included: the pairs assign_slots returns are a matching along edges, no matching
\* has more pairs, and none with as many costs less.
THEOREM SolverOptimal == SolverSpec => []BestMatching
<1>1. SolverInit => SolverIInv
  BY SolverStart
<1>2. SolverIInv => BestMatching
  BY SolverBest
<1> QED
  BY <1>1, <1>2, SolverStep, PTL DEF SolverSpec

-----------------------------------------------------------------------------
\* The search under way: whom it has asked, the path it is on, and that it has
\* nothing more to ask of a truck it has come back from.
Asking ==
    stage = "search" =>
        /\ Len(covered) < Len(slot_wpos)
        /\ \A t \in seen : truck_slot[t] # 0
        /\ \A k \in 1 .. Len(path) : path[k] \in seen /\ path[k] \in adj(Frame(k))
        /\ \A k, l \in 1 .. Len(path) : path[k] = path[l] => k = l
        /\ \A t \in seen : \/ \E k \in 1 .. Len(path) : path[k] = t
                           \/ adj(truck_slot[t]) \subseteq seen

\* Slot s and covered slots before it can have the trucks of T only, which are
\* fewer than they.
Blocks(T, X, s) ==
    /\ s \in X /\ X \ {s} \subseteq {r \in Covered : r < s}
    /\ \A r \in X : adj(r) \subseteq T
    /\ Cardinality(T) < Cardinality(X)

Refused ==
    \A s \in 1 .. Len(covered) :
        ~covered[s] => \E T \in SUBSET Candidates, X \in SUBSET (1 .. s) : Blocks(T, X, s)

CoverStages ==
    /\ stage = "due" => covered = <<>>
    /\ stage \in {"done", "assigned"} => Len(covered) = Len(slot_wpos)

CoverIInv == CoverTypeOK /\ CoverStages /\ Served /\ Asking /\ Refused

\* The due boxes of the buckets of B.
BoxesOf(B) == {x \in DueBoxes : x[1] \in B}

KeptIsUsed ==
    /\ stage = "due" => Len(slot_wpos) = IF Cardinality(BoxesOf(kept)) < NTrucks
                                         THEN Cardinality(BoxesOf(kept)) ELSE NTrucks
    /\ TrucksAreUsed

-----------------------------------------------------------------------------

LEMMA TruckSetsFinite ==
    /\ IsFiniteSet(Candidates) /\ Cardinality(Candidates) = NTrucks
    /\ \A T \in SUBSET Candidates : IsFiniteSet(T) /\ Cardinality(T) \in Nat
<1>1. IsFiniteSet(Candidates) /\ Cardinality(Candidates) = NTrucks
  BY FS_Interval, CoverAssumption DEF Candidates
<1> QED BY <1>1, FS_Subset, FS_CardinalityType

LEMMA SlotSetsFinite ==
    ASSUME NEW k \in Nat
    PROVE  \A X \in SUBSET (1 .. k) : IsFiniteSet(X) /\ Cardinality(X) \in Nat
<1>1. IsFiniteSet(1 .. k)
  BY FS_Interval
<1> QED BY <1>1, FS_Subset, FS_CardinalityType

LEMMA CoverStart == CoverInit => CoverIInv
<1> SUFFICES ASSUME CoverInit PROVE CoverIInv
  OBVIOUS
<1> USE CoverAssumption DEF CoverInit
<1>1. CoverTypeOK
  BY DEF CoverTypeOK
<1>2. Covered = {}
  BY DEF Covered
<1>3. Served
  BY <1>2 DEF Served
<1> QED BY <1>1, <1>2, <1>3 DEF CoverIInv, CoverStages, Asking, Refused

\* A step that leaves the slots, their trucks and the answers alone.
LEMMA SameCover ==
    ASSUME UNCHANGED <<edges, slot_wpos, truck_slot, covered>>
    PROVE  /\ Served => Served'
           /\ Refused => Refused'
           /\ Covered' = Covered
           /\ \A s : adj(s)' = adj(s)
<1>1. Covered' = Covered
  BY DEF Covered
<1>2. \A s : adj(s)' = adj(s)
  BY DEF adj
<1>3. Served => Served'
  BY <1>1 DEF Served
<1>4. \A T, X, s : Blocks(T, X, s)' <=> Blocks(T, X, s)
  BY <1>1, <1>2 DEF Blocks
<1>5. Refused => Refused'
  BY <1>4 DEF Refused
<1> QED BY <1>1, <1>2, <1>3, <1>5

LEMMA StutterCover == CoverIInv /\ UNCHANGED coverVars => CoverIInv'
<1> SUFFICES ASSUME CoverIInv, UNCHANGED coverVars PROVE CoverIInv'
  OBVIOUS
<1> USE DEF CoverIInv, coverVars
<1>1. Served' /\ Refused' /\ \A s : adj(s)' = adj(s)
  BY SameCover
<1>2. CoverTypeOK' /\ CoverStages'
  BY DEF CoverTypeOK, CoverStages
<1>3. \A k : Frame(k)' = Frame(k)
  BY DEF Frame
<1>4. Asking'
  BY <1>1, <1>3 DEF Asking
<1> QED BY <1>1, <1>2, <1>4

LEMMA Extended ==
    ASSUME NEW S, NEW s \in Seq(S), NEW t \in Seq(S)
    PROVE  s \o t \in Seq(S) /\ Len(s \o t) = Len(s) + Len(t)
OBVIOUS

LEMMA Shortened ==
    ASSUME NEW S, NEW s \in Seq(S), Len(s) > 0
    PROVE  /\ SubSeq(s, 1, Len(s) - 1) \in Seq(S)
           /\ Len(SubSeq(s, 1, Len(s) - 1)) = Len(s) - 1
           /\ \A k \in 1 .. Len(s) - 1 : SubSeq(s, 1, Len(s) - 1)[k] = s[k]
<1>1. Len(s) - 1 \in Nat
  OBVIOUS
<1> DEFINE j == Len(s) - 1
<1>2. SubSeq(s, 1, j) = [k \in 1 .. j |-> s[k]]
  BY <1>1
<1>3. \A k \in 1 .. j : s[k] \in S
  OBVIOUS
<1>4. [k \in 1 .. j |-> s[k]] \in Seq(S) /\ Len([k \in 1 .. j |-> s[k]]) = j
  <2>1. j \in Nat
    BY <1>1
  <2> HIDE DEF j
  <2> QED BY <2>1, <1>3
<1> QED BY <1>2, <1>4

LEMMA DueSlotsCount ==
    ASSUME CoverTypeOK, NEW b \in Buckets
    PROVE  DueSlots(b) \in Nat
<1> DEFINE due == {j \in 0 .. bucket[b].n - 1 : Deadline(b, j) <= Cutoff}
           top == bucket[b].n - 1
<1>1. top \in Int
  BY CoverAssumption DEF CoverTypeOK
<1>2. due \in SUBSET (0 .. top)
  OBVIOUS
<1>3. IsFiniteSet(0 .. top)
  <2> HIDE DEF top
  <2> QED BY <1>1, FS_Interval
<1>4. Cardinality(due) \in Nat
  <2> HIDE DEF due
  <2> QED BY <1>2, <1>3, FS_Subset, FS_CardinalityType
<1> QED BY <1>4 DEF DueSlots

\* A bucket gets as many slots as are left, and no more.
LEMMA Allocated ==
    ASSUME CoverTypeOK, allocate_due
    PROVE  \E b \in DueBuckets \ kept :
              /\ b \in Buckets /\ DueSlots(b) \in Nat /\ DueSlots(b) > 0
              /\ kept' = kept \cup {b}
              /\ slot_wpos' \in Seq(Buckets)
              /\ Len(slot_wpos') = Len(slot_wpos) + Allocate(Len(slot_wpos), DueSlots(b))
              /\ Len(slot_wpos') \in Nat /\ Len(slot_wpos') <= NTrucks
<1>1. PICK b \in DueBuckets \ kept :
        /\ slot_wpos' = slot_wpos \o [k \in 1 .. Allocate(Len(slot_wpos), DueSlots(b)) |-> b]
        /\ kept' = kept \cup {b}
  BY DEF allocate_due
<1> DEFINE g == Allocate(Len(slot_wpos), DueSlots(b))
           new == [k \in 1 .. g |-> b]
<1>2. b \in Buckets /\ DueSlots(b) \in Nat /\ DueSlots(b) > 0
  BY DueSlotsCount DEF DueBuckets
<1>3. slot_wpos \in Seq(Buckets) /\ Len(slot_wpos) \in Nat /\ Len(slot_wpos) < NTrucks
  BY DEF CoverTypeOK, allocate_due
<1>4. g \in Nat /\ Len(slot_wpos) + g <= NTrucks
  <2> HIDE DEF g
  <2>1. g = Allocate(Len(slot_wpos), DueSlots(b))
    BY DEF g
  <2> QED BY <2>1, <1>2, <1>3, CoverAssumption DEF Allocate
<1>5. new \in Seq(Buckets) /\ Len(new) = g
  <2> HIDE DEF g
  <2> QED BY <1>2, <1>4
<1>6. slot_wpos' = slot_wpos \o new
  BY <1>1
<1>7. slot_wpos' \in Seq(Buckets) /\ Len(slot_wpos') = Len(slot_wpos) + g
  <2> HIDE DEF new, g
  <2> QED BY <1>3, <1>5, <1>6, Extended
<1> QED BY <1>1, <1>2, <1>3, <1>4, <1>7

LEMMA AllocateStep ==
    ASSUME CoverIInv, allocate_due
    PROVE  CoverIInv'
<1>1. /\ slot_wpos' \in Seq(Buckets) /\ kept' \subseteq Buckets
      /\ Len(slot_wpos') \in Nat /\ Len(slot_wpos') <= NTrucks
  BY Allocated DEF CoverIInv, CoverTypeOK
<1>2. stage = "due" /\ UNCHANGED <<bucket, edges, truck_slot, covered, path, seen, stage>>
  BY DEF allocate_due
<1>3. covered = <<>> /\ Covered = {} /\ Covered' = {}
  BY <1>2 DEF CoverIInv, CoverStages, Covered
<1>4. \A t \in Candidates : truck_slot[t] = 0
  BY <1>3 DEF CoverIInv, Served
<1>5. Served'
  BY <1>2, <1>3, <1>4 DEF Served
<1>6. truck_slot' \in [Candidates -> 0 .. Len(slot_wpos')]
  <2>1. truck_slot' = [t \in Candidates |-> truck_slot[t]]
    BY <1>2 DEF CoverIInv, CoverTypeOK
  <2>2. 0 \in 0 .. Len(slot_wpos')
    BY <1>1
  <2> QED BY <1>4, <2>1, <2>2
<1>7. CoverTypeOK'
  BY <1>1, <1>2, <1>3, <1>6 DEF CoverIInv, CoverTypeOK
<1> QED BY <1>2, <1>3, <1>5, <1>7 DEF CoverIInv, CoverStages, Asking, Refused

LEMMA BeginStep ==
    ASSUME CoverIInv, CoverSlot
    PROVE  CoverIInv'
<1> USE DEF CoverIInv, CoverSlot
<1>1. Served' /\ Refused'
  BY SameCover
<1>2. CoverTypeOK' /\ CoverStages'
  BY DEF CoverTypeOK, CoverStages
<1> QED BY <1>1, <1>2 DEF Asking

LEMMA StageStep ==
    ASSUME CoverIInv, ChooseWork \/ Finish
    PROVE  CoverIInv'
<1> USE DEF CoverIInv, ChooseWork, Finish
<1>1. Served' /\ Refused'
  BY SameCover
<1>2. CoverTypeOK' /\ CoverStages'
  BY DEF CoverTypeOK, CoverStages
<1> QED BY <1>1, <1>2 DEF Asking

\* The innermost call stands at a slot: the next one, or one that has a truck.
LEMMA CallsAreSlots ==
    ASSUME CoverTypeOK, Served, Asking, stage = "search", NEW k \in 1 .. Len(path) + 1
    PROVE  /\ Frame(k) \in 1 .. Len(slot_wpos)
           /\ k = 1 => Frame(k) = Len(covered) + 1
           /\ k # 1 => /\ path[k - 1] \in Candidates /\ Frame(k) = truck_slot[path[k - 1]]
                       /\ Frame(k) \in Covered /\ Frame(k) < Len(covered) + 1
<1>1. Len(covered) \in Nat /\ Len(slot_wpos) \in Nat /\ Len(path) \in Nat
  BY DEF CoverTypeOK
<1>2. CASE k = 1
  BY <1>1, <1>2 DEF Asking, Frame
<1>3. CASE k # 1
  <2>1. k - 1 \in 1 .. Len(path)
    BY <1>1, <1>3
  <2>2. path[k - 1] \in Candidates /\ truck_slot[path[k - 1]] # 0
    BY <2>1 DEF Asking, CoverTypeOK
  <2>3. Frame(k) = truck_slot[path[k - 1]]
    BY <1>3 DEF Frame
  <2>4. Frame(k) \in Covered
    BY <2>2, <2>3 DEF Served
  <2>5. Covered \subseteq 1 .. Len(covered)
    BY DEF Covered
  <2>6. Frame(k) \in 1 .. Len(covered)
    BY <2>4, <2>5
  <2> QED BY <1>1, <1>3, <2>2, <2>3, <2>4, <2>6 DEF Asking
<1> QED BY <1>2, <1>3

\* The answer for the next slot does not touch the answers before it.
LEMMA AnswerStep ==
    ASSUME CoverTypeOK, NEW ok \in BOOLEAN, covered' = Append(covered, ok),
           UNCHANGED <<edges, slot_wpos>>
    PROVE  /\ Len(covered) \in Nat /\ Len(covered') = Len(covered) + 1
           /\ covered' \in Seq(BOOLEAN)
           /\ covered'[Len(covered) + 1] = ok
           /\ Covered' = Covered \cup (IF ok THEN {Len(covered) + 1} ELSE {})
           /\ \A s \in 1 .. Len(covered) : covered'[s] = covered[s]
           /\ \A s \in 1 .. Len(covered) : \A T, X : Blocks(T, X, s) => Blocks(T, X, s)'
<1>1. covered \in Seq(BOOLEAN) /\ Len(covered) \in Nat
  BY DEF CoverTypeOK
<1>2. Len(covered') = Len(covered) + 1 /\ covered' \in Seq(BOOLEAN)
  BY <1>1
<1>3. covered'[Len(covered) + 1] = ok /\ \A s \in 1 .. Len(covered) : covered'[s] = covered[s]
  BY <1>1
<1>4. Covered' = Covered \cup (IF ok THEN {Len(covered) + 1} ELSE {})
  BY <1>1, <1>2, <1>3 DEF Covered
<1>5. \A s : adj(s)' = adj(s)
  BY DEF adj
<1>6. ASSUME NEW s \in 1 .. Len(covered), NEW T, NEW X, Blocks(T, X, s)
      PROVE  Blocks(T, X, s)'
  <2>1. X \ {s} \subseteq {r \in Covered' : r < s}
    BY <1>4, <1>6 DEF Blocks
  <2> QED BY <1>5, <1>6, <2>1 DEF Blocks
<1> QED BY <1>1, <1>2, <1>3, <1>4, <1>6

LEMMA DescendStep ==
    ASSUME CoverIInv, Descend
    PROVE  CoverIInv'
<1>1. PICK t \in Candidates :
        /\ NextTruck(t) /\ ~Free(t)
        /\ path' = Append(path, t) /\ seen' = seen \cup {t}
  BY DEF Descend
<1>2. /\ stage = "search"
      /\ UNCHANGED <<bucket, edges, kept, slot_wpos, truck_slot, covered, stage>>
  BY DEF Descend
<1>3. /\ CoverTypeOK /\ Asking /\ CoverStages
      /\ path \in Seq(Candidates) /\ Len(path) \in Nat /\ seen \subseteq Candidates
  BY DEF CoverIInv, CoverTypeOK
<1>4. t \in adj(Here) /\ t \notin seen /\ truck_slot[t] # 0
  BY <1>1 DEF NextTruck, Unseen, Free
<1>5. /\ Len(path') = Len(path) + 1 /\ path' \in Seq(Candidates)
      /\ path'[Len(path) + 1] = t /\ \A k \in 1 .. Len(path) : path'[k] = path[k]
  BY <1>1, <1>3
<1>6. Served' /\ Refused' /\ \A s : adj(s)' = adj(s)
  BY <1>2, SameCover DEF CoverIInv
<1>7. \A k \in 1 .. Len(path) + 1 : Frame(k)' = Frame(k)
  <2> SUFFICES ASSUME NEW k \in 1 .. Len(path) + 1, k # 1
               PROVE  path'[k - 1] = path[k - 1]
    BY <1>2 DEF Frame
  <2>1. k - 1 \in 1 .. Len(path)
    BY <1>3
  <2> QED BY <1>5, <2>1
<1>8. CoverTypeOK' /\ CoverStages'
  BY <1>1, <1>2, <1>3, <1>5 DEF CoverTypeOK, CoverStages
<1>9. Asking'
  <2>1. Len(covered') < Len(slot_wpos')
    BY <1>2, <1>3 DEF Asking
  <2>2. \A r \in seen' : truck_slot'[r] # 0
    BY <1>1, <1>2, <1>3, <1>4 DEF Asking
  <2>3. ASSUME NEW k \in 1 .. Len(path')
        PROVE  path'[k] \in seen' /\ path'[k] \in adj(Frame(k))'
    <3>0. k \in 1 .. Len(path) + 1
      BY <1>5
    <3>1. CASE k = Len(path) + 1
      BY <1>1, <1>4, <1>5, <1>6, <1>7, <3>0, <3>1 DEF Here
    <3>2. CASE k # Len(path) + 1
      <4>1. k \in 1 .. Len(path)
        BY <1>3, <3>0, <3>2
      <4>2. path'[k] = path[k] /\ Frame(k)' = Frame(k)
        BY <1>5, <1>7, <3>0, <4>1
      <4>3. path[k] \in seen /\ path[k] \in adj(Frame(k))
        BY <1>2, <1>3, <4>1 DEF Asking
      <4> QED BY <1>1, <1>6, <4>2, <4>3
    <3> QED BY <3>1, <3>2
  <2>4. ASSUME NEW k \in 1 .. Len(path'), NEW l \in 1 .. Len(path'), path'[k] = path'[l]
        PROVE  k = l
    <3>1. \A h \in 1 .. Len(path) : path[h] # t
      BY <1>2, <1>3, <1>4 DEF Asking
    <3>2. k \in 1 .. Len(path) /\ l \in 1 .. Len(path) => k = l
      BY <1>2, <1>3, <1>5, <2>4 DEF Asking
    <3> QED BY <1>3, <1>5, <2>4, <3>1, <3>2
  <2>5. ASSUME NEW r \in seen'
        PROVE  \/ \E k \in 1 .. Len(path') : path'[k] = r
               \/ adj(truck_slot[r])' \subseteq seen'
    <3>1. CASE r = t
      BY <1>3, <1>5, <3>1
    <3>2. CASE r # t
      <4>1. r \in seen
        BY <1>1, <3>2
      <4>2. \/ \E k \in 1 .. Len(path) : path[k] = r
            \/ adj(truck_slot[r]) \subseteq seen
        BY <1>2, <1>3, <4>1 DEF Asking
      <4>3. 1 .. Len(path) \subseteq 1 .. Len(path')
        BY <1>3, <1>5
      <4>4. adj(truck_slot[r])' = adj(truck_slot[r])
        BY <1>2 DEF adj
      <4> QED BY <1>1, <1>5, <4>2, <4>3, <4>4
    <3> QED BY <3>1, <3>2
  <2> QED BY <2>1, <2>2, <2>3, <2>4, <2>5 DEF Asking
<1> QED BY <1>6, <1>8, <1>9 DEF CoverIInv

\* The innermost call fails: what it asked of its truck has been asked.
LEMMA BackStep ==
    ASSUME CoverIInv, GiveUp, path # <<>>
    PROVE  CoverIInv'
<1> DEFINE last == Len(path)
<1>1. /\ stage = "search" /\ Unseen = {} /\ path' = SubSeq(path, 1, last - 1)
      /\ UNCHANGED <<bucket, edges, kept, slot_wpos, truck_slot, covered, seen, stage>>
  BY DEF GiveUp
<1>2. /\ CoverTypeOK /\ Asking /\ CoverStages /\ path \in Seq(Candidates)
  BY DEF CoverIInv, CoverTypeOK
<1>3. last \in Nat /\ last > 0
  BY <1>2
<1>4. /\ Len(path') = last - 1 /\ path' \in Seq(Candidates)
      /\ \A k \in 1 .. last - 1 : path'[k] = path[k]
  BY <1>1, <1>2, <1>3, Shortened
<1>5. Served' /\ Refused' /\ \A s : adj(s)' = adj(s)
  BY <1>1, SameCover DEF CoverIInv
<1>6. \A k \in 1 .. last : Frame(k)' = Frame(k)
  <2> SUFFICES ASSUME NEW k \in 1 .. last, k # 1
               PROVE  path'[k - 1] = path[k - 1]
    BY <1>1 DEF Frame
  <2>1. k - 1 \in 1 .. last - 1
    BY <1>3
  <2> QED BY <1>4, <2>1
<1>7. CoverTypeOK' /\ CoverStages'
  BY <1>1, <1>2, <1>4 DEF CoverTypeOK, CoverStages
<1>8. 1 .. last - 1 \subseteq 1 .. last /\ last \in 1 .. last
  BY <1>3
<1>9. adj(truck_slot[path[last]]) \subseteq seen
  <2>1. Here = truck_slot[path[last]]
    BY <1>3 DEF Here, Frame
  <2> QED BY <1>1, <2>1 DEF Unseen
<1>10. Asking'
  <2>1. /\ Len(covered') < Len(slot_wpos') /\ \A r \in seen' : truck_slot'[r] # 0
    BY <1>1, <1>2 DEF Asking
  <2>2. ASSUME NEW k \in 1 .. Len(path')
        PROVE  path'[k] \in seen' /\ path'[k] \in adj(Frame(k))'
    <3>1. k \in 1 .. last - 1 /\ k \in 1 .. last
      BY <1>4, <1>8
    <3>2. path'[k] = path[k] /\ Frame(k)' = Frame(k)
      BY <1>4, <1>6, <3>1
    <3>3. path[k] \in seen /\ path[k] \in adj(Frame(k))
      BY <1>1, <1>2, <3>1 DEF Asking
    <3> QED BY <1>1, <1>5, <3>2, <3>3
  <2>3. ASSUME NEW k \in 1 .. Len(path'), NEW l \in 1 .. Len(path'), path'[k] = path'[l]
        PROVE  k = l
    <3>1. k \in 1 .. last - 1 /\ l \in 1 .. last - 1 /\ k \in 1 .. last /\ l \in 1 .. last
      BY <1>4, <1>8
    <3>2. path[k] = path[l]
      BY <1>4, <2>3, <3>1
    <3> QED BY <1>1, <1>2, <3>1, <3>2 DEF Asking
  <2>4. ASSUME NEW r \in seen'
        PROVE  \/ \E k \in 1 .. Len(path') : path'[k] = r
               \/ adj(truck_slot[r])' \subseteq seen'
    <3>1. \/ \E k \in 1 .. last : path[k] = r
          \/ adj(truck_slot[r]) \subseteq seen
      BY <1>1, <1>2, <2>4 DEF Asking
    <3>2. adj(truck_slot[r])' = adj(truck_slot[r]) /\ seen' = seen
      BY <1>1 DEF adj
    <3>3. ASSUME NEW k \in 1 .. last, path[k] = r, k # last
          PROVE  \E h \in 1 .. Len(path') : path'[h] = r
      <4>1. k \in 1 .. last - 1
        BY <1>3, <3>3
      <4> QED BY <1>4, <3>3, <4>1
    <3> QED BY <1>9, <3>1, <3>2, <3>3
  <2> QED BY <2>1, <2>2, <2>3, <2>4 DEF Asking
<1> QED BY <1>5, <1>7, <1>10 DEF CoverIInv

\* A free truck at the end of the path: the trucks of the path move on by one
\* call, and the next slot has one too.
LEMMA ReassignStep ==
    ASSUME CoverIInv, Reassign
    PROVE  CoverIInv'
<1>1. PICK t \in Candidates :
        /\ NextTruck(t) /\ Free(t)
        /\ LET asked == Append(path, t)
           IN truck_slot' = [r \in Candidates |->
                  IF \E k \in DOMAIN asked : asked[k] = r
                  THEN Frame(CHOOSE k \in DOMAIN asked : asked[k] = r) ELSE truck_slot[r]]
  BY DEF Reassign
<1> DEFINE asked == Append(path, t)
           Calls == 1 .. Len(path) + 1
           Asked(r) == \E k \in Calls : asked[k] = r
<1>2. /\ stage = "search" /\ covered' = Append(covered, TRUE) /\ stage' = "cover"
      /\ UNCHANGED <<bucket, edges, kept, slot_wpos, path, seen>>
  BY DEF Reassign
<1>3. /\ CoverTypeOK /\ Asking /\ Served /\ Refused
      /\ path \in Seq(Candidates) /\ Len(path) \in Nat
      /\ Len(covered) \in Nat /\ Len(slot_wpos) \in Nat
  BY DEF CoverIInv, CoverTypeOK
<1>4. t \in adj(Here) /\ t \notin seen /\ truck_slot[t] = 0
  BY <1>1 DEF NextTruck, Unseen, Free
<1>5. /\ DOMAIN asked = Calls /\ asked[Len(path) + 1] = t
      /\ \A k \in 1 .. Len(path) : asked[k] = path[k] /\ path[k] \in Candidates
  BY <1>3
<1>6. \A k \in Calls : k = Len(path) + 1 \/ k \in 1 .. Len(path)
  BY <1>3
<1>7. \A k \in Calls : asked[k] \in Candidates
  BY <1>5, <1>6
<1>8. \A k, l \in Calls : asked[k] = asked[l] => k = l
  <2>1. \A k \in 1 .. Len(path) : path[k] # t
    BY <1>2, <1>3, <1>4 DEF Asking
  <2>2. \A k, l \in 1 .. Len(path) : path[k] = path[l] => k = l
    BY <1>2, <1>3 DEF Asking
  <2> HIDE DEF asked, Calls
  <2> QED BY <1>5, <1>6, <2>1, <2>2
<1>9. \A k \in Calls : /\ Frame(k) \in 1 .. Len(slot_wpos)
                       /\ k = 1 => Frame(k) = Len(covered) + 1
                       /\ k # 1 => /\ path[k - 1] \in Candidates
                                   /\ Frame(k) = truck_slot[path[k - 1]]
                                   /\ Frame(k) \in Covered /\ Frame(k) < Len(covered) + 1
  BY <1>2, <1>3, CallsAreSlots
<1>10. \A k \in Calls : <<asked[k], slot_wpos[Frame(k)]>> \in edges
  <2>1. \A k \in 1 .. Len(path) : path[k] \in adj(Frame(k))
    BY <1>2, <1>3 DEF Asking
  <2>2. \A k \in Calls : asked[k] \in adj(Frame(k))
    <3> HIDE DEF asked, Calls
    <3> QED BY <1>4, <1>5, <1>6, <2>1 DEF Here
  <2> QED BY <2>2 DEF adj
<1>11. /\ \A k \in Calls : truck_slot'[asked[k]] = Frame(k)
       /\ \A r \in Candidates : ~Asked(r) => truck_slot'[r] = truck_slot[r]
       /\ DOMAIN truck_slot' = Candidates
       /\ truck_slot' = [r \in Candidates |-> truck_slot'[r]]
  <2>1. truck_slot' = [r \in Candidates |->
            IF Asked(r) THEN Frame(CHOOSE k \in Calls : asked[k] = r) ELSE truck_slot[r]]
    BY <1>1, <1>5
  <2>2. \A k \in Calls : (CHOOSE l \in Calls : asked[l] = asked[k]) = k
    <3> HIDE DEF asked, Calls
    <3> QED BY <1>8
  <2> HIDE DEF asked, Calls
  <2> QED BY <1>7, <2>1, <2>2
<1>12. /\ Covered' = Covered \cup {Len(covered) + 1}
       /\ Len(covered') = Len(covered) + 1 /\ covered' \in Seq(BOOLEAN)
       /\ covered'[Len(covered) + 1] = TRUE
       /\ \A s \in 1 .. Len(covered) : covered'[s] = covered[s]
       /\ \A s \in 1 .. Len(covered) : \A T, X : Blocks(T, X, s) => Blocks(T, X, s)'
  BY <1>2, <1>3, AnswerStep
<1>13. /\ 1 \in Calls
       /\ \A k \in 1 .. Len(path) : k + 1 \in Calls /\ k + 1 # 1 /\ (k + 1) - 1 = k
       /\ \A k \in Calls : k # 1 => k - 1 \in 1 .. Len(path)
  BY <1>3
<1>14. \A r \in Candidates : truck_slot[r] \in 0 .. Len(slot_wpos)
  BY <1>3 DEF CoverTypeOK
<1>15. ASSUME NEW r \in Candidates, ~Asked(r), truck_slot[r] # 0, NEW k \in Calls
       PROVE  truck_slot[r] # Frame(k)
  <2>1. truck_slot[r] \in Covered /\ truck_slot[r] < Len(covered) + 1
    <3>1. truck_slot[r] \in Covered
      BY <1>3, <1>15 DEF Served
    <3>2. Covered \subseteq 1 .. Len(covered)
      BY DEF Covered
    <3>3. truck_slot[r] \in 1 .. Len(covered)
      BY <3>1, <3>2
    <3> QED BY <1>3, <3>1, <3>3
  <2>2. CASE k = 1
    BY <1>3, <1>9, <1>13, <1>14, <2>1, <2>2
  <2>3. CASE k # 1
    <3>1. k - 1 \in 1 .. Len(path) /\ path[k - 1] \in Candidates
      BY <1>9, <1>13, <2>3
    <3>2. asked[k - 1] = path[k - 1] /\ k - 1 \in Calls
      BY <1>3, <1>5, <3>1
    <3>3. r # path[k - 1]
      BY <1>15, <3>2
    <3> QED BY <1>3, <1>9, <1>15, <2>3, <3>1, <3>3 DEF Served
  <2> QED BY <2>2, <2>3
<1>16. ASSUME NEW k \in Calls, NEW l \in Calls, Frame(k) = Frame(l)
       PROVE  k = l
  <2>1. CASE k = 1 \/ l = 1
    BY <1>3, <1>9, <1>16, <2>1
  <2>2. CASE k # 1 /\ l # 1
    <3>1. /\ path[k - 1] \in Candidates /\ path[l - 1] \in Candidates
          /\ truck_slot[path[k - 1]] = truck_slot[path[l - 1]] /\ truck_slot[path[k - 1]] # 0
      BY <1>3, <1>9, <1>16, <2>2
    <3>2. path[k - 1] = path[l - 1]
      BY <1>3, <3>1 DEF Served
    <3>3. k - 1 = l - 1
      BY <1>2, <1>3, <1>13, <2>2, <3>2 DEF Asking
    <3> QED BY <1>3, <3>3
  <2> QED BY <2>1, <2>2
<1> HIDE DEF asked, Calls
<1>17. \A r \in Candidates : truck_slot'[r] \in Covered' \cup {0}
  <2> TAKE r \in Candidates
  <2>1. CASE Asked(r)
    <3>1. PICK k \in Calls : asked[k] = r
      BY <2>1
    <3>2. truck_slot'[r] = Frame(k)
      BY <1>11, <3>1
    <3> QED BY <1>9, <1>12, <3>2
  <2>2. CASE ~Asked(r)
    BY <1>3, <1>11, <1>12, <2>2 DEF Served
  <2> QED BY <2>1, <2>2
<1>18. ASSUME NEW q \in Covered'
       PROVE  \E r \in Candidates : truck_slot'[r] = q
  <2>1. CASE q = Len(covered) + 1
    BY <1>7, <1>9, <1>11, <1>13, <2>1
  <2>2. CASE q # Len(covered) + 1
    <3>1. PICK r \in Candidates : truck_slot[r] = q /\ truck_slot[r] # 0
      <4>1. q \in {truck_slot[r] : r \in Candidates} \ {0}
        BY <1>3, <1>12, <2>2 DEF Served
      <4> QED BY <4>1
    <3>2. CASE ~Asked(r)
      BY <1>11, <3>1, <3>2
    <3>3. CASE Asked(r)
      <4>1. PICK k \in Calls : asked[k] = r
        BY <3>3
      <4>2. k \in 1 .. Len(path)
        BY <1>4, <1>5, <1>6, <3>1, <4>1
      <4>3. k + 1 \in Calls /\ Frame(k + 1) = truck_slot[path[k]]
        BY <1>9, <1>13, <4>2
      <4>4. truck_slot'[asked[k + 1]] = q
        BY <1>5, <1>11, <3>1, <4>1, <4>2, <4>3
      <4> QED BY <1>7, <4>3, <4>4
    <3> QED BY <3>2, <3>3
  <2> QED BY <2>1, <2>2
<1>19. \A r, q \in Candidates : truck_slot'[r] = truck_slot'[q] /\ truck_slot'[r] # 0 => r = q
  <2> SUFFICES ASSUME NEW r \in Candidates, NEW q \in Candidates,
                      truck_slot'[r] = truck_slot'[q], truck_slot'[r] # 0
               PROVE  r = q
    OBVIOUS
  <2>1. CASE Asked(r) /\ Asked(q)
    <3>1. PICK k \in Calls : asked[k] = r
      BY <2>1
    <3>2. PICK l \in Calls : asked[l] = q
      BY <2>1
    <3>3. Frame(k) = Frame(l)
      BY <1>11, <3>1, <3>2
    <3> QED BY <1>16, <3>1, <3>2, <3>3
  <2>2. CASE Asked(r) /\ ~Asked(q)
    <3>1. PICK k \in Calls : asked[k] = r
      BY <2>2
    <3> QED BY <1>11, <1>15, <2>2, <3>1
  <2>3. CASE ~Asked(r) /\ Asked(q)
    <3>1. PICK k \in Calls : asked[k] = q
      BY <2>3
    <3> QED BY <1>11, <1>15, <2>3, <3>1
  <2>4. CASE ~Asked(r) /\ ~Asked(q)
    BY <1>3, <1>11, <2>4 DEF Served
  <2> QED BY <2>1, <2>2, <2>3, <2>4
<1>20. \A r \in Candidates : truck_slot'[r] # 0 => <<r, slot_wpos[truck_slot'[r]]>> \in edges
  <2> TAKE r \in Candidates
  <2>1. CASE Asked(r)
    BY <1>10, <1>11, <2>1
  <2>2. CASE ~Asked(r)
    BY <1>3, <1>11, <2>2 DEF Served
  <2> QED BY <2>1, <2>2
<1>21. Served'
  <2>1. 0 \notin Covered'
    BY <1>3, <1>12 DEF Covered
  <2>2. {truck_slot'[r] : r \in Candidates} \ {0} = Covered'
    BY <1>17, <1>18, <2>1
  <2> QED BY <1>2, <1>19, <1>20, <2>2 DEF Served
<1>22. CoverTypeOK' /\ CoverStages'
  <2>1. \A r \in Candidates : truck_slot'[r] \in 0 .. Len(slot_wpos)
    <3> TAKE r \in Candidates
    <3>1. CASE Asked(r)
      <4>1. PICK k \in Calls : asked[k] = r
        BY <3>1
      <4>2. truck_slot'[r] \in 1 .. Len(slot_wpos)
        BY <1>9, <1>11, <4>1
      <4> QED BY <1>3, <4>2
    <3>2. CASE ~Asked(r)
      BY <1>11, <1>14, <3>2
    <3> QED BY <3>1, <3>2
  <2>2. truck_slot' \in [Candidates -> 0 .. Len(slot_wpos)]
    BY <1>11, <2>1
  <2>3. Len(covered) < Len(slot_wpos)
    BY <1>2, <1>3 DEF Asking
  <2>4. Len(covered') <= Len(slot_wpos')
    BY <1>2, <1>3, <1>12, <2>3
  <2>5. /\ bucket' \in [Buckets -> [n : 0 .. MaxN, base : 0 .. MaxBase]]
        /\ edges' \subseteq Candidates \X Buckets /\ kept' \subseteq Buckets
        /\ slot_wpos' \in Seq(Buckets) /\ Len(slot_wpos') <= NTrucks
        /\ path' \in Seq(Candidates) /\ seen' \subseteq Candidates
    BY <1>2, <1>3 DEF CoverTypeOK
  <2>6. CoverTypeOK'
    BY <1>2, <1>12, <2>2, <2>4, <2>5 DEF CoverTypeOK
  <2> QED BY <1>2, <2>6 DEF CoverStages
<1>23. Refused'
  <2> SUFFICES ASSUME NEW s \in 1 .. Len(covered'), ~covered'[s]
               PROVE  \E T \in SUBSET Candidates, X \in SUBSET (1 .. s) : Blocks(T, X, s)'
    BY DEF Refused
  <2>1. s \in 1 .. Len(covered) /\ ~covered[s]
    BY <1>3, <1>12
  <2>2. PICK T \in SUBSET Candidates, X \in SUBSET (1 .. s) : Blocks(T, X, s)
    BY <1>3, <2>1 DEF Refused
  <2> QED BY <1>12, <2>1, <2>2
<1> QED BY <1>2, <1>21, <1>22, <1>23 DEF CoverIInv, Asking

\* The search fails: the trucks it has seen serve slots that can have no other,
\* and they are fewer than those slots and the one it was for.
LEMMA RefuseStep ==
    ASSUME CoverIInv, GiveUp, path = <<>>
    PROVE  CoverIInv'
<1> DEFINE s == Len(covered) + 1
           mine == {truck_slot[t] : t \in seen}
<1>1. /\ stage = "search" /\ Unseen = {} /\ covered' = Append(covered, FALSE)
      /\ stage' = "cover"
      /\ UNCHANGED <<bucket, edges, kept, slot_wpos, truck_slot, path, seen>>
  BY DEF GiveUp
<1>2. /\ CoverTypeOK /\ Asking /\ Served /\ Refused
      /\ Len(covered) \in Nat /\ Len(slot_wpos) \in Nat /\ seen \in SUBSET Candidates
  BY DEF CoverIInv, CoverTypeOK
<1>3. /\ Covered' = Covered /\ Len(covered') = s /\ covered' \in Seq(BOOLEAN)
      /\ \A q \in 1 .. Len(covered) : covered'[q] = covered[q]
      /\ \A q \in 1 .. Len(covered) : \A T, X : Blocks(T, X, q) => Blocks(T, X, q)'
  BY <1>1, <1>2, AnswerStep
<1>4. Served'
  BY <1>1, <1>2, <1>3 DEF Served
<1>5. CoverTypeOK' /\ CoverStages'
  BY <1>1, <1>2, <1>3 DEF CoverTypeOK, CoverStages, Asking
<1>6. adj(s) \subseteq seen /\ \A t \in seen : adj(truck_slot[t]) \subseteq seen
  <2>1. Here = s
    BY DEF Here, Frame
  <2> QED BY <1>1, <1>2, <2>1 DEF Unseen, Asking
<1>7. Covered \subseteq 1 .. Len(covered) /\ mine \subseteq Covered
  BY <1>1, <1>2 DEF Covered, Asking, Served
<1>8. PICK q, T, X : q = s /\ T = seen /\ X = mine \cup {s}
  OBVIOUS
<1>9. Blocks(T, X, q)'
  <2>1. s \notin mine /\ s \notin Covered
    BY <1>2, <1>7
  <2>2. q \in X /\ X \ {q} \subseteq {r \in Covered' : r < q}
    <3>1. \A r \in Covered : r < s
      BY <1>2, <1>7
    <3>2. X \ {q} \subseteq Covered
      BY <1>7, <1>8
    <3> HIDE DEF s, mine
    <3> QED BY <1>3, <1>8, <3>1, <3>2
  <2>3. IsFiniteSet(mine) /\ Cardinality(mine) = Cardinality(seen) /\ Cardinality(seen) \in Nat
    <3> DEFINE f == [t \in seen |-> truck_slot[t]]
    <3>1. /\ f \in [seen -> mine] /\ \A t, r \in seen : f[t] = f[r] => t = r
          /\ \A slot \in mine : \E t \in seen : f[t] = slot
      BY <1>1, <1>2 DEF Asking, Served
    <3>2. IsFiniteSet(seen) /\ Cardinality(seen) \in Nat
      BY <1>2, TruckSetsFinite
    <3> HIDE DEF f, mine
    <3> QED BY <3>1, <3>2, AsMany
  <2>4. Cardinality(mine \cup {s}) = Cardinality(mine) + 1
    <3> HIDE DEF mine, s
    <3> QED BY <2>1, <2>3, FS_AddElement
  <2>5. \A r \in X : adj(r)' \subseteq T
    <3>1. \A r : adj(r)' = adj(r)
      BY <1>1 DEF adj
    <3> QED BY <1>6, <1>8, <3>1
  <2>6. Cardinality(T) < Cardinality(X)
    <3> DEFINE few == Cardinality(mine)
    <3>1. Cardinality(T) = few /\ Cardinality(X) = few + 1 /\ few \in Nat
      BY <1>8, <2>3, <2>4
    <3> HIDE DEF few
    <3> QED BY <3>1
  <2> QED BY <2>2, <2>5, <2>6 DEF Blocks
<1>10. T \in SUBSET Candidates /\ X \in SUBSET (1 .. q)
  <2>1. s \in Nat /\ s \in 1 .. s /\ 1 .. Len(covered) \subseteq 1 .. s
    BY <1>2
  <2> HIDE DEF s, mine
  <2> QED BY <1>2, <1>7, <1>8, <2>1
<1>11. Refused'
  <2> SUFFICES ASSUME NEW r \in 1 .. Len(covered'), ~covered'[r]
               PROVE  \E S \in SUBSET Candidates, Z \in SUBSET (1 .. r) : Blocks(S, Z, r)'
    BY DEF Refused
  <2>1. CASE r = q
    BY <1>9, <1>10, <2>1
  <2>2. CASE r # q
    <3>1. r \in 1 .. Len(covered) /\ ~covered[r]
      BY <1>2, <1>3, <1>8, <2>2
    <3>2. PICK S \in SUBSET Candidates, Z \in SUBSET (1 .. r) : Blocks(S, Z, r)
      BY <1>2, <3>1 DEF Refused
    <3> QED BY <1>3, <3>1, <3>2
  <2> QED BY <2>1, <2>2
<1> QED BY <1>1, <1>4, <1>5, <1>11 DEF CoverIInv, Asking

LEMMA CoverStep == CoverIInv /\ [CoverNext]_coverVars => CoverIInv'
<1> SUFFICES ASSUME CoverIInv, [CoverNext]_coverVars PROVE CoverIInv'
  OBVIOUS
<1>1. CASE allocate_due
  BY <1>1, AllocateStep
<1>2. CASE ChooseWork
  BY <1>2, StageStep
<1>3. CASE CoverSlot
  BY <1>3, BeginStep
<1>4. CASE try_slot
  BY <1>4, ReassignStep, DescendStep, BackStep, RefuseStep DEF try_slot
<1>5. CASE Finish
  BY <1>5, StageStep
<1>6. CASE UNCHANGED coverVars
  BY <1>6, StutterCover
<1> QED BY <1>1, <1>2, <1>3, <1>4, <1>5, <1>6 DEF CoverNext

LEMMA CoveredFinite ==
    ASSUME CoverTypeOK
    PROVE  Covered \in SUBSET (1 .. Len(covered)) /\ IsFiniteSet(Covered) /\ Cardinality(Covered) \in Nat
<1>1. Len(covered) \in Nat /\ Covered \in SUBSET (1 .. Len(covered))
  BY DEF CoverTypeOK, Covered
<1> QED BY <1>1, SlotSetsFinite

\* Covered slots have a truck each.
LEMMA CoveredAreServed ==
    ASSUME CoverTypeOK, Served
    PROVE  \E f \in [Covered -> Candidates] :
              \A s \in Covered : truck_slot[f[s]] = s /\ <<f[s], slot_wpos[s]>> \in edges
<1> DEFINE f == [s \in Covered |-> CHOOSE t \in Candidates : truck_slot[t] = s]
<1>1. \A s \in Covered : s # 0 /\ \E t \in Candidates : truck_slot[t] = s
  BY DEF Served
<1>2. \A s \in Covered : f[s] \in Candidates /\ truck_slot[f[s]] = s
  BY <1>1
<1>3. f \in [Covered -> Candidates]
  BY <1>2
<1>4. \A s \in Covered : <<f[s], slot_wpos[s]>> \in edges
  <2> HIDE DEF f
  <2> QED BY <1>1, <1>2 DEF Served
<1> HIDE DEF f
<1> QED BY <1>2, <1>3, <1>4

LEMMA CoveredTogether ==
    ASSUME CoverTypeOK, Served, NEW S \in SUBSET Covered
    PROVE  Coverable(S)
<1>1. PICK f \in [Covered -> Candidates] :
        \A s \in Covered : truck_slot[f[s]] = s /\ <<f[s], slot_wpos[s]>> \in edges
  BY CoveredAreServed
<1> DEFINE g == [s \in S |-> f[s]]
<1>2. g \in [S -> Candidates] /\ (\A s \in S : truck_slot[g[s]] = s /\ <<g[s], slot_wpos[s]>> \in edges)
  BY <1>1
<1> HIDE DEF g
<1> QED BY <1>2 DEF Coverable

\* With the slots that shut it out, a slot cannot be served.
LEMMA ShutOut ==
    ASSUME NEW s \in Nat, NEW T \in SUBSET Candidates, NEW X \in SUBSET (1 .. s),
           Blocks(T, X, s), NEW S, X \subseteq S
    PROVE  ~Coverable(S)
<1> SUFFICES ASSUME Coverable(S) PROVE FALSE
  OBVIOUS
<1>1. PICK f \in [S -> Candidates] :
        /\ \A r \in S : <<f[r], slot_wpos[r]>> \in edges
        /\ \A r, q \in S : f[r] = f[q] => r = q
  BY DEF Coverable
<1> DEFINE g == [r \in X |-> f[r]]
<1>2. g \in [X -> T] /\ \A r, q \in X : g[r] = g[q] => r = q
  BY <1>1 DEF Blocks, adj
<1>3. /\ IsFiniteSet(X) /\ Cardinality(X) \in Nat /\ IsFiniteSet(T) /\ Cardinality(T) \in Nat
      /\ Cardinality(T) < Cardinality(X)
  BY TruckSetsFinite, SlotSetsFinite DEF Blocks
<1>4. \E r, q \in X : r # q /\ g[r] = g[q]
  <2>1. g \in [X -> T]
    BY <1>2
  <2> HIDE DEF g
  <2> QED BY <1>3, <2>1, FS_PigeonHole
<1> QED BY <1>2, <1>4

\* Every truck those slots can have serves one of them.
LEMMA AllAreTaken ==
    ASSUME CoverTypeOK, Served, NEW s \in Nat, NEW T \in SUBSET Candidates,
           NEW X \in SUBSET (1 .. s), Blocks(T, X, s)
    PROVE  \A t \in T : truck_slot[t] \in X \ {s}
<1>1. PICK f \in [Covered -> Candidates] :
        \A r \in Covered : truck_slot[f[r]] = r /\ <<f[r], slot_wpos[r]>> \in edges
  BY CoveredAreServed
<1> DEFINE rest == X \ {s}
           g == [r \in rest |-> f[r]]
<1>2. g \in [rest -> T] /\ \A r \in rest : truck_slot[g[r]] = r
  BY <1>1 DEF Blocks, adj
<1>3. /\ IsFiniteSet(X) /\ Cardinality(X) \in Nat /\ IsFiniteSet(T) /\ Cardinality(T) \in Nat
      /\ Cardinality(T) < Cardinality(X) /\ s \in X
  BY TruckSetsFinite, SlotSetsFinite DEF Blocks
<1>4. IsFiniteSet(rest) /\ Cardinality(rest) = Cardinality(X) - 1
  BY <1>3, FS_RemoveElement
<1>5. g \in Injection(rest, T)
  <2> HIDE DEF g, rest
  <2> QED BY <1>2 DEF Injection, IsInjective
<1>6. g \in Surjection(rest, T)
  <2>1. Cardinality(rest) <= Cardinality(T) /\ (Cardinality(rest) = Cardinality(T) <=> g \in Surjection(rest, T))
    <3> HIDE DEF g, rest
    <3> QED BY <1>3, <1>5, FS_Injection
  <2> HIDE DEF g, rest
  <2> QED BY <1>3, <1>4, <2>1
<1> HIDE DEF g
<1>7. \A t \in T : \E r \in rest : g[r] = t
  BY <1>6 DEF Surjection
<1> QED BY <1>2, <1>7

\* When the cover is done, no other choice serves more slots: whoever can only
\* have the trucks of the slots that were shut out is changed for the slot that
\* truck serves.
LEMMA Largest ==
    ASSUME CoverIInv, stage = "done", NEW S \in SUBSET (1 .. Len(slot_wpos)), Coverable(S)
    PROVE  Cardinality(S) <= Cardinality(Covered)
<1>1. PICK f \in [S -> Candidates] :
        /\ \A r \in S : <<f[r], slot_wpos[r]>> \in edges
        /\ \A r, q \in S : f[r] = f[q] => r = q
  BY DEF Coverable
<1>2. CoverTypeOK /\ Served /\ Refused /\ Len(covered) = Len(slot_wpos) /\ Len(covered) \in Nat
  BY DEF CoverIInv, CoverStages, CoverTypeOK
<1> DEFINE Shuts(T, X, s) == /\ s \in 1 .. Len(covered) /\ ~covered[s] /\ Blocks(T, X, s)
                             /\ T \in SUBSET Candidates /\ X \in SUBSET (1 .. s)
           Tight == {r \in 1 .. Len(covered) : \E T, X, s : Shuts(T, X, s) /\ r \in X}
           g == [r \in S |-> IF r \in Tight THEN truck_slot[f[r]] ELSE r]
<1>3. \A r \in S \cap Tight : truck_slot[f[r]] \in Tight \cap Covered
  <2> SUFFICES ASSUME NEW r \in S, r \in Tight
               PROVE  truck_slot[f[r]] \in Tight \cap Covered
    OBVIOUS
  <2>1. PICK T, X, s : Shuts(T, X, s) /\ r \in X
    OBVIOUS
  <2>2. f[r] \in T
    BY <1>1, <2>1 DEF Blocks, adj
  <2>3. s \in Nat
    BY <1>2, <2>1
  <2>4. truck_slot[f[r]] \in X \ {s}
    BY <1>2, <2>1, <2>2, <2>3, AllAreTaken
  <2>5. truck_slot[f[r]] \in Covered /\ Covered \subseteq 1 .. Len(covered)
    BY <2>1, <2>4 DEF Blocks, Covered
  <2> QED BY <2>1, <2>4, <2>5
<1>4. \A r \in S : r \notin Tight => r \in Covered
  <2> SUFFICES ASSUME NEW r \in S, r \notin Covered
               PROVE  r \in Tight
    OBVIOUS
  <2>1. r \in 1 .. Len(covered) /\ ~covered[r]
    BY <1>2 DEF Covered
  <2>2. PICK T \in SUBSET Candidates, X \in SUBSET (1 .. r) : Blocks(T, X, r)
    BY <1>2, <2>1 DEF Refused
  <2>3. Shuts(T, X, r) /\ r \in X
    BY <2>1, <2>2 DEF Blocks
  <2> QED BY <2>1, <2>3
<1> HIDE DEF Tight
<1>5. g \in [S -> Covered]
  BY <1>3, <1>4
<1>6. \A r, q \in S : g[r] = g[q] => r = q
  <2> SUFFICES ASSUME NEW r \in S, NEW q \in S, g[r] = g[q] PROVE r = q
    OBVIOUS
  <2>1. CASE r \in Tight /\ q \in Tight
    <3>1. truck_slot[f[r]] = truck_slot[f[q]] /\ truck_slot[f[r]] # 0
      BY <1>2, <1>3, <2>1 DEF Covered
    <3>2. f[r] \in Candidates /\ f[q] \in Candidates
      BY <1>1
    <3>3. f[r] = f[q]
      BY <1>2, <3>1, <3>2 DEF Served
    <3> QED BY <1>1, <3>3
  <2>2. CASE r \notin Tight \/ q \notin Tight
    BY <1>3, <2>2
  <2> QED BY <2>1, <2>2
<1>7. IsFiniteSet(Covered)
  BY <1>2, CoveredFinite
<1> HIDE DEF g
<1> QED BY <1>5, <1>6, <1>7, NoMore

LEMMA CoverTold == CoverIInv => CoverInv
<1> SUFFICES ASSUME CoverIInv PROVE CoverInv
  OBVIOUS
<1>1. CoverTypeOK /\ Served /\ Refused /\ Len(covered) \in Nat
  BY DEF CoverIInv, CoverTypeOK
<1>2. ASSUME NEW s \in 1 .. Len(covered)
      PROVE  covered[s] <=> Coverable({r \in Covered : r < s} \cup {s})
  <2> DEFINE S == {r \in Covered : r < s} \cup {s}
  <2>1. ASSUME covered[s] PROVE Coverable(S)
    <3>1. S \in SUBSET Covered
      BY <2>1 DEF Covered
    <3> HIDE DEF S
    <3> QED BY <1>1, <3>1, CoveredTogether
  <2>2. ASSUME ~covered[s] PROVE ~Coverable(S)
    <3>1. PICK T \in SUBSET Candidates, X \in SUBSET (1 .. s) : Blocks(T, X, s)
      BY <1>1, <2>2 DEF Refused
    <3>2. X \subseteq S
      BY <3>1 DEF Blocks
    <3>3. s \in Nat
      BY <1>1
    <3> HIDE DEF S
    <3> QED BY <3>1, <3>2, <3>3, ShutOut
  <2>3. covered[s] \in BOOLEAN
    BY <1>1 DEF CoverTypeOK
  <2> HIDE DEF S
  <2>4. covered[s] <=> Coverable(S)
    BY <2>1, <2>2, <2>3
  <2> QED BY <2>4 DEF S
<1>3. ASSUME stage = "done", NEW S \in SUBSET (1 .. Len(slot_wpos)),
             Cardinality(S) > Cardinality(Covered)
      PROVE  ~Coverable(S)
  <2>1. Len(slot_wpos) \in Nat
    BY <1>1 DEF CoverTypeOK
  <2>2. Cardinality(S) \in Nat /\ Cardinality(Covered) \in Nat
    BY <1>1, <2>1, SlotSetsFinite, CoveredFinite
  <2>3. Coverable(S) => Cardinality(S) <= Cardinality(Covered)
    BY <1>3, Largest
  <2> QED BY <1>3, <2>2, <2>3
<1> QED BY <1>1, <1>2, <1>3 DEF CoverInv, EarliestFirst

\* The earlier due slot goes first, no covered slot is lost, and as many are
\* served as can be (allocate_due and deadline_cover).
THEOREM EarlierIsServed == CoverSpec => []CoverInv
<1>1. CoverIInv /\ [CoverNext]_coverVars => CoverIInv'
  BY CoverStep
<1>2. CoverIInv => CoverInv
  BY CoverTold
<1>3. CoverInit => CoverIInv
  BY CoverStart
<1> QED BY <1>1, <1>2, <1>3, PTL DEF CoverSpec

-----------------------------------------------------------------------------

LEMMA BoxesFinite ==
    ASSUME CoverTypeOK, NEW B
    PROVE  IsFiniteSet(BoxesOf(B)) /\ Cardinality(BoxesOf(B)) \in Nat
<1>1. IsFiniteSet(Buckets) /\ IsFiniteSet(0 .. MaxN)
  BY CoverAssumption, FS_Interval DEF Buckets
<1>2. IsFiniteSet(Buckets \X (0 .. MaxN))
  <2> DEFINE C == 0 .. MaxN
  <2>1. IsFiniteSet(C)
    BY <1>1
  <2> HIDE DEF C
  <2>2. IsFiniteSet(Buckets \X C)
    BY <1>1, <2>1, FS_Product
  <2> QED BY <2>2 DEF C
<1>3. BoxesOf(B) \in SUBSET (Buckets \X (0 .. MaxN))
  BY DEF BoxesOf, DueBoxes
<1> QED BY <1>2, <1>3, FS_Subset, FS_CardinalityType

\* The due boxes of one bucket are as many as its due slots.
LEMMA BoxesOfOne ==
    ASSUME CoverTypeOK, NEW b \in Buckets
    PROVE  Cardinality(BoxesOf({b})) = DueSlots(b)
<1> DEFINE due == {j \in 0 .. bucket[b].n - 1 : Deadline(b, j) <= Cutoff}
           f == [x \in BoxesOf({b}) |-> x[2]]
<1>1. bucket[b].n \in 0 .. MaxN
  BY DEF CoverTypeOK
<1>2. \A x \in BoxesOf({b}) : /\ x = <<b, x[2]>> /\ x[2] \in 0 .. MaxN
                              /\ x[2] < bucket[b].n /\ Deadline(b, x[2]) <= Cutoff
  BY DEF BoxesOf, DueBoxes
<1>3. \A j \in due : <<b, j>> \in BoxesOf({b})
  <2> TAKE j \in due
  <2>1. j \in 0 .. MaxN /\ j < bucket[b].n /\ Deadline(b, j) <= Cutoff
    BY <1>1, CoverAssumption
  <2> QED BY <2>1 DEF BoxesOf, DueBoxes
<1>4. \A x \in BoxesOf({b}) : x[2] \in due
  BY <1>1, <1>2, CoverAssumption
<1>5. f \in [BoxesOf({b}) -> due]
  <2> HIDE DEF due
  <2> QED BY <1>4
<1>6. /\ \A x, y \in BoxesOf({b}) : f[x] = f[y] => x = y
      /\ \A j \in due : \E x \in BoxesOf({b}) : f[x] = j
  <2> HIDE DEF due
  <2> QED BY <1>2, <1>3
<1>7. IsFiniteSet(BoxesOf({b}))
  BY BoxesFinite
<1> HIDE DEF f, due
<1>8. Cardinality(due) = Cardinality(BoxesOf({b}))
  BY <1>5, <1>6, <1>7, AsMany
<1> QED BY <1>8 DEF DueSlots, due

LEMMA UsedStart == CoverInit => KeptIsUsed
<1> SUFFICES ASSUME CoverInit PROVE KeptIsUsed
  OBVIOUS
<1>1. stage = "due" /\ slot_wpos = <<>> /\ BoxesOf(kept) = {}
  BY DEF CoverInit, BoxesOf
<1>2. Cardinality(BoxesOf(kept)) = 0 /\ Len(slot_wpos) = 0
  BY <1>1, FS_EmptySet
<1> QED BY <1>1, <1>2, CoverAssumption DEF KeptIsUsed, TrucksAreUsed

LEMMA UsedStep ==
    ASSUME CoverIInv, KeptIsUsed, [CoverNext]_coverVars
    PROVE  KeptIsUsed'
<1>1. bucket' = bucket
  BY DEF CoverNext, coverVars, allocate_due, ChooseWork, CoverSlot, try_slot, Reassign,
         Descend, GiveUp, Finish
<1>2. DueBoxes' = DueBoxes
  BY <1>1 DEF DueBoxes, Deadline
<1>3. CoverTypeOK /\ Len(slot_wpos) \in Nat
  BY DEF CoverIInv, CoverTypeOK
<1>4. CASE allocate_due
  <2>1. PICK b \in DueBuckets \ kept :
              /\ b \in Buckets /\ DueSlots(b) \in Nat /\ DueSlots(b) > 0
              /\ kept' = kept \cup {b}
              /\ Len(slot_wpos') = Len(slot_wpos) + Allocate(Len(slot_wpos), DueSlots(b))
    BY <1>3, <1>4, Allocated
  <2>2. stage = "due" /\ stage' = "due" /\ Len(slot_wpos) < NTrucks
    BY <1>4 DEF allocate_due
  <2> DEFINE old == BoxesOf(kept)
             one == BoxesOf({b})
             new == BoxesOf(kept)'
  <2>3. /\ IsFiniteSet(old) /\ Cardinality(old) \in Nat
        /\ IsFiniteSet(one) /\ Cardinality(one) = DueSlots(b)
    BY <1>3, <2>1, BoxesFinite, BoxesOfOne
  <2>4. old \cap one = {} /\ new = old \cup one
    BY <1>2, <2>1 DEF BoxesOf
  <2>5. Cardinality(new) = Cardinality(old) + DueSlots(b)
    <3> HIDE DEF old, one, new
    <3> QED BY <2>3, <2>4, TwoParts
  <2>6. Len(slot_wpos) = IF Cardinality(old) < NTrucks THEN Cardinality(old) ELSE NTrucks
    BY <2>2 DEF KeptIsUsed
  <2>7. Len(slot_wpos') = IF Cardinality(new) < NTrucks THEN Cardinality(new) ELSE NTrucks
    <3> DEFINE k == Cardinality(old)
               d == DueSlots(b)
               l == Len(slot_wpos)
    <3>1. /\ k \in Nat /\ d \in Nat /\ l < NTrucks /\ l \in Nat
          /\ l = IF k < NTrucks THEN k ELSE NTrucks
          /\ Len(slot_wpos') = l + Allocate(l, d) /\ Cardinality(new) = k + d
      BY <1>3, <2>1, <2>2, <2>3, <2>5, <2>6
    <3> HIDE DEF k, d, l, new
    <3> QED BY <3>1, CoverAssumption DEF Allocate
  <2> QED BY <2>2, <2>7 DEF KeptIsUsed, TrucksAreUsed
<1>5. CASE ChooseWork
  <2>1. /\ stage = "due" /\ stage' = "cover" /\ slot_wpos' = slot_wpos /\ kept' = kept
        /\ Len(slot_wpos) >= NTrucks \/ DueBuckets \subseteq kept
    BY <1>5 DEF ChooseWork
  <2>2. /\ IsFiniteSet(DueBoxes) /\ Cardinality(DueBoxes) \in Nat
        /\ BoxesOf(kept) \in SUBSET DueBoxes /\ Cardinality(BoxesOf(kept)) \in Nat
    <3>1. BoxesOf(Buckets) = DueBoxes
      BY DEF BoxesOf, DueBoxes
    <3> QED BY <1>3, <3>1, BoxesFinite DEF BoxesOf
  <2>3. Cardinality(BoxesOf(kept)) <= Cardinality(DueBoxes)
    BY <2>2, FS_Subset
  <2>4. ASSUME DueBuckets \subseteq kept PROVE BoxesOf(kept) = DueBoxes
    <3> SUFFICES ASSUME NEW x \in DueBoxes PROVE x[1] \in DueBuckets
      BY <2>4 DEF BoxesOf
    <3> DEFINE b == x[1]
    <3>1. b \in Buckets /\ x \in BoxesOf({b})
      BY DEF DueBoxes, BoxesOf
    <3>2. /\ IsFiniteSet(BoxesOf({b})) /\ Cardinality(BoxesOf({b})) = DueSlots(b)
          /\ DueSlots(b) \in Nat
      BY <1>3, <3>1, BoxesFinite, BoxesOfOne, DueSlotsCount
    <3>3. DueSlots(b) # 0
      BY <3>1, <3>2, FS_EmptySet
    <3> HIDE DEF b
    <3>4. b \in DueBuckets
      BY <3>1, <3>2, <3>3 DEF DueBuckets
    <3> QED BY <3>4 DEF b
  <2>5. Len(slot_wpos) = IF Cardinality(BoxesOf(kept)) < NTrucks
                         THEN Cardinality(BoxesOf(kept)) ELSE NTrucks
    BY <2>1 DEF KeptIsUsed
  <2>6. Len(slot_wpos) = IF Cardinality(DueBoxes) < NTrucks
                         THEN Cardinality(DueBoxes) ELSE NTrucks
    <3> DEFINE k == Cardinality(BoxesOf(kept))
               d == Cardinality(DueBoxes)
    <3>1. /\ k \in Nat /\ d \in Nat /\ k <= d
          /\ Len(slot_wpos) = IF k < NTrucks THEN k ELSE NTrucks
          /\ Len(slot_wpos) >= NTrucks \/ k = d
      BY <2>1, <2>2, <2>3, <2>4, <2>5
    <3> HIDE DEF k, d
    <3>2. Len(slot_wpos) = IF d < NTrucks THEN d ELSE NTrucks
      BY <3>1, CoverAssumption
    <3> QED BY <3>2 DEF d
  <2> QED BY <1>2, <2>1, <2>6 DEF KeptIsUsed, TrucksAreUsed
<1>6. CASE CoverSlot \/ try_slot \/ Finish \/ UNCHANGED coverVars
  <2>1. UNCHANGED <<kept, slot_wpos>> /\ (stage' = "due" <=> stage = "due")
    BY <1>6 DEF coverVars, CoverSlot, try_slot, Reassign, Descend, GiveUp, Finish
  <2>2. BoxesOf(kept)' = BoxesOf(kept)
    BY <1>2, <2>1 DEF BoxesOf
  <2> QED BY <1>2, <2>1, <2>2 DEF KeptIsUsed, TrucksAreUsed
<1> QED BY <1>4, <1>5, <1>6 DEF CoverNext

\* The due slots are cut to the number of trucks, and no further (allocate_due).
THEOREM DueWorkIsKept == CoverSpec => []TrucksAreUsed
<1>1. CoverIInv /\ KeptIsUsed /\ [CoverNext]_coverVars => (CoverIInv /\ KeptIsUsed)'
  BY CoverStep, UsedStep
<1>2. KeptIsUsed => TrucksAreUsed
  BY DEF KeptIsUsed
<1>3. CoverInit => CoverIInv /\ KeptIsUsed
  BY CoverStart, UsedStart
<1> QED BY <1>1, <1>2, <1>3, PTL DEF CoverSpec

-----------------------------------------------------------------------------
\* What the solver is asked once the cover is done.
Handed ==
    /\ stage # "assigned" => phase = "idle"
    /\ stage = "assigned" =>
        /\ slots_in = CoveredSlots /\ n_trucks = NTrucks /\ n_slots = Len(slots_in)
        /\ cost = [x \in Candidates \X DOMAIN slots_in |->
                    LET pair == <<x[1], slots_in[x[2]]>> IN
                    IF pair \in edges THEN PairCost[pair] ELSE Forbidden]

MatchIInv == SolverIInv /\ CoverIInv /\ KeptIsUsed /\ Handed

\* The covered slots count up one by one.
LEMMA RanksAreSlots ==
    ASSUME CoverTypeOK
    PROVE  /\ CoveredSlots \in Seq(Buckets) /\ Len(CoveredSlots) = Cardinality(Covered)
           /\ DOMAIN CoveredSlots = 1 .. Cardinality(Covered)
           /\ \A s \in Covered : /\ Rank(s) \in 1 .. Cardinality(Covered)
                                 /\ CoveredSlots[Rank(s)] = slot_wpos[s]
           /\ \A s, r \in Covered : Rank(s) = Rank(r) => s = r
<1> DEFINE below(s) == {r \in Covered : r <= s}
           k == Cardinality(Covered)
<1>1. /\ Covered \in SUBSET (1 .. Len(covered)) /\ IsFiniteSet(Covered) /\ k \in Nat
      /\ Len(covered) \in Nat /\ slot_wpos \in Seq(Buckets) /\ Len(covered) <= Len(slot_wpos)
  BY CoveredFinite DEF CoverTypeOK
<1>2. \A s : /\ below(s) \in SUBSET Covered /\ IsFiniteSet(below(s))
             /\ Cardinality(below(s)) \in Nat /\ Cardinality(below(s)) <= k
  BY <1>1, FS_Subset, FS_CardinalityType
<1>3. \A s \in Covered : Rank(s) \in 1 .. k
  <2> TAKE s \in Covered
  <2>1. s \in below(s)
    BY <1>1
  <2>2. Cardinality(below(s)) # 0
    BY <1>2, <2>1, FS_EmptySet
  <2>3. Cardinality(below(s)) \in Nat /\ Cardinality(below(s)) <= k
    BY <1>2
  <2>4. Rank(s) = Cardinality(below(s))
    BY DEF Rank
  <2> HIDE DEF below, k
  <2> QED BY <1>1, <2>2, <2>3, <2>4
<1>4. \A s, r \in Covered : Rank(s) = Rank(r) => s = r
  <2>1. ASSUME NEW s \in Covered, NEW r \in Covered, s < r
        PROVE  Rank(s) # Rank(r)
    <3>1. below(s) \in SUBSET below(r) /\ r \in below(r) /\ r \notin below(s)
      <4>1. \A q \in Covered : q \in Nat
        BY <1>1
      <4> QED BY <2>1, <4>1
    <3>2. Rank(s) = Cardinality(below(s)) /\ Rank(r) = Cardinality(below(r))
      BY DEF Rank
    <3>3. IsFiniteSet(below(r))
      BY <1>2
    <3> HIDE DEF below
    <3>4. Cardinality(below(r)) = Cardinality(below(s)) => below(r) = below(s)
      BY <3>1, <3>3, FS_Subset
    <3> QED BY <3>1, <3>2, <3>4
  <2>2. \A s, r \in Covered : s < r \/ r < s \/ s = r
    BY <1>1
  <2> QED BY <2>1, <2>2
<1> DEFINE at(j) == CHOOSE s \in Covered : Rank(s) = j
<1>5. \A s \in Covered : at(Rank(s)) = s
  BY <1>4
<1>6. \A j \in 1 .. k : \E s \in Covered : Rank(s) = j
  <2> DEFINE f == [s \in Covered |-> Rank(s)]
  <2>1. f \in [Covered -> 1 .. k] /\ \A s, r \in Covered : f[s] = f[r] => s = r
    BY <1>3, <1>4
  <2>2. IsFiniteSet(1 .. k) /\ Cardinality(1 .. k) = k
    <3>1. k \in Nat
      BY <1>1
    <3> HIDE DEF k
    <3> QED BY <3>1, Interval
  <2>3. f \in Injection(Covered, 1 .. k)
    <3> HIDE DEF f, k
    <3> QED BY <2>1 DEF Injection, IsInjective
  <2>4. f \in Surjection(Covered, 1 .. k)
    <3> DEFINE I == 1 .. k
    <3>1. IsFiniteSet(I) /\ f \in Injection(Covered, I) /\ Cardinality(Covered) = Cardinality(I)
      BY <2>2, <2>3
    <3> HIDE DEF f, k, I
    <3>2. f \in Surjection(Covered, I)
      BY <3>1, FS_Injection
    <3> QED BY <3>2 DEF I
  <2>5. \A j \in 1 .. k : \E s \in Covered : f[s] = j
    <3> HIDE DEF f, k
    <3> QED BY <2>4 DEF Surjection
  <2> QED BY <2>5
<1>7. \A j \in 1 .. k : at(j) \in Covered
  BY <1>6
<1>8. \A s \in Covered : slot_wpos[s] \in Buckets
  BY <1>1
<1>9. CoveredSlots = [j \in 1 .. k |-> slot_wpos[at(j)]]
  BY DEF CoveredSlots
<1>10. \A j \in 1 .. k : slot_wpos[at(j)] \in Buckets
  BY <1>7, <1>8
<1> HIDE DEF at, k
<1>11. CoveredSlots \in Seq(Buckets) /\ Len(CoveredSlots) = k /\ DOMAIN CoveredSlots = 1 .. k
  BY <1>1, <1>9, <1>10
<1>12. \A s \in Covered : CoveredSlots[Rank(s)] = slot_wpos[s]
  BY <1>3, <1>5, <1>9
<1> QED BY <1>3, <1>4, <1>11, <1>12 DEF k

LEMMA MatchStart == MatchInit => MatchIInv
<1> SUFFICES ASSUME MatchInit PROVE MatchIInv
  OBVIOUS
<1>1. SolverIInv /\ CoverIInv /\ KeptIsUsed
  BY SolverStart, CoverStart, UsedStart DEF MatchInit
<1> QED BY <1>1 DEF MatchIInv, Handed, MatchInit, SolverInit, CoverInit

LEMMA AssignStep ==
    ASSUME MatchIInv, AssignCovered
    PROVE  MatchIInv'
<1> DEFINE table == [x \in Candidates \X DOMAIN slots_in' |->
                        LET pair == <<x[1], slots_in'[x[2]]>> IN
                        IF pair \in edges THEN PairCost[pair] ELSE Forbidden]
<1>1. /\ stage = "done" /\ phase = "idle" /\ stage' = "assigned" /\ slots_in' = CoveredSlots
      /\ Call(NTrucks, Len(slots_in'), table)
      /\ UNCHANGED <<bucket, edges, kept, slot_wpos, truck_slot, covered, path, seen>>
  BY DEF AssignCovered
<1>2. SolverIInv /\ CoverIInv /\ CoverTypeOK /\ KeptIsUsed
  BY DEF MatchIInv, CoverIInv
<1>3. /\ CoveredSlots \in Seq(Buckets) /\ Len(CoveredSlots) \in Nat
      /\ DOMAIN CoveredSlots = 1 .. Len(CoveredSlots) /\ Len(CoveredSlots) <= NTrucks
  <2>1. Cardinality(Covered) <= Len(covered) /\ Len(covered) <= NTrucks
    <3>1. /\ Len(covered) \in Nat /\ Covered \in SUBSET (1 .. Len(covered))
          /\ Len(covered) <= Len(slot_wpos) /\ Len(slot_wpos) <= NTrucks /\ Len(slot_wpos) \in Nat
      <4>1. Covered \in SUBSET (1 .. Len(covered))
        BY <1>2, CoveredFinite
      <4>2. /\ covered \in Seq(BOOLEAN) /\ slot_wpos \in Seq(Buckets)
            /\ Len(covered) <= Len(slot_wpos) /\ Len(slot_wpos) <= NTrucks
        BY <1>2 DEF CoverTypeOK
      <4> QED BY <4>1, <4>2
    <3>2. IsFiniteSet(1 .. Len(covered)) /\ Cardinality(1 .. Len(covered)) = Len(covered)
      BY <3>1, Interval
    <3>3. Cardinality(Covered) <= Cardinality(1 .. Len(covered))
      BY <3>1, <3>2, FS_Subset
    <3> QED BY <3>1, <3>2, <3>3, CoverAssumption
  <2>2. Cardinality(Covered) \in Nat /\ Len(covered) \in Nat
    BY <1>2, CoveredFinite DEF CoverTypeOK
  <2> QED BY <1>2, <2>1, <2>2, RanksAreSlots, CoverAssumption
<1>4. NTrucks \in 0 .. MaxTrucks /\ Len(slots_in') \in 0 .. MaxSlots
  BY <1>1, <1>3, CoverAssumption, MatchAssumption, AssignmentAssumption
<1>5. table \in [(1 .. NTrucks) \X (1 .. Len(slots_in')) -> Costs]
  <2>1. DOMAIN slots_in' = 1 .. Len(slots_in') /\ Candidates = 1 .. NTrucks
    BY <1>1, <1>3 DEF Candidates
  <2>2. \A x \in Candidates \X DOMAIN slots_in' : table[x] \in Costs
    BY <1>1, <1>2, MatchAssumption DEF Costs, CoverTypeOK
  <2> HIDE DEF table
  <2>3. DOMAIN table = Candidates \X DOMAIN slots_in' /\ table = [x \in Candidates \X DOMAIN slots_in' |-> table[x]]
    BY DEF table
  <2> QED BY <2>1, <2>2, <2>3
<1>6. AnyCall
  <2> HIDE DEF table
  <2>1. \E c \in [(1 .. NTrucks) \X (1 .. Len(slots_in')) -> Costs] :
            Call(NTrucks, Len(slots_in'), c)
    BY <1>1, <1>5
  <2> QED BY <1>1, <1>4, <2>1 DEF AnyCall
<1>7. SolverIInv'
  BY <1>2, <1>6, CallStep
<1>8. CoverIInv'
  <2>1. Served' /\ Refused'
    BY <1>1, <1>2, SameCover DEF CoverIInv
  <2>2. CoverTypeOK' /\ CoverStages'
    BY <1>1, <1>2 DEF CoverIInv, CoverTypeOK, CoverStages
  <2> QED BY <1>1, <2>1, <2>2 DEF CoverIInv, Asking
<1>9. KeptIsUsed'
  <2>1. DueBoxes' = DueBoxes
    BY <1>1 DEF DueBoxes, Deadline
  <2> QED BY <1>1, <1>2, <2>1 DEF KeptIsUsed, TrucksAreUsed
<1>10. CoveredSlots' = CoveredSlots
  BY <1>1 DEF CoveredSlots, Rank, Covered
<1>11. n_trucks' = NTrucks /\ n_slots' = Len(slots_in') /\ cost' = table
  BY <1>1 DEF Call
<1>12. Handed'
  BY <1>1, <1>10, <1>11 DEF Handed
<1> QED BY <1>7, <1>8, <1>9, <1>12 DEF MatchIInv

LEMMA MatchStep == MatchIInv /\ [MatchNext]_matchVars => MatchIInv'
<1> SUFFICES ASSUME MatchIInv, [MatchNext]_matchVars PROVE MatchIInv'
  OBVIOUS
<1>0. SolverIInv /\ CoverIInv /\ KeptIsUsed /\ Handed
  BY DEF MatchIInv
<1>1. CASE CoverNext /\ UNCHANGED <<slots_in, solverVars>>
  <2>1. CoverIInv' /\ KeptIsUsed'
    BY <1>0, <1>1, CoverStep, UsedStep
  <2>2. SolverIInv'
    BY <1>0, <1>1, SolverStep
  <2>3. stage # "assigned" /\ stage' # "assigned"
    BY <1>1 DEF CoverNext, allocate_due, ChooseWork, CoverSlot, try_slot, Reassign, Descend,
                GiveUp, Finish
  <2>4. Handed'
    BY <1>0, <1>1, <2>3 DEF Handed, solverVars
  <2> QED BY <2>1, <2>2, <2>4 DEF MatchIInv
<1>2. CASE AssignCovered
  BY <1>2, AssignStep
<1>3. CASE Solve /\ UNCHANGED <<slots_in, coverVars>>
  <2>1. SolverIInv'
    BY <1>0, <1>3, SolverStep DEF SolverNext
  <2>2. CoverIInv' /\ KeptIsUsed'
    BY <1>0, <1>3, CoverStep, UsedStep
  <2>3. UNCHANGED <<n_trucks, n_slots, cost>> /\ phase # "idle"
    BY <1>3 DEF Solve, NextRow, Scan, Augment
  <2>4. UNCHANGED <<slots_in, stage, slot_wpos, covered, edges>>
    BY <1>3 DEF coverVars
  <2>5. CoveredSlots' = CoveredSlots
    BY <2>4 DEF CoveredSlots, Rank, Covered
  <2>6. Handed'
    BY <1>0, <2>3, <2>4, <2>5 DEF Handed
  <2> QED BY <2>1, <2>2, <2>6 DEF MatchIInv
<1>4. CASE UNCHANGED matchVars
  <2>1. UNCHANGED solverVars /\ UNCHANGED coverVars /\ UNCHANGED slots_in
    BY <1>4 DEF matchVars
  <2>2. SolverIInv' /\ CoverIInv' /\ KeptIsUsed'
    BY <1>0, <2>1, SolverStep, CoverStep, UsedStep
  <2>3. CoveredSlots' = CoveredSlots
    BY <2>1 DEF CoveredSlots, Rank, Covered, coverVars
  <2>4. Handed'
    BY <1>0, <2>1, <2>3 DEF Handed, solverVars, coverVars
  <2> QED BY <2>2, <2>4 DEF MatchIInv
<1> QED BY <1>1, <1>2, <1>3, <1>4 DEF MatchNext

\* The trucks of the cover, each with the place of its slot, are a matching of the
\* solver's matrix: its result has no fewer pairs, and no slot has two.
LEMMA AllAssigned ==
    ASSUME MatchIInv
    PROVE  CoveredAreAssigned
<1> SUFFICES ASSUME stage = "assigned", phase = "done"
             PROVE  Cardinality(Result) = Len(slots_in)
  BY DEF CoveredAreAssigned
<1>1. SolverIInv /\ SolverTypeOK /\ CoverIInv /\ CoverTypeOK /\ Served /\ Handed
  BY DEF MatchIInv, SolverIInv, CoverIInv
<1> DEFINE k == Cardinality(Covered)
<1>2. /\ k \in Nat /\ IsFiniteSet(Covered) /\ slots_in = CoveredSlots /\ n_trucks = NTrucks
      /\ n_slots = k /\ Vehicles = Candidates /\ Slots = 1 .. k /\ DOMAIN slots_in = 1 .. k
  BY <1>1, CoveredFinite, RanksAreSlots DEF Handed, Vehicles, Slots, Candidates
<1>3. /\ \A s \in Covered : Rank(s) \in 1 .. k /\ slots_in[Rank(s)] = slot_wpos[s]
      /\ \A s, r \in Covered : Rank(s) = Rank(r) => s = r
  BY <1>1, <1>2, RanksAreSlots
<1>4. PICK f \in [Covered -> Candidates] :
        \A s \in Covered : truck_slot[f[s]] = s /\ <<f[s], slot_wpos[s]>> \in edges
  BY <1>1, CoveredAreServed
<1> DEFINE pairOf == [s \in Covered |-> <<f[s], Rank(s)>>]
           M == {pairOf[s] : s \in Covered}
<1> HIDE DEF k
<1>5. \A s \in Covered : /\ f[s] \in Candidates /\ pairOf[s] = <<f[s], Rank(s)>>
                         /\ pairOf[s] \in Vehicles \X Slots
  BY <1>2, <1>3
<1>6. \A s, r \in Covered : f[s] = f[r] => s = r
  BY <1>4
<1>7. MaxTrucks > 0 => MaxCost < Forbidden
  <2> DEFINE top == MaxCost * MaxTrucks
             more == MaxCost * (MaxTrucks - 1)
  <2>1. MaxTrucks > 0 => top = more + MaxCost /\ more >= 0 /\ more \in Int
    BY AssignmentAssumption
  <2>2. Forbidden > top /\ Forbidden \in Nat /\ MaxCost \in Nat
    BY AssignmentAssumption
  <2> HIDE DEF top, more
  <2> QED BY <2>1, <2>2
<1>8. \A s \in Covered : cost[pairOf[s]] < Forbidden
  <2> SUFFICES ASSUME NEW s \in Covered PROVE cost[pairOf[s]] < Forbidden
    OBVIOUS
  <2>1. /\ f[s] \in Candidates /\ Rank(s) \in 1 .. k /\ slots_in[Rank(s)] = slot_wpos[s]
        /\ <<f[s], slot_wpos[s]>> \in edges
    BY <1>3, <1>4
  <2>2. cost[<<f[s], Rank(s)>>] = PairCost[<<f[s], slot_wpos[s]>>]
    BY <1>1, <1>2, <2>1 DEF Handed
  <2>3. <<f[s], slot_wpos[s]>> \in Candidates \X Buckets
    BY <1>1, <2>1 DEF CoverTypeOK
  <2>4. PairCost[<<f[s], slot_wpos[s]>>] \in 0 .. MaxCost
    BY <2>3, MatchAssumption
  <2>5. MaxTrucks > 0
    BY <2>1, CoverAssumption, MatchAssumption, AssignmentAssumption DEF Candidates
  <2> QED BY <1>5, <1>7, <2>2, <2>4, <2>5, AssignmentAssumption
<1>9. IsMatching(M)
  <2>1. M \subseteq Vehicles \X Slots /\ \A x \in M : cost[x] < Forbidden
    <3> HIDE DEF pairOf
    <3> QED BY <1>5, <1>8
  <2>2. ASSUME NEW x \in M, NEW y \in M, x[1] = y[1] \/ x[2] = y[2] PROVE x = y
    <3>1. PICK s \in Covered : x = pairOf[s]
      OBVIOUS
    <3>2. PICK r \in Covered : y = pairOf[r]
      OBVIOUS
    <3> HIDE DEF pairOf, M
    <3>3. f[s] = f[r] \/ Rank(s) = Rank(r)
      BY <1>5, <2>2, <3>1, <3>2
    <3> QED BY <1>3, <1>6, <3>1, <3>2, <3>3
  <2> QED BY <2>1, <2>2 DEF IsMatching
<1>10. Cardinality(M) = k
  <2>1. /\ pairOf \in [Covered -> M] /\ \A x \in M : \E s \in Covered : pairOf[s] = x
        /\ \A s, r \in Covered : pairOf[s] = pairOf[r] => s = r
    <3>1. \A s, r \in Covered : pairOf[s] = pairOf[r] => s = r
      BY <1>6
    <3> QED BY <3>1
  <2> HIDE DEF pairOf, M
  <2> QED BY <1>2, <2>1, AsMany DEF k
<1>11. /\ IsMatching(Result) /\ Cardinality(Result) \in Nat
       /\ Cardinality(Result) <= k
  <2>1. IsMatching(Result)
    BY <1>1, ResultMatches
  <2> DEFINE slotOf == [x \in Result |-> x[2]]
             I == 1 .. k
  <2>2. slotOf \in [Result -> I] /\ \A x, y \in Result : slotOf[x] = slotOf[y] => x = y
    BY <1>2, <2>1 DEF IsMatching
  <2>3. IsFiniteSet(I) /\ Cardinality(I) = k
    BY <1>2, FS_Interval
  <2> HIDE DEF slotOf, I
  <2>4. IsFiniteSet(Result) /\ Cardinality(Result) <= Cardinality(I)
    BY <2>2, <2>3, NoMore
  <2> QED BY <2>1, <2>3, <2>4, FS_CardinalityType
<1>12. k <= Cardinality(Result)
  <2>1. M \in AllMatchings
    BY <1>9, MatchingsAre
  <2>2. BestMatching
    BY <1>1, SolverBest
  <2>3. Cardinality(M) < Cardinality(Result) \/ Cardinality(M) = Cardinality(Result)
    BY <2>1, <2>2 DEF BestMatching
  <2> QED BY <1>2, <1>10, <1>11, <2>3
<1> QED BY <1>1, <1>2, <1>11, <1>12 DEF Handed

\* A tick, from the due work to the trucks: the earlier due slot goes first, no truck
\* idles while work is due, and the solver gives a truck to every slot the cover
\* promised (the warning "fewer than the deadline cover" is never printed).
THEOREM PromisesAreKept == MatchSpec => [](CoverInv /\ TrucksAreUsed /\ CoveredAreAssigned)
<1>1. MatchInit => MatchIInv
  BY MatchStart
<1>2. MatchIInv => CoverInv /\ TrucksAreUsed /\ CoveredAreAssigned
  BY CoverTold, AllAssigned DEF MatchIInv, KeptIsUsed
<1> QED BY <1>1, <1>2, MatchStep, PTL DEF MatchSpec
=============================================================================
