-------------------------- MODULE MoveStreamProofs --------------------------
(***************************************************************************)
(* For every lag, cap, rate and number of rows: as long as no row becomes  *)
(* visible later than the safety lag allows, no row is skipped.            *)
(*                                                                         *)
(* NoSkip is not inductive: between the read and the commit of a poll it   *)
(* must be known that the rows the poll did not fetch will still be inside *)
(* the window after its commit (Behind), which in turn rests on where the  *)
(* poll began (FromWatermark) and on the upper edge (InTime).              *)
(***************************************************************************)
EXTENDS MoveStream, FiniteSetTheorems, TLAPS

\* No stream starts with a watermark ahead of the clock.
NonePlanted == Planted = {}

\* The safety lag covers the delay.
LagCovers == MaxDelay <= Lag

InTime == until <= clock /\ \A b \in batch : b.key <= until

\* A stream has begun exactly when it has a watermark.
Begun == /\ since # NoKey => \E d \in Days : wm[d] # NoKey
         /\ since = NoKey => \A d \in Days : wm[d] = NoKey

\* A poll of a stream that has begun looks back from one of the watermarks.
FromWatermark ==
    (pc = "seek" /\ since # NoKey) =>
        \E d \in Days : wm[d] # NoKey /\ seek_from = Seek(wm[d])

\* A row the poll has not fetched is not overtaken by one that it has.
Behind ==
    (pc = "fetched") =>
        \A r \in oracle \ (log \cup batch) :
            (r.kind # "broken" /\ r.key >= (IF since = NoKey THEN seek_from ELSE since))
                => \A b \in batch : r.key >= Seek(b.key)

IInv == /\ TypeOK /\ IsFiniteSet(oracle)
        /\ NotAhead /\ InTime /\ Begun /\ FromWatermark /\ Behind /\ NoSkip

\* Initially nothing has been read.
LEMMA StreamInit ==
    ASSUME NonePlanted, Init
    PROVE  IInv
<1> USE StreamAssumption DEF NoKey
<1>1. PICK first \in {NoKey, DayLen - 1}, p \in IF Planted = {} THEN {NoKey} ELSE Planted :
        /\ wm = [d \in Days |-> IF d = 0 THEN first ELSE IF d = 1 THEN p ELSE NoKey]
        /\ since = first
  BY DEF Init
<1>2. p = NoKey
  BY <1>1 DEF NonePlanted
<1>3. 0 \in Days
  BY DEF Days, Day, Time
<1>4. first \in Int /\ first <= DayLen /\ first >= -1 /\ DayLen \in Time
  BY DEF Time
<1>5. TypeOK
  <2>1. first \in Keys \cup {NoKey}
    BY <1>4 DEF Keys
  <2>2. wm \in [Days -> Keys \cup {NoKey}]
    BY <1>1, <1>2, <2>1
  <2> QED
    BY <1>1, <1>3, <1>4, <2>2 DEF Init, TypeOK, Time
<1>6. IsFiniteSet(oracle)
  BY FS_EmptySet DEF Init
<1>7. NotAhead
  BY <1>1, <1>2, <1>4 DEF NotAhead, Init
<1>8. Begun
  BY <1>1, <1>2, <1>3 DEF Begun
<1> QED
  BY <1>4, <1>5, <1>6, <1>7, <1>8
  DEF IInv, Init, InTime, FromWatermark, Behind, NoSkip, Time

\* Every step of the stream keeps the invariant.
LEMMA StreamStep ==
    ASSUME LagCovers, IInv, [Next]_vars
    PROVE  IInv'
<1> USE StreamAssumption DEF NoKey
<1> USE DEF IInv
<1>1. CASE Tick
  <2> USE <1>1 DEF Tick, poll
  <2>0. TypeOK' /\ IsFiniteSet(oracle)'
    BY DEF TypeOK, Time
  <2>1. NotAhead' /\ InTime'
    <3>1. clock \in Int /\ until \in Int /\ clock' >= clock /\ \A d \in Days : wm[d] \in Int
      BY DEF TypeOK, Time, Keys
    <3> QED
      BY <3>1 DEF NotAhead, InTime
  <2>2. Begun' /\ FromWatermark' /\ Behind'
    BY DEF Begun, FromWatermark, Behind
  <2>3. NoSkip'
    BY DEF NoSkip, Sane, NotAhead, TypeOK, Time, Keys
  <2> QED
    BY <2>0, <2>1, <2>2, <2>3
<1>2. CASE Complete
  <2> USE <1>2 DEF Complete, poll
  <2>1. PICK k \in Keys, kind \in {"good", "odd", "broken"} :
          /\ k + MaxDelay >= clock /\ k <= clock + MaxSkew
          /\ oracle' = oracle \cup {[id |-> Cardinality(oracle) + 1, key |-> k, kind |-> kind]}
    OBVIOUS
  <2> DEFINE new == [id |-> Cardinality(oracle) + 1, key |-> k, kind |-> kind]
  <2>2. Cardinality(oracle) \in Nat
    BY FS_CardinalityType
  <2>3. new \in Rows
    BY <2>2 DEF Rows
  <2>4. IsFiniteSet(oracle')
    BY <2>1, FS_AddElement
  <2>5. TypeOK'
    BY <2>1, <2>3 DEF TypeOK
  <2>6. NotAhead' /\ InTime' /\ Begun' /\ FromWatermark'
    BY DEF NotAhead, InTime, Begun, FromWatermark
  <2>7. Behind'
    <3>1. \A b \in batch : new.key >= Seek(b.key)
      BY <2>1 DEF InTime, LagCovers, Seek, TypeOK, Rows, Keys, Time
    <3> QED
      BY <2>1, <3>1 DEF Behind
  <2>8. NoSkip'
    <3>1. \A d \in Days : new.key >= Seek(wm[d])
      BY <2>1 DEF NotAhead, LagCovers, Seek, TypeOK, Keys, Time
    <3> QED
      BY <2>1, <3>1 DEF NoSkip, Sane
  <2> QED
    BY <2>4, <2>5, <2>6, <2>7, <2>8
<1>3. CASE Start
  <2> USE <1>3 DEF Start
  <2>1. Day(clock) \in Days
    BY DEF TypeOK, Days
  <2>2. seek_from' \in Int
    <3>1. Day(clock) \in Int
      BY DEF Day, TypeOK, Time
    <3>2. \A d \in Days : wm[d] \in Int
      BY DEF TypeOK, Keys
    <3>3. CASE Sane(clock) = {}
      BY <3>1, <3>3 DEF Seek, TypeOK, Time
    <3>4. CASE Sane(clock) # {}
      BY <3>2, <3>4 DEF Seek, Sane
    <3> QED
      BY <3>3, <3>4
  <2>3. TypeOK' /\ IsFiniteSet(oracle)'
    BY <2>1, <2>2 DEF TypeOK
  <2>4. NotAhead' /\ Begun' /\ NoSkip'
    BY DEF NotAhead, Begun, NoSkip, Sane
  <2>5. InTime'
    BY DEF InTime, TypeOK, Time, Rows, Keys
  <2>6. FromWatermark'
    <3>1. SUFFICES ASSUME since # NoKey
                   PROVE  \E d \in Days : wm[d] # NoKey /\ seek_from' = Seek(wm[d])
      BY DEF FromWatermark, Seek
    <3>2. Sane(clock) # {}
      BY <3>1 DEF Begun, Sane, NotAhead
    <3> QED
      BY <3>2 DEF Sane
  <2>7. Behind'
    BY DEF Behind
  <2> QED
    BY <2>3, <2>4, <2>5, <2>6, <2>7
<1>4. CASE Fetch
  <2> USE <1>4 DEF Fetch, poll
  <2> DEFINE W == {r \in oracle : InWindow(r)}
  <2>1. FirstRows(batch', W)
    OBVIOUS
  <2>2. batch' \subseteq W /\ \A b \in batch', w \in W \ batch' : b.key <= w.key
    BY <2>1 DEF FirstRows
  <2>3. TypeOK' /\ IsFiniteSet(oracle)'
    BY <2>2 DEF TypeOK
  <2>4. NotAhead' /\ Begun' /\ NoSkip' /\ FromWatermark'
    BY DEF NotAhead, Begun, NoSkip, Sane, FromWatermark
  <2>5. InTime'
    BY <2>2 DEF InTime, InWindow
  <2>6. Behind'
    <3>1. SUFFICES ASSUME NEW r \in oracle, r \notin log, r \notin batch', r.kind # "broken",
                          r.key >= (IF since = NoKey THEN seek_from ELSE since),
                          NEW b \in batch'
                   PROVE  r.key >= Seek(b.key)
      BY DEF Behind, Seek
    <3>2. r.key \in Int /\ b.key \in Int /\ until \in Int /\ seek_from \in Int /\ b.key <= until
      BY <2>2, <3>1 DEF TypeOK, Rows, Keys, Time, InWindow
    <3>3. r.key >= seek_from
      <4>1. CASE since = NoKey
        BY <3>1, <4>1
      <4>2. CASE since # NoKey
        <5>1. PICK d \in Days : wm[d] # NoKey /\ seek_from = Seek(wm[d])
          BY <4>2 DEF FromWatermark
        <5>2. d \in Sane(clock)
          BY <5>1 DEF Sane, NotAhead
        <5> QED
          BY <3>1, <4>2, <5>1, <5>2 DEF NoSkip
      <4> QED
        BY <4>1, <4>2
    <3>4. CASE r.key > until
      BY <3>2, <3>4 DEF Seek
    <3>5. CASE r.key <= until
      <4>1. r \in W \ batch'
        BY <3>1, <3>3, <3>5 DEF InWindow
      <4> QED
        BY <2>2, <3>2, <4>1 DEF Seek
    <3> QED
      BY <3>2, <3>4, <3>5
  <2> QED
    BY <2>3, <2>4, <2>5, <2>6
<1>5. CASE Commit
  <2> USE <1>5 DEF Commit, poll
  <2>0. log' \subseteq oracle
    BY DEF TypeOK, Parsed
  <2>1. CASE Advances(batch) = {}
    <3> USE <2>1
    <3>1. TypeOK' /\ IsFiniteSet(oracle)'
      BY <2>0 DEF TypeOK
    <3>2. NotAhead' /\ InTime' /\ Begun' /\ FromWatermark' /\ Behind'
      BY DEF NotAhead, InTime, Begun, FromWatermark, Behind
    <3>3. NoSkip'
      BY DEF NoSkip, Sane
    <3> QED
      BY <3>1, <3>2, <3>3
  <2>2. CASE Advances(batch) # {}
    <3>1. PICK m \in Advances(batch) :
            /\ wm' = [wm EXCEPT ![run_day] = Greatest(@, m.key)]
            /\ since' = IF since = NoKey THEN Greatest(seek_from, 0) ELSE since
      BY <2>2
    <3>2. m \in batch /\ m.key \in Keys /\ m.key <= clock
      BY DEF Advances, InTime, TypeOK, Rows, Keys, Time
    <3>3. wm'[run_day] \in {wm[run_day], m.key} /\ wm'[run_day] >= m.key
      BY <3>1, <3>2 DEF Greatest, TypeOK, Keys
    <3>4. \A d \in Days : d # run_day => wm'[d] = wm[d]
      BY <3>1 DEF TypeOK
    <3>5. since' \in Int /\ since' # NoKey
      BY <3>1 DEF Greatest, TypeOK
    <3>6. wm' \in [Days -> Keys \cup {NoKey}]
      BY <3>1, <3>2 DEF TypeOK, Greatest
    <3>7. TypeOK' /\ IsFiniteSet(oracle)'
      BY <2>0, <3>5, <3>6 DEF TypeOK
    <3>8. NotAhead' /\ InTime'
      BY <3>2, <3>3, <3>4 DEF NotAhead, InTime
    <3>9. Begun'
      BY <3>2, <3>3, <3>5 DEF Begun, TypeOK, Keys
    <3>10. FromWatermark' /\ Behind'
      BY DEF FromWatermark, Behind
    <3>11. NoSkip'
      <4>1. SUFFICES ASSUME NEW r \in oracle, r \notin log', r.kind # "broken", r.key >= since',
                            NEW d \in Days, wm'[d] # NoKey
                     PROVE  r.key >= Seek(wm'[d])
        BY DEF NoSkip, Sane, Seek
      <4>2. r \notin log /\ r \notin batch
        BY <4>1 DEF Parsed
      <4>3. r.key \in Int /\ seek_from \in Int /\ since \in Int
        BY <4>1 DEF TypeOK, Rows, Keys
      <4>4. r.key >= (IF since = NoKey THEN seek_from ELSE since)
        BY <3>1, <4>1, <4>3 DEF Greatest
      <4>5. r.key >= Seek(m.key)
        BY <3>2, <4>1, <4>2, <4>4 DEF Behind
      <4>6. ASSUME wm'[d] = wm[d]
            PROVE  r.key >= Seek(wm[d])
        <5>1. wm[d] # NoKey
          BY <4>1, <4>6
        <5>2. since # NoKey
          BY <5>1 DEF Begun
        <5>3. d \in Sane(clock)
          BY <5>1 DEF Sane, NotAhead
        <5> QED
          BY <4>1, <4>2, <4>4, <5>2, <5>3 DEF NoSkip
      <4> QED
        BY <3>3, <3>4, <4>5, <4>6
    <3> QED
      BY <3>7, <3>8, <3>9, <3>10, <3>11
  <2> QED
    BY <2>1, <2>2
<1>6. CASE Fail
  <2> USE <1>6 DEF Fail, poll
  <2>1. TypeOK' /\ IsFiniteSet(oracle)'
    BY DEF TypeOK
  <2>2. NotAhead' /\ InTime' /\ Begun' /\ FromWatermark' /\ Behind'
    BY DEF NotAhead, InTime, Begun, FromWatermark, Behind
  <2>3. NoSkip'
    BY DEF NoSkip, Sane
  <2> QED
    BY <2>1, <2>2, <2>3
<1>7. CASE UNCHANGED vars
  BY <1>7 DEF vars, poll, TypeOK, NotAhead, InTime, Begun, FromWatermark, Behind, NoSkip, Sane
<1> QED
  BY <1>1, <1>2, <1>3, <1>4, <1>5, <1>6, <1>7 DEF Next

\* Whatever the cap and the outages, a row that has not been logged is still
\* inside the window of the next poll.
THEOREM StreamNoSkip ==
    ASSUME NonePlanted, LagCovers
    PROVE  Spec => []NoSkip
<1>1. Init => IInv
  BY StreamInit
<1>2. IInv /\ [Next]_vars => IInv'
  BY StreamStep
<1>3. IInv => NoSkip
  BY DEF IInv
<1> QED
  BY <1>1, <1>2, <1>3, PTL DEF Spec

\* The watermark is never ahead of the clock, although keys may be.
THEOREM StreamNotAhead ==
    ASSUME NonePlanted, LagCovers
    PROVE  Spec => []NotAhead
<1>1. Init => IInv
  BY StreamInit
<1>2. IInv /\ [Next]_vars => IInv'
  BY StreamStep
<1>3. IInv => NotAhead
  BY DEF IInv
<1> QED
  BY <1>1, <1>2, <1>3, PTL DEF Spec
=============================================================================
