------------------------- MODULE DispatchHoldProofs -------------------------
(***************************************************************************)
(* Proofs about DispatchHold for every fleet, every set of boxes and every *)
(* value of the bounds.                                                    *)
(***************************************************************************)
EXTENDS DispatchHold, TLAPS

\* After the TOS signals of the tick have been read.
AfterSignals == {"pool", "work", "swap", "swaplog", "release", "match"}

\* Nothing carries a time later than the clock.
TimesPast ==
    /\ stamp <= clock /\ list.stamped <= clock /\ last_at <= clock
    /\ as_of <= clock + Margin
    /\ list.listed # {} => list.stamped # NoTime
    /\ DOMAIN list.dis \subseteq list.listed
    /\ \A t \in DOMAIN list.dis : list.dis[t] <= clock
    /\ \A t \in Trucks : picked[t] <= clock /\ hist[t] <= clock
    /\ \A t \in Trucks : /\ tos_sig[t].dis <= clock /\ tos_sig[t].listed_at <= clock
                         /\ tos_sig[t].picked <= clock
    /\ \A r \in open : r.at <= last_at
    /\ pc \in {"restore", "signals", "pool", "work", "swap"} => last_at < clock

\* A row written earlier in this tick names a truck no assignment can follow.
ThisTick ==
    pc \in {"swaplog", "release", "match"} =>
        \A o \in open : o.at < clock \/ ~ FreeNow(o.truck)

\* No list that can release an unanswered order has been read or has landed.
ListBefore ==
    \A r \in Unanswered : /\ HasRows(list) => list.stamped <= r.at
                          /\ as_of <= r.at + Margin

\* The process holds every unanswered order, except between a start and the
\* restoration of the holds.
HeldInv ==
    /\ hold_sent /\ restored => Unanswered \subseteq held
    /\ hold_sent /\ pc \notin {"wait", "restore"} => restored

\* What the database now says of the truck of an unanswered order is no reason
\* to release it; an assigned truck is unknown to TOS or has a free record.
QuietNow ==
    \A r \in Unanswered :
        /\ ~ truck_busy_after(SigOf(r.truck), r.kind, r.at)
        /\ r.kind = "assign" => ~ Known(r.truck) \/ free[r.truck] # NoTime

\* Neither is what this tick has read.
QuietRead ==
    pc \in AfterSignals =>
        \A r \in Unanswered : ~ truck_busy_after(tos_sig[r.truck], r.kind, r.at)

\* s is no more alarming than o: anything busy by s is busy by o.
Calmer(s, o) ==
    /\ s.picked = o.picked /\ s.free >= o.free /\ s.avail_since >= o.avail_since
    /\ s.dis <= o.dis /\ s.listed_at <= o.listed_at

\* For a truck without news the database has only become calmer since it was read.
ReadIsCurrent ==
    pc \in AfterSignals =>
        \A t \in Trucks \ (news \cup lapses) :
            IF tos_sig[t] = NoSig THEN ~ Known(t)
            ELSE Known(t) => Calmer(SigOf(t), tos_sig[t])

IInv ==
    /\ TypeOK
    /\ TimesPast
    /\ ThisTick
    /\ ListBefore
    /\ HeldInv
    /\ QuietNow
    /\ QuietRead
    /\ ReadIsCurrent
    /\ OneOrderPerTruck
    /\ OneAssignPerBox
    /\ UnansweredIsRestorable

-----------------------------------------------------------------------------

LEMMA PartialMapsChar ==
    ASSUME NEW S, NEW T, NEW f
    PROVE  f \in PartialMaps(S, T) <=> DOMAIN f \subseteq S /\ f \in [DOMAIN f -> T]
BY DEF PartialMaps

LEMMA EmptyMapType ==
    ASSUME NEW S, NEW T
    PROVE  EmptyMap \in PartialMaps(S, T) /\ DOMAIN EmptyMap = {}
<1>1. DOMAIN EmptyMap = {} /\ EmptyMap \in [{} -> T]
  BY DEF EmptyMap
<1> QED BY <1>1, PartialMapsChar

\* Any signal the query returns is well typed.
LEMMA SigOfType ==
    ASSUME TypeOK, NEW t \in Trucks
    PROVE  SigOf(t) \in TosSigs(OptTime)
<1>1. NoTime \in OptTime
  BY DEF OptTime, OptUpTo
<1>2. \A u \in DOMAIN list.dis : list.dis[u] \in OptTime
  <2>1. list.dis \in PartialMaps(Trucks, Time)
    BY DEF TypeOK, Lists
  <2>2. list.dis \in [DOMAIN list.dis -> Time]
    BY <2>1, PartialMapsChar
  <2> QED BY <2>2 DEF Time, OptTime, OptUpTo
<1>3. ListedAt(t) \in OptTime
  BY <1>1 DEF TypeOK, Lists, ListedAt, Max2
<1> QED BY <1>1, <1>2, <1>3 DEF TypeOK, SigOf, TosSigs, NoSig

SigsTyped == \A t \in Trucks : SigOf(t) \in TosSigs(OptTime)

LEMMA SigsTypedNext == (TypeOK => SigsTyped) /\ (TypeOK' => SigsTyped')
<1>1. TypeOK => SigsTyped
  BY SigOfType DEF SigsTyped
<1> QED BY <1>1, PTL

\* The orders a tick can write are rows.
LEMMA SwapRowsType ==
    ASSUME TypeOK, NEW s \in Swaps
    PROVE  {SwapRow(s, t) : t \in DOMAIN s} \subseteq Rows
<1> SUFFICES ASSUME NEW t \in DOMAIN s PROVE SwapRow(s, t) \in Rows
  OBVIOUS
<1>1. DOMAIN s \subseteq {u \in Trucks : SwapCand(u)} /\ s[t] \in DOMAIN s
  BY PartialMapsChar DEF Swaps
<1>2. s[t] \in DOMAIN redir
  BY <1>1 DEF SwapCand
<1>3. redir[s[t]] \in Boxes
  BY <1>2, PartialMapsChar DEF TypeOK
<1> QED BY <1>1, <1>3 DEF SwapRow, Rows, TypeOK

LEMMA NewOrdersType ==
    ASSUME TypeOK, NEW m \in Matchings
    PROVE  NewOrders(m) \subseteq Rows
<1> SUFFICES ASSUME NEW t \in DOMAIN m
             PROVE  [truck |-> t, box |-> m[t], kind |-> "assign", at |-> clock] \in Rows
  BY DEF NewOrders
<1>1. t \in Trucks /\ m[t] \in work
  BY PartialMapsChar DEF Matchings
<1> QED BY <1>1 DEF Rows, TypeOK

LEMMA InitType == Init => TypeOK
<1>1. NoTime \in OptTime /\ 0 \in Time
  BY HoldAssumption DEF OptTime, OptUpTo, Time
<1>2. EmptyList \in Lists
  BY <1>1, EmptyMapType DEF EmptyList, Lists
<1>3. NoSig \in TosSigs(OptTime)
  BY <1>1 DEF NoSig, TosSigs
<1>4. EmptyMap \in PartialMaps(Trucks, Boxes)
  BY EmptyMapType
<1>5. [list |-> 0, record |-> 0] \in
        [list : 0 .. MaxLists, record : 0 .. MaxRecords]
  BY HoldAssumption
<1>6. 0 \in 0 .. MaxFaults
  BY HoldAssumption
<1>7. Init => hold_sent \in BOOLEAN /\ restored \in BOOLEAN
  BY Zenon DEF Init
<1>8. Init => picked = free /\ avail = free /\ hist = free /\ swap_ts = free
              /\ free \in [Trucks -> OptTime]
  BY <1>1 DEF Init
<1>9. Init => tos_sig \in [Trucks -> TosSigs(OptTime)]
  BY <1>3 DEF Init
<1> QED BY <1>1, <1>2, <1>4, <1>5, <1>6, <1>7, <1>8, <1>9 DEF Init, TypeOK

\* A committed, failed or unacknowledged write of rows keeps the types.
LEMMA WriteType ==
    ASSUME TypeOK, NEW rows \in SUBSET Rows, WriteOk(rows) \/ WriteFails(rows)
    PROVE  /\ held' \subseteq Rows /\ open' \subseteq Rows
           /\ outstanding' \subseteq Rows /\ lapsed' \subseteq Rows
           /\ last_at' \in OptTime /\ faults' \in 0 .. MaxFaults
<1>1. clock \in OptTime
  BY DEF TypeOK, Time, OptTime, OptUpTo
<1>2. CASE WriteOk(rows)
  BY <1>1, <1>2 DEF WriteOk, apply_written, TypeOK
<1>3. CASE WriteFails(rows)
  BY <1>1, <1>3, HoldAssumption DEF WriteFails, TypeOK
<1> QED BY <1>2, <1>3

LEMMA ForgetType ==
    ASSUME TypeOK, Forget
    PROVE  /\ as_of' = NoTime /\ tos_sig' \in [Trucks -> TosSigs(OptTime)]
           /\ redir' \in PartialMaps(Trucks, Boxes) /\ frozen' = {} /\ work' = {}
           /\ swapped' = {} /\ news' = {} /\ lapses' = {}
<1>1. NoSig \in TosSigs(OptTime)
  BY DEF NoSig, TosSigs, OptTime, OptUpTo
<1> QED BY <1>1, EmptyMapType DEF Forget

LEMMA LandingType == TypeOK /\ (Tick \/ Landing) => TypeOK'
<1> SUFFICES ASSUME TypeOK, Tick \/ Landing PROVE TypeOK'
  OBVIOUS
<1> USE HoldAssumption
<1>1. clock \in OptTime /\ NoTime \in OptTime
  BY DEF TypeOK, Time, OptTime, OptUpTo
<1>r. \A x \in Recent : x \in OptTime /\ x \in Time
  BY DEF TypeOK, Recent, Time, OptTime, OptUpTo
<1>2. CASE Tick
  BY <1>2 DEF TypeOK, Tick, db_in, db_out, proc, local, ghost, Time
<1>3. CASE StampList \/ FailList
  BY <1>1, <1>3 DEF TypeOK, StampList, FailList, db_out, proc, local, ghost
<1>4. CASE LandList
  <2>0. PICK T \in SUBSET Trucks :
        \E q \in PartialMaps(T, Boxes), dis \in PartialMaps(T, Recent), W \in SUBSET Boxes :
          /\ list' = [stamped |-> stamp, q |-> q, dis |-> dis, listed |-> T, work |-> W]
          /\ outstanding' \subseteq outstanding /\ news' = news \cup T
    BY <1>4 DEF LandList
  <2> PICK q \in PartialMaps(T, Boxes), dis \in PartialMaps(T, Recent), W \in SUBSET Boxes :
        /\ list' = [stamped |-> stamp, q |-> q, dis |-> dis, listed |-> T, work |-> W]
        /\ outstanding' \subseteq outstanding /\ news' = news \cup T
    BY <2>0
  <2>1. q \in PartialMaps(Trucks, Boxes)
    BY PartialMapsChar
  <2>2. dis \in PartialMaps(Trucks, Time)
    <3>1. DOMAIN dis \subseteq T /\ dis \in [DOMAIN dis -> Recent]
      BY PartialMapsChar
    <3>2. DOMAIN dis \subseteq Trucks /\ dis \in [DOMAIN dis -> Time]
      BY <3>1, <1>r
    <3> QED BY <3>2, PartialMapsChar
  <2>3. list' \in Lists
    BY <2>1, <2>2 DEF Lists, TypeOK
  <2>4. lapsed' \subseteq lapsed /\ lands' \in [list : 0 .. MaxLists, record : 0 .. MaxRecords]
    BY <1>4 DEF LandList, TypeOK
  <2> QED BY <1>1, <1>4, <2>3, <2>4 DEF LandList, TypeOK, db_out, proc, local
<1>5. CASE LandPicked
  BY <1>1, <1>r, <1>5 DEF LandPicked, Answered, TypeOK, db_out, proc, local
<1>6. CASE LandFree
  BY <1>1, <1>r, <1>6 DEF LandFree, Lapse, TypeOK, db_out, proc, local
<1>7. CASE OpenAvail
  BY <1>1, <1>r, <1>7 DEF OpenAvail, TypeOK, db_out, proc, local, ghost
<1>8. CASE CloseAvail
  BY <1>1, <1>8 DEF CloseAvail, Answered, TypeOK, db_out, proc, local
<1>9. CASE AnchorStale
  BY <1>1, <1>9 DEF AnchorStale, Lapse, TypeOK, db_out, proc, local
<1> QED BY <1>2, <1>3, <1>4, <1>5, <1>6, <1>7, <1>8, <1>9 DEF Landing

LEMMA StepType == TypeOK /\ (Step \/ Restart) => TypeOK'
<1> SUFFICES ASSUME TypeOK, Step \/ Restart PROVE TypeOK'
  OBVIOUS
<1> USE HoldAssumption
<1> USE DEF db_in, db_out, proc, local, ghost
<1>1. NoTime \in OptTime
  BY DEF OptTime, OptUpTo
<1>2. CASE Wake
  <2>1. as_of' \in {NoTime} \cup 0 .. (MaxTime + ReadErr)
    <3>1. CASE HasRows(list)
      <4>1. PICK e \in 0 .. ReadErr : as_of' = list.stamped + e
        BY <1>2, <3>1 DEF Wake
      <4>2. list.stamped \in Time \cup {NoTime}
        BY DEF TypeOK, Lists, OptTime, OptUpTo, Time
      <4> QED BY <4>1, <4>2 DEF NoTime, Time
    <3>2. CASE ~ HasRows(list)
      BY <1>2, <3>2 DEF Wake
    <3> QED BY <3>1, <3>2
  <2>2. held' \subseteq Rows
    BY <1>2 DEF Wake, TypeOK
  <2> QED BY <1>2, <2>1, <2>2 DEF Wake, TypeOK
<1>3. CASE Restore
  <2>1. held' \subseteq Rows /\ open' \subseteq Rows /\ faults' \in 0 .. MaxFaults
    BY <1>3 DEF Restore, restore_holds, close_sent, TypeOK
  <2>2. outstanding' \subseteq Rows /\ lapsed' \subseteq Rows
    BY <1>3 DEF Restore, TypeOK
  <2> QED BY <1>3, <2>1, <2>2 DEF Restore, TypeOK
<1>4. CASE RestoreFails
  BY <1>4, ForgetType DEF RestoreFails, EndTick, TypeOK
<1>5. CASE Cancel
  <2>1. open' \subseteq Rows /\ outstanding' \subseteq Rows /\ lapsed' \subseteq Rows
        /\ faults' \in 0 .. MaxFaults
    BY <1>5 DEF Cancel, TypeOK
  <2>2. restored' \in BOOLEAN
    BY <1>5, Zenon DEF Cancel, TypeOK
  <2> QED BY <1>5, <2>1, <2>2 DEF Cancel, TypeOK
<1>6. CASE ReadSignals
  <2>1. tos_sig' \in [Trucks -> TosSigs(OptTime)]
    BY <1>6, SigOfType DEF ReadSignals
  <2> QED BY <1>6, <2>1 DEF ReadSignals, TypeOK
<1>7. CASE ReadPool
  <2>1. redir' \in PartialMaps(Trucks, Boxes)
    BY <1>7, EmptyMapType DEF ReadPool, TypeOK, Lists
  <2>2. [t \in Trucks |-> IF t \in list.listed THEN Max2(hist[t], list.stamped) ELSE hist[t]]
          \in [Trucks -> OptTime]
    BY DEF Max2, TypeOK, Lists
  <2>3. hist' \in [Trucks -> OptTime]
    BY <1>7, <2>2 DEF ReadPool, TypeOK
  <2>4. frozen' \subseteq Trucks /\ faults' \in 0 .. MaxFaults
    BY <1>7 DEF ReadPool, TypeOK
  <2> QED BY <1>7, <2>1, <2>3, <2>4 DEF ReadPool, TypeOK
<1>8. CASE ReadWork
  BY <1>8 DEF ReadWork, TypeOK, Lists
<1>9. CASE ReadFails
  BY <1>9, ForgetType DEF ReadFails, EndTick, TypeOK
<1>10. CASE Swap
  <2>1. PICK s \in Swaps :
          LET rows == IF hold_sent THEN {SwapRow(s, t) : t \in DOMAIN s} ELSE {} IN
          \/ WriteOk(rows) /\ swapped' = {{t, s[t]} : t \in DOMAIN s}
          \/ WriteFails(rows) /\ swapped' = {}
    BY <1>10 DEF Swap
  <2> DEFINE rows == IF hold_sent THEN {SwapRow(s, t) : t \in DOMAIN s} ELSE {}
  <2>2. rows \in SUBSET Rows
    BY SwapRowsType
  <2>3. WriteOk(rows) \/ WriteFails(rows)
    BY <2>1
  <2>4. swapped' \subseteq SUBSET Trucks
    <3>1. DOMAIN s \subseteq Trucks /\ \A t \in DOMAIN s : s[t] \in Trucks
      BY PartialMapsChar DEF Swaps
    <3> QED BY <2>1, <3>1
  <2>5. redir' \in PartialMaps(Trucks, Boxes) /\ frozen' \subseteq Trucks
    BY <1>10, EmptyMapType DEF Swap
  <2> HIDE DEF rows
  <2>6. /\ held' \subseteq Rows /\ open' \subseteq Rows
        /\ outstanding' \subseteq Rows /\ lapsed' \subseteq Rows
        /\ last_at' \in OptTime /\ faults' \in 0 .. MaxFaults
    BY <2>2, <2>3, WriteType
  <2> QED BY <1>10, <2>4, <2>5, <2>6 DEF Swap, TypeOK
<1>11. CASE LogSwap
  <2>1. clock \in OptTime
    BY DEF TypeOK, Time, OptTime, OptUpTo
  <2>2. swap_ts' \in [Trucks -> OptTime] /\ faults' \in 0 .. MaxFaults
    BY <1>11, <2>1 DEF LogSwap, TypeOK
  <2> QED BY <1>11, <2>2 DEF LogSwap, TypeOK
<1>12. CASE SkipMatch
  BY <1>12, ForgetType DEF SkipMatch, EndTick, TypeOK
<1>13. CASE release_held
  <2>1. held' \subseteq Rows /\ open' \subseteq Rows /\ faults' \in 0 .. MaxFaults
    BY <1>13 DEF release_held, close_sent, TypeOK
  <2> QED BY <1>13, <2>1 DEF release_held, TypeOK
<1>14. CASE Match
  <2>1. PICK m \in Matchings :
          LET rows == IF hold_sent THEN NewOrders(m) ELSE {} IN WriteOk(rows) \/ WriteFails(rows)
    BY <1>14 DEF Match
  <2> DEFINE rows == IF hold_sent THEN NewOrders(m) ELSE {}
  <2>2. rows \in SUBSET Rows /\ (WriteOk(rows) \/ WriteFails(rows))
    BY <2>1, NewOrdersType
  <2> HIDE DEF rows
  <2>3. /\ held' \subseteq Rows /\ open' \subseteq Rows
        /\ outstanding' \subseteq Rows /\ lapsed' \subseteq Rows
        /\ last_at' \in OptTime /\ faults' \in 0 .. MaxFaults
    BY <2>2, WriteType
  <2> QED BY <1>14, <2>3, ForgetType DEF Match, EndTick, TypeOK
<1>15. CASE Restart
  <2>1. hold_sent' \in BOOLEAN /\ restored' \in BOOLEAN
    BY <1>15, Zenon DEF Restart
  <2>2. faults' \in 0 .. MaxFaults /\ held' \subseteq Rows /\ Forget
    BY <1>15 DEF Restart, TypeOK
  <2> QED BY <1>15, <2>1, <2>2, ForgetType DEF Restart, TypeOK
<1> QED BY <1>2, <1>3, <1>4, <1>5, <1>6, <1>7, <1>8, <1>9, <1>10, <1>11, <1>12,
           <1>13, <1>14, <1>15 DEF Step

\* The type invariant of DispatchHold for every fleet, set of boxes and bound.
THEOREM TypeCorrect == Spec => []TypeOK
<1>1. TypeOK /\ [Next]_vars => TypeOK'
  <2>1. TypeOK /\ UNCHANGED vars => TypeOK'
    BY DEF TypeOK, vars, db_in, db_out, proc, local, ghost
  <2> QED BY <2>1, LandingType, StepType DEF Next
<1> QED BY InitType, <1>1, PTL DEF Spec

-----------------------------------------------------------------------------
(* What a calmer database cannot do, and what a write does.                *)

\* A truck whose signals have only become calmer is no busier than it was.
LEMMA CalmerNotBusier ==
    ASSUME NEW s \in TosSigs(OptTime), NEW o \in TosSigs(OptTime), Calmer(s, o),
           NEW kind, NEW at \in Time,
           kind = "assign" => o.free # NoTime,
           ~ truck_busy_after(o, kind, at)
    PROVE  ~ truck_busy_after(s, kind, at)
BY HoldAssumption
   DEF TosSigs, OptTime, OptUpTo, NoTime, Time, Calmer, truck_busy_after, loaded,
       dispatched_since_free

LEMMA NoSigNotBusy ==
    ASSUME NEW kind, NEW at \in Time
    PROVE  ~ truck_busy_after(NoSig, kind, at)
BY HoldAssumption DEF NoSig, NoTime, Time, truck_busy_after, loaded

LEMMA CalmerTrans ==
    ASSUME NEW s \in TosSigs(OptTime), NEW o \in TosSigs(OptTime),
           NEW p \in TosSigs(OptTime), Calmer(s, o), Calmer(o, p)
    PROVE  Calmer(s, p)
BY HoldAssumption DEF TosSigs, OptTime, OptUpTo, NoTime, Calmer

LEMMA CalmerRefl ==
    ASSUME NEW s \in TosSigs(OptTime)
    PROVE  Calmer(s, s)
BY HoldAssumption DEF TosSigs, OptTime, OptUpTo, NoTime, Calmer

\* The database says nothing more alarming of truck t after the step.
CalmStep(t) == Known(t)' => Known(t) /\ Calmer(SigOf(t)', SigOf(t))

LEMMA QuietPreserved ==
    ASSUME TypeOK, TypeOK', QuietNow, Unanswered' \subseteq Unanswered,
           \A t \in Trucks : (\A r \in Unanswered' : r.truck # t) \/ CalmStep(t)
    PROVE  QuietNow'
<1> SUFFICES ASSUME NEW r \in Unanswered'
             PROVE  /\ ~ truck_busy_after(SigOf(r.truck)', r.kind, r.at)
                    /\ r.kind = "assign" => ~ Known(r.truck)' \/ free'[r.truck] # NoTime
  BY DEF QuietNow
<1>1. r \in Unanswered /\ r \in Rows
  BY DEF Unanswered, TypeOK
<1>2. r.truck \in Trucks /\ r.at \in Time
  BY <1>1 DEF Rows
<1>3. CalmStep(r.truck)
  BY <1>2
<1>4. SigOf(r.truck) \in TosSigs(OptTime) /\ SigOf(r.truck)' \in TosSigs(OptTime)
  <2>1. SigOf(r.truck)' \in TosSigs(OptTime)
    BY SigsTypedNext, <1>2 DEF SigsTyped
  <2> QED BY SigOfType, <1>2, <2>1
<1>5. CASE ~ Known(r.truck)'
  BY <1>2, <1>5, NoSigNotBusy DEF SigOf
<1>6. CASE Known(r.truck)'
  <2>1. Known(r.truck) /\ Calmer(SigOf(r.truck)', SigOf(r.truck))
    BY <1>3, <1>6 DEF CalmStep
  <2>2. r.kind = "assign" => SigOf(r.truck).free # NoTime
    BY <1>1, <2>1 DEF QuietNow, SigOf
  <2>3. ~ truck_busy_after(SigOf(r.truck), r.kind, r.at)
    BY <1>1 DEF QuietNow
  <2>4. ~ truck_busy_after(SigOf(r.truck)', r.kind, r.at)
    BY <1>2, <1>4, <2>1, <2>2, <2>3, CalmerNotBusier
  <2>5. SigOf(r.truck)'.free = free'[r.truck]
    BY <1>6 DEF SigOf
  <2>6. r.kind = "assign" => SigOf(r.truck)'.free # NoTime
    BY <1>4, <2>1, <2>2, HoldAssumption DEF Calmer, TosSigs, OptTime, OptUpTo, NoTime
  <2> QED BY <2>4, <2>5, <2>6
<1> QED BY <1>5, <1>6

LEMMA CurrentPreserved ==
    ASSUME TypeOK, TypeOK', ReadIsCurrent, UNCHANGED tos_sig,
           pc' \in AfterSignals => pc \in AfterSignals,
           news \subseteq news' /\ lapses \subseteq lapses',
           \A t \in Trucks : t \in news' \cup lapses' \/ CalmStep(t)
    PROVE  ReadIsCurrent'
<1> SUFFICES ASSUME pc' \in AfterSignals, NEW t \in Trucks \ (news' \cup lapses')
             PROVE  IF tos_sig[t] = NoSig THEN ~ Known(t)'
                    ELSE Known(t)' => Calmer(SigOf(t)', tos_sig[t])
  BY DEF ReadIsCurrent, AfterSignals
<1>1. CalmStep(t) /\ t \in Trucks \ (news \cup lapses) /\ pc \in AfterSignals
  OBVIOUS
<1>2. IF tos_sig[t] = NoSig THEN ~ Known(t) ELSE Known(t) => Calmer(SigOf(t), tos_sig[t])
  BY <1>1 DEF ReadIsCurrent
<1>3. SigOf(t)' \in TosSigs(OptTime)
  BY SigsTypedNext DEF SigsTyped
<1>4. SigOf(t) \in TosSigs(OptTime) /\ tos_sig[t] \in TosSigs(OptTime)
  BY SigOfType DEF TypeOK
<1>5. CASE tos_sig[t] = NoSig
  BY <1>1, <1>2, <1>5 DEF CalmStep
<1>6. CASE tos_sig[t] # NoSig
  BY <1>1, <1>2, <1>3, <1>4, <1>6, CalmerTrans DEF CalmStep
<1> QED BY <1>5, <1>6

-----------------------------------------------------------------------------
(* The environment: what lands preserves the invariant.                    *)

\* A record that lands concerns a truck that has no unanswered order left, or
\* makes what the database says of it calmer.
LEMMA LandingCalm ==
    ASSUME TypeOK, TypeOK', TimesPast, Tick \/ Landing
    PROVE  /\ Unanswered' \subseteq Unanswered
           /\ news \subseteq news' /\ lapses \subseteq lapses'
           /\ \A t \in Trucks : \/ t \in news' \cup lapses' /\ \A r \in Unanswered' : r.truck # t
                              \/ CalmStep(t)
<1> USE HoldAssumption
<1> USE DEF db_in, db_out, proc, local, ghost
<1>t. /\ SigsTyped /\ SigsTyped'
  BY SigsTypedNext
<1>1. CASE UNCHANGED <<clock, list, free, picked, avail, hist, outstanding, lapsed, news, lapses>>
  <2>1. \A t \in Trucks : SigOf(t)' = SigOf(t) /\ Known(t)' = Known(t)
    BY <1>1 DEF SigOf, Known, ListedAt
  <2> QED BY <1>1, <2>1, <1>t, CalmerRefl DEF SigsTyped, CalmStep, Unanswered
<1>2. CASE Tick
  <2>1. \A t \in Trucks : Known(t)' = Known(t)
    BY <1>2 DEF Tick, Known
  <2>2. ASSUME NEW t \in Trucks PROVE ListedAt(t)' <= ListedAt(t)
    BY <1>2 DEF Tick, ListedAt, Max2, TypeOK, Lists, OptTime, OptUpTo, NoTime, Time
  <2>3. ASSUME NEW t \in Trucks, Known(t) PROVE Calmer(SigOf(t)', SigOf(t))
    <3>1. SigOf(t)' = [SigOf(t) EXCEPT !.listed_at = ListedAt(t)']
      BY <1>2, <2>1, <2>3 DEF Tick, SigOf
    <3>2. SigOf(t).listed_at = ListedAt(t) /\ SigOf(t) \in TosSigs(OptTime)
      BY <2>3, <1>t DEF SigOf, SigsTyped
    <3> QED BY <2>2, <3>1, <3>2 DEF Calmer, TosSigs, OptTime, OptUpTo, NoTime
  <2> QED BY <1>2, <2>1, <2>3 DEF Tick, CalmStep, Unanswered
<1>3. CASE StampList \/ FailList
  BY <1>3, <1>1 DEF StampList, FailList
<1>4. CASE LandList
  <2>0. PICK T \in SUBSET Trucks :
          /\ list'.listed = T /\ list'.dis \in PartialMaps(T, Recent)
          /\ outstanding' \subseteq {r \in outstanding : r.truck \notin T}
          /\ news' = news \cup T
    BY <1>4 DEF LandList
  <2>1. Unanswered' \subseteq Unanswered /\ lapses' = lapses
    BY <1>4 DEF LandList, Unanswered
  <2>2. ASSUME NEW t \in Trucks, t \in T PROVE \A r \in Unanswered' : r.truck # t
    BY <2>0, <2>2 DEF Unanswered
  <2>3. ASSUME NEW t \in Trucks, t \notin T PROVE CalmStep(t)
    <3>0. free' = free /\ picked' = picked
      BY <1>4 DEF LandList
    <3>1. Known(t)' => Known(t)
      BY <2>0, <2>3, <3>0 DEF Known
    <3>2. ListedAt(t)' <= ListedAt(t)
      <4>1. hist' = hist /\ clock' = clock
        BY <1>4 DEF LandList
      <4> QED BY <2>0, <2>3, <4>1 DEF ListedAt, Max2, TypeOK, Lists, OptTime, OptUpTo, NoTime, Time
    <3>3. t \notin DOMAIN list'.dis
      BY <2>0, <2>3, PartialMapsChar
    <3>4. ASSUME Known(t), Known(t)' PROVE Calmer(SigOf(t)', SigOf(t))
      <4>1. SigOf(t)' = [free |-> free[t], dis |-> NoTime, listed_at |-> ListedAt(t)',
                         picked |-> picked[t], avail_since |-> avail[t]]
        BY <1>4, <3>3, <3>4 DEF LandList, SigOf
      <4>2. SigOf(t).free = free[t] /\ SigOf(t).listed_at = ListedAt(t)
            /\ SigOf(t).picked = picked[t] /\ SigOf(t).avail_since = avail[t]
        BY <3>4 DEF SigOf
      <4>3. SigOf(t) \in TosSigs(OptTime)
        BY <1>t DEF SigsTyped
      <4> QED BY <3>2, <4>1, <4>2, <4>3 DEF Calmer, TosSigs, OptTime, OptUpTo, NoTime
    <3> QED BY <3>1, <3>4 DEF CalmStep
  <2> QED BY <2>0, <2>1, <2>2, <2>3
<1>5. CASE LandPicked \/ CloseAvail
  <2>1. PICK u \in Trucks : /\ Answered({u}) /\ UNCHANGED <<clock, list, free, hist, lapses>>
                            /\ \A t \in Trucks \ {u} : picked'[t] = picked[t] /\ avail'[t] = avail[t]
    BY <1>5 DEF LandPicked, CloseAvail, TypeOK
  <2>2. Unanswered' \subseteq Unanswered /\ \A r \in Unanswered' : r.truck # u
    BY <2>1 DEF Answered, Unanswered
  <2>3. \A t \in Trucks \ {u} : SigOf(t)' = SigOf(t) /\ Known(t)' = Known(t)
    BY <2>1 DEF SigOf, Known, ListedAt
  <2>4. \A t \in Trucks \ {u} : CalmStep(t)
    BY <2>3, <1>t, CalmerRefl DEF SigsTyped, CalmStep
  <2> QED BY <2>1, <2>2, <2>4 DEF Answered
<1>6. CASE LandFree
  <2>1. PICK u \in Trucks, f \in Recent : /\ f > free[u] /\ free' = [free EXCEPT ![u] = f]
                                         /\ Lapse(IF Known(u) THEN {} ELSE {u})
    BY <1>6 DEF LandFree
  <2>2. Unanswered' \subseteq Unanswered /\ UNCHANGED <<clock, list, picked, avail, hist, news>>
    BY <1>6, <2>1 DEF LandFree, Lapse, Unanswered
  <2>3. \A t \in Trucks \ {u} : SigOf(t)' = SigOf(t) /\ Known(t)' = Known(t)
    BY <2>1, <2>2 DEF SigOf, Known, ListedAt, TypeOK
  <2>4. \A t \in Trucks \ {u} : CalmStep(t)
    BY <2>3, <1>t, CalmerRefl DEF SigsTyped, CalmStep
  <2>5. CASE ~ Known(u)
    <3>1. u \in lapses' /\ \A r \in Unanswered' : r.truck # u
      BY <1>6, <2>1, <2>5 DEF LandFree, Lapse, Unanswered
    <3> QED BY <2>1, <2>2, <2>4, <3>1 DEF Lapse
  <2>6. CASE Known(u)
    <3>1. Known(u)' /\ ListedAt(u)' = ListedAt(u) /\ free'[u] = f
      BY <2>1, <2>2, <2>6 DEF Known, ListedAt, TypeOK, Recent, NoTime, Time
    <3>2. SigOf(u)' = [SigOf(u) EXCEPT !.free = f]
      BY <2>1, <2>2, <2>6, <3>1 DEF SigOf
    <3>3. SigOf(u).free = free[u] /\ SigOf(u) \in TosSigs(OptTime)
      BY <2>6, <1>t DEF SigOf, SigsTyped
    <3>4. Calmer(SigOf(u)', SigOf(u))
      BY <2>1, <3>2, <3>3 DEF Calmer, TosSigs, OptTime, OptUpTo, NoTime, Recent, TypeOK, Time
    <3> QED BY <2>1, <2>2, <2>4, <2>6, <3>4 DEF CalmStep, Lapse
  <2> QED BY <2>5, <2>6
<1>7. CASE OpenAvail
  <2>1. PICK u \in Trucks, v \in Recent : avail[u] = NoTime /\ avail' = [avail EXCEPT ![u] = v]
    BY <1>7 DEF OpenAvail
  <2>2. UNCHANGED <<clock, list, free, picked, hist, outstanding, lapsed, news, lapses>>
    BY <1>7 DEF OpenAvail
  <2>3. \A t \in Trucks : ListedAt(t)' = ListedAt(t) /\ Known(t)' = Known(t)
    BY <2>2 DEF ListedAt, Known
  <2>4. \A t \in Trucks \ {u} : SigOf(t)' = SigOf(t)
    BY <2>1, <2>2, <2>3 DEF SigOf, TypeOK
  <2>5. \A t \in Trucks \ {u} : CalmStep(t)
    BY <2>3, <2>4, <1>t, CalmerRefl DEF SigsTyped, CalmStep
  <2>6. ASSUME Known(u) PROVE Calmer(SigOf(u)', SigOf(u))
    <3>1. SigOf(u)' = [SigOf(u) EXCEPT !.avail_since = v]
      BY <2>1, <2>2, <2>3, <2>6 DEF SigOf, TypeOK
    <3>2. SigOf(u).avail_since = NoTime /\ SigOf(u) \in TosSigs(OptTime)
      BY <2>1, <2>6, <1>t DEF SigOf, SigsTyped
    <3> QED BY <3>1, <3>2 DEF Calmer, TosSigs, OptTime, OptUpTo, NoTime, Recent, TypeOK, Time
  <2> QED BY <2>2, <2>3, <2>5, <2>6 DEF CalmStep, Unanswered
<1>8. CASE AnchorStale
  <2> DEFINE T == {t \in Trucks : avail[t] # NoTime}
  <2>1. /\ Unanswered' \subseteq Unanswered /\ lapses' = lapses \cup T /\ news' = news
        /\ \A r \in Unanswered' : r.truck \notin T
        /\ UNCHANGED <<clock, list, free, picked, hist>>
        /\ \A t \in Trucks \ T : avail'[t] = avail[t]
    BY <1>8 DEF AnchorStale, Lapse, Unanswered, TypeOK
  <2>2. \A t \in Trucks \ T : SigOf(t)' = SigOf(t) /\ Known(t)' = Known(t)
    BY <2>1 DEF SigOf, Known, ListedAt
  <2>3. \A t \in Trucks \ T : CalmStep(t)
    BY <2>2, <1>t, CalmerRefl DEF SigsTyped, CalmStep
  <2> QED BY <2>1, <2>3
<1> QED BY <1>2, <1>3, <1>4, <1>5, <1>6, <1>7, <1>8 DEF Landing

\* When no order is added and the rows stay, the statements about orders stay.
LEMMA ShrinkKeepsOrders ==
    ASSUME Unanswered' \subseteq Unanswered, UNCHANGED open,
           OneOrderPerTruck, OneAssignPerBox, UnansweredIsRestorable
    PROVE  OneOrderPerTruck' /\ OneAssignPerBox' /\ UnansweredIsRestorable'
BY DEF OneOrderPerTruck, OneAssignPerBox, UnansweredIsRestorable

LEMMA LandingInv == IInv /\ (Tick \/ Landing) => IInv'
<1> SUFFICES ASSUME IInv, Tick \/ Landing PROVE IInv'
  OBVIOUS
<1> USE HoldAssumption
<1>1. TypeOK /\ TypeOK' /\ TimesPast
  BY LandingType DEF IInv
<1>2. /\ Unanswered' \subseteq Unanswered
      /\ news \subseteq news' /\ lapses \subseteq lapses'
      /\ \A t \in Trucks : \/ t \in news' \cup lapses' /\ \A r \in Unanswered' : r.truck # t
                         \/ CalmStep(t)
  BY <1>1, LandingCalm
<1>3. UNCHANGED <<open, hist, held, hold_sent, restored, pc, tos_sig, as_of, last_at>>
  BY DEF Tick, Landing, StampList, FailList, LandList, LandPicked, LandFree, OpenAvail,
         CloseAvail, AnchorStale, db_out, proc, local
<1>4. clock' >= clock /\ clock \in Nat /\ clock' \in Nat
  BY <1>1 DEF Tick, Landing, StampList, FailList, LandList, LandPicked, LandFree, OpenAvail,
         CloseAvail, AnchorStale, TypeOK, Time
<1>5. TimesPast'
  <2>1. stamp' <= clock' /\ last_at' <= clock' /\ as_of' <= clock' + Margin
    BY <1>1, <1>3, <1>4 DEF TimesPast, TypeOK, OptTime, OptUpTo, NoTime, Time, Tick, Landing,
         StampList, FailList, LandList, LandPicked, LandFree, OpenAvail, CloseAvail, AnchorStale, db_in
  <2>2. /\ list'.stamped <= clock'
        /\ list'.listed # {} => list'.stamped # NoTime
        /\ DOMAIN list'.dis \subseteq list'.listed
        /\ \A t \in DOMAIN list'.dis : list'.dis[t] <= clock'
    <3>1. CASE list' = list
      <4>1. \A t \in DOMAIN list.dis : list.dis[t] \in Time
        BY <1>1, PartialMapsChar DEF TypeOK, Lists
      <4> QED BY <1>1, <1>4, <3>1, <4>1 DEF TimesPast, TypeOK, Lists, OptTime, OptUpTo, NoTime, Time
    <3>2. CASE LandList
      <4>0. PICK T \in SUBSET Trucks, dis \in UNION {PartialMaps(S, Recent) : S \in SUBSET Trucks} :
              list'.listed = T /\ list'.dis = dis /\ dis \in PartialMaps(T, Recent)
        BY <3>2 DEF LandList
      <4>1. DOMAIN dis \subseteq T /\ \A t \in DOMAIN dis : dis[t] \in Recent
        BY <4>0, PartialMapsChar
      <4>2. list'.stamped = stamp /\ stamp # NoTime /\ clock' = clock
        BY <3>2 DEF LandList
      <4> QED BY <1>1, <4>0, <4>1, <4>2 DEF TimesPast, Recent
    <3> QED BY <3>1, <3>2 DEF Tick, Landing, StampList, FailList, LandPicked, LandFree,
              OpenAvail, CloseAvail, AnchorStale, db_in
  <2>3. \A t \in Trucks : picked'[t] <= clock' /\ hist'[t] <= clock'
    <3>1. CASE LandPicked
      BY <1>1, <3>1 DEF LandPicked, TimesPast, Recent, TypeOK, db_out
    <3>2. CASE picked' = picked
      BY <1>1, <1>3, <1>4, <3>2 DEF TimesPast, TypeOK, OptTime, OptUpTo, NoTime, Time
    <3> QED BY <3>1, <3>2 DEF Tick, Landing, StampList, FailList, LandList, LandFree,
              OpenAvail, CloseAvail, AnchorStale, db_in
  <2>4. \A t \in Trucks : /\ tos_sig'[t].dis <= clock' /\ tos_sig'[t].listed_at <= clock'
                          /\ tos_sig'[t].picked <= clock'
    BY <1>1, <1>3, <1>4 DEF TimesPast, TypeOK, TosSigs, OptTime, OptUpTo, NoTime, Time
  <2>5. /\ \A r \in open' : r.at <= last_at'
        /\ pc' \in {"restore", "signals", "pool", "work", "swap"} => last_at' < clock'
    BY <1>1, <1>3, <1>4 DEF TimesPast, TypeOK, OptTime, OptUpTo, NoTime, Time
  <2> QED BY <2>1, <2>2, <2>3, <2>4, <2>5 DEF TimesPast
<1>6. ThisTick'
  BY <1>1, <1>3, <1>4 DEF IInv, ThisTick, FreeNow, TypeOK, Rows, Time
<1>7. ListBefore'
  <2> SUFFICES ASSUME NEW r \in Unanswered'
               PROVE  /\ HasRows(list)' => list'.stamped <= r.at
                      /\ as_of' <= r.at + Margin
    BY DEF ListBefore
  <2>1. r \in Unanswered /\ r \in Rows
    BY <1>1, <1>2 DEF Unanswered, TypeOK
  <2>2. CASE LandList
    <3>1. HasRows(list)' => ~ (r.at < stamp)
      BY <2>2 DEF LandList, Unanswered, HasRows
    <3>2. list'.stamped = stamp
      BY <2>2 DEF LandList
    <3> QED BY <1>1, <1>3, <2>1, <3>1, <3>2 DEF IInv, ListBefore, TypeOK, Rows, OptTime, OptUpTo, NoTime, Time
  <2>3. CASE list' = list
    BY <1>3, <2>1, <2>3 DEF IInv, ListBefore, HasRows
  <2> QED BY <2>2, <2>3 DEF Tick, Landing, StampList, FailList, LandPicked, LandFree,
            OpenAvail, CloseAvail, AnchorStale, db_in
<1>8. HeldInv'
  BY <1>2, <1>3 DEF IInv, HeldInv
<1>9. QuietNow'
  BY <1>1, <1>2, QuietPreserved DEF IInv
<1>10. QuietRead'
  BY <1>2, <1>3 DEF IInv, QuietRead
<1>11. ReadIsCurrent'
  BY <1>1, <1>2, <1>3, CurrentPreserved DEF IInv
<1>12. OneOrderPerTruck' /\ OneAssignPerBox' /\ UnansweredIsRestorable'
  BY <1>2, <1>3, ShrinkKeepsOrders DEF IInv
<1> QED BY <1>1, <1>5, <1>6, <1>7, <1>8, <1>9, <1>10, <1>11, <1>12 DEF IInv

-----------------------------------------------------------------------------
(* The steps of a tick that write no order.                                *)

LEMMA StillCalm ==
    ASSUME TypeOK, TypeOK', UNCHANGED <<clock, list, free, picked, avail, hist>>
    PROVE  \A t \in Trucks : CalmStep(t)
<1>1. \A t \in Trucks : SigOf(t)' = SigOf(t) /\ Known(t)' = Known(t)
  BY DEF SigOf, Known, ListedAt
<1> QED BY <1>1, SigsTypedNext, CalmerRefl DEF SigsTyped, CalmStep

\* A tick that is given up, and a restart.
LEMMA DropInv == IInv /\ (RestoreFails \/ ReadFails \/ SkipMatch \/ Restart) => IInv'
<1> SUFFICES ASSUME IInv, RestoreFails \/ ReadFails \/ SkipMatch \/ Restart PROVE IInv'
  OBVIOUS
<1> USE HoldAssumption
<1>1. TypeOK /\ TypeOK' /\ TimesPast
  BY StepType DEF IInv, Step
<1>2. /\ UNCHANGED <<clock, db_in, db_out, last_at, outstanding, lapsed>>
      /\ Forget /\ pc' = "wait"
  BY DEF RestoreFails, ReadFails, SkipMatch, Restart, EndTick
<1>3. Unanswered' = Unanswered
  BY <1>2 DEF Unanswered
<1>4. TimesPast'
  <2>1. \A t \in Trucks : tos_sig'[t] = NoSig
    BY <1>2 DEF Forget
  <2>2. as_of' = NoTime /\ clock \in Nat
    BY <1>1, <1>2 DEF Forget, TypeOK, Time
  <2>3. as_of' <= clock' + Margin
    BY <1>2, <2>2 DEF NoTime
  <2> QED BY <1>1, <1>2, <2>1, <2>2, <2>3 DEF TimesPast, NoSig, NoTime, db_in, db_out
<1>5. ListBefore'
  <2>1. as_of' = NoTime /\ \A r \in Unanswered : r.at \in Nat
    BY <1>1, <1>2 DEF Forget, Unanswered, TypeOK, Rows, Time
  <2>2. \A r \in Unanswered : as_of' <= r.at + Margin
    BY <2>1 DEF NoTime
  <2> QED BY <1>2, <1>3, <2>2 DEF IInv, ListBefore, HasRows, db_in
<1>6. HeldInv'
  <2>1. CASE Restart
    BY <1>2, <2>1 DEF Restart, HeldInv
  <2>2. CASE UNCHANGED proc
    BY <1>2, <1>3, <2>2 DEF IInv, HeldInv, proc
  <2> QED BY <2>1, <2>2 DEF RestoreFails, ReadFails, SkipMatch
<1>7. QuietNow'
  <2>1. \A t \in Trucks : CalmStep(t)
    BY <1>1, <1>2, StillCalm DEF db_in, db_out
  <2> QED BY <1>1, <1>3, <2>1, QuietPreserved DEF IInv
<1>8. ThisTick' /\ QuietRead' /\ ReadIsCurrent'
  BY <1>2 DEF ThisTick, QuietRead, ReadIsCurrent, AfterSignals
<1>9. OneOrderPerTruck' /\ OneAssignPerBox' /\ UnansweredIsRestorable'
  BY <1>2, <1>3, ShrinkKeepsOrders DEF IInv, db_out
<1> QED BY <1>1, <1>4, <1>5, <1>6, <1>7, <1>8, <1>9 DEF IInv

LEMMA WakeInv == IInv /\ Wake => IInv'
<1> SUFFICES ASSUME IInv, Wake PROVE IInv'
  OBVIOUS
<1> USE HoldAssumption
<1>1. TypeOK /\ TypeOK' /\ TimesPast
  BY StepType DEF IInv, Step
<1>2. /\ UNCHANGED <<clock, db_in, db_out, last_at, ghost, tos_sig, hold_sent, restored>>
      /\ pc' \in {"signals", "restore"}
  BY DEF Wake
<1>3. Unanswered' = Unanswered
  BY <1>2 DEF Unanswered, ghost
<1>4. /\ as_of' <= clock + Margin
      /\ \A r \in Unanswered : as_of' <= r.at + Margin
  <2>1. CASE HasRows(list)
    <3>1. PICK e \in 0 .. ReadErr : as_of' = list.stamped + e
      BY <2>1 DEF Wake
    <3>2. list.stamped \in Int /\ list.stamped <= clock /\ clock \in Nat
      BY <1>1 DEF TimesPast, TypeOK, Lists, OptTime, OptUpTo, NoTime, Time
    <3>3. \A r \in Unanswered : list.stamped <= r.at /\ r.at \in Nat
      BY <1>1, <2>1 DEF IInv, ListBefore, Unanswered, TypeOK, Rows, Time
    <3> QED BY <3>1, <3>2, <3>3
  <2>2. CASE ~ HasRows(list)
    <3>1. as_of' = NoTime /\ clock \in Nat /\ \A r \in Unanswered : r.at \in Nat
      BY <1>1, <2>2 DEF Wake, Unanswered, TypeOK, Rows, Time
    <3> QED BY <3>1 DEF NoTime
  <2> QED BY <2>1, <2>2
<1>5. TimesPast'
  BY <1>1, <1>2, <1>4 DEF Wake, TimesPast, db_in, db_out
<1>6. ListBefore'
  BY <1>2, <1>3, <1>4 DEF IInv, ListBefore, HasRows, db_in
<1>7. HeldInv'
  <2>1. hold_sent => held' = held
    BY DEF Wake
  <2>2. pc' = "signals" => restored
    BY DEF Wake
  <2> QED BY <1>2, <1>3, <2>1, <2>2 DEF IInv, HeldInv
<1>8. QuietNow'
  <2>1. \A t \in Trucks : CalmStep(t)
    BY <1>1, <1>2, StillCalm DEF db_in, db_out
  <2> QED BY <1>1, <1>3, <2>1, QuietPreserved DEF IInv
<1>9. ThisTick' /\ QuietRead' /\ ReadIsCurrent'
  BY <1>2 DEF ThisTick, QuietRead, ReadIsCurrent, AfterSignals
<1>10. OneOrderPerTruck' /\ OneAssignPerBox' /\ UnansweredIsRestorable'
  BY <1>2, <1>3, ShrinkKeepsOrders DEF IInv, db_out
<1> QED BY <1>1, <1>5, <1>6, <1>7, <1>8, <1>9, <1>10 DEF IInv

\* A restart recovers the newest open row of every truck, and that is the one
\* unanswered order of the truck if it has one.
LEMMA RestoreInv == IInv /\ (Restore \/ Cancel) => IInv'
<1> SUFFICES ASSUME IInv, Restore \/ Cancel PROVE IInv'
  OBVIOUS
<1> USE HoldAssumption
<1>1. TypeOK /\ TypeOK' /\ TimesPast
  BY StepType DEF IInv, Step
<1>2. /\ UNCHANGED <<clock, db_in, hist, swap_ts, local, last_at, hold_sent, news, lapses>>
      /\ pc = "restore" /\ pc' = "signals"
  BY DEF Restore, Cancel
<1>3. Unanswered' \subseteq Unanswered /\ open' \subseteq open
  BY DEF Restore, Cancel, Unanswered, close_sent
<1>4. ASSUME Restore PROVE HeldInv' /\ Unanswered' \subseteq open'
  <2>1. Unanswered' \subseteq held'
    <3> SUFFICES ASSUME NEW r \in Unanswered' PROVE r \in held'
      OBVIOUS
    <3>1. r \in Unanswered /\ r \notin Expired(open)
      BY <1>3, <1>4 DEF Restore, Unanswered
    <3>2. r \in open /\ \A o \in open : o.truck = r.truck => o = r \/ o.at < r.at
      BY <3>1 DEF IInv, UnansweredIsRestorable
    <3>3. r \in restore_holds(open \ Expired(open))
      BY <1>1, <3>1, <3>2 DEF restore_holds, TypeOK, Rows, Time
    <3> QED BY <1>4, <3>3 DEF Restore
  <2>2. held' \subseteq open
    BY <1>4 DEF Restore, restore_holds
  <2>3. Unanswered' \subseteq open'
    BY <1>4, <2>1, <2>2 DEF Restore, close_sent
  <2>4. HeldInv'
    BY <1>4, <2>1 DEF Restore, HeldInv
  <2> QED BY <2>3, <2>4
<1>5. ASSUME Cancel PROVE HeldInv' /\ Unanswered' \subseteq open'
  <2>1. HeldInv'
    BY <1>5, <1>2 DEF Cancel, HeldInv
  <2>2. Unanswered' \subseteq open'
    BY <1>5 DEF Cancel, Unanswered, IInv, UnansweredIsRestorable
  <2> QED BY <2>1, <2>2
<1>6. HeldInv' /\ Unanswered' \subseteq open'
  BY <1>4, <1>5
<1>7. OneOrderPerTruck' /\ OneAssignPerBox' /\ UnansweredIsRestorable'
  BY <1>3, <1>6 DEF IInv, OneOrderPerTruck, OneAssignPerBox, UnansweredIsRestorable
<1>8. TimesPast'
  BY <1>1, <1>2, <1>3 DEF TimesPast, db_in, local
<1>9. ListBefore'
  BY <1>2, <1>3 DEF IInv, ListBefore, HasRows, db_in, local
<1>10. QuietNow'
  <2>1. \A t \in Trucks : CalmStep(t)
    BY <1>1, <1>2, StillCalm DEF db_in
  <2> QED BY <1>1, <1>3, <2>1, QuietPreserved DEF IInv
<1>11. ThisTick' /\ QuietRead' /\ ReadIsCurrent'
  BY <1>2 DEF ThisTick, QuietRead, ReadIsCurrent, AfterSignals
<1> QED BY <1>1, <1>6, <1>7, <1>8, <1>9, <1>10, <1>11 DEF IInv

LEMMA KnownNotNoSig ==
    ASSUME TypeOK, TimesPast, NEW t \in Trucks, SigOf(t) = NoSig
    PROVE  ~ Known(t)
<1> SUFFICES ASSUME Known(t) PROVE FALSE
  OBVIOUS
<1>1. free[t] = NoTime /\ picked[t] = NoTime /\ ListedAt(t) = NoTime
  BY DEF SigOf, NoSig
<1>2. t \in list.listed
  BY <1>1 DEF Known
<1>3. list.stamped # NoTime /\ list.stamped \in OptTime
  BY <1>2 DEF TimesPast, TypeOK, Lists
<1>4. ListedAt(t) >= list.stamped
  BY <1>2, <1>3, HoldAssumption DEF ListedAt, Max2, TypeOK, OptTime, OptUpTo, NoTime, Time
<1> QED BY <1>1, <1>3, <1>4, HoldAssumption DEF OptTime, OptUpTo, NoTime

LEMMA ReadSignalsInv == IInv /\ ReadSignals => IInv'
<1> SUFFICES ASSUME IInv, ReadSignals PROVE IInv'
  OBVIOUS
<1> USE HoldAssumption
<1>1. TypeOK /\ TypeOK' /\ TimesPast /\ SigsTyped
  BY StepType, SigsTypedNext DEF IInv, Step
<1>2. /\ UNCHANGED <<clock, db_in, db_out, proc, as_of, last_at, outstanding, lapsed>>
      /\ pc = "signals" /\ pc' = "pool" /\ news' = {} /\ lapses' = {}
      /\ \A t \in Trucks : tos_sig'[t] = SigOf(t)
  BY DEF ReadSignals
<1>3. Unanswered' = Unanswered
  BY <1>2 DEF Unanswered
<1>4. TimesPast'
  <2>1. ASSUME NEW t \in Trucks
        PROVE  tos_sig'[t].dis <= clock /\ tos_sig'[t].listed_at <= clock /\ tos_sig'[t].picked <= clock
    <3>1. ListedAt(t) <= clock
      BY <1>1 DEF TimesPast, ListedAt, Max2, TypeOK, Lists, OptTime, OptUpTo, NoTime, Time
    <3>2. clock \in Nat /\ NoTime <= clock
      BY <1>1 DEF TypeOK, Time, NoTime
    <3>3. SigOf(t).dis <= clock /\ SigOf(t).listed_at <= clock /\ SigOf(t).picked <= clock
      BY <1>1, <3>1, <3>2 DEF SigOf, NoSig, TimesPast
    <3>4. tos_sig'[t] = SigOf(t)
      BY <1>2
    <3> QED BY <3>3, <3>4
  <2> QED BY <1>1, <1>2, <2>1 DEF TimesPast, db_in, db_out
<1>5. ListBefore' /\ HeldInv'
  BY <1>2, <1>3 DEF IInv, ListBefore, HeldInv, HasRows, db_in, proc
<1>6. \A t \in Trucks : SigOf(t)' = SigOf(t) /\ Known(t)' = Known(t)
  BY <1>2 DEF SigOf, Known, ListedAt, db_in, db_out
<1>7. QuietNow'
  <2>1. \A t \in Trucks : CalmStep(t)
    BY <1>1, <1>2, StillCalm DEF db_in, db_out
  <2> QED BY <1>1, <1>3, <2>1, QuietPreserved DEF IInv
<1>8. QuietRead'
  <2>1. \A r \in Unanswered : r.truck \in Trucks
    BY <1>1 DEF Unanswered, TypeOK, Rows
  <2> QED BY <1>2, <1>3, <2>1 DEF IInv, QuietNow, QuietRead
<1>9. ReadIsCurrent'
  <2> SUFFICES ASSUME NEW t \in Trucks
               PROVE  IF tos_sig'[t] = NoSig THEN ~ Known(t)'
                      ELSE Known(t)' => Calmer(SigOf(t)', tos_sig'[t])
    BY DEF ReadIsCurrent
  <2>1. Calmer(SigOf(t), SigOf(t))
    BY <1>1, CalmerRefl DEF SigsTyped
  <2>2. SigOf(t) = NoSig => ~ Known(t)
    BY <1>1, KnownNotNoSig
  <2> QED BY <1>2, <1>6, <2>1, <2>2
<1>10. ThisTick'
  BY <1>2 DEF ThisTick
<1>11. OneOrderPerTruck' /\ OneAssignPerBox' /\ UnansweredIsRestorable'
  BY <1>2, <1>3, ShrinkKeepsOrders DEF IInv, db_out
<1> QED BY <1>1, <1>4, <1>5, <1>7, <1>8, <1>9, <1>10, <1>11 DEF IInv

\* Remembering the current list in assigned_tt_hist changes no signal.
LEMMA ReadPoolInv == IInv /\ (ReadPool \/ ReadWork \/ LogSwap) => IInv'
<1> SUFFICES ASSUME IInv, ReadPool \/ ReadWork \/ LogSwap PROVE IInv'
  OBVIOUS
<1> USE HoldAssumption
<1>1. TypeOK /\ TypeOK' /\ TimesPast /\ SigsTyped
  BY StepType, SigsTypedNext DEF IInv, Step
<1>2. /\ UNCHANGED <<clock, db_in, open, proc, as_of, tos_sig, last_at, ghost>>
      /\ \/ pc \in {"pool", "work"} /\ pc' \in {"work", "swap"}
         \/ pc = "swaplog" /\ pc' = "release"
  BY DEF ReadPool, ReadWork, LogSwap, db_out, local
<1>3. Unanswered' = Unanswered
  BY <1>2 DEF Unanswered, ghost
<1>4. \A t \in Trucks : hist'[t] <= clock /\ ListedAt(t)' = ListedAt(t)
  <2>1. CASE hist' = hist
    BY <1>1, <1>2, <2>1 DEF TimesPast, ListedAt, db_in
  <2>2. CASE hist' = [t \in Trucks |-> IF t \in list.listed THEN Max2(hist[t], list.stamped) ELSE hist[t]]
    <3> SUFFICES ASSUME NEW t \in Trucks PROVE hist'[t] <= clock /\ ListedAt(t)' = ListedAt(t)
      OBVIOUS
    <3>1. hist'[t] = IF t \in list.listed THEN Max2(hist[t], list.stamped) ELSE hist[t]
      BY <2>2
    <3>2. hist[t] \in Int /\ list.stamped \in Int /\ hist[t] <= clock /\ list.stamped <= clock
          /\ clock \in Nat /\ hist[t] >= NoTime /\ list.stamped >= NoTime
      <4>1. hist[t] \in OptTime /\ list \in Lists /\ clock \in Time
        BY <1>1 DEF TypeOK
      <4>2. list.stamped \in OptTime
        BY <4>1 DEF Lists
      <4>3. hist[t] <= clock /\ list.stamped <= clock
        BY <1>1 DEF TimesPast
      <4> QED BY <4>1, <4>2, <4>3 DEF OptTime, OptUpTo, NoTime, Time
    <3>3. list' = list /\ clock' = clock
      BY <1>2 DEF db_in
    <3> QED BY <3>1, <3>2, <3>3 DEF ListedAt, Max2, NoTime
  <2> QED BY <2>1, <2>2 DEF ReadPool, ReadWork, LogSwap, db_out
<1>5. \A t \in Trucks : CalmStep(t)
  <2>1. \A t \in Trucks : SigOf(t)' = SigOf(t) /\ Known(t)' = Known(t)
    BY <1>2, <1>4 DEF SigOf, Known, db_in
  <2> QED BY <1>1, <2>1, CalmerRefl DEF SigsTyped, CalmStep
<1>6. TimesPast'
  BY <1>1, <1>2, <1>4 DEF TimesPast, db_in
<1>7. ListBefore' /\ HeldInv'
  BY <1>2, <1>3 DEF IInv, ListBefore, HeldInv, HasRows, db_in, proc
<1>8. QuietNow'
  BY <1>1, <1>3, <1>5, QuietPreserved DEF IInv
<1>9. QuietRead' /\ ThisTick'
  BY <1>2, <1>3 DEF IInv, QuietRead, ThisTick, FreeNow, AfterSignals
<1>10. ReadIsCurrent'
  <2>1. pc \in AfterSignals
    BY <1>2 DEF AfterSignals
  <2> QED BY <1>1, <1>2, <1>5, <2>1, CurrentPreserved DEF IInv, ghost
<1>11. OneOrderPerTruck' /\ OneAssignPerBox' /\ UnansweredIsRestorable'
  BY <1>2, <1>3, ShrinkKeepsOrders DEF IInv
<1> QED BY <1>1, <1>6, <1>7, <1>8, <1>9, <1>10, <1>11 DEF IInv

\* No hold of an unanswered order is released.
LEMMA ReleaseInv == IInv /\ release_held => IInv'
<1> SUFFICES ASSUME IInv, release_held PROVE IInv'
  OBVIOUS
<1> USE HoldAssumption
<1>1. TypeOK /\ TypeOK' /\ TimesPast
  BY StepType DEF IInv, Step
<1>2. /\ UNCHANGED <<clock, db_in, hist, hold_sent, restored, local, last_at, ghost>>
      /\ pc = "release" /\ pc' = "match"
  BY DEF release_held
<1>3. Unanswered' = Unanswered
  BY <1>2 DEF Unanswered, ghost
<1>4. ASSUME NEW h \in Unanswered PROVE ~ Releasable(h)
  <2>1. h.at \in Nat /\ as_of \in Int
    BY <1>1 DEF TypeOK, Unanswered, Rows, Time, NoTime
  <2>2. as_of <= h.at + Margin
    BY DEF IInv, ListBefore
  <2>3. ~ truck_busy_after(tos_sig[h.truck], h.kind, h.at)
    BY <1>2 DEF IInv, QuietRead, AfterSignals
  <2> QED BY <2>1, <2>2, <2>3 DEF Releasable
<1>5. \E out \in SUBSET held : held' = held \ out /\ close_sent(out) /\ \A h \in out : Releasable(h)
  BY DEF release_held
<1>6. /\ held \cap Unanswered \subseteq held'
      /\ open \cap Unanswered \subseteq open' /\ open' \subseteq open
  BY <1>4, <1>5 DEF close_sent
<1>7. HeldInv'
  BY <1>2, <1>3, <1>6 DEF IInv, HeldInv
<1>8. OneOrderPerTruck' /\ OneAssignPerBox' /\ UnansweredIsRestorable'
  BY <1>3, <1>6 DEF IInv, OneOrderPerTruck, OneAssignPerBox, UnansweredIsRestorable
<1>9. TimesPast' /\ ListBefore'
  BY <1>1, <1>2, <1>3, <1>6 DEF IInv, TimesPast, ListBefore, HasRows, db_in, local
<1>10. \A t \in Trucks : CalmStep(t)
  BY <1>1, <1>2, StillCalm DEF db_in
<1>11. QuietNow'
  BY <1>1, <1>3, <1>10, QuietPreserved DEF IInv
<1>12. QuietRead' /\ ThisTick'
  BY <1>2, <1>3, <1>6 DEF IInv, QuietRead, ThisTick, FreeNow, AfterSignals, local
<1>13. ReadIsCurrent'
  <2>1. pc \in AfterSignals
    BY <1>2 DEF AfterSignals
  <2> QED BY <1>1, <1>2, <1>10, <2>1, CurrentPreserved DEF IInv, ghost, local
<1> QED BY <1>1, <1>7, <1>8, <1>9, <1>11, <1>12, <1>13 DEF IInv

-----------------------------------------------------------------------------
(* The steps that write orders.                                            *)

\* What the swap stage and the matcher guarantee of the orders they write.
GoodOrder(r) ==
    /\ r.at = clock /\ r.truck \notin TruckOf(held)
    /\ ~ truck_busy_after(tos_sig[r.truck], r.kind, clock)
    /\ \A o \in open : (o.truck = r.truck \/ r.kind = "swap") => o.at < clock
    /\ r.kind = "assign" => r.box \notin BoxOf(held)
    /\ r.kind = "assign" /\ tos_sig[r.truck] # NoSig => tos_sig[r.truck].free # NoTime
    /\ r.kind = "swap" => tos_sig[r.truck] # NoSig

GoodOrders(rows) ==
    /\ rows \subseteq Rows
    /\ rows # {} => hold_sent /\ restored
    /\ \A r \in rows : GoodOrder(r)
    /\ \A r, o \in rows : (r.truck = o.truck => r = o) /\ (r.box = o.box /\ r # o => o.kind = "swap")

\* Writing good orders keeps every statement about orders.
LEMMA WriteInv ==
    ASSUME IInv, NEW rows, GoodOrders(rows), WriteOk(rows) \/ WriteFails(rows),
           UNCHANGED <<clock, hold_sent, restored>>
    PROVE  /\ Unanswered' \subseteq Unanswered \cup {r \in rows : r.truck \notin news \cup lapses}
           /\ hold_sent /\ restored => Unanswered' \subseteq held'
           /\ open' \subseteq open \cup rows /\ \A r \in open' : r.at <= last_at'
           /\ last_at <= last_at' /\ last_at' <= clock
           /\ OneOrderPerTruck' /\ OneAssignPerBox' /\ UnansweredIsRestorable'
<1> USE HoldAssumption
<1>1. TypeOK /\ TimesPast /\ rows \subseteq Rows
  BY DEF IInv, GoodOrders
<1>2. clock \in Nat /\ last_at \in Int /\ \A r \in open \cup rows \cup Unanswered : r.at \in Nat
  BY <1>1 DEF TypeOK, Time, OptTime, OptUpTo, NoTime, Rows, Unanswered
<1>3. Unanswered' \subseteq Unanswered \cup {r \in rows : r.truck \notin news \cup lapses}
  <2>1. CASE WriteOk(rows)
    BY <2>1 DEF WriteOk, Unanswered
  <2>2. CASE WriteFails(rows)
    BY <2>2 DEF WriteFails, Unanswered
  <2> QED BY <2>1, <2>2
<1>4. Superseded(rows) = {} /\ apply_written(rows) = held \cup rows
  BY DEF GoodOrders, GoodOrder, TruckOf, Superseded, apply_written
<1>5. /\ open \subseteq open' /\ open' \subseteq open \cup rows
      /\ Unanswered' \cap rows # {} => rows \subseteq open' \/ Unanswered' \subseteq Unanswered
      /\ \A r \in open' : r.at <= last_at'
      /\ last_at <= last_at' /\ last_at' <= clock
  <2>1. CASE WriteOk(rows)
    BY <1>1, <1>2, <1>4, <2>1 DEF WriteOk, TimesPast, GoodOrders, GoodOrder
  <2>2. CASE WriteFails(rows)
    BY <1>1, <1>2, <2>2 DEF WriteFails, TimesPast, GoodOrders, GoodOrder, Unanswered
  <2> QED BY <2>1, <2>2
<1>6. rows # {} => Unanswered \subseteq held
  BY DEF IInv, HeldInv, GoodOrders
<1>7. \A r \in rows, o \in Unanswered : o.truck # r.truck /\ (r.kind = "assign" => o.box # r.box)
  <2> SUFFICES ASSUME NEW r \in rows, NEW o \in Unanswered
               PROVE  o.truck # r.truck /\ (r.kind = "assign" => o.box # r.box)
    OBVIOUS
  <2>1. o.truck \in TruckOf(held) /\ o.box \in BoxOf(held)
    BY <1>6 DEF TruckOf, BoxOf
  <2>2. r.truck \notin TruckOf(held) /\ (r.kind = "assign" => r.box \notin BoxOf(held))
    BY DEF GoodOrders, GoodOrder
  <2> QED BY <2>1, <2>2
<1>8. hold_sent /\ restored => Unanswered' \subseteq held'
  <2>1. CASE WriteOk(rows)
    BY <1>3, <1>4, <2>1 DEF WriteOk, IInv, HeldInv
  <2>2. CASE WriteFails(rows)
    BY <2>2 DEF WriteFails, IInv, HeldInv, Unanswered
  <2> QED BY <2>1, <2>2
<1>9. OneOrderPerTruck'
  <2> SUFFICES ASSUME NEW r \in Unanswered', NEW o \in Unanswered', r.truck = o.truck PROVE r = o
    BY DEF OneOrderPerTruck
  <2> QED BY <1>3, <1>7 DEF GoodOrders, GoodOrder, IInv, OneOrderPerTruck
<1>10. OneAssignPerBox'
  <2> SUFFICES ASSUME NEW r \in Unanswered', NEW o \in Unanswered',
                      r.box = o.box, r # o, r.at <= o.at
               PROVE  o.kind = "swap"
    BY DEF OneAssignPerBox
  <2>1. CASE o \in rows
    <3>1. o.kind \in {"assign", "swap"}
      BY <1>1, <2>1 DEF Rows
    <3>2. CASE r \in rows
      BY <2>1, <3>2 DEF GoodOrders, GoodOrder
    <3>3. CASE r \in Unanswered
      BY <1>7, <2>1, <3>1, <3>3
    <3> QED BY <1>3, <3>2, <3>3
  <2>2. CASE o \in Unanswered /\ r \in Unanswered
    BY <2>2 DEF IInv, OneAssignPerBox
  <2>3. CASE o \in Unanswered /\ r \in rows
    <3>1. r.kind \in {"assign", "swap"}
      BY <1>1, <2>3 DEF Rows
    <3>2. r.kind = "swap"
      BY <1>7, <2>3, <3>1
    <3>3. o \in open
      BY <2>3 DEF IInv, UnansweredIsRestorable
    <3>4. o.at < clock /\ r.at = clock
      BY <2>3, <3>2, <3>3 DEF GoodOrders, GoodOrder
    <3> QED BY <1>2, <2>3, <3>4
  <2> QED BY <1>3, <2>1, <2>2, <2>3
<1>11. UnansweredIsRestorable'
  <2> SUFFICES ASSUME NEW r \in Unanswered'
               PROVE  r \in open' /\ \A o \in open' : o.truck = r.truck => o = r \/ o.at < r.at
    BY DEF UnansweredIsRestorable
  <2>1. CASE r \in Unanswered
    BY <1>5, <1>7, <2>1 DEF IInv, UnansweredIsRestorable
  <2>2. CASE r \in rows /\ r \notin Unanswered
    <3>1. r \in open'
      BY <1>5, <2>2
    <3>2. ASSUME NEW o \in open', o.truck = r.truck PROVE o = r \/ o.at < r.at
      BY <1>5, <2>2, <3>2 DEF GoodOrders, GoodOrder
    <3> QED BY <3>1, <3>2
  <2> QED BY <1>3, <2>1, <2>2
<1> QED BY <1>3, <1>5, <1>8, <1>9, <1>10, <1>11

\* A fresh order is quiet: a truck without news still reads as calm as when it
\* was judged, and no list stamped after the order has landed.
LEMMA FreshQuiet ==
    ASSUME IInv, NEW rows, GoodOrders(rows), pc \in AfterSignals,
           NEW r \in rows, r.truck \notin news \cup lapses
    PROVE  /\ ~ truck_busy_after(SigOf(r.truck), r.kind, r.at)
           /\ r.kind = "assign" => ~ Known(r.truck) \/ free[r.truck] # NoTime
           /\ HasRows(list) => list.stamped <= r.at
           /\ as_of <= r.at + Margin
<1> USE HoldAssumption
<1>1. TypeOK /\ TimesPast /\ rows \subseteq Rows
  BY DEF IInv, GoodOrders
<1>2. r.truck \in Trucks /\ r.at = clock /\ r.at \in Time /\ r.kind \in {"assign", "swap"}
  BY <1>1 DEF GoodOrders, GoodOrder, Rows
<1>3. list.stamped <= r.at /\ as_of <= r.at + Margin
  BY <1>1, <1>2 DEF TimesPast
<1>4. IF tos_sig[r.truck] = NoSig THEN ~ Known(r.truck)
      ELSE Known(r.truck) => Calmer(SigOf(r.truck), tos_sig[r.truck])
  BY <1>2 DEF IInv, ReadIsCurrent
<1>5. CASE ~ Known(r.truck)
  BY <1>2, <1>3, <1>5, NoSigNotBusy DEF SigOf
<1>6. CASE Known(r.truck)
  <2>1. tos_sig[r.truck] # NoSig /\ Calmer(SigOf(r.truck), tos_sig[r.truck])
    BY <1>4, <1>6
  <2>2. SigOf(r.truck) \in TosSigs(OptTime) /\ tos_sig[r.truck] \in TosSigs(OptTime)
    BY <1>1, <1>2, SigsTypedNext DEF SigsTyped, TypeOK
  <2>3. /\ ~ truck_busy_after(tos_sig[r.truck], r.kind, clock)
        /\ r.kind = "assign" /\ tos_sig[r.truck] # NoSig => tos_sig[r.truck].free # NoTime
    BY DEF GoodOrders, GoodOrder
  <2>4. ~ truck_busy_after(SigOf(r.truck), r.kind, r.at)
    BY <1>2, <2>1, <2>2, <2>3, CalmerNotBusier
  <2>5. SigOf(r.truck).free = free[r.truck]
    BY <1>6 DEF SigOf
  <2>6. r.kind = "assign" => SigOf(r.truck).free # NoTime
    BY <2>1, <2>2, <2>3 DEF Calmer, TosSigs, OptTime, OptUpTo, NoTime
  <2> QED BY <1>3, <2>4, <2>5, <2>6
<1> QED BY <1>5, <1>6

\* What a tick has read cannot make a truck busy before the order it decides.
LEMMA FreeIsQuiet ==
    ASSUME TypeOK, TimesPast, NEW t \in Trucks, FreeNow(t)
    PROVE  /\ ~ truck_busy_after(tos_sig[t], "assign", clock)
           /\ tos_sig[t] # NoSig => tos_sig[t].free # NoTime
<1>1. clock \in Time /\ tos_sig[t] \in TosSigs(OptTime)
  BY DEF TypeOK
<1>2. tos_sig[t].dis <= clock /\ tos_sig[t].listed_at <= clock /\ tos_sig[t].picked <= clock
  BY DEF TimesPast
<1>3. CASE tos_sig[t] = NoSig
  BY <1>1, <1>3, NoSigNotBusy
<1>4. CASE is_free_tos(tos_sig[t])
  BY <1>1, <1>2, <1>4, HoldAssumption
     DEF is_free_tos, truck_busy_after, loaded, TosSigs, OptTime, OptUpTo, NoTime, Time
<1> QED BY <1>3, <1>4 DEF FreeNow

LEMMA SwapInv == IInv /\ Swap => IInv'
<1> SUFFICES ASSUME IInv, Swap PROVE IInv'
  OBVIOUS
<1> USE HoldAssumption
<1>1. TypeOK /\ TypeOK' /\ TimesPast
  BY StepType DEF IInv, Step
<1>2. /\ UNCHANGED <<clock, db_in, hist, hold_sent, restored, as_of, tos_sig, news, lapses>>
      /\ pc = "swap" /\ pc' = "swaplog"
  BY DEF Swap
<1>3. PICK s \in Swaps :
        LET rows == IF hold_sent THEN {SwapRow(s, t) : t \in DOMAIN s} ELSE {} IN
        WriteOk(rows) \/ WriteFails(rows)
  BY DEF Swap
<1> DEFINE rows == IF hold_sent THEN {SwapRow(s, t) : t \in DOMAIN s} ELSE {}
<1>4. ASSUME NEW r \in rows
      PROVE  /\ r.at = clock /\ r.kind = "swap" /\ r.truck \in Trucks /\ SwapCand(r.truck)
             /\ \A o \in rows : r.truck = o.truck => r = o
  <2>1. DOMAIN s \subseteq {t \in Trucks : SwapCand(t)}
    BY PartialMapsChar DEF Swaps
  <2> QED BY <1>4, <2>1 DEF SwapRow
<1>5. GoodOrders(rows)
  <2>1. rows \subseteq Rows
    BY <1>1, SwapRowsType
  <2>2. rows # {} => hold_sent /\ restored
    BY <1>2 DEF IInv, HeldInv
  <2>3. \A o \in open : o.at < clock
    BY <1>1, <1>2 DEF TimesPast, TypeOK, Rows, Time, OptTime, OptUpTo, NoTime
  <2>4. ASSUME NEW r \in rows PROVE ~ truck_busy_after(tos_sig[r.truck], r.kind, clock)
    <3>1. r.truck \in Trucks /\ ~ loaded(tos_sig[r.truck]) /\ r.kind = "swap"
      BY <1>4, <2>4 DEF SwapCand
    <3>2. tos_sig[r.truck].picked <= clock /\ tos_sig[r.truck].picked \in Int /\ clock \in Nat
      BY <1>1, <3>1 DEF TimesPast, TypeOK, TosSigs, OptTime, OptUpTo, NoTime, Time
    <3> QED BY <3>1, <3>2 DEF truck_busy_after
  <2>5. \A r \in rows : r.truck \notin TruckOf(held) /\ tos_sig[r.truck] # NoSig
    BY <1>4 DEF SwapCand
  <2> HIDE DEF rows
  <2> QED BY <1>4, <2>1, <2>2, <2>3, <2>4, <2>5 DEF GoodOrders, GoodOrder
<1>6. WriteOk(rows) \/ WriteFails(rows)
  BY <1>3
<1> HIDE DEF rows
<1>7. /\ Unanswered' \subseteq Unanswered \cup {r \in rows : r.truck \notin news \cup lapses}
      /\ hold_sent /\ restored => Unanswered' \subseteq held'
      /\ open' \subseteq open \cup rows /\ \A r \in open' : r.at <= last_at'
      /\ last_at <= last_at' /\ last_at' <= clock
      /\ OneOrderPerTruck' /\ OneAssignPerBox' /\ UnansweredIsRestorable'
  BY <1>2, <1>5, <1>6, WriteInv
<1>8. QuietNow' /\ ListBefore'
  <2>1. \A t \in Trucks : SigOf(t)' = SigOf(t) /\ Known(t)' = Known(t)
    BY <1>2 DEF SigOf, Known, ListedAt, db_in
  <2>2. \A r \in Unanswered' : r.truck \in Trucks
    BY <1>1 DEF Unanswered, TypeOK, Rows
  <2>3. ASSUME NEW r \in Unanswered'
        PROVE  /\ ~ truck_busy_after(SigOf(r.truck), r.kind, r.at)
               /\ r.kind = "assign" => ~ Known(r.truck) \/ free[r.truck] # NoTime
               /\ HasRows(list) => list.stamped <= r.at
               /\ as_of <= r.at + Margin
    <3>1. CASE r \in Unanswered
      BY <3>1 DEF IInv, QuietNow, ListBefore
    <3>2. CASE r \in rows /\ r.truck \notin news \cup lapses
      BY <1>2, <1>5, <3>2, FreshQuiet DEF AfterSignals
    <3> QED BY <1>7, <3>1, <3>2
  <2>4. QuietNow'
    BY <1>2, <2>1, <2>2, <2>3 DEF QuietNow, db_in
  <2>5. ListBefore'
    BY <1>2, <2>3 DEF ListBefore, HasRows, db_in
  <2> QED BY <2>4, <2>5
<1>9. HeldInv'
  BY <1>2, <1>7 DEF IInv, HeldInv
<1>10. TimesPast'
  BY <1>1, <1>2, <1>7 DEF TimesPast, db_in
<1>11. ThisTick'
  <2>1. \A o \in open : o.at < clock
    BY <1>1, <1>2 DEF TimesPast, TypeOK, Rows, Time, OptTime, OptUpTo, NoTime
  <2>2. \A o \in rows : ~ FreeNow(o.truck)
    BY <1>4 DEF SwapCand, FreeNow, rows
  <2> QED BY <1>2, <1>7, <2>1, <2>2 DEF ThisTick, FreeNow
<1>12. QuietRead'
  <2>1. \A r \in rows : r.at = clock /\ ~ truck_busy_after(tos_sig[r.truck], r.kind, clock)
    BY <1>5 DEF GoodOrders, GoodOrder
  <2>2. pc \in AfterSignals
    BY <1>2 DEF AfterSignals
  <2> QED BY <1>2, <1>7, <2>1, <2>2 DEF IInv, QuietRead
<1>13. ReadIsCurrent'
  <2>1. \A t \in Trucks : CalmStep(t)
    BY <1>1, <1>2, StillCalm DEF db_in
  <2>2. pc \in AfterSignals
    BY <1>2 DEF AfterSignals
  <2> QED BY <1>1, <1>2, <2>1, <2>2, CurrentPreserved DEF IInv
<1> QED BY <1>1, <1>7, <1>8, <1>9, <1>10, <1>11, <1>12, <1>13 DEF IInv

LEMMA MatchInv == IInv /\ Match => IInv'
<1> SUFFICES ASSUME IInv, Match PROVE IInv'
  OBVIOUS
<1> USE HoldAssumption
<1>1. TypeOK /\ TypeOK' /\ TimesPast
  BY StepType DEF IInv, Step
<1>2. /\ UNCHANGED <<clock, db_in, hist, hold_sent, restored>>
      /\ pc = "match" /\ pc' = "wait" /\ Forget
  BY DEF Match, EndTick
<1>3. PICK m \in Matchings :
        LET rows == IF hold_sent THEN NewOrders(m) ELSE {} IN WriteOk(rows) \/ WriteFails(rows)
  BY DEF Match
<1> DEFINE rows == IF hold_sent THEN NewOrders(m) ELSE {}
<1>4. ASSUME NEW r \in rows
      PROVE  /\ r.at = clock /\ r.kind = "assign" /\ r.truck \in Trucks
             /\ r.truck \in DOMAIN m /\ r.box = m[r.truck]
             /\ FreeNow(r.truck) /\ r.truck \notin TruckOf(held) /\ r.box \notin BoxOf(held)
  <2>1. DOMAIN m \subseteq {t \in Trucks : FreeNow(t)}
    BY PartialMapsChar DEF Matchings
  <2>2. \A t \in DOMAIN m : edge_allowed_by_hold(t, m[t])
    BY DEF Matchings
  <2>3. PICK t \in DOMAIN m : /\ t \notin TruckOf(held)
                             /\ r = [truck |-> t, box |-> m[t], kind |-> "assign", at |-> clock]
    BY <1>4 DEF NewOrders
  <2>4. m[t] \notin BoxOf(held)
    BY <2>2, <2>3 DEF edge_allowed_by_hold
  <2> QED BY <2>1, <2>3, <2>4
<1>5. GoodOrders(rows)
  <2>1. rows \subseteq Rows
    BY <1>1, NewOrdersType
  <2>2. rows # {} => hold_sent /\ restored
    BY <1>2 DEF IInv, HeldInv
  <2>3. ASSUME NEW r \in rows
        PROVE  /\ ~ truck_busy_after(tos_sig[r.truck], r.kind, clock)
               /\ tos_sig[r.truck] # NoSig => tos_sig[r.truck].free # NoTime
    <3>1. r.truck \in Trucks /\ FreeNow(r.truck) /\ r.kind = "assign"
      BY <1>4, <2>3
    <3>2. /\ ~ truck_busy_after(tos_sig[r.truck], "assign", clock)
          /\ tos_sig[r.truck] # NoSig => tos_sig[r.truck].free # NoTime
      BY <1>1, <3>1, FreeIsQuiet
    <3> QED BY <3>1, <3>2
  <2>4. ASSUME NEW r \in rows, NEW o \in open, o.truck = r.truck PROVE o.at < clock
    BY <1>2, <1>4, <2>4 DEF IInv, ThisTick
  <2>5. ASSUME NEW r \in rows, NEW o \in rows PROVE r.truck = o.truck => r = o
    BY <2>5 DEF NewOrders
  <2>6. ASSUME NEW r \in rows, NEW o \in rows, r.box = o.box PROVE r = o
    <3>1. r.truck = o.truck
      BY <1>4, <2>6 DEF Matchings
    <3> QED BY <2>5, <2>6, <3>1
  <2> HIDE DEF rows
  <2> QED BY <1>4, <2>1, <2>2, <2>3, <2>4, <2>5, <2>6 DEF GoodOrders, GoodOrder
<1>6. WriteOk(rows) \/ WriteFails(rows)
  BY <1>3
<1> HIDE DEF rows
<1>7. /\ Unanswered' \subseteq Unanswered \cup {r \in rows : r.truck \notin news \cup lapses}
      /\ hold_sent /\ restored => Unanswered' \subseteq held'
      /\ open' \subseteq open \cup rows /\ \A r \in open' : r.at <= last_at'
      /\ last_at <= last_at' /\ last_at' <= clock
      /\ OneOrderPerTruck' /\ OneAssignPerBox' /\ UnansweredIsRestorable'
  BY <1>2, <1>5, <1>6, WriteInv
<1>8. as_of' = NoTime /\ \A t \in Trucks : tos_sig'[t] = NoSig
  BY <1>2 DEF Forget
<1>9. QuietNow' /\ ListBefore'
  <2>1. \A t \in Trucks : SigOf(t)' = SigOf(t) /\ Known(t)' = Known(t)
    BY <1>2 DEF SigOf, Known, ListedAt, db_in
  <2>q. ASSUME NEW r \in Unanswered'
        PROVE  /\ ~ truck_busy_after(SigOf(r.truck), r.kind, r.at)
               /\ r.kind = "assign" => ~ Known(r.truck) \/ free[r.truck] # NoTime
               /\ HasRows(list) => list.stamped <= r.at
    <3>1. CASE r \in Unanswered
      BY <3>1 DEF IInv, QuietNow, ListBefore
    <3>2. CASE r \in rows /\ r.truck \notin news \cup lapses
      BY <1>1, <1>2, <1>4, <1>5, <3>2, FreshQuiet DEF AfterSignals
    <3> QED BY <1>7, <3>1, <3>2
  <2>2. \A r \in Unanswered' : r.truck \in Trucks /\ r.at \in Nat
    BY <1>1 DEF Unanswered, TypeOK, Rows, Time
  <2>3. QuietNow'
    BY <1>2, <2>1, <2>q, <2>2 DEF QuietNow, db_in
  <2>4. ListBefore'
    <3>1. \A r \in Unanswered' : as_of' <= r.at + Margin
      BY <1>8, <2>2 DEF NoTime
    <3> QED BY <1>2, <2>q, <3>1 DEF ListBefore, HasRows, db_in
  <2> QED BY <2>3, <2>4
<1>10. HeldInv'
  BY <1>2, <1>7 DEF HeldInv
<1>11. TimesPast'
  <2>1. clock \in Nat
    BY <1>1 DEF TypeOK, Time
  <2>2. as_of' <= clock' + Margin /\ NoTime <= clock
    BY <1>2, <1>8, <2>1 DEF NoTime
  <2> QED BY <1>1, <1>2, <1>7, <1>8, <2>2 DEF TimesPast, NoSig, db_in
<1>12. ThisTick' /\ QuietRead' /\ ReadIsCurrent'
  BY <1>2 DEF ThisTick, QuietRead, ReadIsCurrent, AfterSignals
<1> QED BY <1>1, <1>7, <1>9, <1>10, <1>11, <1>12 DEF IInv

LEMMA InitInv == Init => IInv
<1> SUFFICES ASSUME Init PROVE IInv
  OBVIOUS
<1>1. Unanswered = {} /\ open = {} /\ pc = "wait"
  BY DEF Init, Unanswered
<1>2. \A t \in Trucks : /\ picked[t] = NoTime /\ hist[t] = NoTime /\ tos_sig[t] = NoSig
  BY DEF Init
<1>3. stamp = NoTime /\ list.stamped = NoTime /\ last_at = NoTime /\ as_of = NoTime /\ clock = 0
      /\ list.listed = {} /\ list.dis = EmptyMap
  BY DEF Init, EmptyList
<1>4. DOMAIN list.dis = {}
  BY <1>3, EmptyMapType
<1>5. TimesPast
  BY <1>1, <1>2, <1>3, <1>4, HoldAssumption DEF TimesPast, NoSig, NoTime
<1>6. HeldInv
  BY <1>1 DEF HeldInv
<1> QED BY <1>1, <1>5, <1>6, InitType
        DEF IInv, ThisTick, ListBefore, QuietNow, QuietRead, ReadIsCurrent, AfterSignals,
            OneOrderPerTruck, OneAssignPerBox, UnansweredIsRestorable

-----------------------------------------------------------------------------

LEMMA Inductive == IInv /\ [Next]_vars => IInv'
<1>1. IInv /\ UNCHANGED vars => IInv'
  BY DEF vars, db_in, db_out, proc, local, ghost, IInv, TypeOK, TimesPast, ThisTick, ListBefore,
         HeldInv, QuietNow, QuietRead, ReadIsCurrent, OneOrderPerTruck, OneAssignPerBox,
         UnansweredIsRestorable, Unanswered, FreeNow, HasRows, SigOf, Known, ListedAt
<1> QED BY <1>1, LandingInv, DropInv, WakeInv, RestoreInv, ReadSignalsInv, ReadPoolInv,
          ReleaseInv, SwapInv, MatchInv DEF Next, Step

LEMMA Invariance == Spec => []IInv
BY InitInv, Inductive, PTL DEF Spec

\* No truck is ever sent a second order while its last one is unanswered,
\* whatever lands, fails or restarts in between (apply_written, release_held,
\* restore_holds, the filters on held trucks).
THEOREM SafeOrders == Spec => []OneOrderPerTruck
<1>1. IInv => OneOrderPerTruck
  BY DEF IInv
<1> QED BY <1>1, Invariance, PTL

\* No box named by an unanswered order is assigned again by the matcher
\* (edge_allowed_by_hold).
THEOREM SafeBoxes == Spec => []OneAssignPerBox
<1>1. IInv => OneAssignPerBox
  BY DEF IInv
<1> QED BY <1>1, Invariance, PTL

\* Every unanswered order survives a crash: its row is open and is the one
\* restore_holds picks for its truck.
THEOREM Recoverable == Spec => []UnansweredIsRestorable
<1>1. IInv => UnansweredIsRestorable
  BY DEF IInv
<1> QED BY <1>1, Invariance, PTL

-----------------------------------------------------------------------------
(* The freeze between two swaps of one truck.                              *)

\* What this tick has read of the last frees is old but not wrong, and a truck
\* it has not frozen was last swapped before the free it has read.
SwapGate ==
    /\ pc \in {"pool", "work", "swap"} => \A t \in Trucks : tos_sig[t].free <= free[t]
    /\ pc \in {"work", "swap"} => \A t \in Trucks \ frozen : swap_ts[t] <= tos_sig[t].free

LEMMA InitGate == Init => SwapGate
BY DEF Init, SwapGate

\* A step of the environment only makes a free record newer.
LEMMA LandingGate == TypeOK /\ SwapGate /\ (Tick \/ Landing) => SwapGate'
<1> SUFFICES ASSUME TypeOK, SwapGate, Tick \/ Landing PROVE SwapGate'
  OBVIOUS
<1> USE HoldAssumption
<1>1. UNCHANGED <<pc, tos_sig, frozen, swap_ts>>
  BY DEF Tick, Landing, StampList, FailList, LandList, LandPicked, LandFree, OpenAvail,
         CloseAvail, AnchorStale, db_out, local
<1>2. \A t \in Trucks : free'[t] >= free[t]
  <2>1. \A t \in Trucks : free[t] \in Int
    BY DEF TypeOK, OptTime, OptUpTo, NoTime, Time
  <2>2. CASE LandFree
    <3>1. PICK t \in Trucks, f \in Recent : f > free[t] /\ free' = [free EXCEPT ![t] = f]
      BY <2>2 DEF LandFree
    <3>2. \A u \in Trucks : free'[u] = IF u = t THEN f ELSE free[u]
      BY <3>1 DEF TypeOK
    <3> QED BY <2>1, <3>1, <3>2 DEF Recent
  <2>3. CASE free' = free
    BY <2>1, <2>3
  <2> QED BY <2>2, <2>3 DEF Tick, Landing, StampList, FailList, LandList, LandPicked,
            OpenAvail, CloseAvail, AnchorStale, db_in
<1>3. \A t \in Trucks : tos_sig[t].free \in Int /\ free[t] \in Int /\ free'[t] \in Int
  <2>1. TypeOK'
    BY LandingType
  <2>2. \A t \in Trucks : free[t] \in OptTime /\ free'[t] \in (OptTime)' /\ tos_sig[t].free \in OptTime
    BY <2>1 DEF TypeOK, TosSigs
  <2> QED BY <2>2 DEF OptTime, OptUpTo, NoTime, Time
<1> QED BY <1>1, <1>2, <1>3 DEF SwapGate

\* A step of the dispatcher leaves the free records alone and reads both sides of
\* the comparison before it may swap.
LEMMA StepGate == TypeOK /\ SwapGate /\ (Step \/ Restart) => SwapGate'
<1> SUFFICES ASSUME TypeOK, SwapGate, Step \/ Restart PROVE SwapGate'
  OBVIOUS
<1> USE HoldAssumption
<1>1. free' = free
  BY DEF Step, Wake, Restore, RestoreFails, Cancel, ReadSignals, ReadPool, ReadWork,
         ReadFails, Swap, LogSwap, SkipMatch, release_held, Match, Restart, db_in
<1>2. \A t \in Trucks : tos_sig[t].free \in Int /\ free[t] \in Int /\ swap_ts[t] \in Int
  BY DEF TypeOK, TosSigs, OptTime, OptUpTo, NoTime, Time
<1>3. CASE ReadSignals
  <2>1. \A t \in Trucks : SigOf(t).free <= free[t]
    <3> SUFFICES ASSUME NEW t \in Trucks PROVE SigOf(t).free <= free[t]
      OBVIOUS
    <3>1. free[t] >= NoTime
      BY DEF TypeOK, OptTime, OptUpTo, NoTime, Time
    <3> QED BY <1>2, <3>1 DEF SigOf, NoSig, NoTime
  <2>2. pc' = "pool" /\ \A t \in Trucks : tos_sig'[t].free = SigOf(t).free
    BY <1>3 DEF ReadSignals
  <2> QED BY <1>1, <2>1, <2>2 DEF SwapGate
<1>4. CASE ReadPool
  <2>1. pc = "pool" /\ pc' = "work" /\ UNCHANGED <<tos_sig, swap_ts>>
    BY <1>4 DEF ReadPool
  <2>2. frozen' \in {{t \in Trucks : swap_is_frozen(swap_ts[t], tos_sig[t].free)}, Trucks}
    BY <1>4 DEF ReadPool
  <2>3. \A t \in Trucks \ frozen' : swap_ts[t] <= tos_sig[t].free
    BY <1>2, <2>2 DEF swap_is_frozen
  <2> QED BY <1>1, <2>1, <2>3 DEF SwapGate
<1>5. CASE ReadWork
  BY <1>1, <1>5 DEF ReadWork, SwapGate, db_out
<1>6. CASE pc' \notin {"pool", "work", "swap"}
  BY <1>6 DEF SwapGate
<1> QED BY <1>3, <1>4, <1>5, <1>6 DEF Step, Wake, Restore, RestoreFails, Cancel, ReadFails,
          Swap, LogSwap, SkipMatch, release_held, Match, Restart, EndTick

LEMMA Gated == Spec => []SwapGate
<1>1. TypeOK /\ SwapGate /\ [Next]_vars => SwapGate'
  <2>1. SwapGate /\ UNCHANGED vars => SwapGate'
    BY DEF SwapGate, vars, db_in, db_out, local
  <2> QED BY <2>1, LandingGate, StepGate DEF Next
<1> QED BY <1>1, InitGate, TypeCorrect, PTL DEF Spec

\* Only the swap stage writes a swap order, and only for trucks it has not frozen.
LEMMA SwapRowIsGated ==
    ASSUME TypeOK, SwapGate, Next, NEW r \in open' \ open, r.kind = "swap"
    PROVE  /\ pc = "swap" /\ r.truck \in Trucks \ frozen
           /\ swap_ts[r.truck] <= tos_sig[r.truck].free /\ tos_sig[r.truck].free <= free[r.truck]
<1>1. CASE Swap
  <2>1. PICK s \in Swaps :
          LET rows == IF hold_sent THEN {SwapRow(s, t) : t \in DOMAIN s} ELSE {}
          IN  WriteOk(rows) \/ WriteFails(rows)
    BY <1>1 DEF Swap
  <2>2. PICK t \in DOMAIN s : r = SwapRow(s, t)
    BY <2>1 DEF WriteOk, WriteFails
  <2>3. t \in Trucks /\ SwapCand(t)
    BY PartialMapsChar DEF Swaps
  <2> QED BY <1>1, <2>2, <2>3 DEF Swap, SwapRow, SwapCand, SwapGate
<1>2. CASE Match
  <2>1. PICK m \in Matchings :
          LET rows == IF hold_sent THEN NewOrders(m) ELSE {}
          IN  WriteOk(rows) \/ WriteFails(rows)
    BY <1>2 DEF Match
  <2>2. r \in NewOrders(m)
    BY <2>1 DEF WriteOk, WriteFails
  <2> QED BY <2>2 DEF NewOrders
<1>3. CASE open' \subseteq open
  BY <1>3
<1>4. Restore \/ release_held \/ Cancel => open' \subseteq open
  BY DEF Restore, release_held, Cancel, close_sent
<1> QED BY <1>1, <1>2, <1>3, <1>4 DEF Next, Tick, Landing, StampList, FailList, LandList,
          LandPicked, LandFree, OpenAvail, CloseAvail, AnchorStale, Step, Wake, RestoreFails,
          ReadSignals, ReadPool, ReadWork, ReadFails, LogSwap, SkipMatch, Restart, db_out

\* A truck is told to swap at most once between two frees: when a swap order is
\* written, the truck's last recorded swap is not younger than its last free
\* record (swap_is_frozen, the swap_frozen query, stage2_swap_shadow), although
\* both were read earlier in the tick and records land all the time.
THEOREM OneSwapPerTrip == Spec => SwapOncePerTrip
<1>1. TypeOK /\ SwapGate /\ [Next]_vars
        => [\A r \in open' \ open :
              r.kind = "swap" => ~ swap_is_frozen(swap_ts[r.truck], free[r.truck])]_vars
  <2> SUFFICES ASSUME TypeOK, SwapGate, Next, NEW r \in open' \ open, r.kind = "swap"
               PROVE  ~ swap_is_frozen(swap_ts[r.truck], free[r.truck])
    OBVIOUS
  <2>1. /\ r.truck \in Trucks /\ swap_ts[r.truck] <= tos_sig[r.truck].free
        /\ tos_sig[r.truck].free <= free[r.truck]
    BY SwapRowIsGated
  <2>2. /\ tos_sig[r.truck].free \in OptTime /\ free[r.truck] \in OptTime
        /\ swap_ts[r.truck] \in OptTime
    BY <2>1 DEF TypeOK, TosSigs
  <2>3. /\ tos_sig[r.truck].free \in Int /\ free[r.truck] \in Int /\ swap_ts[r.truck] \in Int
    BY <2>2, HoldAssumption DEF OptTime, OptUpTo, NoTime, Time
  <2> QED BY <2>1, <2>3 DEF swap_is_frozen
<1> QED BY <1>1, TypeCorrect, Gated, PTL DEF Spec, SwapOncePerTrip
=============================================================================
