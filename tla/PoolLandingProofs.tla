-------------------------- MODULE PoolLandingProofs --------------------------
(***************************************************************************)
(* For every set of boxes, every lifetime of a snapshot and every number of *)
(* changes and faults: what the work pool's tick lands is one reading of    *)
(* the TOS, the three tables of a tick agree, and data_freshness is never   *)
(* ahead of the data.                                                       *)
(*                                                                          *)
(* FreshBehind is not inductive: between the transaction that lands a step  *)
(* and the one that writes its freshness the run may fail, die or be        *)
(* overtaken by nothing else, so what a run that is about to report OK has  *)
(* landed (LandedByRun) and that no table is ahead of the run (RunIsLatest) *)
(* are part of the invariant.                                               *)
(***************************************************************************)
EXTENDS PoolLanding, FiniteSetTheorems, TLAPS

Rows == [Orders -> Order]

PoolTypes ==
    /\ now \in Nat
    /\ tos \in Rows /\ queue \in PoolCranes
    /\ job \in [pc : {"idle", "fetch", "start", "work", "finish"}, step : {1, 2, 3}, as_of : Nat,
                wq : PoolCranes \cup {NoTruck}, wp : Rows, outcome : {"OK", "FAILED"}]
    /\ live_workqueue \in [qc : PoolCranes \cup {NoTruck}, as_of : Nat]
    /\ live_workpool \in [rows : Rows, qc : PoolCranes \cup {NoTruck}, as_of : Nat]
    /\ live_assigned_tt \in SUBSET PoolTrucks /\ live_candidate \in 0..Cardinality(Orders)
    /\ tos_etw_cntr \in [Orders -> [upd : Nat, exp : Nat]]
    /\ data_freshness \in [KeySet -> [status : {"none", "OK", "FAILED"}, as_of : Nat]]
    /\ swept \in Nat /\ served \in Nat

\* No table, and no row of the ETW, is from the future.
NothingAhead ==
    /\ job.as_of <= now
    /\ live_workqueue.as_of <= now /\ live_workpool.as_of <= now /\ served <= now
    /\ \A b \in Orders : tos_etw_cntr[b].upd <= now

\* The run that is under way is the latest: no table carries a time after its own.
RunIsLatest ==
    job.pc # "idle" => /\ live_workqueue.as_of <= job.as_of
                       /\ live_workpool.as_of <= job.as_of
                       /\ served <= job.as_of

\* A run that is about to report OK has landed its step.
LandedByRun ==
    (job.pc = "finish" /\ job.outcome = "OK") =>
        /\ job.step = 1 => live_workqueue.as_of = job.as_of
        /\ job.step = 2 => live_workpool.as_of = job.as_of
        /\ job.step = 3 => served = job.as_of

PoolIInv == PoolTypes /\ NothingAhead /\ RunIsLatest /\ LandedByRun
            /\ DemandAgrees /\ FreshBehind /\ EtwSwept

--------------------------------------------------------------------------------
\* The three keys, and the key of each step.
LEMMA ThreeKeys ==
    /\ Len(Keys) = 3 /\ KeySet = {"WORKQUEUE", "WORKPOOL", "ETW"}
    /\ Keys[1] = "WORKQUEUE" /\ Keys[2] = "WORKPOOL" /\ Keys[3] = "ETW"
<1>1. /\ Len(Keys) = 3
      /\ Keys[1] = "WORKQUEUE" /\ Keys[2] = "WORKPOOL" /\ Keys[3] = "ETW"
  BY DEF Keys
<1>2. 1..Len(Keys) = {1, 2, 3}
  BY <1>1
<1> QED
  BY <1>1, <1>2 DEF KeySet

\* What is landed of an order is an order, and landing it again changes nothing.
LEMMA LandedOrder ==
    ASSUME NEW r \in Order
    PROVE  Landed(r) \in Order /\ Landed(Landed(r)) = Landed(r)
  BY DEF Landed, Order, NoOrder

\* The demand of a reading is zero exactly when no truck load of it waits.
LEMMA CountedDemand ==
    ASSUME NEW rows \in Rows
    PROVE  /\ Candidates(rows) \in 0..Cardinality(Orders)
           /\ Candidates(rows) = 0 <=> \A b \in Orders : Landed(rows[b]).job = "DS" =>
                                          \/ Landed(rows[b]).status = "A"
                                          \/ Landed(rows[b]).ytno # NoTruck
<1> DEFINE free == {b \in Orders : /\ rows[b].job = "DS" /\ rows[b].status = "Q"
                                   /\ rows[b].ytno = NoTruck}
           load(b) == IF \E s \in Twins : b \in s THEN CHOOSE s \in Twins : b \in s ELSE {b}
           loads == {load(b) : b \in free}
<1>1. Candidates(rows) = Cardinality(loads)
  BY DEF Candidates
<1>2. IsFiniteSet(free) /\ Cardinality(free) <= Cardinality(Orders)
      /\ Cardinality(free) \in Nat /\ Cardinality(Orders) \in Nat
  BY FS_Subset, FS_CardinalityType, PoolAssumption
<1>3. IsFiniteSet(loads) /\ Cardinality(loads) <= Cardinality(free) /\ Cardinality(loads) \in Nat
  <2> HIDE DEF free, load
  <2>1. IsFiniteSet({load(b) : b \in free}) /\ Cardinality({load(b) : b \in free}) <= Cardinality(free)
    <3> DEFINE f == [b \in free |-> load(b)]
    <3>1. f \in Surjection(free, {load(b) : b \in free})
      BY DEF Surjection
    <3> HIDE DEF f
    <3> QED
      BY <1>2, <3>1, FS_Surjection
  <2> QED
    BY <2>1, FS_CardinalityType
<1>4. Cardinality(loads) = 0 <=> free = {}
  <2>1. Cardinality(loads) = 0 <=> loads = {}
    BY <1>3, FS_EmptySet
  <2> QED
    BY <2>1
<1>5. free = {} <=> \A b \in Orders : Landed(rows[b]).job = "DS" =>
                       Landed(rows[b]).status = "A" \/ Landed(rows[b]).ytno # NoTruck
  <2>1. ASSUME NEW b \in Orders
        PROVE  b \in free <=> /\ Landed(rows[b]).job = "DS"
                              /\ Landed(rows[b]).status # "A" /\ Landed(rows[b]).ytno = NoTruck
    <3>1. rows[b] \in Order
      BY DEF Rows
    <3> QED
      BY <3>1 DEF Landed, NoOrder, Order
  <2>2. free \subseteq Orders
    OBVIOUS
  <2> HIDE DEF free
  <2> QED
    BY <2>1, <2>2
<1> QED
  BY <1>1, <1>2, <1>3, <1>4, <1>5

\* A truck of a landed order is one of the trucks taken off the demand.
LEMMA AssignedTrucks ==
    ASSUME NEW rows \in Rows
    PROVE  /\ Assigned(rows) \in SUBSET PoolTrucks
           /\ \A b \in Orders : Landed(rows[b]).ytno \in Assigned(rows) \cup {NoTruck}
<1>1. ASSUME NEW b \in Orders
      PROVE  /\ rows[b].ytno \in PoolTrucks \cup {NoTruck}
             /\ Landed(rows[b]).ytno \in {rows[b].ytno, NoTruck}
  <2>1. rows[b] \in Order
    BY DEF Rows
  <2> QED
    BY <2>1 DEF Order, Landed, NoOrder
<1> QED
  BY <1>1 DEF Assigned

--------------------------------------------------------------------------------
\* Initially nothing has been landed.
LEMMA PoolStart ==
    ASSUME ClockInit, PoolInit
    PROVE  PoolIInv
<1> USE DEF ClockInit, PoolInit, NoTick
<1>1. NoOrder \in Order /\ NoRows \in Rows
  BY DEF NoOrder, Order, NoRows, Rows
<1>2. PoolTypes
  <2>1. Cardinality(Orders) \in Nat
    BY FS_CardinalityType, PoolAssumption
  <2> QED
    BY <1>1, <2>1 DEF PoolTypes, NoEtw
<1>3. NothingAhead /\ RunIsLatest /\ LandedByRun /\ EtwSwept
  BY DEF NothingAhead, RunIsLatest, LandedByRun, EtwSwept, NoEtw
<1>4. DemandAgrees
  BY DEF DemandAgrees, NoRows, NoOrder
<1>5. FreshBehind
  BY ThreeKeys DEF FreshBehind
<1> QED
  BY <1>2, <1>3, <1>4, <1>5 DEF PoolIInv

\* Where a run goes after a step.
LEMMA NextStepTypes ==
    ASSUME PoolTypes
    PROVE  /\ NextStep \in [pc : {"idle", "start"}, step : {1, 2, 3}, as_of : Nat,
                            wq : PoolCranes \cup {NoTruck}, wp : Rows, outcome : {"OK"}]
           /\ \/ /\ NextStep.pc = "idle" /\ NextStep = NoTick
              \/ /\ NextStep.pc = "start" /\ NextStep.as_of = job.as_of /\ NextStep.wp = job.wp
<1>1. NoOrder \in Order /\ NoRows \in Rows
  BY DEF NoOrder, Order, NoRows, Rows
<1>2. CASE job.step = 3
  BY <1>1, <1>2, ThreeKeys DEF NextStep, NoTick
<1>3. CASE job.step # 3
  <2>1. NextStep = [job EXCEPT !.pc = "start", !.step = job.step + 1, !.outcome = "OK"]
    BY <1>3, ThreeKeys DEF NextStep
  <2>2. job.step \in {1, 2}
    BY <1>3 DEF PoolTypes
  <2>3. job.step + 1 \in {1, 2, 3}
    BY <2>2
  <2> QED
    BY <2>1, <2>3 DEF PoolTypes
<1> QED
  BY <1>2, <1>3

\* A step outside the run.
LEMMA OutsideStep ==
    ASSUME PoolIInv, OrderChange \/ PoolClock \/ UNCHANGED <<now, poolVars>>
    PROVE  PoolIInv'
<1> USE DEF PoolIInv, tables, logs, poolVars
<1>1. CASE OrderChange
  <2> USE <1>1 DEF OrderChange
  <2>1. tos' \in Rows /\ queue' \in PoolCranes
    BY DEF PoolTypes, Rows
  <2>2. PoolTypes'
    BY <2>1 DEF PoolTypes
  <2> QED
    BY <2>2 DEF NothingAhead, RunIsLatest, LandedByRun, DemandAgrees, FreshBehind, EtwSwept
<1>2. CASE PoolClock
  <2> USE <1>2 DEF PoolClock, Advance
  <2>1. PoolTypes' /\ NothingAhead'
    BY DEF PoolTypes, NothingAhead
  <2> QED
    BY <2>1 DEF RunIsLatest, LandedByRun, DemandAgrees, FreshBehind, EtwSwept
<1>3. CASE UNCHANGED <<now, poolVars>>
  BY <1>3 DEF PoolTypes, NothingAhead, RunIsLatest, LandedByRun, DemandAgrees, FreshBehind, EtwSwept
<1> QED
  BY <1>1, <1>2, <1>3

\* A step that leaves the tables: the run starts, reads, moves on, fails or dies.
LEMMA RunStep ==
    ASSUME PoolIInv,
           \/ tick_workpool \/ fetch_pool_tick \/ FetchFails \/ start_run \/ StartFails
           \/ WorkFails \/ FinishFails \/ PoolCrash
    PROVE  PoolIInv'
<1> USE DEF PoolIInv, tables, logs, outside
<1> DEFINE K == UNCHANGED <<now, live_workqueue, live_workpool, live_assigned_tt,
                            live_candidate, tos_etw_cntr, swept, served>>
<1>0. K
  BY DEF tick_workpool, fetch_pool_tick, FetchFails, start_run, StartFails, WorkFails,
         FinishFails, PoolCrash
<1>1. NoOrder \in Order /\ NoRows \in Rows
  BY DEF NoOrder, Order, NoRows, Rows
<1>2. /\ tos' \in Rows /\ queue' \in PoolCranes
      /\ data_freshness' \in [KeySet -> [status : {"none", "OK", "FAILED"}, as_of : Nat]]
      /\ \A k \in KeySet : data_freshness'[k].as_of = data_freshness[k].as_of
  <2>1. tos' = tos /\ queue' = queue
    BY DEF tick_workpool, fetch_pool_tick, FetchFails, start_run, StartFails, WorkFails,
           FinishFails, PoolCrash
  <2>2. CASE FetchFails
    <3>1. PICK marked \in SUBSET {"WORKQUEUE", "WORKPOOL"} :
            data_freshness' = [k \in KeySet |-> IF k \in marked
                                THEN [data_freshness[k] EXCEPT !.status = "FAILED"]
                                ELSE data_freshness[k]]
      BY <2>2 DEF FetchFails
    <3>2. ASSUME NEW k \in KeySet
          PROVE  /\ data_freshness'[k] \in [status : {"none", "OK", "FAILED"}, as_of : Nat]
                 /\ data_freshness'[k].as_of = data_freshness[k].as_of
      BY <3>1 DEF PoolTypes
    <3> QED
      BY <2>1, <3>1, <3>2 DEF PoolTypes
  <2>3. CASE ~FetchFails
    <3>1. data_freshness' = data_freshness
      BY <2>3 DEF tick_workpool, fetch_pool_tick, start_run, StartFails, WorkFails,
                  FinishFails, PoolCrash
    <3> QED
      BY <2>1, <3>1 DEF PoolTypes
  <2> QED
    BY <2>2, <2>3
<1>3. /\ job' \in [pc : {"idle", "fetch", "start", "work", "finish"}, step : {1, 2, 3}, as_of : Nat,
                   wq : PoolCranes \cup {NoTruck}, wp : Rows, outcome : {"OK", "FAILED"}]
      /\ ~(job'.pc = "finish" /\ job'.outcome = "OK")
      /\ \/ job'.pc = "idle" /\ job'.as_of = 0
         \/ job'.pc # "idle" /\ job'.as_of = now
         \/ job'.pc # "idle" /\ job.pc # "idle" /\ job'.as_of = job.as_of
  <2>1. CASE tick_workpool
    BY <1>1, <2>1 DEF tick_workpool, NoTick, PoolTypes
  <2>2. CASE fetch_pool_tick
    BY <2>2 DEF fetch_pool_tick, PoolTypes
  <2>3. CASE FetchFails
    BY <2>3 DEF FetchFails, PoolTypes
  <2>4. CASE start_run
    BY <2>4 DEF start_run, PoolTypes
  <2>5. CASE StartFails
    BY <2>5, NextStepTypes DEF StartFails, NoTick
  <2>6. CASE WorkFails
    BY <2>6 DEF WorkFails, Worked, PoolTypes
  <2>7. CASE FinishFails
    BY <2>7, NextStepTypes DEF FinishFails, NoTick
  <2>8. CASE PoolCrash
    BY <1>1, <2>8 DEF PoolCrash, NoTick
  <2> QED
    BY <2>1, <2>2, <2>3, <2>4, <2>5, <2>6, <2>7, <2>8
<1>4. PoolTypes'
  BY <1>0, <1>2, <1>3 DEF PoolTypes
<1>5. NothingAhead' /\ RunIsLatest' /\ LandedByRun'
  BY <1>0, <1>3 DEF NothingAhead, RunIsLatest, LandedByRun, PoolTypes
<1>6. DemandAgrees' /\ EtwSwept'
  BY <1>0 DEF DemandAgrees, EtwSwept
<1>7. FreshBehind'
  BY <1>0, <1>2, ThreeKeys DEF FreshBehind
<1> QED
  BY <1>4, <1>5, <1>6, <1>7

\* The first two steps land their tables.
LEMMA LandStep ==
    ASSUME PoolIInv, src_workqueue \/ src_workpool
    PROVE  PoolIInv'
<1> USE DEF PoolIInv, logs, outside, Worked
<1>1. CASE src_workqueue
  <2> USE <1>1 DEF src_workqueue
  <2>1. PoolTypes'
    BY DEF PoolTypes
  <2>2. NothingAhead' /\ RunIsLatest' /\ LandedByRun'
    BY DEF NothingAhead, RunIsLatest, LandedByRun, PoolTypes
  <2>3. DemandAgrees' /\ EtwSwept'
    BY DEF DemandAgrees, EtwSwept
  <2>4. FreshBehind'
    <3>1. live_workqueue.as_of <= live_workqueue'.as_of
      BY DEF RunIsLatest
    <3>2. data_freshness["WORKQUEUE"].as_of \in Nat
      BY ThreeKeys DEF PoolTypes
    <3> QED
      BY <3>1, <3>2 DEF FreshBehind, PoolTypes
  <2> QED
    BY <2>1, <2>2, <2>3, <2>4
<1>2. CASE src_workpool
  <2> USE <1>2 DEF src_workpool
  <2>0. job.wp \in Rows
    BY DEF PoolTypes
  <2>1. PoolTypes'
    <3>1. live_workpool'.rows \in Rows
      <4>1. \A b \in Orders : Landed(job.wp[b]) \in Order
        BY <2>0, LandedOrder DEF Rows
      <4> QED
        BY <4>1 DEF Rows
    <3>2. live_assigned_tt' \in SUBSET PoolTrucks /\ live_candidate' \in 0..Cardinality(Orders)
      BY <2>0, AssignedTrucks, CountedDemand
    <3> QED
      BY <3>1, <3>2 DEF PoolTypes
  <2>2. NothingAhead' /\ RunIsLatest' /\ LandedByRun'
    BY DEF NothingAhead, RunIsLatest, LandedByRun, PoolTypes
  <2>3. DemandAgrees'
    <3>1. \A b \in Orders : live_workpool'.rows[b] = Landed(job.wp[b])
      OBVIOUS
    <3> QED
      BY <2>0, <3>1, AssignedTrucks, CountedDemand DEF DemandAgrees
  <2>4. FreshBehind'
    <3>1. live_workpool.as_of <= live_workpool'.as_of
      BY DEF RunIsLatest
    <3>2. data_freshness["WORKPOOL"].as_of \in Nat
      BY ThreeKeys DEF PoolTypes
    <3> QED
      BY <3>1, <3>2 DEF FreshBehind, PoolTypes
  <2>5. EtwSwept'
    BY DEF EtwSwept
  <2> QED
    BY <2>1, <2>2, <2>3, <2>4, <2>5
<1> QED
  BY <1>1, <1>2

\* The ETW step reports OK only when the gateway answered or nothing was missing.
LEMMA EtwStep ==
    ASSUME PoolIInv, src_etw
    PROVE  PoolIInv'
<1> USE DEF PoolIInv, outside
<1> DEFINE Got(answer, a) == {v \in DOMAIN answer : answer[v] = a}
<1>0. PICK answer \in [InPool \ Unexpired -> {"ok", "404", "none"}],
           exp \in [PoolVoyages -> now..(now + TTL)] :
        \E listed \in SUBSET {b \in Orders : VoyageOf[b] \in Got(answer, "ok")} :
          /\ tos_etw_cntr' = Sweep(Upserted([b \in listed |-> exp[VoyageOf[b]]]))
          /\ served' = IF InPool = {} \/ Got(answer, "ok") # {} \/ InPool \cap Unexpired # {}
                         THEN job.as_of ELSE served
          /\ Worked(etw_outcome(Got(answer, "ok"), InPool \cap Unexpired, Got(answer, "404"),
                                Got(answer, "none")))
  BY DEF src_etw
<1>1. PICK listed \in SUBSET {b \in Orders : VoyageOf[b] \in Got(answer, "ok")} :
        /\ tos_etw_cntr' = Sweep(Upserted([b \in listed |-> exp[VoyageOf[b]]]))
        /\ served' = IF InPool = {} \/ Got(answer, "ok") # {} \/ InPool \cap Unexpired # {}
                       THEN job.as_of ELSE served
        /\ Worked(etw_outcome(Got(answer, "ok"), InPool \cap Unexpired, Got(answer, "404"),
                              Got(answer, "none")))
  BY <1>0
<1>2. /\ job.pc = "work" /\ job.step = 3 /\ swept' = now
      /\ UNCHANGED <<now, tos, queue, data_freshness, live_workqueue, live_workpool,
                     live_assigned_tt, live_candidate>>
  BY DEF src_etw
<1>3. job' = [job EXCEPT !.pc = "finish", !.outcome = job'.outcome] /\ job'.outcome \in {"OK", "FAILED"}
      /\ job'.pc = "finish" /\ job'.step = 3 /\ job'.as_of = job.as_of
  BY <1>1, <1>2 DEF Worked, etw_outcome, PoolTypes
<1>4. job'.outcome = "OK" => served' = job.as_of
  <2>1. DOMAIN answer = InPool \ Unexpired
    OBVIOUS
  <2>2. \A v \in DOMAIN answer : answer[v] \in {"ok", "404", "none"}
    OBVIOUS
  <2>3. SUFFICES ASSUME job'.outcome = "OK", InPool # {}, InPool \cap Unexpired = {},
                        Got(answer, "ok") = {}
                 PROVE  FALSE
    BY <1>1
  <2>4. PICK v \in DOMAIN answer : answer[v] \in {"404", "none"}
    BY <2>1, <2>2, <2>3
  <2> QED
    BY <1>1, <2>3, <2>4 DEF Worked, etw_outcome, PoolTypes
<1>5. /\ tos_etw_cntr' \in [Orders -> [upd : Nat, exp : Nat]]
      /\ \A b \in Orders : tos_etw_cntr'[b].upd <= now
      /\ \A b \in Orders : tos_etw_cntr'[b] # NoEtw => tos_etw_cntr'[b].upd + KEEP >= now
  <2> DEFINE snap == [b \in listed |-> exp[VoyageOf[b]]]
  <2>1. ASSUME NEW b \in Orders
        PROVE  Upserted(snap)[b] \in [upd : Nat, exp : Nat] /\ Upserted(snap)[b].upd <= now
    <3>1. CASE b \in listed
      <4>1. VoyageOf[b] \in PoolVoyages
        BY DEF PoolVoyages
      <4>2. exp[VoyageOf[b]] \in Nat
        BY <4>1, PoolAssumption DEF PoolTypes
      <4> QED
        BY <3>1, <4>2 DEF Upserted, PoolTypes
    <3>2. CASE b \notin listed
      BY <3>2 DEF Upserted, PoolTypes, NothingAhead
    <3> QED
      BY <3>1, <3>2
  <2> HIDE DEF snap
  <2>2. ASSUME NEW b \in Orders
        PROVE  /\ Sweep(Upserted(snap))[b] \in [upd : Nat, exp : Nat]
               /\ Sweep(Upserted(snap))[b].upd <= now
               /\ Sweep(Upserted(snap))[b] # NoEtw => Sweep(Upserted(snap))[b].upd + KEEP >= now
    BY <2>1, PoolAssumption DEF Sweep, NoEtw, PoolTypes
  <2>3. Sweep(Upserted(snap)) \in [Orders -> [upd : Nat, exp : Nat]]
    BY <2>2 DEF Sweep
  <2> QED
    BY <1>1, <2>2, <2>3 DEF snap
<1>6. PoolTypes'
  BY <1>1, <1>2, <1>3, <1>5 DEF PoolTypes
<1>7. served' \in {served, job.as_of}
  BY <1>1
<1>8. NothingAhead' /\ RunIsLatest' /\ LandedByRun'
  BY <1>2, <1>3, <1>4, <1>5, <1>7 DEF NothingAhead, RunIsLatest, LandedByRun, PoolTypes
<1>9. DemandAgrees' /\ EtwSwept'
  BY <1>2, <1>5 DEF DemandAgrees, EtwSwept
<1>10. FreshBehind'
  <2>1. served <= served'
    BY <1>2, <1>7 DEF RunIsLatest, PoolTypes
  <2>2. data_freshness["ETW"].as_of \in Nat
    BY ThreeKeys DEF PoolTypes
  <2> QED
    BY <1>2, <1>6, <2>1, <2>2 DEF FreshBehind, PoolTypes
<1> QED
  BY <1>6, <1>8, <1>9, <1>10

\* The end of a run and its freshness row are written together.
LEMMA FinishStep ==
    ASSUME PoolIInv, finish_run
    PROVE  PoolIInv'
<1> USE DEF PoolIInv, finish_run, tables, outside
<1> DEFINE k == Keys[job.step]
<1>1. /\ job.step = 1 => k = "WORKQUEUE"
      /\ job.step = 2 => k = "WORKPOOL"
      /\ job.step = 3 => k = "ETW"
      /\ k \in KeySet
  BY ThreeKeys DEF PoolTypes
<1>2. data_freshness' = [data_freshness EXCEPT ![k] =
                           [status |-> job.outcome,
                            as_of |-> IF job.outcome = "OK" THEN job.as_of ELSE @.as_of]]
  OBVIOUS
<1> HIDE DEF k
<1>3. /\ \A other \in KeySet \ {k} : data_freshness'[other] = data_freshness[other]
      /\ data_freshness'[k].as_of = IF job.outcome = "OK" THEN job.as_of ELSE data_freshness[k].as_of
      /\ data_freshness' \in [KeySet -> [status : {"none", "OK", "FAILED"}, as_of : Nat]]
  <2> DEFINE row == [status |-> job.outcome,
                     as_of |-> IF job.outcome = "OK" THEN job.as_of ELSE data_freshness[k].as_of]
  <2>1. row \in [status : {"none", "OK", "FAILED"}, as_of : Nat]
    BY <1>1 DEF PoolTypes
  <2>2. data_freshness' = [data_freshness EXCEPT ![k] = row]
    BY <1>1, <1>2 DEF PoolTypes
  <2>3. row.as_of = IF job.outcome = "OK" THEN job.as_of ELSE data_freshness[k].as_of
    OBVIOUS
  <2> DEFINE values == [status : {"none", "OK", "FAILED"}, as_of : Nat]
  <2>4. data_freshness \in [KeySet -> values]
    BY DEF PoolTypes
  <2> HIDE DEF row, values
  <2>5. data_freshness' \in [KeySet -> values] /\ data_freshness'[k] = row
        /\ \A other \in KeySet \ {k} : data_freshness'[other] = data_freshness[other]
    BY <1>1, <2>1, <2>2, <2>4, ZenonT(60) DEF values
  <2> QED
    BY <2>3, <2>5 DEF values
<1>4. PoolTypes'
  BY <1>3, NextStepTypes DEF PoolTypes
<1>5. NothingAhead' /\ RunIsLatest' /\ LandedByRun'
  BY NextStepTypes DEF NothingAhead, RunIsLatest, LandedByRun, PoolTypes, NoTick
<1>6. DemandAgrees' /\ EtwSwept'
  BY DEF DemandAgrees, EtwSwept
<1>7. FreshBehind'
  <2>1. CASE job.outcome = "OK"
    BY <1>1, <1>3, <2>1, ThreeKeys DEF FreshBehind, LandedByRun, PoolTypes
  <2>2. CASE job.outcome # "OK"
    BY <1>1, <1>3, <2>2, ThreeKeys DEF FreshBehind
  <2> QED
    BY <2>1, <2>2
<1> QED
  BY <1>4, <1>5, <1>6, <1>7

\* Every step keeps the invariant.
LEMMA PoolStep ==
    ASSUME PoolIInv, [PoolNext]_<<now, poolVars>>
    PROVE  PoolIInv'
  BY OutsideStep, RunStep, LandStep, EtwStep, FinishStep DEF PoolNext

LEMMA PoolSafe == PoolSpec => []PoolIInv
<1>1. ClockInit /\ PoolInit => PoolIInv
  BY PoolStart
<1>2. PoolIInv /\ [PoolNext]_<<now, poolVars>> => PoolIInv'
  BY PoolStep
<1> QED
  BY <1>1, <1>2, PTL DEF PoolSpec

\* Whichever statement fails and wherever a run dies, data_freshness does not
\* promise a landing that the tables do not have.
THEOREM PoolFreshness == PoolSpec => []FreshBehind
<1>1. PoolIInv => FreshBehind
  BY DEF PoolIInv
<1> QED
  BY <1>1, PoolSafe, PTL

\* The tables of the work pool have their types, the demand and the free trucks
\* agree with the landed orders, and no ETW row outlives the sweep.
THEOREM PoolTables == PoolSpec => []PoolInv
<1>1. PoolIInv => PoolInv
  <2>1. ASSUME PoolIInv PROVE PoolTypeOK
    <3> USE <2>1, ThreeKeys DEF PoolIInv
    <3>1. \A k \in KeySet : data_freshness[k].as_of <= now
      <4>1. /\ data_freshness["WORKQUEUE"].as_of \in Nat /\ data_freshness["WORKPOOL"].as_of \in Nat
            /\ data_freshness["ETW"].as_of \in Nat
        BY DEF PoolTypes
      <4> QED
        BY <4>1 DEF FreshBehind, NothingAhead, PoolTypes
    <3>2. 1..Len(Keys) = {1, 2, 3}
      OBVIOUS
    <3>3. job.pc \in {"idle", "fetch", "start", "work", "finish"} /\ job.step \in 1..Len(Keys)
      BY <3>2 DEF PoolTypes
    <3> QED
      BY <3>1, <3>3 DEF PoolTypeOK, PoolTypes, NothingAhead, Rows
  <2> QED
    BY <2>1 DEF PoolInv, PoolIInv
<1> QED
  BY <1>1, PoolSafe, PTL

--------------------------------------------------------------------------------
(* The refinement: the run of the pool is the reader of WorkList.  A reading is *)
(* there from the read to the end of the second step, and it is landed by the   *)
(* second step, at once.                                                        *)

reading == IF job.pc \in {"start", "work", "finish"} /\ job.step <= 2
             THEN Stamped(job.as_of, job.wp) ELSE NoTick
list == Stamped(live_workpool.as_of, live_workpool.rows)
shown == [b \in Orders |-> Landed(tos[b])]

listVars == <<now, shown, reading, list>>

\* A reading is not taken for the absence of one, and landing it shows its orders.
LEMMA ReadingFacts ==
    ASSUME NEW rows \in Rows, NEW t \in Nat
    PROVE  /\ Stamped(t, rows) # NoTick
           /\ [b \in Orders |-> Landed(rows[b])] \in Rows
           /\ Stamped(t, [b \in Orders |-> Landed(rows[b])]) = Stamped(t, rows)
<1>1. Stamped(t, rows) # NoTick
  <2>1. "stamp" \in DOMAIN Stamped(t, rows)
    BY DEF Stamped
  <2>2. "stamp" \notin DOMAIN NoTick
    BY DEF NoTick
  <2> QED
    BY <2>1, <2>2
<1>2. \A b \in Orders : Landed(rows[b]) \in Order /\ Landed(Landed(rows[b])) = Landed(rows[b])
  BY LandedOrder DEF Rows
<1>3. [b \in Orders |-> Landed(rows[b])] \in Rows
  BY <1>2 DEF Rows
<1>4. [b \in Orders |-> Landed([c \in Orders |-> Landed(rows[c])][b])]
        = [b \in Orders |-> Landed(rows[b])]
  BY <1>2
<1> QED
  BY <1>1, <1>3, <1>4 DEF Stamped

\* Every step of the pool is a step of the list or leaves it alone.
LEMMA ListStep ==
    ASSUME PoolIInv, PoolIInv', [PoolNext]_<<now, poolVars>>
    PROVE  [List!WorkListNext]_listVars
<1> USE DEF PoolIInv, tables, logs, outside
<1>0. /\ list.stamp = live_workpool.as_of
      /\ (List!Change <=> /\ shown' \in Rows /\ now' >= now
                          /\ UNCHANGED <<reading, list>>)
      /\ (List!Read <=> /\ \E s \in list.stamp..now : reading' = [stamp |-> s, rows |-> shown]
                        /\ UNCHANGED <<now, shown, list>>)
      /\ (List!Land <=> reading # NoTick /\ list' = reading /\ UNCHANGED <<now, shown, reading>>)
      /\ (List!Forget <=> reading' = NoTick /\ UNCHANGED <<now, shown, list>>)
      /\ (List!WorkListNext <=> List!Change \/ List!Read \/ List!Land \/ List!Forget)
  BY DEF List!Change, List!Read, List!Land, List!Forget, List!WorkListNext, Rows,
         reading, list, shown, Stamped
<1> USE DEF listVars
<1>1. CASE OrderChange \/ PoolClock
  <2>1. UNCHANGED <<job, live_workpool>> /\ now' \in {now, now + 1}
    BY <1>1 DEF OrderChange, PoolClock, Advance, poolVars
  <2>2. shown' \in Rows
    <3>1. tos' \in Rows
      BY DEF PoolTypes
    <3> QED
      BY <3>1, ReadingFacts DEF shown
  <2>3. UNCHANGED <<reading, list>>
    BY <2>1 DEF reading, list
  <2> QED
    BY <1>0, <2>1, <2>2, <2>3 DEF PoolTypes
<1>2. CASE fetch_pool_tick
  <2> USE <1>2 DEF fetch_pool_tick
  <2>1. CASE job.step <= 2
    <3>1. reading' = [stamp |-> job.as_of, rows |-> shown]
      BY <2>1 DEF reading, shown, Stamped, PoolTypes
    <3>2. job.as_of \in live_workpool.as_of..now
      BY DEF RunIsLatest, NothingAhead, PoolTypes
    <3>3. UNCHANGED <<now, shown, list>>
      BY DEF shown, list
    <3> QED
      BY <1>0, <3>1, <3>2, <3>3
  <2>2. CASE ~(job.step <= 2)
    BY <2>2 DEF reading, shown, list, PoolTypes
  <2> QED
    BY <2>1, <2>2
<1>3. CASE src_workpool
  <2> USE <1>3 DEF src_workpool, Worked
  <2>0. job.wp \in Rows /\ job.as_of \in Nat
    BY DEF PoolTypes
  <2>1. reading = Stamped(job.as_of, job.wp) /\ reading' = reading
    BY DEF reading, PoolTypes
  <2>2. list' = Stamped(job.as_of, job.wp)
    BY <2>0, ReadingFacts DEF list
  <2>3. reading # NoTick
    BY <2>0, <2>1, ReadingFacts
  <2> QED
    BY <1>0, <2>1, <2>2, <2>3 DEF shown
<1>4. CASE \/ tick_workpool \/ FetchFails \/ start_run \/ StartFails \/ src_workqueue
           \/ src_etw \/ WorkFails \/ finish_run \/ FinishFails \/ PoolCrash
  <2>1. UNCHANGED <<now, tos>> /\ list' = list
    <3>1. UNCHANGED <<now, tos>> /\ (live_workpool' = live_workpool)
      BY <1>4 DEF tick_workpool, FetchFails, start_run, StartFails, src_workqueue, src_etw,
                  WorkFails, finish_run, FinishFails, PoolCrash
    <3> QED
      BY <3>1 DEF list
  <2>2. reading' \in {reading, NoTick}
    <3>1. CASE tick_workpool
      BY <3>1 DEF tick_workpool, reading, NoTick
    <3>2. CASE FetchFails
      <4>1. job'.step = 3
        BY <3>2 DEF FetchFails, PoolTypes
      <4> QED
        BY <4>1 DEF reading
    <3>3. CASE start_run
      BY <3>3 DEF start_run, reading, PoolTypes
    <3>4. CASE src_workqueue \/ WorkFails
      BY <3>4, ZenonT(60) DEF src_workqueue, WorkFails, Worked, reading, PoolTypes
    <3>5. CASE src_etw
      <4>1. job'.step = 3
        BY <3>5 DEF src_etw, Worked, PoolTypes
      <4> QED
        BY <4>1 DEF reading
    <3>6. CASE StartFails \/ finish_run \/ FinishFails
      <4>1. job' = NextStep /\ job.pc \in {"start", "finish"}
        BY <3>6 DEF StartFails, finish_run, FinishFails
      <4>2. CASE NextStep = NoTick
        BY <4>1, <4>2 DEF reading, NoTick
      <4>3. CASE NextStep # NoTick
        <5>1. /\ NextStep.pc = "start" /\ NextStep.as_of = job.as_of /\ NextStep.wp = job.wp
              /\ NextStep.step = job.step + 1
          BY <4>3, NextStepTypes DEF NextStep, PoolTypes
        <5>2. CASE job.step = 1
          BY <4>1, <5>1, <5>2 DEF reading
        <5>3. CASE job.step # 1
          <6>1. ~(job'.step <= 2)
            BY <4>1, <5>1, <5>3 DEF PoolTypes
          <6> QED
            BY <6>1 DEF reading
        <5> QED
          BY <5>2, <5>3
      <4> QED
        BY <4>2, <4>3
    <3>7. CASE PoolCrash
      BY <3>7 DEF PoolCrash, reading, NoTick
    <3> QED
      BY <1>4, <3>1, <3>2, <3>3, <3>4, <3>5, <3>6, <3>7
  <2> QED
    BY <1>0, <2>1, <2>2 DEF shown
<1>5. CASE UNCHANGED <<now, poolVars>>
  BY <1>5 DEF poolVars, shown, reading, list
<1> QED
  BY <1>1, <1>2, <1>3, <1>4, <1>5 DEF PoolNext

\* The work list is one reading of the TOS, stamped no later than it was read,
\* shown at once and never older than the one before, for the dispatcher that
\* reads it while the tick is at work.
THEOREM PoolListIsReading == PoolSpec => ListIsReading
<1>1. ClockInit /\ PoolInit => List!WorkListInit
  <2>1. NoRows \in Rows
    BY DEF NoRows, Rows, NoOrder, Order
  <2>2. [b \in Orders |-> Landed(NoRows[b])] \in Rows
    BY <2>1, ReadingFacts
  <2> QED
    BY <2>1, <2>2 DEF PoolInit, List!WorkListInit, Rows, NoTick, Stamped
<1>2. PoolIInv /\ PoolIInv' /\ [PoolNext]_<<now, poolVars>>
        => [List!WorkListNext]_<<now, [b \in Orders |-> Landed(tos[b])],
              IF job.pc \in {"start", "work", "finish"} /\ job.step <= 2
                THEN Stamped(job.as_of, job.wp) ELSE NoTick,
              Stamped(live_workpool.as_of, live_workpool.rows)>>
  BY ListStep DEF listVars, shown, reading, list
<1> QED
  BY <1>1, <1>2, PoolSafe, PTL DEF PoolSpec, ListIsReading, List!WorkListSpec
=============================================================================
