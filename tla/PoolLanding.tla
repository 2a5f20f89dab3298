----------------------------- MODULE PoolLanding -----------------------------
(* One tick of the work pool (extractor/workpool.rs): the time of the list is   *)
(* taken, the TOS is read, then three steps land the queues, the orders and the *)
(* ETW snapshots, each in a transaction of its own between a RUNNING row and    *)
(* the freshness row of its key (kpis/common.rs, db.rs).  A step that fails     *)
(* does not stop the next one.                                                  *)
EXTENDS Clock, FiniteSets, FiniteSetsExt, Sequences

CONSTANTS
    Orders,         \* boxes with a job order
    Twins,          \* sets of boxes that share a twinkey
    VoyageOf,       \* voyage of a box
    PoolTrucks, PoolCranes,
    NoTruck,
    TTL,            \* life of a snapshot of the gateway
    KEEP,           \* ETW rows that were not renewed for so long are dropped
    PoolEnd,        \* bound: last instant of the clock
    MaxPoolChanges, \* bound: changes of the orders
    MaxPoolFaults   \* bound: statements and fetches that fail, crashes

ASSUME PoolAssumption == IsFiniteSet(Orders) /\ TTL \in Nat /\ KEEP \in Nat /\ PoolEnd \in Nat

Keys == <<"WORKQUEUE", "WORKPOOL", "ETW">>
PoolVoyages == {VoyageOf[b] : b \in Orders}

\* An order: DS or LD (anything else is "yard"), its JOBSTATUS and its truck.
Order == [job : {"none", "DS", "yard"}, status : {"Q", "A", "B"}, ytno : PoolTrucks \cup {NoTruck}]
NoOrder == [job |-> "none", status |-> "Q", ytno |-> NoTruck]

NoRows == [b \in Orders |-> NoOrder]
NoTick == [pc |-> "idle", step |-> 1, as_of |-> 0, wq |-> NoTruck, wp |-> NoRows, outcome |-> "OK"]
NoEtw == [upd |-> 0, exp |-> 0]

VARIABLES
    tos,            \* JOB_ORDER_LIST
    queue,          \* JOB_QUEUE_SCHEDULE: crane of the queue
    job,            \* the run of the unit: what it read and the step it is at
    live_workqueue, \* crane of the queue and as_of_ts
    live_workpool,  \* rows, crane attached to them, as_of_ts
    live_assigned_tt, live_candidate,
    tos_etw_cntr,   \* ETW row of a box, NoEtw without one
    data_freshness, \* of a key: status and the as_of of the last run that ended OK
    etl_run_log,    \* of a key: status of its last run
    swept,          \* history: when an ETW step last ended
    served,         \* history: as_of of the last ETW step with an answer, or current rows
    poolChanges, poolFaults

poolVars == <<tos, queue, job, live_workqueue, live_workpool, live_assigned_tt, live_candidate,
              tos_etw_cntr, data_freshness, etl_run_log, swept, served, poolChanges, poolFaults>>
tables == <<live_workqueue, live_workpool, live_assigned_tt, live_candidate, tos_etw_cntr>>
logs == <<data_freshness, etl_run_log, swept, served>>
outside == <<now, tos, queue, poolChanges>>

KeySet == {Keys[i] : i \in 1..Len(Keys)}

PoolInit ==
    /\ tos = NoRows /\ queue \in PoolCranes
    /\ job = NoTick
    /\ live_workqueue = [qc |-> NoTruck, as_of |-> 0]
    /\ live_workpool = [rows |-> NoRows, qc |-> NoTruck, as_of |-> 0]
    /\ live_assigned_tt = {} /\ live_candidate = 0
    /\ tos_etw_cntr = [b \in Orders |-> NoEtw]
    /\ data_freshness = [k \in KeySet |-> [status |-> "none", as_of |-> 0]]
    /\ etl_run_log = [k \in KeySet |-> "none"]
    /\ swept = 0 /\ served = 0 /\ poolChanges = 0 /\ poolFaults = 0

--------------------------------------------------------------------------------
(* The TOS. *)

OrderChange ==
    /\ poolChanges < MaxPoolChanges /\ poolChanges' = poolChanges + 1
    /\ \/ \E b \in Orders, o \in Order : tos' = [tos EXCEPT ![b] = o] /\ UNCHANGED queue
       \/ queue' \in PoolCranes \ {queue} /\ UNCHANGED tos
    /\ UNCHANGED <<now, job, poolFaults, logs>> /\ UNCHANGED tables

PoolClock == Advance(PoolEnd) /\ UNCHANGED poolVars

Fault == poolFaults < MaxPoolFaults /\ poolFaults' = poolFaults + 1

--------------------------------------------------------------------------------
(* The tick. *)

tick_workpool ==
    /\ job.pc = "idle"
    /\ job' = [NoTick EXCEPT !.pc = "fetch", !.as_of = now]
    /\ UNCHANGED <<outside, poolFaults, logs>> /\ UNCHANGED tables

MutFetchPoolTick ==
    /\ job.pc = "fetch"
    /\ job' = [job EXCEPT !.pc = "start", !.wq = queue, !.wp = tos, !.as_of = now + 1]
    /\ UNCHANGED <<outside, poolFaults, logs>> /\ UNCHANGED tables

fetch_pool_tick ==
    /\ job.pc = "fetch"
    /\ job' = [job EXCEPT !.pc = "start", !.wq = queue, !.wp = tos]
    /\ UNCHANGED <<outside, poolFaults, logs>> /\ UNCHANGED tables

\* The fetch fails, or its log does: both keys are marked FAILED as far as the
\* database takes it, and the tick goes on with the ETW step.
FetchFails ==
    /\ job.pc = "fetch" /\ Fault
    /\ \E marked \in SUBSET {"WORKQUEUE", "WORKPOOL"} :
        /\ data_freshness' = [k \in KeySet |-> IF k \in marked
                                THEN [data_freshness[k] EXCEPT !.status = "FAILED"]
                                ELSE data_freshness[k]]
        /\ etl_run_log' = [k \in KeySet |-> IF k \in marked THEN "FAILED" ELSE etl_run_log[k]]
    /\ job' = [job EXCEPT !.pc = "start", !.step = 3]
    /\ UNCHANGED <<outside, swept, served>> /\ UNCHANGED tables

MutNextStep == IF job.step = Len(Keys) THEN [job EXCEPT !.pc = "fetch"]
               ELSE [job EXCEPT !.pc = "start", !.step = job.step + 1, !.outcome = "OK"]

\* On to the next key, or the end of the run.
NextStep == IF job.step = Len(Keys) THEN NoTick
            ELSE [job EXCEPT !.pc = "start", !.step = job.step + 1, !.outcome = "OK"]

start_run ==
    /\ job.pc = "start"
    /\ job' = [job EXCEPT !.pc = "work"]
    /\ etl_run_log' = [etl_run_log EXCEPT ![Keys[job.step]] = "RUNNING"]
    /\ UNCHANGED <<outside, poolFaults, data_freshness, swept, served>> /\ UNCHANGED tables

StartFails ==
    /\ job.pc = "start" /\ Fault
    /\ job' = NextStep
    /\ UNCHANGED <<outside, logs>> /\ UNCHANGED tables

Worked(outcome) == job' = [job EXCEPT !.pc = "finish", !.outcome = outcome]

src_workqueue ==
    /\ job.pc = "work" /\ job.step = 1
    /\ live_workqueue' = [qc |-> job.wq, as_of |-> job.as_of]
    /\ Worked("OK")
    /\ UNCHANGED <<outside, poolFaults, logs, live_workpool, live_assigned_tt, live_candidate,
                   tos_etw_cntr>>

\* DS and LD orders that are active, or queued with or without a truck.
Landed(r) == IF r.job = "DS" /\ r.status \in {"A", "Q"} THEN r ELSE NoOrder

Assigned(rows) == {rows[b].ytno : b \in Orders} \ {NoTruck}

MutCandidates(rows) ==
    Cardinality({b \in Orders : rows[b].job = "DS" /\ rows[b].status = "A"})

\* Truck loads without a truck: a pair of twins counts once.
Candidates(rows) ==
    LET free == {b \in Orders : rows[b].job = "DS" /\ rows[b].status = "Q" /\ rows[b].ytno = NoTruck}
        load(b) == IF \E s \in Twins : b \in s THEN CHOOSE s \in Twins : b \in s ELSE {b}
    IN  Cardinality({load(b) : b \in free})

src_workpool ==
    /\ job.pc = "work" /\ job.step = 2
    /\ live_workpool' = [rows |-> [b \in Orders |-> Landed(job.wp[b])], qc |-> live_workqueue.qc,
                         as_of |-> job.as_of]
    /\ live_assigned_tt' = Assigned(job.wp)
    /\ live_candidate' = Candidates(job.wp)
    /\ Worked("OK")
    /\ UNCHANGED <<outside, poolFaults, logs, live_workqueue, tos_etw_cntr>>

\* Voyages of the pool, and the ones whose stored snapshot has not expired.
InPool == {VoyageOf[b] : b \in {c \in Orders : live_workpool.rows[c] # NoOrder}}
Unexpired == {v \in PoolVoyages : \E b \in Orders : VoyageOf[b] = v /\ tos_etw_cntr[b].exp > now}

MutEtwOutcome(fetched, skipped, not_found, failed) ==
    IF fetched = {} /\ failed # {} THEN "FAILED" ELSE "OK"

etw_outcome(fetched, skipped, not_found, failed) ==
    IF fetched = {} /\ (failed # {} \/ (not_found # {} /\ skipped = {})) THEN "FAILED" ELSE "OK"

\* The rows a voyage gets: all containers of its snapshot, in one transaction with
\* the sweep, which is committed even when no fetch succeeded.
Upserted(snap) == [b \in Orders |-> IF b \in DOMAIN snap THEN [upd |-> now, exp |-> snap[b]]
                                    ELSE tos_etw_cntr[b]]

Sweep(rows) == [b \in Orders |-> IF rows[b].upd + KEEP < now THEN NoEtw ELSE rows[b]]

\* Every voyage that is asked answers with a snapshot, with 404 or not at all.
src_etw ==
    /\ job.pc = "work" /\ job.step = 3
    /\ \E answer \in [InPool \ Unexpired -> {"ok", "404", "none"}],
          exp \in [PoolVoyages -> now..(now + TTL)] :
        LET Got(a) == {v \in DOMAIN answer : answer[v] = a}
        IN  \E listed \in SUBSET {b \in Orders : VoyageOf[b] \in Got("ok")} :
              /\ IF Got("none") = {} THEN UNCHANGED poolFaults ELSE Fault
              /\ tos_etw_cntr' = Sweep(Upserted([b \in listed |-> exp[VoyageOf[b]]]))
              /\ served' = IF InPool = {} \/ Got("ok") # {} \/ InPool \cap Unexpired # {}
                             THEN job.as_of ELSE served
              /\ Worked(etw_outcome(Got("ok"), InPool \cap Unexpired, Got("404"), Got("none")))
    /\ swept' = now
    /\ UNCHANGED <<outside, data_freshness, etl_run_log, live_workqueue, live_workpool,
                   live_assigned_tt, live_candidate>>

\* A statement of the step fails: its transaction is undone.
WorkFails ==
    /\ job.pc = "work" /\ Fault
    /\ Worked("FAILED")
    /\ UNCHANGED <<outside, logs>> /\ UNCHANGED tables

\* The end of the run and the freshness of its key, in a transaction of their own.
finish_run ==
    /\ job.pc = "finish"
    /\ LET k == Keys[job.step]
       IN  /\ etl_run_log' = [etl_run_log EXCEPT ![k] = job.outcome]
           /\ data_freshness' = [data_freshness EXCEPT ![k] =
                 [status |-> job.outcome,
                  as_of |-> IF job.outcome = "OK" THEN job.as_of ELSE @.as_of]]
    /\ job' = NextStep
    /\ UNCHANGED <<outside, poolFaults, swept, served>> /\ UNCHANGED tables

FinishFails ==
    /\ job.pc = "finish" /\ Fault
    /\ job' = NextStep
    /\ UNCHANGED <<outside, logs>> /\ UNCHANGED tables

PoolCrash ==
    /\ job.pc # "idle" /\ Fault
    /\ job' = NoTick
    /\ UNCHANGED <<outside, logs>> /\ UNCHANGED tables

PoolNext ==
    \/ OrderChange \/ PoolClock
    \/ tick_workpool \/ fetch_pool_tick \/ FetchFails
    \/ start_run \/ StartFails
    \/ src_workqueue \/ src_workpool \/ src_etw \/ WorkFails
    \/ finish_run \/ FinishFails \/ PoolCrash

(* The timer starts a run every minute and a run ends: the toolbox and curl     *)
(* have time limits and the unit has one.                                       *)
PoolFairness == WF_<<now, poolVars>>(tick_workpool \/ fetch_pool_tick \/ start_run
                                     \/ src_workqueue \/ src_workpool \/ src_etw \/ finish_run)

PoolSpec == ClockInit /\ PoolInit /\ [][PoolNext]_<<now, poolVars>> /\ PoolFairness

--------------------------------------------------------------------------------
\* Every variable has its type; what was landed was read before, in a run that
\* started before it.
PoolTypeOK ==
    /\ tos \in [Orders -> Order] /\ queue \in PoolCranes
    /\ job.pc \in {"idle", "fetch", "start", "work", "finish"} /\ job.step \in 1..Len(Keys)
    /\ live_workqueue.as_of <= now /\ live_workpool.as_of <= now
    /\ live_assigned_tt \in SUBSET PoolTrucks /\ live_candidate \in 0..Cardinality(Orders)
    /\ \A b \in Orders : tos_etw_cntr[b].upd <= now
    /\ \A k \in KeySet : data_freshness[k].as_of <= now

\* The work list implements what the dispatcher relies on: one reading, stamped no
\* later than it was read, shown at once, never older than the one before.
Stamped(as_of, rows) == [stamp |-> as_of, rows |-> [b \in Orders |-> Landed(rows[b])]]
List == INSTANCE WorkList WITH
    NoReading <- NoTick,
    Readings <- [Orders -> Order],
    clock <- now,
    orders <- [b \in Orders |-> Landed(tos[b])],
    reading <- IF job.pc \in {"start", "work", "finish"} /\ job.step <= 2
                 THEN Stamped(job.as_of, job.wp) ELSE NoTick,
    list <- Stamped(live_workpool.as_of, live_workpool.rows)
ListIsReading == List!WorkListSpec

\* A truck is counted as needed for every truck load that waits, and no truck is
\* both free for the demand and on an order: the three tables of one tick agree.
DemandAgrees ==
    /\ live_candidate = 0 <=> \A b \in Orders : live_workpool.rows[b].job = "DS" =>
                                \/ live_workpool.rows[b].status = "A"
                                \/ live_workpool.rows[b].ytno # NoTruck
    /\ \A b \in Orders : live_workpool.rows[b].ytno \in live_assigned_tt \cup {NoTruck}

\* data_freshness never promises what is not there: the run it calls the last good
\* one has landed its data, whichever statement failed and wherever a run died;
\* an ETW step that got nothing and has nothing current stored is not a good one.
FreshBehind ==
    /\ data_freshness["WORKQUEUE"].as_of <= live_workqueue.as_of
    /\ data_freshness["WORKPOOL"].as_of <= live_workpool.as_of
    /\ data_freshness["ETW"].as_of <= served

\* No ETW outlives the sweep: when an ETW step ends, with or without an answer of
\* the gateway, every row that is left was renewed within KEEP.
EtwSwept == \A b \in Orders : tos_etw_cntr[b] # NoEtw => tos_etw_cntr[b].upd + KEEP >= swept

\* What the landed tables hold, after every step of every run.
PoolInv == PoolTypeOK /\ DemandAgrees /\ EtwSwept

\* The list catches up: once the orders stand still, the list shows them for good.
ListCatchesUp == <>[](\A b \in Orders : live_workpool.rows[b] = Landed(tos[b]))
================================================================================
