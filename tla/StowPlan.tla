------------------------------ MODULE StowPlan ------------------------------
(* The mirror of the stow plan (extractor/stowplan.rs): live_stow_plan holds,  *)
(* for every box still to be handled, its queue and its number in the plan.    *)
(* One unit of the timer merges what changed since the watermark (or, with     *)
(* STOWPLAN_MODE=snapshot, replaces the table); another one, once an hour,     *)
(* replaces the table by a fresh read.  The two units overlap freely: nothing  *)
(* locks the table between the read of the TOS and the commit.                 *)
EXTENDS Clock, FiniteSets, FiniteSetsExt

CONSTANTS
    NVoyages,       \* voyages 1..NVoyages, in the order of the query
    PlanBoxes,      \* boxes: voyage and container
    MaxRev,         \* revisions of a box: its queue and its number in the plan
    MAX_VOYAGES, SAFETY_LAG,
    STOWPLAN_MODE,  \* positions of the switch during the run
    MaxPlanDelay,       \* time from the stamp of a change to its visibility
    PlanEnd,        \* bound: last instant of the clock
    MaxChanges      \* bound: changes of the plan and of the voyages at work

ASSUME StowAssumption ==
    /\ NVoyages \in Nat /\ MAX_VOYAGES \in Nat \ {0} /\ MaxRev \in Nat \ {0}
    /\ SAFETY_LAG \in Nat /\ MaxPlanDelay \in 0..SAFETY_LAG /\ PlanEnd \in Nat \ {0}
    /\ STOWPLAN_MODE \subseteq {"delta", "snapshot"}

Voyages == 1..NVoyages
Units == {"tick", "recon"}

NoWm == 0 - SAFETY_LAG - 1      \* no row in etl_watermark: below every key

\* rev = 0: a row without a queue name.
NoPlanRow == [on |-> FALSE, done |-> FALSE, rev |-> 0, upd |-> 0]
PlanRow == [on : {TRUE}, done : BOOLEAN, rev : 0..MaxRev, upd : 0..PlanEnd]

NoJob == [pc |-> "idle", kind |-> "snapshot", used |-> {}, seed |-> {}, wm |-> NoWm,
          rows |-> [b \in PlanBoxes |-> NoPlanRow], stale |-> FALSE]

VARIABLES
    plan,           \* VSP_SHIP, the rows with PLANST = 'P'
    active,         \* voyages at work in live_workqueue
    mirror,         \* live_stow_plan: revision of a box, 0 without a row
    plan_wm,        \* etl_watermark of stowplan_delta
    jobs,           \* the run of each unit
    sure,           \* history: voyages followed without a gap since they were read whole
    changes

stowVars == <<plan, active, mirror, plan_wm, jobs, sure, changes>>

\* What the snapshot query and the checks on its rows leave of a box.
Kept(r) == IF r.on /\ ~r.done THEN r.rev ELSE 0

active_voyages == {v \in active : Cardinality({w \in active : w < v}) < MAX_VOYAGES}

RowsOf(v) == {b \in PlanBoxes : b[1] = v}
Present == {v \in Voyages : \E b \in RowsOf(v) : mirror[b] # 0}

StowInit ==
    /\ plan \in [PlanBoxes -> {NoPlanRow, [on |-> TRUE, done |-> FALSE, rev |-> 1, upd |-> 0]}]
    /\ active \in SUBSET Voyages \ {{}}
    /\ mirror = [b \in PlanBoxes |-> 0]
    /\ plan_wm = NoWm
    /\ jobs = [u \in Units |-> NoJob]
    /\ sure = {}
    /\ changes = 0

--------------------------------------------------------------------------------
(* The TOS: a row is written, completed or withdrawn; a voyage begins or ends.  *)

Stamps(b) == {t \in 0..now : now - t <= MaxPlanDelay /\ t >= plan[b].upd}

Change ==
    /\ changes < MaxChanges /\ changes' = changes + 1
    /\ UNCHANGED <<now, mirror, plan_wm, jobs, sure>>

Revise(b) ==
    /\ Change /\ UNCHANGED active
    /\ \E r \in 0..MaxRev, t \in Stamps(b) :
        plan' = [plan EXCEPT ![b] = [on |-> TRUE, done |-> FALSE, rev |-> r, upd |-> t]]

Discharge(b) ==
    /\ plan[b].on /\ ~plan[b].done
    /\ Change /\ UNCHANGED active
    /\ \E t \in Stamps(b) : plan' = [plan EXCEPT ![b].done = TRUE, ![b].upd = t]

Withdraw(b) ==
    /\ plan[b].on
    /\ Change /\ UNCHANGED active
    /\ plan' = [plan EXCEPT ![b] = NoPlanRow]

Berth(v) ==
    /\ Change /\ UNCHANGED plan
    /\ active' = (active \ {v}) \cup ({v} \ active)

--------------------------------------------------------------------------------
(* A run: the voyages, the watermark and the voyages without a row are read     *)
(* from the mirror, then the TOS is read, then everything is written at once.   *)

tick_stowplan(u, kind) ==
    /\ jobs[u].pc = "idle" /\ active_voyages # {}
    /\ jobs' = [jobs EXCEPT ![u] =
                  [NoJob EXCEPT !.pc = "asked", !.kind = kind, !.used = active_voyages,
                                !.wm = IF kind = "delta" THEN plan_wm ELSE NoWm,
                                !.seed = IF kind = "delta" /\ plan_wm # NoWm
                                           THEN active_voyages \ Present ELSE {}]]
    /\ UNCHANGED <<now, plan, active, mirror, plan_wm, sure, changes>>

StowTick == \E kind \in STOWPLAN_MODE : tick_stowplan("tick", kind)

MutStowRecon == active_voyages \ Present # {} /\ tick_stowplan("recon", "snapshot")

StowRecon == tick_stowplan("recon", "snapshot")

MutSelected(j, b) ==
    /\ plan[b].on /\ b[1] \in j.used
    /\ \/ j.kind = "delta" /\ plan[b].upd > j.wm
       \/ (j.kind = "snapshot" \/ b[1] \in j.seed) /\ ~plan[b].done

\* stowplan_delta.sql (completed rows too) with stowplan_seed.sql, or stowplan.sql.
Selected(j, b) ==
    /\ plan[b].on /\ b[1] \in j.used
    /\ \/ j.kind = "delta" /\ plan[b].upd >= j.wm
       \/ (j.kind = "snapshot" \/ b[1] \in j.seed) /\ ~plan[b].done

ReadPlan(u) ==
    /\ jobs[u].pc = "asked"
    /\ jobs' = [jobs EXCEPT ![u].pc = "read",
                            ![u].rows = [b \in PlanBoxes |-> IF Selected(jobs[u], b) THEN plan[b]
                                                             ELSE NoPlanRow]]
    /\ UNCHANGED <<now, plan, active, mirror, plan_wm, sure, changes>>

\* The watermark goes back by the lag before it is stored, and never backwards.
Advanced(old, rows) ==
    LET upds == {rows[b].upd : b \in {c \in PlanBoxes : rows[c].on}}
    IN  IF upds = {} THEN old ELSE Max({old, Max(upds) - SAFETY_LAG})

\* Box b after the merge; the first run empties the voyages it reads.
Merged(j, b) ==
    LET base == IF j.wm = NoWm /\ b[1] \in j.used THEN 0 ELSE mirror[b]
        r == j.rows[b]
    IN  CASE ~r.on               -> base
          [] r.on /\ r.done      -> 0
          [] OTHER               -> IF r.rev = 0 THEN base ELSE r.rev

\* Voyages followed without a gap: read whole into an empty part of the mirror,
\* or read before and in the list of this run again.
Followed(j) == {v \in j.used : \/ v \in sure
                               \/ j.wm = NoWm
                               \/ v \in j.seed /\ v \notin Present}

src_stowplan_delta(u) ==
    LET j == jobs[u]
    IN  /\ j.pc = "read" /\ j.kind = "delta"
        /\ mirror' = [b \in PlanBoxes |-> Merged(j, b)]
        /\ plan_wm' = Advanced(plan_wm, j.rows)
        /\ sure' = Followed(j)
        /\ jobs' = [v \in Units |-> IF v = u THEN NoJob
                                    ELSE [jobs[v] EXCEPT !.stale = (jobs[v].pc = "read")]]
        /\ UNCHANGED <<now, plan, active, changes>>

\* DELETE of the whole table, and the rows that have a queue.
Replaced(j) == [b \in PlanBoxes |-> Kept(j.rows[b])]

src_stowplan_snapshot(u) ==
    LET j == jobs[u]
    IN  /\ j.pc = "read" /\ j.kind = "snapshot"
        /\ mirror' = Replaced(j)
        /\ sure' = IF j.stale THEN {} ELSE j.used
        /\ jobs' = [jobs EXCEPT ![u] = NoJob]
        /\ UNCHANGED <<now, plan, active, plan_wm, changes>>

\* The read or the transaction fails, or the unit is stopped: nothing is written.
RunDies(u) ==
    /\ jobs[u].pc # "idle"
    /\ jobs' = [jobs EXCEPT ![u] = NoJob]
    /\ UNCHANGED <<now, plan, active, mirror, plan_wm, sure, changes>>

StowClock == Advance(PlanEnd) /\ UNCHANGED stowVars

Finish(u) == src_stowplan_delta(u) \/ src_stowplan_snapshot(u)

StowNext ==
    \/ \E b \in PlanBoxes : Revise(b) \/ Discharge(b) \/ Withdraw(b)
    \/ \E v \in Voyages : Berth(v)
    \/ StowTick
    \/ StowRecon
    \/ \E u \in Units : ReadPlan(u) \/ src_stowplan_delta(u) \/ src_stowplan_snapshot(u) \/ RunDies(u)
    \/ StowClock

(* The timer of the reconciliation fires for ever, and of its runs that come so *)
(* far not every one fails; nothing is asked of the two-minute unit.            *)
StowFairness ==
    /\ WF_<<now, stowVars>>(StowRecon)
    /\ SF_<<now, stowVars>>(ReadPlan("recon"))
    /\ SF_<<now, stowVars>>(Finish("recon"))

StowSpec == ClockInit /\ StowInit /\ [][StowNext]_<<now, stowVars>> /\ StowFairness

--------------------------------------------------------------------------------
\* Every variable has its type, and the watermark is behind the clock by the lag:
\* what the runs read and store are keys of rows that were visible.
StowTypeOK ==
    /\ plan \in [PlanBoxes -> PlanRow \cup {NoPlanRow}]
    /\ active \in SUBSET Voyages
    /\ mirror \in [PlanBoxes -> 0..MaxRev]
    /\ plan_wm \in NoWm..(now - SAFETY_LAG)
    /\ \A u \in Units : jobs[u].pc \in {"idle", "asked", "read"}
    /\ sure \in SUBSET Voyages

\* No change of a voyage that is followed without a gap is lost: a box whose row
\* differs from the plan has a key the next merge reads.  Excepted is what the
\* merge cannot see, which is left to the reconciliation: a row that is withdrawn
\* from the plan or that lost its queue.
TrueOrPending ==
    \A v \in sure : \A b \in RowsOf(v) :
        \/ mirror[b] = Kept(plan[b])
        \/ plan[b].upd >= plan_wm
        \/ ~plan[b].on
        \/ plan[b].rev = 0 /\ ~plan[b].done

\* The mirror and the watermark, at every step of every run.
StowInv == StowTypeOK /\ TrueOrPending

\* The reconciliation heals every drift: once the TOS and the list of voyages
\* stand still the mirror shows exactly the plan of the voyages it serves, for
\* good, whatever merges were under way.
Synced == \A v \in active_voyages : \A b \in RowsOf(v) : mirror[b] = Kept(plan[b])
StowHealed == <>[]Synced
================================================================================
