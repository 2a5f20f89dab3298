--------------------------- MODULE StowPlanProofs ---------------------------
(***************************************************************************)
(* For every plan, every number of voyages and changes and every overlap of *)
(* the two units: a box of a voyage that is followed without a gap shows    *)
(* its plan, or has a key that the next merge reads.                        *)
(*                                                                          *)
(* TrueOrPending is not inductive: what a run has read may be out of date   *)
(* when it is written.  The strengthening says of every run that has read   *)
(* that a box it read wrongly has changed so late that its key is above the *)
(* watermark this run will store (Late), which is where the safety lag is   *)
(* used, and that the watermark a merge began from is still the stored one. *)
(***************************************************************************)
EXTENDS StowPlan, TLAPS, WellFoundedInduction

PlanRows == PlanRow \cup {NoPlanRow}

Runs == [pc : {"idle", "asked", "read"}, kind : {"delta", "snapshot"},
         used : SUBSET Voyages, seed : SUBSET Voyages,
         wm : NoWm..(PlanEnd - SAFETY_LAG), rows : [PlanBoxes -> PlanRows], stale : BOOLEAN]

StowTypes ==
    /\ now \in 1..PlanEnd
    /\ plan \in [PlanBoxes -> PlanRows] /\ \A b \in PlanBoxes : plan[b].upd <= now
    /\ active \in SUBSET Voyages
    /\ mirror \in [PlanBoxes -> 0..MaxRev]
    /\ plan_wm \in NoWm..(now - SAFETY_LAG)
    /\ jobs \in [Units -> Runs]
    /\ \A u \in Units : \A b \in PlanBoxes : jobs[u].rows[b].upd <= now
    /\ sure \in SUBSET Voyages

\* Only the two-minute unit merges, nobody else moves its watermark, and only a
\* merge makes the read of the other unit stale.
OneMerger ==
    /\ jobs["recon"].kind = "snapshot" /\ ~jobs["tick"].stale
    /\ \A u \in Units : jobs[u].kind = "delta" /\ jobs[u].pc # "idle" => jobs[u].wm = plan_wm

\* The box has changed so late that no watermark taken from this read passes it.
Late(j, b) ==
    /\ plan[b].upd >= plan_wm
    /\ \A c \in PlanBoxes : j.rows[c].on => plan[b].upd >= j.rows[c].upd - SAFETY_LAG

\* What a run has read of a box is the plan, unless it has changed since.
ReadTrue ==
    \A u \in Units : jobs[u].pc = "read" /\ ~jobs[u].stale =>
        \A b \in PlanBoxes :
            \/ ~plan[b].on
            \/ Late(jobs[u], b)
            \/ jobs[u].rows[b] = IF Selected(jobs[u], b) THEN plan[b] ELSE NoPlanRow

StowIInv == StowTypes /\ OneMerger /\ ReadTrue /\ TrueOrPending

--------------------------------------------------------------------------------
\* The fields of a row, also of one that is not there.
LEMMA RowFields ==
    ASSUME NEW r \in PlanRows
    PROVE  /\ r.upd \in 0..PlanEnd /\ r.upd \in Nat /\ r.rev \in 0..MaxRev
           /\ r.on \in BOOLEAN /\ r.done \in BOOLEAN
<1> USE StowAssumption
<1>1. CASE r \in PlanRow
  <2>1. r.upd \in 0..PlanEnd /\ r.rev \in 0..MaxRev
    BY <1>1 DEF PlanRow
  <2>2. r.on \in BOOLEAN /\ r.done \in BOOLEAN
    BY <1>1 DEF PlanRow
  <2> QED
    BY <2>1, <2>2
<1>2. CASE r = NoPlanRow
  <2>1. r.upd \in 0..PlanEnd /\ r.upd \in Nat /\ r.rev \in 0..MaxRev
    BY <1>2 DEF NoPlanRow
  <2>2. r.on \in BOOLEAN /\ r.done \in BOOLEAN
    BY <1>2 DEF NoPlanRow
  <2> QED
    BY <2>1, <2>2
<1> QED
  BY <1>1, <1>2 DEF PlanRows

\* The newest of some keys is one of them and none is newer.
LEMMA NewestKey ==
    ASSUME NEW N \in Nat, NEW keys \in SUBSET (0..N), keys # {}
    PROVE  Max(keys) \in keys /\ \A k \in keys : Max(keys) >= k
<1> DEFINE below == {N - k : k \in keys}
           R == OpToRel(<, Nat)
<1>1. \A k \in keys : k \in Nat /\ N - k \in Nat
  OBVIOUS
<1>2. below \subseteq Nat /\ below # {}
  BY <1>1
<1>3. PICK x \in below : \A y \in below : ~(<<y, x>> \in R)
  <2> HIDE DEF below
  <2> QED
    BY <1>2, NatLessThanWellFounded, WFMin
<1>4. \A y \in below : ~(y < x)
  BY <1>2, <1>3 DEF OpToRel
<1>5. PICK m \in keys : x = N - m
  OBVIOUS
<1>6. \A k \in keys : m >= k
  <2>1. SUFFICES ASSUME NEW k \in keys PROVE m >= k
    OBVIOUS
  <2>2. ~(N - k < N - m)
    BY <1>4, <1>5
  <2>3. k \in Int /\ m \in Int
    BY <1>1
  <2> QED
    BY <2>2, <2>3
<1> HIDE DEF below, R
<1> QED
  BY <1>6 DEF Max

\* The watermark stays, or becomes a key that was read less the lag; it never goes
\* back.
LEMMA AdvancedMark ==
    ASSUME StowTypes, NEW u \in Units
    PROVE  /\ Advanced(plan_wm, jobs[u].rows) >= plan_wm
           /\ \/ Advanced(plan_wm, jobs[u].rows) = plan_wm
              \/ \E c \in PlanBoxes : /\ jobs[u].rows[c].on
                                      /\ Advanced(plan_wm, jobs[u].rows) = jobs[u].rows[c].upd - SAFETY_LAG
<1> DEFINE upds == {jobs[u].rows[b].upd : b \in {c \in PlanBoxes : jobs[u].rows[c].on}}
<1>1. \A b \in PlanBoxes : jobs[u].rows[b].upd \in 0..PlanEnd
  <2>1. \A b \in PlanBoxes : jobs[u].rows[b] \in PlanRows
    BY DEF StowTypes, Runs
  <2> QED
    BY <2>1, RowFields
<1>2. plan_wm \in Int /\ SAFETY_LAG \in Nat
  BY StowAssumption DEF StowTypes, NoWm
<1>3. CASE upds = {}
  BY <1>2, <1>3 DEF Advanced
<1>4. CASE upds # {}
  <2>1. Max(upds) \in upds
    <3>1. upds \in SUBSET (0..PlanEnd)
      BY <1>1
    <3> HIDE DEF upds
    <3> QED
      BY <1>4, <3>1, NewestKey, StowAssumption
  <2>2. Advanced(plan_wm, jobs[u].rows) = Max({plan_wm, Max(upds) - SAFETY_LAG})
    BY <1>4 DEF Advanced
  <2>3. PICK c \in PlanBoxes : jobs[u].rows[c].on /\ Max(upds) = jobs[u].rows[c].upd
    BY <2>1
  <2> HIDE DEF upds
  <2>4. Max(upds) - SAFETY_LAG \in Int
    BY <1>1, <1>2, <2>3
  <2>5. ASSUME NEW x \in Int, NEW y \in Int
        PROVE  Max({x, y}) \in {x, y} /\ Max({x, y}) >= x
    <3>1. \E z \in {x, y} : \A w \in {x, y} : z >= w
      <4>1. CASE x >= y
        BY <4>1
      <4>2. CASE ~(x >= y)
        BY <4>2
      <4> QED
        BY <4>1, <4>2
    <3> QED
      BY <3>1 DEF Max
  <2>6. Advanced(plan_wm, jobs[u].rows) \in {plan_wm, jobs[u].rows[c].upd - SAFETY_LAG}
        /\ Advanced(plan_wm, jobs[u].rows) >= plan_wm
    BY <1>2, <2>2, <2>3, <2>4, <2>5
  <2> QED
    BY <2>3, <2>6
<1> QED
  BY <1>3, <1>4

LEMMA StowStart ==
    ASSUME ClockInit, StowInit
    PROVE  StowIInv
<1> USE StowAssumption DEF ClockInit, StowInit, NoJob
<1>1. NoWm \in Int /\ NoWm <= 1 - SAFETY_LAG /\ NoWm \in NoWm..(PlanEnd - SAFETY_LAG)
  BY DEF NoWm
<1> DEFINE first == [on |-> TRUE, done |-> FALSE, rev |-> 1, upd |-> 0]
<1>2. /\ NoPlanRow \in PlanRows /\ first \in PlanRows
      /\ NoPlanRow.upd = 0 /\ first.upd = 0
  BY DEF NoPlanRow, PlanRow, PlanRows
<1>3. /\ plan \in [PlanBoxes -> PlanRows] /\ \A b \in PlanBoxes : plan[b].upd <= now
  <2>1. ASSUME NEW b \in PlanBoxes
        PROVE  plan[b] \in PlanRows /\ plan[b].upd = 0
    <3>1. plan[b] \in {NoPlanRow, first}
      OBVIOUS
    <3> HIDE DEF first
    <3> QED
      BY <1>2, <3>1
  <2> QED
    BY <2>1
<1>4. /\ jobs \in [Units -> Runs]
      /\ \A u \in Units : jobs[u] = NoJob
  <2>1. [b \in PlanBoxes |-> NoPlanRow] \in [PlanBoxes -> PlanRows]
    BY <1>2
  <2> QED
    BY <1>1, <2>1 DEF Runs
<1>5. \A u \in Units : \A b \in PlanBoxes : jobs[u].rows[b].upd <= now
  BY <1>2
<1>6. StowTypes
  BY <1>1, <1>3, <1>4, <1>5 DEF StowTypes, Runs
<1>7. OneMerger /\ ReadTrue /\ TrueOrPending
  BY DEF OneMerger, ReadTrue, TrueOrPending, Units
<1> QED
  BY <1>6, <1>7 DEF StowIInv

--------------------------------------------------------------------------------
\* A row of the plan that changes gets a key that is still above every watermark
\* that is stored or can come from a read under way.
LEMMA RowChanges ==
    ASSUME StowIInv, NEW b \in PlanBoxes, NEW row \in PlanRows,
           plan' = [plan EXCEPT ![b] = row], row.upd <= now,
           row.on => row.upd >= now - SAFETY_LAG,
           UNCHANGED <<now, active, mirror, plan_wm, jobs, sure>>
    PROVE  StowIInv'
<1> USE StowAssumption DEF StowIInv
<1>1. StowTypes' /\ OneMerger'
  BY DEF StowTypes, OneMerger
<1>2. /\ plan_wm \in Int /\ now \in Nat /\ plan_wm <= now - SAFETY_LAG
      /\ plan'[b] = row /\ row.upd \in Nat
      /\ \A c \in PlanBoxes : c # b => plan'[c] = plan[c]
  BY RowFields DEF StowTypes, NoWm
<1>3. row.on => row.upd >= plan_wm
  BY <1>2
<1>4. ReadTrue'
  <2>1. SUFFICES ASSUME NEW u \in Units, jobs[u].pc = "read", ~jobs[u].stale,
                        NEW c \in PlanBoxes, plan'[c].on
                 PROVE  \/ Late(jobs[u], c)'
                        \/ jobs[u].rows[c] = IF Selected(jobs[u], c)' THEN plan'[c] ELSE NoPlanRow
    BY DEF ReadTrue
  <2>2. CASE c = b
    <3>1. \A d \in PlanBoxes : jobs[u].rows[d].upd \in Nat /\ jobs[u].rows[d].upd <= now
      <4>1. \A d \in PlanBoxes : jobs[u].rows[d] \in PlanRows /\ jobs[u].rows[d].upd <= now
        BY DEF StowTypes, Runs
      <4> QED
        BY <4>1, RowFields
    <3>2. \A d \in PlanBoxes : row.upd >= jobs[u].rows[d].upd - SAFETY_LAG
      BY <1>2, <2>1, <2>2, <3>1
    <3> QED
      BY <1>2, <1>3, <2>1, <2>2, <3>2 DEF Late
  <2>3. CASE c # b
    <3>1. plan'[c] = plan[c]
      BY <1>2, <2>3
    <3>2. \/ Late(jobs[u], c)
          \/ jobs[u].rows[c] = IF Selected(jobs[u], c) THEN plan[c] ELSE NoPlanRow
      BY <2>1, <3>1 DEF ReadTrue
    <3> QED
      BY <3>1, <3>2 DEF Late, Selected
  <2> QED
    BY <2>2, <2>3
<1>5. TrueOrPending'
  BY <1>2, <1>3 DEF TrueOrPending, RowsOf
<1> QED
  BY <1>1, <1>4, <1>5

LEMMA TerminalStep ==
    ASSUME StowIInv, \/ \E b \in PlanBoxes : Revise(b) \/ Discharge(b) \/ Withdraw(b)
                     \/ \E v \in Voyages : Berth(v)
                     \/ StowClock
                     \/ UNCHANGED <<now, stowVars>>
    PROVE  StowIInv'
<1> USE StowAssumption DEF Change
<1>1. ASSUME NEW b \in PlanBoxes, Revise(b)
      PROVE  StowIInv'
  <2>1. PICK r \in 0..MaxRev, t \in Stamps(b) :
          plan' = [plan EXCEPT ![b] = [on |-> TRUE, done |-> FALSE, rev |-> r, upd |-> t]]
    BY <1>1 DEF Revise
  <2>2. now \in 1..PlanEnd /\ t \in 0..now /\ now - t <= MaxPlanDelay
    BY DEF Stamps, StowIInv, StowTypes
  <2>3. [on |-> TRUE, done |-> FALSE, rev |-> r, upd |-> t] \in PlanRows
    BY <2>2 DEF PlanRows, PlanRow
  <2>4. t <= now /\ t >= now - SAFETY_LAG
    BY <2>2
  <2> QED
    BY <1>1, <2>1, <2>3, <2>4, RowChanges DEF Revise
<1>2. ASSUME NEW b \in PlanBoxes, Discharge(b)
      PROVE  StowIInv'
  <2>1. PICK t \in Stamps(b) : plan' = [plan EXCEPT ![b].done = TRUE, ![b].upd = t]
    BY <1>2 DEF Discharge
  <2>2. now \in 1..PlanEnd /\ t \in 0..now /\ now - t <= MaxPlanDelay
    BY DEF Stamps, StowIInv, StowTypes
  <2> DEFINE row == [plan[b] EXCEPT !.done = TRUE, !.upd = t]
  <2>3. plan[b] \in PlanRow
    BY <1>2 DEF Discharge, StowIInv, StowTypes, PlanRows, NoPlanRow
  <2>4. row \in PlanRows /\ row.upd = t
    <3>1. t \in 0..PlanEnd
      BY <2>2
    <3>2. row \in PlanRow /\ row.upd = t
      BY <2>3, <3>1 DEF PlanRow
    <3> QED
      BY <3>2 DEF PlanRows
  <2>5. plan' = [plan EXCEPT ![b] = row]
    BY <2>1 DEF StowIInv, StowTypes
  <2>6. t <= now /\ t >= now - SAFETY_LAG
    BY <2>2
  <2> HIDE DEF row
  <2> QED
    BY <1>2, <2>4, <2>5, <2>6, RowChanges DEF Discharge
<1>3. ASSUME NEW b \in PlanBoxes, Withdraw(b)
      PROVE  StowIInv'
  <2>1. NoPlanRow \in PlanRows /\ ~NoPlanRow.on /\ NoPlanRow.upd = 0
    BY DEF PlanRows, NoPlanRow
  <2>2. 0 <= now
    BY DEF StowIInv, StowTypes
  <2> QED
    BY <1>3, <2>1, <2>2, RowChanges DEF Withdraw
<1>4. ASSUME NEW v \in Voyages, Berth(v)
      PROVE  StowIInv'
  BY <1>4 DEF Berth, StowIInv, StowTypes, OneMerger, ReadTrue, TrueOrPending, Late, Selected
<1>5. CASE StowClock
  <2> USE <1>5 DEF StowClock, Advance, stowVars, StowIInv
  <2>1. now' \in 1..PlanEnd /\ now <= now' /\ now \in Nat
    BY DEF StowTypes
  <2>2. StowTypes'
    <3>1. plan_wm' \in NoWm..(now' - SAFETY_LAG)
      BY <2>1 DEF StowTypes, NoWm
    <3>2. \A b \in PlanBoxes : plan[b].upd \in Nat
      BY RowFields DEF StowTypes
    <3>3. \A u \in Units : \A b \in PlanBoxes : jobs[u].rows[b].upd \in Nat
      <4>1. \A u \in Units : \A b \in PlanBoxes : jobs[u].rows[b] \in PlanRows
        BY DEF StowTypes, Runs
      <4> QED
        BY <4>1, RowFields
    <3> QED
      BY <2>1, <3>1, <3>2, <3>3 DEF StowTypes
  <2> QED
    BY <2>2 DEF OneMerger, ReadTrue, TrueOrPending, Late, Selected
<1>6. CASE UNCHANGED <<now, stowVars>>
  BY <1>6 DEF stowVars, StowIInv, StowTypes, OneMerger, ReadTrue, TrueOrPending, Late, Selected
<1> QED
  BY <1>1, <1>2, <1>3, <1>4, <1>5, <1>6

--------------------------------------------------------------------------------
\* A run that begins, or ends without writing.
LEMMA NoRun ==
    /\ NoJob \in Runs /\ NoJob.rows = [b \in PlanBoxes |-> NoPlanRow]
    /\ NoJob.pc = "idle" /\ NoJob.kind = "snapshot" /\ ~NoJob.stale
<1> USE StowAssumption
<1>1. NoWm \in NoWm..(PlanEnd - SAFETY_LAG)
  BY DEF NoWm
<1>2. [b \in PlanBoxes |-> NoPlanRow] \in [PlanBoxes -> PlanRows]
  BY DEF PlanRows
<1> QED
  BY <1>1, <1>2 DEF NoJob, Runs

LEMMA RunBegins ==
    ASSUME StowIInv, NEW u \in Units, NEW j,
           j \in Runs, j.pc # "read", j.rows = NoJob.rows, ~j.stale,
           u = "recon" => j.kind = "snapshot",
           j.kind = "delta" /\ j.pc # "idle" => j.wm = plan_wm,
           jobs' = [jobs EXCEPT ![u] = j],
           UNCHANGED <<now, plan, active, mirror, plan_wm, sure>>
    PROVE  StowIInv'
<1> USE StowAssumption DEF StowIInv
<1>1. NoJob.rows = [b \in PlanBoxes |-> NoPlanRow] /\ NoJob.rows \in [PlanBoxes -> PlanRows]
  BY DEF NoJob, PlanRows
<1>2. /\ jobs'[u] = j /\ \A w \in Units : w # u => jobs'[w] = jobs[w]
  BY DEF StowTypes
<1>3. StowTypes'
  <2>1. \A b \in PlanBoxes : j.rows[b].upd <= now
    <3>1. \A b \in PlanBoxes : j.rows[b].upd = 0
      BY <1>1 DEF NoPlanRow
    <3> QED
      BY <3>1 DEF StowTypes
  <2>2. jobs' \in [Units -> Runs]
    BY DEF StowTypes
  <2> QED
    BY <1>2, <2>1, <2>2 DEF StowTypes
<1>4. OneMerger'
  <2>1. ~jobs'["tick"].stale \/ jobs'["tick"] = jobs["tick"]
    BY <1>2 DEF Units
  <2> QED
    BY <1>2, <2>1 DEF OneMerger, Units
<1>5. ReadTrue'
  BY <1>2 DEF ReadTrue, Late, Selected
<1>6. TrueOrPending'
  BY DEF TrueOrPending
<1> QED
  BY <1>3, <1>4, <1>5, <1>6

LEMMA QuietRunStep ==
    ASSUME StowIInv, StowTick \/ StowRecon \/ \E u \in Units : RunDies(u)
    PROVE  StowIInv'
<1> USE StowAssumption
<1>0. NoWm \in NoWm..(PlanEnd - SAFETY_LAG) /\ plan_wm \in NoWm..(PlanEnd - SAFETY_LAG)
      /\ active_voyages \in SUBSET Voyages
  BY DEF StowIInv, StowTypes, NoWm, active_voyages
<1>1. ASSUME NEW u \in Units, NEW kind \in {"delta", "snapshot"}, u = "recon" => kind = "snapshot",
             tick_stowplan(u, kind)
      PROVE  StowIInv'
  <2> DEFINE j == [NoJob EXCEPT !.pc = "asked", !.kind = kind, !.used = active_voyages,
                                !.wm = IF kind = "delta" THEN plan_wm ELSE NoWm,
                                !.seed = IF kind = "delta" /\ plan_wm # NoWm
                                           THEN active_voyages \ Present ELSE {}]
  <2>1. jobs' = [jobs EXCEPT ![u] = j] /\ UNCHANGED <<now, plan, active, mirror, plan_wm, sure>>
    BY <1>1 DEF tick_stowplan
  <2>2. /\ j \in Runs /\ j.pc = "asked" /\ j.rows = NoJob.rows /\ ~j.stale
        /\ j.kind = kind /\ (kind = "delta" => j.wm = plan_wm)
    BY <1>0, NoRun DEF Runs
  <2> HIDE DEF j
  <2> QED
    BY <1>1, <2>1, <2>2, RunBegins
<1>2. ASSUME NEW u \in Units, RunDies(u)
      PROVE  StowIInv'
  BY <1>2, NoRun, RunBegins DEF RunDies
<1>3. CASE StowTick
  BY <1>1, <1>3 DEF StowTick, Units
<1>4. CASE StowRecon
  BY <1>1, <1>4 DEF StowRecon, Units
<1> QED
  BY <1>2, <1>3, <1>4

\* What has just been read is the plan.
LEMMA ReadStep ==
    ASSUME StowIInv, NEW u \in Units, ReadPlan(u)
    PROVE  StowIInv'
<1> USE StowAssumption DEF StowIInv
<1> DEFINE seen == [b \in PlanBoxes |-> IF Selected(jobs[u], b) THEN plan[b] ELSE NoPlanRow]
           j == [jobs[u] EXCEPT !.pc = "read", !.rows = seen]
<1>1. jobs' = [jobs EXCEPT ![u] = j] /\ UNCHANGED <<now, plan, active, mirror, plan_wm, sure>>
      /\ jobs[u].pc = "asked"
  BY DEF ReadPlan, StowTypes
<1>2. seen \in [PlanBoxes -> PlanRows] /\ \A b \in PlanBoxes : seen[b].upd <= now
  BY DEF StowTypes, NoPlanRow, PlanRows
<1> HIDE DEF seen
<1>3. /\ j \in Runs
      /\ j.pc = "read" /\ j.rows = seen /\ j.kind = jobs[u].kind /\ j.wm = jobs[u].wm
      /\ j.stale = jobs[u].stale /\ j.used = jobs[u].used /\ j.seed = jobs[u].seed
  BY <1>2 DEF StowTypes, Runs
<1> HIDE DEF j
<1>4. jobs'[u] = j /\ \A w \in Units : w # u => jobs'[w] = jobs[w]
  BY <1>1 DEF StowTypes
<1>5. StowTypes'
  <2>1. jobs' \in [Units -> Runs]
    BY <1>1, <1>3 DEF StowTypes
  <2> QED
    BY <1>1, <1>2, <1>3, <1>4, <2>1 DEF StowTypes
<1>6. OneMerger'
  BY <1>1, <1>3, <1>4 DEF OneMerger, Units
<1>7. ReadTrue'
  <2>1. ASSUME NEW b \in PlanBoxes
        PROVE  jobs'[u].rows[b] = IF Selected(jobs[u], b)' THEN plan'[b] ELSE NoPlanRow
    BY <1>1, <1>3, <1>4 DEF seen, Selected
  <2>2. SUFFICES ASSUME NEW w \in Units, w # u, jobs'[w].pc = "read", ~jobs'[w].stale,
                        NEW b \in PlanBoxes, plan'[b].on
                 PROVE  \/ Late(jobs[w], b)'
                        \/ jobs'[w].rows[b] = IF Selected(jobs[w], b)' THEN plan'[b] ELSE NoPlanRow
    BY <2>1 DEF ReadTrue
  <2> QED
    BY <1>1, <1>4, <2>2 DEF ReadTrue, Late, Selected
<1>8. TrueOrPending'
  BY <1>1 DEF TrueOrPending
<1> QED
  BY <1>5, <1>6, <1>7, <1>8

--------------------------------------------------------------------------------
\* A run that writes.  The merge leaves a box of a followed voyage as the plan has
\* it, unless the box has changed since the read: then its key is late enough.
LEMMA MergeStep ==
    ASSUME StowIInv, NEW u \in Units, src_stowplan_delta(u)
    PROVE  StowIInv'
<1> USE StowAssumption DEF StowIInv
<1> DEFINE j == jobs["tick"]
<1>1. /\ u = "tick" /\ j.pc = "read" /\ j.kind = "delta" /\ ~j.stale /\ j.wm = plan_wm
      /\ mirror' = [b \in PlanBoxes |-> Merged(j, b)]
      /\ plan_wm' = Advanced(plan_wm, j.rows)
      /\ sure' = Followed(j)
      /\ UNCHANGED <<now, plan, active>>
  BY DEF src_stowplan_delta, OneMerger, Units
<1>2. /\ jobs'["tick"] = NoJob
      /\ jobs'["recon"] = [jobs["recon"] EXCEPT !.stale = (jobs["recon"].pc = "read")]
      /\ jobs' = [v \in Units |-> IF v = "tick" THEN NoJob
                                  ELSE [jobs[v] EXCEPT !.stale = (jobs[v].pc = "read")]]
  BY <1>1 DEF src_stowplan_delta, Units
<1>3. j \in Runs /\ jobs["recon"] \in Runs
  BY DEF StowTypes, Units
<1>4. /\ jobs'["recon"] \in Runs /\ jobs'["recon"].kind = jobs["recon"].kind
      /\ jobs'["recon"].pc = jobs["recon"].pc /\ jobs'["recon"].rows = jobs["recon"].rows
      /\ jobs'["recon"].pc = "read" => jobs'["recon"].stale
  BY <1>2, <1>3 DEF Runs
<1>5. \A b \in PlanBoxes : /\ plan[b] \in PlanRows /\ j.rows[b] \in PlanRows
                          /\ plan[b].upd \in Nat /\ j.rows[b].upd \in Nat /\ j.rows[b].upd <= now
                          /\ j.rows[b].rev \in 0..MaxRev
  <2>1. \A b \in PlanBoxes : plan[b] \in PlanRows /\ j.rows[b] \in PlanRows
    BY <1>3 DEF StowTypes, Runs
  <2>2. \A b \in PlanBoxes : j.rows[b].upd <= now
    BY DEF StowTypes, Units
  <2> QED
    BY <2>1, <2>2, RowFields
<1>6. /\ plan_wm' >= plan_wm
      /\ \/ plan_wm' = plan_wm
         \/ \E c \in PlanBoxes : j.rows[c].on /\ plan_wm' = j.rows[c].upd - SAFETY_LAG
  BY <1>1, AdvancedMark
<1>7. now \in 1..PlanEnd /\ plan_wm \in NoWm..(now - SAFETY_LAG) /\ NoWm \in Int /\ NoWm < 0
  BY DEF StowTypes, NoWm
<1> HIDE DEF j
<1>8. StowTypes'
  <2>1. mirror' \in [PlanBoxes -> 0..MaxRev]
    <3>1. \A b \in PlanBoxes : mirror[b] \in 0..MaxRev
      BY DEF StowTypes
    <3>2. \A b \in PlanBoxes : Merged(j, b) \in 0..MaxRev
      BY <1>5, <3>1 DEF Merged
    <3> QED
      BY <1>1, <3>2
  <2>2. plan_wm' \in NoWm..(now' - SAFETY_LAG)
    BY <1>1, <1>5, <1>6, <1>7
  <2>3. jobs' \in [Units -> Runs]
    <3>1. jobs'["tick"] \in Runs
      BY <1>2, NoRun
    <3>2. jobs' = [v \in Units |-> jobs'[v]]
      BY <1>2
    <3> QED
      BY <1>4, <3>1, <3>2 DEF Units
  <2>4. \A w \in Units : \A b \in PlanBoxes : jobs'[w].rows[b].upd <= now'
    <3>1. \A b \in PlanBoxes : jobs'["tick"].rows[b].upd = 0
      BY <1>2, NoRun DEF NoPlanRow
    <3>2. \A b \in PlanBoxes : jobs["recon"].rows[b].upd <= now
      BY DEF StowTypes, Units
    <3> QED
      BY <1>1, <1>4, <1>7, <3>1, <3>2 DEF Units
  <2>5. sure' \in SUBSET Voyages
    BY <1>1, <1>3 DEF Followed, Runs
  <2> QED
    BY <1>1, <2>1, <2>2, <2>3, <2>4, <2>5 DEF StowTypes
<1>9. OneMerger' /\ ReadTrue'
  <2>1. jobs'["tick"].pc = "idle" /\ ~jobs'["tick"].stale
    BY <1>2, NoRun
  <2>2. jobs'["recon"].kind = "snapshot"
    BY <1>4 DEF OneMerger
  <2> QED
    BY <1>4, <2>1, <2>2 DEF OneMerger, ReadTrue, Units
<1>10. TrueOrPending'
  <2>1. SUFFICES ASSUME NEW v \in Followed(j), NEW b \in RowsOf(v), plan[b].on,
                        ~(plan[b].rev = 0 /\ ~plan[b].done)
                 PROVE  Merged(j, b) = Kept(plan[b]) \/ plan[b].upd >= plan_wm'
    BY <1>1 DEF TrueOrPending, RowsOf
  <2>2. b \in PlanBoxes /\ b[1] = v /\ v \in j.used
    BY DEF RowsOf, Followed
  <2>3. \/ Late(j, b)
        \/ j.rows[b] = IF Selected(j, b) THEN plan[b] ELSE NoPlanRow
    BY <1>1, <2>1, <2>2 DEF ReadTrue, Units, j
  <2>4. CASE Late(j, b)
    BY <1>5, <1>6, <1>7, <2>2, <2>4 DEF Late
  <2>5. CASE Selected(j, b) /\ j.rows[b] = plan[b]
    BY <2>1, <2>5 DEF Merged, Kept
  <2>6. CASE ~Selected(j, b) /\ j.rows[b] = NoPlanRow
    <3>1. ~(plan[b].upd >= j.wm) /\ (v \in j.seed => plan[b].done)
      BY <1>1, <2>1, <2>2, <2>6 DEF Selected
    <3>2. j.wm # NoWm
      BY <1>5, <1>7, <2>2, <3>1
    <3>3. Merged(j, b) = mirror[b]
      BY <2>6, <3>2 DEF Merged, NoPlanRow
    <3>4. CASE v \in sure
      BY <1>1, <2>1, <3>1, <3>3, <3>4 DEF TrueOrPending
    <3>5. CASE v \in j.seed /\ v \notin Present
      <4>1. mirror[b] = 0
        BY <2>2, <3>5, <1>3 DEF Present, Runs
      <4> QED
        BY <3>1, <3>3, <3>5, <4>1 DEF Kept
    <3> QED
      BY <3>2, <3>4, <3>5 DEF Followed
  <2> QED
    BY <2>3, <2>4, <2>5, <2>6
<1> QED
  BY <1>8, <1>9, <1>10

\* A replacement shows the plan it has read; one that was overtaken by a merge
\* vouches for no voyage.
LEMMA ReplaceStep ==
    ASSUME StowIInv, NEW u \in Units, src_stowplan_snapshot(u)
    PROVE  StowIInv'
<1> USE StowAssumption DEF StowIInv
<1> DEFINE j == jobs[u]
<1>1. /\ j.pc = "read" /\ j.kind = "snapshot"
      /\ mirror' = [b \in PlanBoxes |-> Kept(j.rows[b])]
      /\ sure' = IF j.stale THEN {} ELSE j.used
      /\ jobs' = [jobs EXCEPT ![u] = NoJob]
      /\ UNCHANGED <<now, plan, active, plan_wm>>
  BY DEF src_stowplan_snapshot, Replaced
<1>2. /\ jobs'[u] = NoJob /\ \A w \in Units : w # u => jobs'[w] = jobs[w]
      /\ jobs' \in [Units -> Runs]
  BY <1>1, NoRun DEF StowTypes
<1>3. j \in Runs
  BY DEF StowTypes
<1>4. ReadTrue => j.stale \/ \A b \in PlanBoxes :
                      \/ ~plan[b].on
                      \/ Late(j, b)
                      \/ j.rows[b] = IF Selected(j, b) THEN plan[b] ELSE NoPlanRow
  BY <1>1 DEF ReadTrue
<1> HIDE DEF j
<1>5. StowTypes'
  <2>1. \A b \in PlanBoxes : Kept(j.rows[b]) \in 0..MaxRev
    <3>1. \A b \in PlanBoxes : j.rows[b] \in PlanRows
      BY <1>3 DEF Runs
    <3>2. \A b \in PlanBoxes : j.rows[b].rev \in 0..MaxRev
      BY <3>1, RowFields
    <3> QED
      BY <3>2 DEF Kept
  <2>2. sure' \in SUBSET Voyages
    BY <1>1, <1>3 DEF Runs
  <2>3. \A w \in Units : \A b \in PlanBoxes : jobs'[w].rows[b].upd <= now'
    <3>1. \A b \in PlanBoxes : NoJob.rows[b].upd = 0
      BY NoRun DEF NoPlanRow
    <3>2. 0 <= now
      BY DEF StowTypes
    <3> QED
      BY <1>1, <1>2, <3>1, <3>2 DEF StowTypes
  <2> QED
    BY <1>1, <1>2, <2>1, <2>2, <2>3 DEF StowTypes
<1>6. OneMerger'
  BY <1>1, <1>2, NoRun DEF OneMerger, Units
<1>7. ReadTrue'
  BY <1>1, <1>2, NoRun DEF ReadTrue, Late, Selected
<1>8. TrueOrPending'
  <2>1. SUFFICES ASSUME ~j.stale, NEW v \in j.used, NEW b \in RowsOf(v), plan[b].on
                 PROVE  Kept(j.rows[b]) = Kept(plan[b]) \/ plan[b].upd >= plan_wm
    BY <1>1 DEF TrueOrPending, RowsOf
  <2>2. b \in PlanBoxes /\ b[1] = v
    BY DEF RowsOf
  <2>3. CASE Late(j, b)
    BY <2>3 DEF Late
  <2>4. CASE Selected(j, b) /\ j.rows[b] = plan[b]
    BY <2>4
  <2>5. CASE ~Selected(j, b) /\ j.rows[b] = NoPlanRow
    <3>1. plan[b].done
      BY <1>1, <2>1, <2>2, <2>5 DEF Selected
    <3> QED
      BY <2>5, <3>1 DEF Kept, NoPlanRow
  <2> QED
    BY <1>4, <2>1, <2>2, <2>3, <2>4, <2>5
<1> QED
  BY <1>5, <1>6, <1>7, <1>8

LEMMA StowStep ==
    ASSUME StowIInv, [StowNext]_<<now, stowVars>>
    PROVE  StowIInv'
BY TerminalStep, QuietRunStep, ReadStep, MergeStep, ReplaceStep DEF StowNext

\* The safety lag covers every overlap of the two units: the mirror shows the plan
\* of each followed voyage, but for boxes whose key the next merge reads.
THEOREM StowTrueOrPending == StowSpec => []StowInv
<1>1. ClockInit /\ StowInit => StowIInv
  BY StowStart
<1>2. StowIInv /\ [StowNext]_<<now, stowVars>> => StowIInv'
  BY StowStep
<1>3. StowIInv => StowInv
  <2>1. StowIInv => \A u \in Units : jobs[u].pc \in {"idle", "asked", "read"}
    BY DEF StowIInv, StowTypes, Runs
  <2>2. StowIInv => plan \in [PlanBoxes -> PlanRow \cup {NoPlanRow}]
    BY DEF StowIInv, StowTypes, PlanRows
  <2> QED
    BY <2>1, <2>2 DEF StowIInv, StowTypes, StowInv, StowTypeOK
<1> QED
  BY <1>1, <1>2, <1>3, PTL DEF StowSpec
=============================================================================
