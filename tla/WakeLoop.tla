------------------------------ MODULE WakeLoop ------------------------------
(***************************************************************************)
(* How the Stage-2 loop decides when to run                                *)
(* (crates/api/src/livemap.rs: wait_for_workpool_landing, should_wake,     *)
(* free_advanced, combine_wake, advance_free_seen, workpool_stale_reason   *)
(* and the head of spawn_stage2_shadow).                                   *)
(*                                                                         *)
(* Between two ticks the loop polls PostgreSQL.  It wakes when a new work  *)
(* list has landed, when one of two sources has landed a new "truck is     *)
(* free" record, or when it has waited long enough.  Two paths go back to  *)
(* polling without any sleep, so a wake that does not consume its cause    *)
(* would make the loop run hot.                                            *)
(*                                                                         *)
(* Timestamps of one source are written by one process, one after another, *)
(* so the n-th landing stands for its timestamp and None = 0 is below all. *)
(* One unit of time is one poll interval, WAKE_POLL_MS.                    *)
(***************************************************************************)
EXTENDS Integers, FiniteSetsExt

CONSTANTS
    MaxWait,      \* WAKE_MAX_WAIT_MS
    MaxAge,       \* WORKPOOL_MAX_AGE_S
    MaxBody,      \* bound on the duration of a tick
    MaxLists,     \* bound on the landings of the work list,
    MaxFrees,     \*   on those of the free records, of both sources together
    WakeOnFree    \* MATCH_WAKE_ON_FREE

ASSUME WakeAssumption ==
    /\ MaxWait \in Nat \ {0} /\ MaxAge \in Nat /\ MaxBody \in Nat
    /\ MaxLists \in Nat \ {0} /\ MaxFrees \in Nat
    /\ WakeOnFree \in BOOLEAN

None == 0
Sources == {"LD", "DS"}   \* qc_move_log, tos_handover_label

VARIABLES
    wp, wp_age,           \* data_freshness: last successful landing, time since it
    free_n, free_rows,    \* last free landing; those still inside the 30 min window
    connected,            \* the GPS feed
    seen, free_seen,      \* baselines of the loop
    waited,               \* start.elapsed()
    pc, fresh, body,
    idle_wakes,           \* wakes since anything landed or time passed
    runs,                 \* ticks started since the list landed
    calm                  \* no poll has failed, the GPS feed has not changed

env  == <<wp, wp_age, free_n, free_rows, connected>>
vars == <<env, seen, free_seen, waited, pc, fresh, body, idle_wakes, runs, calm>>

UpTo(n, max) == IF n > max THEN max ELSE n

TypeOK ==
    /\ wp \in 0 .. MaxLists /\ wp_age \in 0 .. MaxAge + 1
    /\ free_n \in [Sources -> 0 .. MaxFrees]
    /\ free_rows \in [Sources -> SUBSET (1 .. MaxFrees)]
    /\ connected \in BOOLEAN /\ fresh \in BOOLEAN
    /\ seen \in 0 .. MaxLists /\ free_seen \in [Sources -> 0 .. MaxFrees]
    /\ waited \in 0 .. MaxWait /\ body \in 0 .. MaxBody
    /\ pc \in {"poll", "sleep", "gate", "body"}
    /\ idle_wakes \in 0 .. 3 /\ runs \in 0 .. 2 /\ calm \in BOOLEAN

\* The process starts at any time in the life of the database.
Init ==
    /\ wp \in {None, 1} /\ wp_age \in 0 .. MaxAge + 1
    /\ free_n = [s \in Sources |-> None] /\ free_rows = [s \in Sources |-> {}]
    /\ connected = TRUE
    /\ seen = None /\ free_seen = [s \in Sources |-> None]
    /\ waited = 0 /\ pc = "poll" /\ fresh = FALSE /\ body = 0
    /\ idle_wakes = 0 /\ runs = 2 /\ calm = TRUE

-----------------------------------------------------------------------------

\* finish_run of the work list extraction.
LandWorkpool ==
    /\ wp < MaxLists
    /\ wp' = wp + 1 /\ wp_age' = 0
    /\ idle_wakes' = 0 /\ runs' = 0
    /\ UNCHANGED <<free_n, free_rows, connected, seen, free_seen, waited, pc, fresh, body,
                   calm>>

LandFree(s) ==
    /\ free_n["LD"] + free_n["DS"] < MaxFrees
    /\ free_n' = [free_n EXCEPT ![s] = @ + 1]
    /\ free_rows' = [free_rows EXCEPT ![s] = @ \cup {free_n'[s]}]
    /\ idle_wakes' = 0
    /\ UNCHANGED <<wp, wp_age, connected, seen, free_seen, waited, pc, fresh, body,
                   runs, calm>>

\* A record leaves the window by its own time, not by when it was captured:
\* any of them may be the next, and the maximum can go back.
AgeOut(s) ==
    /\ \E n \in free_rows[s] : free_rows' = [free_rows EXCEPT ![s] = @ \ {n}]
    /\ UNCHANGED <<wp, wp_age, free_n, connected, seen, free_seen, waited, pc, fresh,
                   body, idle_wakes, runs, calm>>

GpsFeed ==
    /\ connected' = ~ connected /\ calm' = FALSE
    /\ UNCHANGED <<wp, wp_age, free_n, free_rows, seen, free_seen, waited, pc, fresh,
                   body, idle_wakes, runs>>

\* Time passes while the loop sleeps or a tick runs; a poll takes none.
Pass ==
    /\ pc = "sleep" \/ (pc = "body" /\ body < MaxBody)
    /\ wp_age' = UpTo(wp_age + 1, MaxAge + 1)
    /\ waited' = IF pc = "sleep" THEN UpTo(waited + 1, MaxWait) ELSE waited
    /\ body' = IF pc = "body" THEN body + 1 ELSE body
    /\ pc' = IF pc = "sleep" THEN "poll" ELSE pc
    /\ idle_wakes' = 0
    /\ UNCHANGED <<wp, free_n, free_rows, connected, seen, free_seen, fresh, runs, calm>>

-----------------------------------------------------------------------------

MutWakeOnNothing(old, landed, time) ==
    CASE old = None                      -> "startup"
      [] old # None /\ landed > old      -> "landing"
      [] OTHER -> IF time >= MaxWait THEN "fallback" ELSE "keep_waiting"

MutNoFallback(old, landed, time) ==
    CASE old = None /\ landed # None     -> "startup"
      [] old # None /\ landed > old      -> "landing"
      [] OTHER -> "keep_waiting"

should_wake(old, landed, time) ==
    CASE old = None /\ landed # None     -> "startup"
      [] old # None /\ landed > old      -> "landing"
      [] OTHER -> IF time >= MaxWait THEN "fallback" ELSE "keep_waiting"

\* A source without a baseline does not wake.
free_advanced(old, landed) == old # None /\ landed > old

MutSwallow(step, free_new) == IF free_new THEN "free" ELSE "keep_waiting"

combine_wake(step, free_new) ==
    IF step \notin {"startup", "landing"} /\ free_new THEN "free" ELSE step

MutEraseUnseen(landed, woke) == [s \in Sources |-> IF woke THEN landed[s] ELSE free_seen[s]]

advance_free_seen(landed, woke) ==
    [s \in Sources |-> IF landed[s] # None /\ (woke \/ free_seen[s] = None)
                         THEN landed[s] ELSE free_seen[s]]

\* max(captured_at) of the records in the window.
Newest(rows) == IF rows = {} THEN None ELSE Max(rows)

\* One turn of wait_for_workpool_landing: SQL_WORKPOOL_FRESHNESS is read (ok)
\* or fails, in which case nothing is known.
Poll(ok) ==
    /\ pc = "poll"
    /\ LET landed      == IF ok THEN wp ELSE None
           free_landed == [s \in Sources |-> IF ok THEN Newest(free_rows[s]) ELSE None]
           free_new    == /\ WakeOnFree
                          /\ \E s \in Sources : free_advanced(free_seen[s], free_landed[s])
           step == combine_wake(should_wake(seen, landed, waited), free_new)
           woke == step # "keep_waiting"
       IN /\ seen' = IF woke /\ landed # None THEN landed ELSE seen
          /\ free_seen' = advance_free_seen(free_landed, woke)
          /\ fresh' = (woke /\ landed # None /\ wp_age <= MaxAge)
          /\ pc' = IF woke THEN "gate" ELSE "sleep"
          /\ idle_wakes' = IF woke THEN UpTo(idle_wakes + 1, 3) ELSE idle_wakes
          /\ calm' = (calm /\ ok)
    /\ UNCHANGED <<env, waited, body, runs>>

PollOk   == Poll(TRUE)
PollFails == Poll(FALSE)

\* The head of the loop body: without a GPS feed or with a stale list
\* (workpool_stale_reason) it goes straight back to waiting.
Gate ==
    /\ pc = "gate"
    /\ pc' = IF connected /\ fresh THEN "body" ELSE "poll"
    /\ runs' = IF pc' = "body" THEN UpTo(runs + 1, 2) ELSE runs
    /\ waited' = 0 /\ body' = 0
    /\ UNCHANGED <<env, seen, free_seen, fresh, idle_wakes, calm>>

EndBody ==
    /\ pc = "body"
    /\ pc' = "poll" /\ waited' = 0 /\ fresh' = FALSE
    /\ UNCHANGED <<env, seen, free_seen, body, idle_wakes, runs, calm>>

Next == \/ LandWorkpool \/ GpsFeed \/ Pass \/ PollOk \/ PollFails \/ Gate \/ EndBody
        \/ \E s \in Sources : LandFree(s) \/ AgeOut(s)

\* The loop keeps running, time passes, and a database that is asked again
\* and again answers again and again.
Fairness == /\ WF_vars(PollOk \/ PollFails) /\ SF_vars(PollOk)
            /\ WF_vars(Gate) /\ WF_vars(EndBody) /\ WF_vars(Pass)

Spec == Init /\ [][Next]_vars /\ Fairness

-----------------------------------------------------------------------------

\* The loop never runs hot: until something lands or time passes it wakes at
\* most once, or twice when a wake had no answer from the database (the two
\* `continue`s of the loop without a sleep; the comment on should_wake).
NoSpin == idle_wakes <= (IF calm THEN 1 ELSE 2)

\* Every variable has its type, and the loop does not run hot.
WakeInv == TypeOK /\ NoSpin

\* When the extraction dies and nothing else fails, the list is used by a second tick before the
\* freshness gate closes (WAKE_MAX_WAIT_MS against WORKPOOL_MAX_AGE_S).
HeartbeatBeforeGate == (calm /\ wp_age > MaxAge) => runs = 2

\* Every landed list is noticed, whatever the reasons of the wakes in between.
ListIsSeen == \A n \in 1 .. MaxLists : (wp = n) ~> (seen >= n)

\* A free record of a source that has a baseline wakes the loop, unless it
\* leaves the window first; a silent source does not lose its baseline
\* (advance_free_seen: a None erases nothing).
FreeIsSeen ==
    \A s \in Sources : \A n \in 1 .. MaxFrees :
        (free_seen[s] # None /\ n \in free_rows[s]) ~> (free_seen[s] >= n \/ n \notin free_rows[s])
=============================================================================
