----------------------------- MODULE MoveStream -----------------------------
(***************************************************************************)
(* The incremental extraction of completed moves from Oracle               *)
(* (crates/extractor/src/qc_moves.rs, rtg_moves.rs, handover.rs).          *)
(*                                                                         *)
(* The dispatcher learns that a truck is free or loaded from these         *)
(* streams.  A poll reads the rows whose key (a completion time as text,   *)
(* so text order is time order) lies between the watermark, less a safety  *)
(* lag, and the present, at most FETCH_CAP of them in key order, and       *)
(* inserts them and the new watermark in one transaction.  A row may       *)
(* become visible after rows with later keys have been read.               *)
(*                                                                         *)
(* The three streams differ in the lag and in where the first poll begins. *)
(***************************************************************************)
EXTENDS Integers, FiniteSets

CONSTANTS
    MaxTime,    \* bound on the clock
    DayLen,     \* length of a day: etl_watermark has one row per day
    Lag,        \* the safety lag: 120 s, 0 for the handover labels
    FromToday,  \* where the first poll begins: with the day,
    Backfill,   \*   or this far back
    Cap,        \* FETCH_CAP
    MaxDelay,   \* how late a row becomes visible
    MaxSkew,    \* how far a key can be ahead of the clock
    MaxBurst,   \* bound on the rows of a window as long as the lag, and the
                \*   rows that cannot move the watermark
    MaxRows,    \* bound on the rows of the Oracle table
    MaxFaults,  \* bound on failed polls
    Planted     \* watermarks ahead of the clock that an earlier version may have left

NoKey == -1
Time  == 0 .. MaxTime
Day(t) == t \div DayLen
Days  == {Day(t) : t \in Time}
Keys  == 0 .. (MaxTime + MaxSkew)

ASSUME StreamAssumption ==
    /\ MaxTime \in Nat /\ DayLen \in Nat \ {0} /\ DayLen <= MaxTime
    /\ Lag \in Nat /\ FromToday \in BOOLEAN /\ Backfill \in Nat /\ Cap \in Nat \ {0}
    /\ MaxDelay \in Nat /\ MaxSkew \in Nat /\ MaxBurst \in Nat
    /\ MaxRows \in Nat /\ MaxFaults \in Nat
    /\ Planted \subseteq Keys

\* "odd": a key that is not 14 (17) digits; "broken": a field is missing or
\* does not parse.
Rows == [id : 1 .. MaxRows, key : Keys, kind : {"good", "odd", "broken"}]

VARIABLES
    clock,
    oracle,                 \* the visible rows of MCH_OPERATION / JOB_ORDER_HISTORY
    log,                    \* qc_move_log / rtg_move_log / tos_handover_label
    wm,                     \* etl_watermark of the stream, per snapshot_date
    pc, until, run_day, seek_from, batch,
    since,                  \* where the stream began, once it has a watermark
    faults

poll == <<until, run_day, seek_from>>
vars == <<clock, oracle, log, wm, pc, poll, batch, since, faults>>

TypeOK ==
    /\ clock \in Time /\ oracle \subseteq Rows /\ log \subseteq oracle
    /\ wm \in [Days -> Keys \cup {NoKey}]
    /\ pc \in {"idle", "seek", "fetched"}
    /\ until \in Time /\ run_day \in Days /\ seek_from \in Int /\ batch \subseteq oracle
    /\ since \in Int /\ faults \in 0 .. MaxFaults

\* The second day of the stream, or its first day; a planted watermark is in
\* today's row.
Init ==
    /\ clock = DayLen
    /\ oracle = {} /\ log = {}
    /\ \E first \in {NoKey, DayLen - 1}, p \in IF Planted = {} THEN {NoKey} ELSE Planted :
        /\ wm = [d \in Days |-> IF d = 0 THEN first ELSE IF d = 1 THEN p ELSE NoKey]
        /\ since = first
        /\ p # NoKey => first # NoKey
    /\ pc = "idle" /\ until = 0 /\ run_day = 0 /\ seek_from = 0 /\ batch = {}
    /\ faults = 0

-----------------------------------------------------------------------------

Tick ==
    /\ clock < MaxTime
    /\ clock' = clock + 1
    /\ UNCHANGED <<oracle, log, wm, pc, poll, batch, since, faults>>

\* The rows around key k that every poll near k fetches.
Around(rows, k) == {r \in rows : r.kind # "good" \/ (r.key <= k /\ r.key + Lag >= k)}

\* TOS commits a row for a move that was completed at most MaxDelay ago.
Complete ==
    /\ Cardinality(oracle) < MaxRows
    /\ \E k \in Keys, kind \in {"good", "odd", "broken"} :
        /\ k + MaxDelay >= clock /\ k <= clock + MaxSkew
        /\ oracle' = oracle \cup {[id |-> Cardinality(oracle) + 1, key |-> k, kind |-> kind]}
    /\ \A k \in Keys : Cardinality(Around(oracle', k)) <= MaxBurst
    /\ UNCHANGED <<clock, log, wm, pc, poll, batch, since, faults>>

\* The days whose watermark a poll at `now` looks at: none that is ahead of it.
Sane(now) == {d \in Days : wm[d] # NoKey /\ wm[d] <= now}

MutNoLag(w) == w

Seek(w) == w - Lag

\* The head of tick_qc_moves: the upper edge, the watermark, the lag.
Start ==
    /\ pc = "idle"
    /\ until' = clock /\ run_day' = Day(clock)
    /\ IF Sane(clock) = {}
         THEN seek_from' = IF FromToday THEN Seek(Day(clock) * DayLen) ELSE clock - Backfill
         ELSE \E d \in Sane(clock) :
                /\ \A e \in Sane(clock) : wm[e] <= wm[d]
                /\ seek_from' = Seek(wm[d])
    /\ pc' = "seek"
    /\ UNCHANGED <<clock, oracle, log, wm, batch, since, faults>>

MutNoUntil(r) == r.key >= seek_from

InWindow(r) == r.key >= seek_from /\ r.key <= until

\* ORDER BY key FETCH FIRST Cap ROWS ONLY; the order of equal keys is open.
FirstRows(B, W) ==
    /\ B \subseteq W
    /\ Cardinality(B) <= Cap
    /\ B # W => Cardinality(B) = Cap
    /\ \A b \in B, w \in W \ B : b.key <= w.key

\* The Oracle read.
Fetch ==
    /\ pc = "seek"
    /\ \E B \in SUBSET oracle : FirstRows(B, {r \in oracle : InWindow(r)}) /\ batch' = B
    /\ pc' = "fetched"
    /\ UNCHANGED <<clock, oracle, log, wm, poll, since, faults>>

Parsed(rows) == {r \in rows : r.kind # "broken"}

MutAdvances(rows) == {r \in rows : r.kind = "odd"}

\* The rows whose key is well-formed.
Advances(rows) == {r \in rows : r.kind = "good"}

Greatest(a, b) == IF a >= b THEN a ELSE b

\* The transaction: the rows (ON CONFLICT DO NOTHING) and, when a well-formed
\* key was seen, the watermark of the day on which the poll began.
Commit ==
    /\ pc = "fetched"
    /\ log' = log \cup Parsed(batch)
    /\ IF Advances(batch) = {}
         THEN wm' = wm /\ since' = since
         ELSE \E m \in Advances(batch) :
                /\ \A r \in Advances(batch) : r.key <= m.key
                /\ wm' = [wm EXCEPT ![run_day] = Greatest(@, m.key)]
                /\ since' = IF since = NoKey THEN Greatest(seek_from, 0) ELSE since
    /\ pc' = "idle" /\ batch' = {}
    /\ UNCHANGED <<clock, oracle, poll, faults>>

\* Oracle, PostgreSQL or the process failed: nothing was written.
Fail ==
    /\ pc # "idle"
    /\ faults < MaxFaults /\ faults' = faults + 1
    /\ pc' = "idle" /\ batch' = {}
    /\ UNCHANGED <<clock, oracle, log, wm, poll, since>>

Next == Tick \/ Complete \/ Start \/ Fetch \/ Commit \/ Fail

\* The timer starts a poll again and again, and time passes.
Fairness == WF_vars(Start) /\ WF_vars(Fetch) /\ WF_vars(Commit) /\ WF_vars(Tick)

Spec == Init /\ [][Next]_vars /\ Fairness

-----------------------------------------------------------------------------

\* No row is skipped: a row that is not in the log yet lies inside the window
\* of the next poll, however late it became visible and whatever the cap cut
\* off (the safety lag, ORDER BY with FETCH FIRST, the watermark of the batch).
NoSkip ==
    (since # NoKey) =>
        \A r \in oracle \ log : \A d \in Sane(clock) :
            (r.kind # "broken" /\ r.key >= since) => r.key >= Seek(wm[d])

\* The watermark never gets ahead of the clock, even when TOS writes a key
\* that is (the upper edge `until` of the window).
NotAhead == \A d \in Days : wm[d] <= clock

\* Every row is logged in the end, also after an outage longer than one
\* batch and after a key ahead of the clock.
EventuallyLogged ==
    \A id \in 1 .. MaxRows :
        (\E r \in oracle : /\ r.id = id /\ r.kind # "broken"
                          /\ since # NoKey /\ r.key >= since /\ r.key <= MaxTime)
            ~> (\E r \in log : r.id = id)
=============================================================================
