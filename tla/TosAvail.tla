------------------------------ MODULE TosAvail ------------------------------
(***************************************************************************)
(* The timetable of TOS's list of dispatchable trucks                      *)
(* (crates/extractor/src/tos_avail.rs), from which the dispatcher learns   *)
(* since when a truck is available.                                        *)
(*                                                                         *)
(* A truck is on the list when it is logged in, no busy order names it and *)
(* it is not stopped.  It stays there for seconds, and the collector comes *)
(* once a minute.  So it reads, in one statement, the present state and    *)
(* the history of the committed changes, and replays the changes from the  *)
(* state it read the last time (the anchor): commit by commit, in the      *)
(* order of the commit numbers.  The interval table and the next anchor    *)
(* are written in the transaction that holds the advisory lock.            *)
(*                                                                         *)
(* A transaction of TOS is its net effect on the order rows and the time   *)
(* of its last statement, which can be well before its commit.  Programs,  *)
(* pools and the causes of transitions are left out.                       *)
(***************************************************************************)
EXTENDS Integers, Sequences, FiniteSetsExt, SequencesExt

CONSTANTS
    NTrucks, NKeys,  \* trucks; rows of JOB_ORDER_LIST
    Collectors,      \* runs of the collector, by the timer or by hand
    MaxTime,         \* bound on the clock, in minutes
    Overlap,         \* OVERLAP_S
    ClockMargin,     \* CLOCK_MARGIN_S
    MaxReplay,       \* MAX_REPLAY_S
    MaxHold,         \* bound on the time between a statement and its commit
    MaxCommits,      \* bound on transactions of TOS
    MaxOther         \* bound on logins, logouts, changes no history shows and
                     \* Oracle's clock being set back, together

ASSUME AvailAssumption ==
    /\ NTrucks \in Nat /\ NKeys \in Nat /\ MaxTime \in Nat
    /\ Overlap \in Nat /\ ClockMargin \in Nat /\ MaxReplay \in Nat /\ MaxHold \in Nat
    /\ MaxCommits \in Nat /\ MaxOther \in Nat

Trucks == 1 .. NTrucks
Keys   == 1 .. NKeys

\* A minute has 2 * Micros instants of the interval table.  The clock is set
\* back by half a minute, so that it never shows the same instant twice; that
\* is at most half of MaxReplay, beyond which Disjoint does not hold.
Micros == 10
Minute == 2
SetBack == 1
Ts(t)  == t * Micros

NoTruck == 0     \* the row is absent, without a truck, or complete
Open    == -1    \* exit_ts IS NULL
NoTime  == -1000
NoOne   == "nobody"                 \* nobody holds the lock
NoAnchor == [as_of |-> NoTime]

VARIABLES
    clock, behind,    \* Oracle's clock; how far it is behind the server's
    rows,             \* the truck of each busy row of JOB_ORDER_LIST
    on, stopped,      \* CDY_MACHINE, MCH_EQ_WORKSTOP
    last_on, last_off,
    hist,             \* JOB_ORDER_HISTORY, by transaction
    intervals,        \* tos_avail_interval
    anchor,           \* tos_avail_anchor
    checked,          \* max(as_of_ts) of tos_avail_check
    lock,             \* pg_advisory_xact_lock(LOCK_KEY)
    pc, prev, now, snap,
    \* bookkeeping of the properties and bounds
    flips,            \* how often each truck has entered or left the list
    logons, unrecorded

oracle == <<clock, behind, rows, on, stopped, last_on, last_off, hist>>
tables == <<intervals, anchor, checked>>
runs   == <<lock, pc, prev, now, snap>>
ghost  == <<flips, logons, unrecorded>>
vars   == <<oracle, tables, runs, ghost>>

\* getMoverList.
free_set(s) == {t \in s.on : t \notin s.stopped /\ \A k \in Keys : s.rows[k] # t}

Listed == free_set([rows |-> rows, on |-> on, stopped |-> stopped])

NoTimes == [t \in Trucks |-> NoTime]
Zeros   == [t \in Trucks |-> 0]

Init ==
    /\ clock = 0 /\ behind = 0
    /\ rows = [k \in Keys |-> NoTruck] /\ on \in SUBSET Trucks /\ stopped = {}
    /\ last_on = NoTimes /\ last_off = NoTimes /\ hist = {}
    /\ intervals = {} /\ anchor = NoAnchor /\ checked = NoTime
    /\ lock = NoOne /\ pc = [c \in Collectors |-> "idle"]
    /\ prev = [c \in Collectors |-> NoAnchor] /\ now = [c \in Collectors |-> 0]
    /\ snap = [c \in Collectors |-> NoAnchor]
    /\ flips = Zeros /\ logons = Zeros /\ unrecorded = Zeros

-----------------------------------------------------------------------------
(* TOS.                                                                    *)

Tick ==
    /\ clock + Minute <= MaxTime * Minute
    /\ clock' = clock + Minute
    /\ UNCHANGED <<behind, rows, on, stopped, last_on, last_off, hist, tables, runs, ghost>>

MayHappen == behind + FoldFunction(+, 0, logons) + FoldFunction(+, 0, unrecorded) < MaxOther

ClockBack ==
    /\ MayHappen /\ behind = 0
    /\ clock' = clock - SetBack /\ behind' = SetBack
    /\ UNCHANGED <<rows, on, stopped, last_on, last_off, hist, tables, runs, ghost>>

\* The trucks that are on the list now and were not before, or the reverse.
CountFlips ==
    flips' = [t \in Trucks |-> IF (t \in Listed) # (t \in Listed') THEN flips[t] + 1 ELSE flips[t]]

\* The times a change that becomes visible now can carry.
Stamps == {t \in {clock, clock - Minute} : clock - t <= MaxHold * Minute}

\* A transaction commits: its rows get its commit number.
CommitOrders ==
    /\ Cardinality(hist) < MaxCommits
    /\ \E K \in SUBSET Keys \ {{}} : \E to \in [K -> Trucks \cup {NoTruck}], ts \in Stamps :
        /\ \A k \in K : to[k] # rows[k]
        /\ rows' = [k \in Keys |-> IF k \in K THEN to[k] ELSE rows[k]]
        /\ hist' = hist \cup {[scn |-> Cardinality(hist) + 1, ts |-> ts, to |-> to]}
    /\ UNCHANGED <<clock, behind, on, stopped, last_on, last_off, tables, runs, logons, unrecorded>>
    /\ CountFlips

\* A truck logs in or out, and the time of it is kept: of logouts, the latest.
Logon ==
    /\ MayHappen
    /\ \E t \in Trucks, ts \in Stamps :
        /\ logons' = [logons EXCEPT ![t] = @ + 1]
        /\ \/ /\ t \in on /\ last_off[t] < ts
              /\ on' = on \ {t} /\ last_off' = [last_off EXCEPT ![t] = ts] /\ last_on' = last_on
           \/ /\ t \notin on /\ last_on[t] # ts
              /\ on' = on \cup {t} /\ last_on' = [last_on EXCEPT ![t] = ts] /\ last_off' = last_off
    /\ UNCHANGED <<clock, behind, rows, stopped, hist, tables, runs, unrecorded>>
    /\ CountFlips

\* A supervisor logs a truck out, or a stop begins or ends: no history says so.
Unrecorded ==
    /\ MayHappen
    /\ \E t \in Trucks :
        /\ unrecorded' = [unrecorded EXCEPT ![t] = @ + 1]
        /\ \/ t \in on /\ on' = on \ {t} /\ stopped' = stopped
           \/ stopped' = (IF t \in stopped THEN stopped \ {t} ELSE stopped \cup {t}) /\ on' = on
    /\ UNCHANGED <<clock, behind, rows, last_on, last_off, hist, tables, runs, logons>>
    /\ CountFlips

-----------------------------------------------------------------------------
(* The collector.                                                          *)

MutFreeForAll(c) == TRUE

CanLock(c) == lock = NoOne

\* The transaction begins, takes the lock and reads the anchor.
Begin(c) ==
    /\ pc[c] = "idle" /\ CanLock(c)
    /\ lock' = c
    /\ prev' = [prev EXCEPT ![c] = anchor]
    /\ now' = [now EXCEPT ![c] = clock + behind]
    /\ pc' = [pc EXCEPT ![c] = "locked"]
    /\ UNCHANGED <<oracle, tables, snap, ghost>>

\* An anchor that is too old is not replayed from.
Usable(c) == prev[c] # NoAnchor /\ now[c] - prev[c].as_of <= MaxReplay * Minute

hist_from(c) ==
    IF Usable(c) THEN prev[c].as_of - Overlap * Minute
                 ELSE now[c] - Overlap * Minute - ClockMargin

\* The one statement to Oracle, at another instant than the one before.
Fetch(c) ==
    /\ pc[c] = "locked" /\ clock # prev[c].as_of
    /\ snap' = [snap EXCEPT ![c] =
         [as_of |-> clock, rows |-> rows, on |-> on, stopped |-> stopped,
          last_on |-> last_on, last_off |-> last_off,
          changes |-> {h \in hist : h.ts >= hist_from(c)},
          behind |-> behind, flips |-> flips, logons |-> logons, unrecorded |-> unrecorded]]
    /\ pc' = [pc EXCEPT ![c] = "fetched"]
    /\ UNCHANGED <<oracle, tables, lock, prev, now, ghost>>

\* Oracle, the checks of parse_fetch, PostgreSQL or the process failed.
Fail(c) ==
    /\ pc[c] # "idle"
    /\ pc' = [pc EXCEPT ![c] = "idle"] /\ lock' = NoOne
    /\ prev' = [prev EXCEPT ![c] = NoAnchor] /\ snap' = [snap EXCEPT ![c] = NoAnchor]
    /\ now' = [now EXCEPT ![c] = 0]
    /\ UNCHANGED <<oracle, tables, ghost>>

Later(a, b) == IF a >= b THEN a ELSE b

\* exit_ts = GREATEST(enter_ts, ts)
Closed(i, ts) == [i EXCEPT !.exit = Later(i.enter, ts)]

\* write_transition for the trucks that enter and leave at one instant: a
\* truck with an open interval, or with one that began at this instant, is
\* skipped.
write_transition(ivs, enter, leave, ts) ==
    {IF i.exit = Open /\ i.truck \in leave THEN Closed(i, ts) ELSE i : i \in ivs}
    \cup {[truck |-> t, enter |-> ts, exit |-> Open] :
            t \in {t \in enter : \A i \in ivs : i.truck = t => i.exit # Open /\ i.enter # ts}}

\* step_ts: after the instant of the step before.
step_ts(want, last) == IF want > last THEN want ELSE last + 1

MutOverlapAgain(a, s) == s.changes

\* The changes that are not in the anchor yet.
NewChanges(a, s) == {h \in s.changes : h.scn > a.scn}

MutLogonsByTime(a, s) ==
    {[ts |-> s.last_off[t], truck |-> t, on |-> FALSE] :
        t \in {t \in Trucks : s.last_off[t] >= a.as_of /\ s.last_off[t] <= s.as_of}}
    \cup
    {[ts |-> s.last_on[t], truck |-> t, on |-> TRUE] :
        t \in {t \in Trucks : s.last_on[t] >= a.as_of /\ s.last_on[t] <= s.as_of}}

\* The logins and logouts whose time is not the one the anchor has seen.
NewLogons(a, s) ==
    {[ts |-> s.last_off[t], truck |-> t, on |-> FALSE] :
        t \in {t \in Trucks : s.last_off[t] \notin {NoTime, a.last_off[t]} /\ s.last_off[t] <= s.as_of}}
    \cup
    {[ts |-> s.last_on[t], truck |-> t, on |-> TRUE] :
        t \in {t \in Trucks : s.last_on[t] \notin {NoTime, a.last_on[t]} /\ s.last_on[t] <= s.as_of}}

\* The place of a step in the replay: commits by commit number, a logon before
\* the first commit that is later than it.
Place(C, e) ==
    IF "scn" \in DOMAIN e THEN 2 * e.scn
    ELSE 2 * Min({h.scn : h \in {h \in C : h.ts > e.ts}} \cup {MaxCommits + 1}) - 1

LogonBefore(e, f) ==
    \/ e.ts < f.ts
    \/ e.ts = f.ts /\ (e.truck < f.truck \/ (e.truck = f.truck /\ ~ e.on /\ f.on))

ReplayOrder(a, s) ==
    LET C == NewChanges(a, s)
        before(e, f) == \/ Place(C, e) < Place(C, f)
                        \/ Place(C, e) = Place(C, f) /\ LogonBefore(e, f)
    IN SetToSortSeq(C \cup NewLogons(a, s), before)

\* apply_txn, or the logon of apply_logon.
Applied(st, e) ==
    IF "scn" \in DOMAIN e
      THEN [st EXCEPT !.rows = [k \in Keys |-> IF k \in DOMAIN e.to THEN e.to[k] ELSE @[k]]]
      ELSE [st EXCEPT !.on = IF e.on THEN @ \cup {e.truck} ELSE @ \ {e.truck}]

\* The list has become `after`: diff_into and write_transition.
Moved(st, after, want) ==
    IF after = st.free THEN st
    ELSE LET ts == step_ts(want, st.last) IN
         [st EXCEPT !.ivs = write_transition(@, after \ st.free, st.free \ after, ts),
                    !.free = after, !.last = ts]

\* replay, without the comparison with the snapshot.
replay(a, s) ==
    FoldLeft(LAMBDA st, e : LET to == Applied(st, e) IN
                            Moved(to, free_set(to), Ts(Later(e.ts, a.as_of))),
             [rows |-> a.rows, on |-> a.on, stopped |-> a.stopped, free |-> free_set(a),
              ivs |-> intervals, last |-> Later(Ts(a.as_of), a.last_ts)],
             ReplayOrder(a, s))

MaxScn(C, least) == Max({h.scn : h \in C} \cup {least})

\* The next anchor: the snapshot itself.
AnchorOf(s, scn, last_ts) ==
    [as_of |-> s.as_of, rows |-> s.rows, on |-> s.on, stopped |-> s.stopped,
     last_on |-> s.last_on, last_off |-> s.last_off, scn |-> scn, last_ts |-> last_ts,
     behind |-> s.behind, flips |-> s.flips, logons |-> s.logons, unrecorded |-> s.unrecorded]

EndRun(c) ==
    /\ pc' = [pc EXCEPT ![c] = "idle"] /\ lock' = NoOne
    /\ prev' = [prev EXCEPT ![c] = NoAnchor] /\ snap' = [snap EXCEPT ![c] = NoAnchor]
    /\ now' = [now EXCEPT ![c] = 0]

WentBack(c) == prev[c] # NoAnchor /\ snap[c].as_of <= prev[c].as_of

MutCutOpen(i, ts) == i.exit = Open

Reaches(i, ts) == i.exit = Open \/ i.exit > ts

\* The snapshot is not later than the anchor: what reaches beyond it is cut
\* off, and the next run starts anew.
CommitBack(c) ==
    /\ pc[c] = "fetched" /\ WentBack(c)
    /\ LET ts == Ts(snap[c].as_of) IN
       intervals' = {IF Reaches(i, ts) THEN Closed(i, ts) ELSE i : i \in intervals}
    /\ anchor' = NoAnchor
    /\ checked' = Later(checked, snap[c].as_of)
    /\ EndRun(c)
    /\ UNCHANGED <<oracle, ghost>>

CommitReplay(c) ==
    /\ pc[c] = "fetched" /\ ~ WentBack(c) /\ Usable(c)
    /\ LET s == snap[c]
           r == replay(prev[c], s)
           e == Moved(r, free_set(s), Ts(s.as_of))   \* 'reconcile'
       IN /\ intervals' = e.ivs
          /\ anchor' = AnchorOf(s, MaxScn(s.changes, prev[c].scn), e.last)
          /\ checked' = Later(checked, s.as_of)
    /\ EndRun(c)
    /\ UNCHANGED <<oracle, ghost>>

\* The first run, or the first one after a gap: the open intervals end when
\* they were last known of.
CommitInit(c) ==
    /\ pc[c] = "fetched" /\ ~ WentBack(c) /\ ~ Usable(c)
    /\ LET s == snap[c]
           known == IF prev[c] # NoAnchor THEN Ts(prev[c].as_of) ELSE Ts(checked)
           closed == {IF i.exit = Open THEN Closed(i, known) ELSE i : i \in intervals}
       IN /\ intervals' = write_transition(closed, free_set(s), {}, Ts(s.as_of))
          /\ anchor' = AnchorOf(s, MaxScn(s.changes, 0), Ts(s.as_of))
          /\ checked' = Later(checked, s.as_of)
    /\ EndRun(c)
    /\ UNCHANGED <<oracle, ghost>>

Next ==
    \/ Tick \/ ClockBack \/ CommitOrders \/ Logon \/ Unrecorded
    \/ \E c \in Collectors :
        Begin(c) \/ Fetch(c) \/ Fail(c) \/ CommitBack(c) \/ CommitReplay(c) \/ CommitInit(c)

Spec == Init /\ [][Next]_vars

-----------------------------------------------------------------------------

\* Every variable has its type, and no interval ends before it begins.
TypeOK ==
    /\ clock \in -SetBack .. MaxTime * Minute /\ behind \in {0, SetBack}
    /\ rows \in [Keys -> Trucks \cup {NoTruck}] /\ on \subseteq Trucks /\ stopped \subseteq Trucks
    /\ Cardinality(hist) <= MaxCommits
    /\ lock \in Collectors \cup {NoOne} /\ pc \in [Collectors -> {"idle", "locked", "fetched"}]
    /\ \A i \in intervals : i.truck \in Trucks /\ (i.exit = Open \/ i.exit >= i.enter)

OpenTrucks == {i.truck : i \in {i \in intervals : i.exit = Open}}

\* The table agrees with the anchor: the trucks with an open interval are the
\* ones on the list of the last snapshot, whatever changed without a record,
\* whichever run failed, and after a gap (write_transition never finds an open
\* interval where it wants to open one, nor none to close: n_desync is 0).
OpenIsListed ==
    OpenTrucks = IF anchor = NoAnchor THEN {} ELSE free_set(anchor)

\* The table and the collector's state, after every step.
AvailInv == TypeOK /\ OpenIsListed

\* A truck is on the list at most once at any time: its intervals do not
\* overlap, also when Oracle's clock was set back (span, the partial unique
\* index; the comment on the UPDATE for a snapshot before the anchor).
Disjoint ==
    \A i, j \in intervals :
        (i # j /\ i.truck = j.truck) =>
            \E t \in {i, j} : \A o \in {i, j} \ {t} :
                \/ t.exit # Open /\ t.exit <= o.enter
                \/ t.exit = t.enter

\* The beginnings and ends in the timetable of truck t.
Ends(ivs, t) ==
    Cardinality({i \in ivs : i.truck = t}) + Cardinality({i \in ivs : i.truck = t /\ i.exit # Open})

\* Since the anchor, at most k logons and no unrecorded change of truck t, and
\* the clock was not set back.
Recorded(c, t, k) ==
    /\ snap[c].behind = prev[c].behind
    /\ snap[c].unrecorded[t] = prev[c].unrecorded[t]
    /\ snap[c].logons[t] - prev[c].logons[t] <= k

\* No visit is lost or invented: between two snapshots the timetable gets
\* exactly the entries and exits the truck has made, however short, and
\* none for the states inside a commit; a change committed late or read twice
\* counts once (replay in the order of commit numbers, anchor.scn, OVERLAP_S).
EveryVisit ==
    [][\A c \in Collectors : CommitReplay(c) =>
        \A t \in Trucks : Recorded(c, t, 0) =>
            Ends(intervals', t) - Ends(intervals, t) = snap[c].flips[t] - prev[c].flips[t]]_vars

\* The replay ends where TOS is, for every truck whose changes are recorded: a
\* logon the anchor has seen is not applied again, one that became visible
\* late is (replay_free against truth_free in tos_avail_check; is_new).
ReplayIsTrue ==
    [][\A c \in Collectors : CommitReplay(c) =>
        \A t \in Trucks : Recorded(c, t, 1) =>
            (t \in replay(prev[c], snap[c]).free <=> t \in free_set(snap[c]))]_vars
=============================================================================
