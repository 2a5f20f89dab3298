------------------------------ MODULE LiveFeed ------------------------------
(***************************************************************************)
(* The GPS feed and the position history (livemap.rs): spawn keeps a        *)
(* websocket to the position source and reconnects with a backoff; every    *)
(* message refreshes its device's fix; a pruner forgets devices silent for  *)
(* LOST_AFTER_S; three tasks copy the fixes to tables while the feed is up: *)
(*   spawn_pos_hist          every truck's fix, every 30 s                   *)
(*   spawn_pos_hist_hifreq   a truck's fix when it has moved, every 3 s      *)
(*   spawn_rtg_pos_hist      a yard crane's fix when it is new, every 3 s    *)
(* A device is silent while it stands still.  Of a table only the newest row *)
(* of each device is kept: run is the process that wrote it.                *)
(***************************************************************************)
EXTENDS Integers, FiniteSets, Clock

CONSTANTS
    TTs, RTGs,      \* the devices: trucks, yard cranes
    Places,         \* positions more than 5 m apart
    StaleAfter,     \* STALE_AFTER_S: 120 s
    LostAfter,      \* LOST_AFTER_S: 600 s
    CacheKeep,      \* 1 h a dedup entry is kept
    WriteMax,       \* POS_WRITE_MAX, RTG_WRITE_MAX
    BackoffMin, BackoffMax, \* 2 s, 30 s
    FeedEnd,        \* bound on the clock
    MaxRuns         \* bound on the processes

ASSUME FeedAssumption ==
    /\ {StaleAfter, LostAfter, CacheKeep, WriteMax, BackoffMin, BackoffMax, FeedEnd,
        MaxRuns} \subseteq Nat
    /\ TTs \cap RTGs = {}
    /\ StaleAfter < LostAfter /\ LostAfter < CacheKeep
    /\ 0 < BackoffMin /\ BackoffMin <= BackoffMax

VARIABLES
    connected,  \* LiveMap.connected
    backoff,    \* what the next sleep of spawn takes
    asleep,     \* what is left of the sleep
    devices,    \* LiveMap.devices: place and last_seen_ms (0: not in the map)
    last,       \* hifreq's cache: place and time of the last row (0: none)
    last_seen,  \* rtg_pos_hist's cache: last_seen_ms of the last row (0: none)
    hifreq,     \* newest row per truck of truck_pos_hifreq
    rtgpos,     \* newest row per crane of rtg_pos_hist
    poshist,    \* newest tick of truck_pos_hist: its time and its trucks
    done,       \* when each task ran last
    run         \* processes so far

linkVars == <<connected, backoff, asleep>>
histVars == <<last, last_seen, hifreq, rtgpos, poshist, done>>
feedVars == <<linkVars, devices, histVars, run>>

NoFix == [at |-> 0, place |-> CHOOSE p \in Places : TRUE]

FeedInit ==
    /\ connected = FALSE /\ backoff = BackoffMin /\ asleep = 0
    /\ devices = [d \in TTs \cup RTGs |-> NoFix]
    /\ last = [d \in TTs |-> NoFix]
    /\ last_seen = [d \in RTGs |-> 0]
    /\ hifreq = [d \in TTs |-> [at |-> 0, place |-> NoFix.place, run |-> 1]]
    /\ rtgpos = [d \in RTGs |-> [seen |-> 0, run |-> 1, ts |-> 0]]
    /\ poshist = [at |-> 0, trucks |-> {}]
    /\ done = [hif |-> 0, rtg |-> 0, pos |-> 0]
    /\ run = 1

(***************************************************************************)
(* spawn, serve_gps.                                                       *)
(***************************************************************************)
Connect ==
    /\ ~connected /\ asleep = 0
    /\ connected' = TRUE
    /\ UNCHANGED <<now, backoff, asleep, devices, histVars, run>>

\* After serve_gps returns: sleep for the backoff, then double it.
Sleep(b) == asleep' = b /\ backoff' = IF 2 * b < BackoffMax THEN 2 * b ELSE BackoffMax

\* No connection, no message for 60 s, or a broken one: an error.
LinkError ==
    /\ connected \/ asleep = 0
    /\ connected' = FALSE
    /\ Sleep(backoff)
    /\ UNCHANGED <<now, devices, histVars, run>>

\* The stream ends or the source closes it: the backoff starts again.
LinkClosed ==
    /\ connected
    /\ connected' = FALSE
    /\ Sleep(BackoffMin)
    /\ UNCHANGED <<now, devices, histVars, run>>

FeedTick ==
    /\ Advance(FeedEnd)
    /\ asleep' = IF asleep > 0 THEN asleep - 1 ELSE 0
    /\ UNCHANGED <<connected, backoff, devices, histVars, run>>

\* ingest_text, as far as the position goes.
Fix(d, place) ==
    /\ connected
    /\ devices' = [devices EXCEPT ![d] = [at |-> now, place |-> place]]
    /\ devices' # devices
    /\ UNCHANGED <<now, linkVars, histVars, run>>

\* spawn (pruner)
PruneDevices ==
    /\ devices' = [d \in DOMAIN devices |->
                      IF devices[d].at >= now - LostAfter THEN devices[d] ELSE NoFix]
    /\ devices' # devices
    /\ UNCHANGED <<now, linkVars, histVars, run>>

(***************************************************************************)
(* The three writers.  A tick with more rows than WriteMax writes nothing  *)
(* and remembers nothing.  Ticks of a task are apart in time, so the rows  *)
(* of two ticks never have the same key.                                   *)
(***************************************************************************)
Fresh(d) == devices[d].at > 0 /\ now - devices[d].at <= StaleAfter
FreshTTs == {d \in TTs : Fresh(d)}
Due(task) == connected /\ done[task] < now /\ done' = [done EXCEPT ![task] = now]

MutKeptLast == [d \in TTs |-> IF devices[d].at > 0 THEN last[d] ELSE NoFix]

\* last.retain
KeptLast == [d \in TTs |-> IF now - last[d].at < CacheKeep THEN last[d] ELSE NoFix]

Moved(d) == KeptLast[d].at = 0 \/ KeptLast[d].place # devices[d].place

HifreqTick ==
    LET rows == {d \in FreshTTs : Moved(d)}
        over == Cardinality(rows) > WriteMax
    IN  /\ Due("hif")
        /\ last' = [d \in TTs |-> IF d \in rows /\ ~over
                                  THEN [at |-> now, place |-> devices[d].place]
                                  ELSE KeptLast[d]]
        /\ hifreq' = [d \in TTs |-> IF d \in rows /\ ~over
                                    THEN [at |-> now, place |-> devices[d].place, run |-> run]
                                    ELSE hifreq[d]]
        /\ UNCHANGED <<now, linkVars, devices, last_seen, rtgpos, poshist, run>>

NewFix(d, kept) == kept[d] = 0 \/ devices[d].at > kept[d]

RtgTick ==
    LET kept == [d \in RTGs |-> IF now - last_seen[d] < CacheKeep THEN last_seen[d] ELSE 0]
        fixes == {d \in RTGs : Fresh(d) /\ NewFix(d, kept)}
        over == Cardinality(fixes) > WriteMax
    IN  /\ Due("rtg")
        /\ last_seen' = [d \in RTGs |-> IF d \in fixes /\ ~over THEN devices[d].at ELSE kept[d]]
        /\ rtgpos' = [d \in RTGs |-> IF d \in fixes /\ ~over
                                     THEN [seen |-> devices[d].at, run |-> run, ts |-> now]
                                     ELSE rtgpos[d]]
        /\ UNCHANGED <<now, linkVars, devices, last, hifreq, poshist, run>>

Capped(rows) == IF Cardinality(rows) > WriteMax THEN {} ELSE rows

PosHistTick ==
    LET rows == Capped(FreshTTs)
    IN  /\ Due("pos")
        /\ poshist' = IF rows = {} THEN poshist ELSE [at |-> now, trucks |-> rows]
        /\ UNCHANGED <<now, linkVars, devices, last, last_seen, hifreq, rtgpos, run>>

\* The process dies and starts again: memory is lost, the tables stay.
RestartFeed ==
    /\ run < MaxRuns
    /\ run' = run + 1
    /\ connected' = FALSE /\ backoff' = BackoffMin /\ asleep' = 0
    /\ devices' = [d \in TTs \cup RTGs |-> NoFix]
    /\ last' = [d \in TTs |-> NoFix]
    /\ last_seen' = [d \in RTGs |-> 0]
    /\ UNCHANGED <<now, hifreq, rtgpos, poshist, done>>

FeedNext ==
    \/ Connect \/ LinkError \/ LinkClosed \/ FeedTick
    \/ \E d \in TTs \cup RTGs, place \in Places : Fix(d, place)
    \/ PruneDevices
    \/ HifreqTick \/ RtgTick \/ PosHistTick
    \/ RestartFeed

FeedSpec == ClockInit /\ FeedInit /\ [][FeedNext]_<<now, feedVars>>

------------------------------------------------------------------------------
\* truck_pos_hifreq holds movement: a truck that stands still, falls silent, is
\* forgotten by the live map and comes back at the same place gets no second row
\* within the hour its last row is remembered (unless the process restarted).
HifreqMoves ==
    [][\A d \in TTs :
          /\ hifreq'[d] # hifreq[d] /\ hifreq[d].at > 0
          /\ hifreq'[d].run = hifreq[d].run
          /\ hifreq'[d].at - hifreq[d].at < CacheKeep
          => hifreq'[d].place # hifreq[d].place]_<<now, feedVars>>

\* rtg_pos_hist has one row per fix of a yard crane: a process never writes the
\* same fix twice, although it forgets its cache and the map forgets the crane.
FixOnce ==
    [][\A d \in RTGs :
          rtgpos'[d] # rtgpos[d] /\ rtgpos'[d].run = rtgpos[d].run
          => rtgpos'[d].seen > rtgpos[d].seen]_<<now, feedVars>>

\* A tick of truck_pos_hist is complete or absent: it has every fresh truck, the
\* cap skips it and never cuts it.
WholeTick ==
    [][poshist' # poshist => poshist'.trucks = FreshTTs]_<<now, feedVars>>

\* What the three history tables keep: movement, a fix once, a tick as a whole.
FixHistory == HifreqMoves /\ FixOnce /\ WholeTick
==============================================================================
