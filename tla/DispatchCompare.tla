--------------------------- MODULE DispatchCompare ---------------------------
(***************************************************************************)
(* The comparison of our choices with the terminal's (livemap.rs,           *)
(* spawn_dispatch_compare), for one work and the truck the terminal gives   *)
(* it.  Every minute a tick reads the position snapshots, then the          *)
(* recommendations of the dispatcher, then the assignments it has not       *)
(* compared yet, and reconstructs the moment T1 of the assignment: which    *)
(* free truck was nearest, and which recommendation stood on the board.     *)
(* Meanwhile snapshots and recommendations are written, and the terminal    *)
(* assigns trucks and touches its rows.                                     *)
(***************************************************************************)
EXTENDS Integers, FiniteSets, Clock

CONSTANTS
    Fleets,         \* snapshots: per truck its distance to the work and whether it is free
    CmpTrucks,      \* the trucks of a snapshot (distance Nowhere: not in it)
    TosTruck,       \* the truck the terminal assigns
    Nowhere,
    RecoStanding,   \* RECO_STANDING_S: 150 s
    RecoWindow,     \* 15 min of recommendations are read
    RecoMargin,     \* 5 s
    HistWindow,     \* 60 min of snapshots are read
    SnapSkew,       \* T1_SNAP_MAX_SKEW_S: 180 s
    LatestAge,      \* LATEST_POS_MAX_AGE_S: 360 s
    RecoLag,        \* how late a recommendation is committed after its ts
    CompareEnd,     \* bound on the clock
    MaxRecos, MaxHist, MaxUpdates \* bounds on recommendations, snapshots, versions of the row

ASSUME CompareAssumption ==
    /\ {Nowhere, RecoStanding, RecoWindow, RecoMargin, HistWindow, SnapSkew, LatestAge, RecoLag,
        CompareEnd, MaxRecos, MaxHist, MaxUpdates} \subseteq Nat
    /\ RecoMargin > 0 /\ RecoStanding < RecoWindow /\ TosTruck \in CmpTrucks
    /\ Fleets \subseteq [CmpTrucks -> [d : 0..Nowhere, free : BOOLEAN]]

VARIABLES
    hist,       \* truck_pos_hist, by snapshot
    recos,      \* stage2_match_shadow: box: for this container, else for its queue
    job,        \* the row of live_workpool: T1, whether yt_dis_ts gave it, upd_ts (0: none)
    updates,    \* versions of the row so far
    cstep,      \* what the tick has read: "rest", "hist", "recos"
    snaps_in, latest_cut, \* the snapshots read, and how old a latest position may be
    reco_rows, reco_fetch_at, \* the recommendations read, and when
    compared    \* dispatch_compare_shadow

readVars == <<cstep, snaps_in, latest_cut, reco_rows, reco_fetch_at>>
compareVars == <<hist, recos, job, updates, readVars, compared>>

CompareInit ==
    /\ hist = {} /\ recos = {} /\ job = [t1 |-> 0, dis |-> FALSE, upd |-> 0] /\ updates = 0
    /\ cstep = "rest" /\ snaps_in = {} /\ latest_cut = 0 /\ reco_rows = {} /\ reco_fetch_at = 0
    /\ compared = {}

Newest(set) == {x \in set : \A y \in set : y.ts <= x.ts}

(***************************************************************************)
(* The writers: spawn_pos_hist, the dispatcher, and the terminal, whose    *)
(* assignments are seen late and whose touches move upd_ts only.           *)
(***************************************************************************)
TakeSnapshot(fleet) ==
    /\ Cardinality(hist) < MaxHist /\ \A s \in hist : s.ts < now
    /\ hist' = hist \cup {[ts |-> now, fleet |-> fleet]}
    /\ UNCHANGED <<now, recos, job, updates, readVars, compared>>

Recommend(ts, box, yt) ==
    /\ Cardinality(recos) < MaxRecos
    /\ ts <= now /\ now <= ts + RecoLag
    /\ \A r \in recos : r.ts < ts
    /\ recos' = recos \cup {[ts |-> ts, landed |-> now, box |-> box, yt |-> yt]}
    /\ UNCHANGED <<now, hist, job, updates, readVars, compared>>

\* An assignment of time t1, or a touch of the one there is: without yt_dis_ts the
\* touch moves T1 as well.
AssignTruck(t1, dis) ==
    /\ updates < MaxUpdates /\ updates' = updates + 1
    /\ job.upd < now /\ t1 <= now
    /\ t1 \in IF dis THEN 1..now ELSE {now}
    /\ job' = [t1 |-> t1, dis |-> dis, upd |-> now]
    /\ UNCHANGED <<now, hist, recos, readVars, compared>>

(***************************************************************************)
(* The tick.                                                               *)
(***************************************************************************)
ReadSnapshots ==
    /\ cstep = "rest" /\ cstep' = "hist"
    /\ snaps_in' = {s \in hist : s.ts > now - HistWindow}
    /\ latest_cut' = now - LatestAge
    /\ UNCHANGED <<now, hist, recos, job, updates, reco_rows, reco_fetch_at, compared>>

ReadRecos ==
    /\ cstep = "hist" /\ cstep' = "recos"
    /\ reco_fetch_at' = now
    /\ reco_rows' = {r \in recos : r.ts > now - RecoWindow}
    /\ UNCHANGED <<now, hist, recos, job, updates, snaps_in, latest_cut, compared>>

\* The newest snapshot at most T1_SNAP_MAX_SKEW_S before T1, if any.
AtT1(t1) == Newest({s \in snaps_in : s.ts <= t1 /\ t1 - s.ts <= SnapSkew})
Holds(s, yt) == s.fleet[yt].d # Nowhere
Latest(yt) == Newest({s \in snaps_in : s.ts >= latest_cut /\ Holds(s, yt)})

\* Where a truck was: in the snapshot of T1, else in its latest one.
Where(yt, t1) ==
    LET at == {s \in AtT1(t1) : Holds(s, yt)} IN IF at # {} THEN at ELSE Latest(yt)
Arrival(yt, snaps) == IF snaps = {} THEN Nowhere ELSE (CHOOSE s \in snaps : TRUE).fleet[yt].d

\* "standing": the newest recommendation of at most RECO_STANDING_S before T1.
Standing(rows, t1) == Newest({r \in rows : r.ts <= t1 /\ t1 - r.ts <= RecoStanding})

MutEvaluable(t1) == t1 <= reco_fetch_at

\* reco_evaluable: the rows that were read cover all that could have stood at T1.
Evaluable(t1) ==
    t1 - RecoStanding >= reco_fetch_at - RecoWindow + RecoMargin /\ t1 <= reco_fetch_at

\* The recommendation for the container first, then the one for its queue.
Reco(t1) ==
    LET box == Standing({r \in reco_rows : r.box}, t1)
        queue == Standing(reco_rows, t1)
    IN  IF ~Evaluable(t1) THEN [src |-> "null", rows |-> {}]
        ELSE IF box # {} THEN [src |-> "cont", rows |-> box]
        ELSE IF queue # {} THEN [src |-> "queue", rows |-> queue]
        ELSE [src |-> "none", rows |-> {}]

Reason(precise, our, ours, toss) ==
    IF ~precise THEN "now"
    ELSE IF our = TosTruck THEN "same"
    ELSE IF ours < toss THEN "ours_closer" ELSE "tos_closer"

\* One row per version of the assignment; a work whose place is not known, or a
\* moment without a free truck, is tried again by the next tick.
Compare(our) ==
    LET t1 == job.t1
        precise == \E s \in AtT1(t1) : Holds(s, TosTruck)
        of(yt) == IF precise THEN {s \in AtT1(t1) : Holds(s, yt)} ELSE Latest(yt)
        free == {yt \in CmpTrucks : \E s \in of(yt) : s.fleet[yt].free}
        ours == Arrival(our, of(our))
        toss == Arrival(TosTruck, Where(TosTruck, t1))
        reco == Reco(t1)
    IN  /\ cstep = "recos" /\ t1 > 0
        /\ \A r \in compared : r.upd # job.upd
        /\ our \in free /\ \A yt \in free : ours <= Arrival(yt, of(yt))
        /\ compared' = compared \cup
             {[upd |-> job.upd, t1 |-> t1, ver |-> job.dis, our |-> our, our_s |-> ours,
               tos_s |-> toss, reason |-> Reason(precise, our, ours, toss), src |-> reco.src,
               reco |-> {r.ts : r \in reco.rows},
               reco_s |-> {Arrival(r.yt, Where(r.yt, t1)) : r \in reco.rows}]}
        /\ UNCHANGED <<now, hist, recos, job, updates, readVars>>

EndCompare ==
    /\ cstep # "rest" /\ cstep' = "rest"
    /\ snaps_in' = {} /\ latest_cut' = 0 /\ reco_rows' = {} /\ reco_fetch_at' = 0
    /\ UNCHANGED <<now, hist, recos, job, updates, compared>>

CompareTick == Advance(CompareEnd) /\ UNCHANGED compareVars

CompareNext ==
    \/ \E fleet \in Fleets : TakeSnapshot(fleet)
    \/ \E ts \in 1..CompareEnd, box \in BOOLEAN, yt \in CmpTrucks : Recommend(ts, box, yt)
    \/ \E t1 \in 1..CompareEnd, dis \in BOOLEAN : AssignTruck(t1, dis)
    \/ ReadSnapshots \/ ReadRecos
    \/ \E our \in CmpTrucks : Compare(our)
    \/ EndCompare \/ CompareTick

CompareSpec == ClockInit /\ CompareInit /\ [][CompareNext]_<<now, compareVars>>

------------------------------------------------------------------------------
\* The recommendations that were on the board when an instant came.
Board(t1) == {r \in recos : r.landed < t1 /\ t1 - r.ts <= RecoStanding}

\* A verdict never misses the answer that stood on the board at T1: "none" only
\* when there was none, and no older recommendation in place of one that stood
\* there; what was not read is NULL, "mixing the two would taint the share of none".
BoardAnswered ==
    \A c \in compared : c.src # "null" =>
        LET boxes == {r \in Board(c.t1) : r.box} IN
        /\ Board(c.t1) # {} => c.src # "none"
        /\ boxes # {} => c.src = "cont" /\ \A r \in boxes, ts \in c.reco : r.ts <= ts
        /\ c.src = "queue" => \A r \in Board(c.t1), ts \in c.reco : r.ts <= ts

\* A comparison that is not "now" took both trucks from one snapshot, at most
\* T1_SNAP_MAX_SKEW_S before T1, and says which of them was nearer in it.
SameInstant ==
    \A c \in compared : c.reason # "now" =>
        \E s \in hist :
            /\ s.ts <= c.t1 /\ c.t1 - s.ts <= SnapSkew
            /\ s.fleet[c.our] = [d |-> c.our_s, free |-> TRUE]
            /\ s.fleet[TosTruck].d = c.tos_s
            /\ c.reason = "ours_closer" <=> c.our_s < c.tos_s

\* The same assignment compared again, after the terminal touched its row, gets no
\* older answer than before.
AnswerKept ==
    \A c, e \in compared :
        c.t1 = e.t1 /\ c.upd < e.upd /\ "null" \notin {c.src, e.src} =>
            /\ c.src # "none" => e.src # "none"
            /\ c.src = "cont" => e.src = "cont"
            /\ c.src = e.src => \A x \in c.reco, y \in e.reco : x <= y

\* What the comparison says of a moment is what was there at that moment.
ComparisonsHold == BoardAnswered /\ SameInstant /\ AnswerKept
==============================================================================
