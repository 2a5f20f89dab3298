----------------------------- MODULE DispatchHold -----------------------------
(***************************************************************************)
(* The Stage-2 dispatcher's memory of the orders it has already sent       *)
(* (crates/api/src/livemap.rs, spawn_stage2_shadow and its helpers).       *)
(*                                                                         *)
(* The matcher runs a tick several times a minute, but what TOS made of an *)
(* order only comes back with the next work list, stamped before a slow    *)
(* Oracle read.  In between, the truck still looks free and the box still  *)
(* looks unassigned.  So an order is written to dispatch_sent first, and   *)
(* its pair is held until there is evidence about it; a restarted process  *)
(* rebuilds the holds from the open rows.                                  *)
(*                                                                         *)
(* The database the tick reads (work list, move logs, TOS availability) is *)
(* filled by other processes; the actions of the second section land any   *)
(* record those processes could land, at any moment between two reads of   *)
(* the tick.                                                               *)
(***************************************************************************)
EXTENDS TosSig, FiniteSets

CONSTANTS
    Trucks, Boxes,
    MaxTime,        \* bound on the clock
    Margin,         \* HOLD_RELEASE_MARGIN_MS
    ReadErr,        \* how far now - age(list) can overshoot the list's stamp
    ListedRecent,   \* LISTED_RECENT_S
    RestoreMaxAge,  \* RESTORE_MAX_AGE_MS
    MaxLag,         \* bound on how late a record reaches the database
    MaxLists,       \* bound on landed lists,
    MaxRecords,     \*   on pickup and free records and changes of availability
    MaxFaults       \* bound on crashes, failed writes and failed closes

ASSUME HoldAssumption ==
    /\ MaxTime \in Nat /\ Margin \in Nat /\ ReadErr \in Nat
    /\ ReadErr <= Margin
    /\ ListedRecent \in Nat /\ RestoreMaxAge \in Nat
    /\ MaxLag \in Nat /\ MaxLists \in Nat
    /\ MaxRecords \in Nat /\ MaxFaults \in Nat

VARIABLES
    clock,
    \* database, written by the extractor
    stamp,        \* as_of of the extraction that is reading Oracle, or NoTime
    list,         \* live_workpool and live_assigned_tt, replaced as a whole
    free, picked, \* newest free and pickup record of each truck
    avail,        \* start of the truck's open interval, while the anchor is fresh
    \* database, written by the dispatcher
    hist,         \* assigned_tt_hist: newest remembered listing of each truck
    open,         \* dispatch_sent rows with released_at IS NULL
    swap_ts,      \* stage2_swap_shadow: last recorded swap of each truck
    \* the dispatcher process
    pc, hold_sent, restored, held,
    as_of,        \* list_as_of_ms of this tick
    tos_sig, redir, frozen, work,  \* what this tick has read
    swapped,      \* the pairs of trucks this tick has told to swap
    last_at,      \* when the last order was written
    \* bookkeeping of the properties and of the bounds
    outstanding,  \* orders sent and not yet answered by any TOS record
    lapsed,       \* orders whose truck's availability reading went away
    news, lapses, \* trucks whose records changed since this tick read them
    lands, faults

db_in  == <<stamp, list, free, picked, avail>>
db_out == <<hist, open, swap_ts>>
local  == <<as_of, tos_sig, redir, frozen, work, swapped>>
proc   == <<hold_sent, restored, held>>
ghost  == <<outstanding, lapsed, news, lapses>>
vars   == <<clock, db_in, db_out, pc, proc, local, last_at, ghost, lands, faults>>

Time    == 0 .. MaxTime
OptTime == OptUpTo(MaxTime)

\* One row of dispatch_sent, and the Hold made from it.  A tick writes at most
\* one row per truck, so the truck and the time stand for msg_id.
Rows == [truck : Trucks, box : Boxes, kind : {"assign", "swap"}, at : Time]

PartialMaps(S, T) == UNION {[D -> T] : D \in SUBSET S}

EmptyMap == [t \in {} |-> NoTime]

\* live_workpool: `q` is the box of a truck that is dispatched and has not
\* picked up (Q row, no A row), `dis` the newest dispatch time of a truck, `work`
\* the boxes without a truck; `listed` is live_assigned_tt, which also holds
\* the yard moves live_workpool does not.
Lists == [stamped : OptTime, q : PartialMaps(Trucks, Boxes),
          dis : PartialMaps(Trucks, Time), listed : SUBSET Trucks, work : SUBSET Boxes]

EmptyList == [stamped |-> NoTime, q |-> EmptyMap, dis |-> EmptyMap,
              listed |-> {}, work |-> {}]

TypeOK ==
    /\ clock \in Time /\ stamp \in OptTime /\ list \in Lists
    /\ free \in [Trucks -> OptTime] /\ picked \in [Trucks -> OptTime]
    /\ avail \in [Trucks -> OptTime] /\ hist \in [Trucks -> OptTime]
    /\ swap_ts \in [Trucks -> OptTime]
    /\ open \subseteq Rows /\ held \subseteq Rows
    /\ outstanding \subseteq Rows /\ lapsed \subseteq Rows
    /\ pc \in {"wait", "restore", "signals", "pool", "work", "swap",
               "swaplog", "release", "match"}
    /\ hold_sent \in BOOLEAN /\ restored \in BOOLEAN
    /\ as_of \in {NoTime} \cup 0 .. (MaxTime + ReadErr)
    /\ tos_sig \in [Trucks -> TosSigs(OptTime)]
    /\ redir \in PartialMaps(Trucks, Boxes)
    /\ frozen \subseteq Trucks /\ work \subseteq Boxes /\ swapped \subseteq SUBSET Trucks
    /\ last_at \in OptTime
    /\ news \subseteq Trucks /\ lapses \subseteq Trucks
    /\ lands \in [list : 0 .. MaxLists, record : 0 .. MaxRecords]
    /\ faults \in 0 .. MaxFaults

TruckOf(rows) == {r.truck : r \in rows}
BoxOf(rows)   == {r.box : r \in rows}

Init ==
    /\ clock = 0 /\ stamp = NoTime /\ list = EmptyList
    /\ free = [t \in Trucks |-> NoTime] /\ picked = free
    /\ avail = free /\ hist = free /\ swap_ts = free
    /\ open = {} /\ held = {}
    /\ pc = "wait" /\ hold_sent = TRUE /\ restored = FALSE
    /\ as_of = NoTime /\ tos_sig = [t \in Trucks |-> NoSig]
    /\ redir = EmptyMap /\ frozen = {} /\ work = {} /\ swapped = {}
    /\ last_at = NoTime
    /\ outstanding = {} /\ lapsed = {} /\ news = {} /\ lapses = {}
    /\ lands = [list |-> 0, record |-> 0] /\ faults = 0

-----------------------------------------------------------------------------
(* Records landed by the extractor and the passage of time.                *)

Tick ==
    /\ clock < MaxTime
    /\ clock' = clock + 1
    /\ UNCHANGED <<db_in, db_out, pc, proc, local, last_at, ghost, lands, faults>>

MutFutureRecords == {d \in 0 .. clock + 1 : d + MaxLag >= clock}

\* The times a record that lands now can carry.
Recent == {d \in 0 .. clock : d + MaxLag >= clock}

\* TOS has something new to say about truck t being at work: every order
\* given to t is answered by it.
Answered(T) ==
    /\ outstanding' = {r \in outstanding : r.truck \notin T}
    /\ lapsed' = lapsed \cap outstanding'
    /\ news' = news \cup T

\* A reading about the trucks T went away or was uncovered; TOS said nothing.
Lapse(T) ==
    /\ lapsed' = lapsed \cup {r \in outstanding : r.truck \in T}
    /\ lapses' = lapses \cup T

\* The extractor stamps the list before it asks Oracle.
StampList ==
    /\ stamp = NoTime
    /\ stamp' = clock
    /\ UNCHANGED <<clock, list, free, picked, avail, db_out, pc, proc, local,
                   last_at, ghost, lands, faults>>

\* The Oracle read failed: the old list stays.
FailList ==
    /\ stamp # NoTime
    /\ stamp' = NoTime
    /\ UNCHANGED <<clock, list, free, picked, avail, db_out, pc, proc, local,
                   last_at, ghost, lands, faults>>

\* live_workpool of list l has a row, so max(as_of_ts) is not NULL.
HasRows(l) == l.work # {} \/ DOMAIN l.q # {} \/ DOMAIN l.dis # {}

\* Any list Oracle can return now: a box is with at most one truck, and a
\* truck with a row is on the list of dispatched trucks.
LandList ==
    /\ stamp # NoTime
    /\ lands.list < MaxLists /\ lands' = [lands EXCEPT !.list = @ + 1]
    /\ stamp' = NoTime
    /\ \E T \in SUBSET Trucks : \E q \in PartialMaps(T, Boxes) :
       \E dis \in PartialMaps(T, Recent) :
       \E W \in SUBSET {b \in Boxes : \A t \in DOMAIN q : q[t] # b} :
        /\ \A t, u \in DOMAIN q : q[t] = q[u] => t = u
        /\ list' = [stamped |-> stamp, q |-> q, dis |-> dis, listed |-> T, work |-> W]
        /\ outstanding' = {r \in outstanding :
                             /\ r.truck \notin T
                             /\ ~ (HasRows(list') /\ r.at < stamp)}
        /\ news' = news \cup T
    /\ lapsed' = lapsed \cap outstanding'
    /\ UNCHANGED <<clock, free, picked, avail, db_out, pc, proc, local,
                   last_at, lapses, faults>>

\* The signal query returns a row for the truck.
Known(t) == free[t] # NoTime \/ picked[t] # NoTime \/ t \in list.listed

LandPicked ==
    /\ lands.record < MaxRecords /\ lands' = [lands EXCEPT !.record = @ + 1]
    /\ \E t \in Trucks, p \in Recent :
        /\ p > picked[t]
        /\ picked' = [picked EXCEPT ![t] = p]
        /\ Answered({t})
    /\ UNCHANGED <<clock, stamp, list, free, avail, db_out, pc, proc, local,
                   last_at, lapses, faults>>

\* A first record about a truck so far judged by GPS alone may expose an old
\* listing; it does not say the truck has taken up work.
LandFree ==
    /\ lands.record < MaxRecords /\ lands' = [lands EXCEPT !.record = @ + 1]
    /\ \E t \in Trucks, f \in Recent :
        /\ f > free[t]
        /\ free' = [free EXCEPT ![t] = f]
        /\ Lapse(IF Known(t) THEN {} ELSE {t})
    /\ UNCHANGED <<clock, stamp, list, picked, avail, db_out, pc, proc, local,
                   last_at, outstanding, news, faults>>

\* TOS has put the truck on its list of dispatchable trucks.
OpenAvail ==
    /\ lands.record < MaxRecords /\ lands' = [lands EXCEPT !.record = @ + 1]
    /\ \E t \in Trucks, v \in Recent :
        /\ avail[t] = NoTime
        /\ avail' = [avail EXCEPT ![t] = v]
    /\ UNCHANGED <<clock, stamp, list, free, picked, db_out, pc, proc, local,
                   last_at, ghost, faults>>

\* TOS has given the truck a job: its interval closes.
CloseAvail ==
    /\ lands.record < MaxRecords /\ lands' = [lands EXCEPT !.record = @ + 1]
    /\ \E t \in Trucks :
        /\ avail[t] # NoTime
        /\ avail' = [avail EXCEPT ![t] = NoTime]
        /\ Answered({t})
    /\ UNCHANGED <<clock, stamp, list, free, picked, db_out, pc, proc, local,
                   last_at, lapses, faults>>

\* The availability collector stops: once its anchor is older than
\* TOS_AVAIL_MAX_AGE_S the query returns no interval at all.
AnchorStale ==
    /\ lands.record < MaxRecords /\ lands' = [lands EXCEPT !.record = @ + 1]
    /\ \E t \in Trucks : avail[t] # NoTime
    /\ avail' = [t \in Trucks |-> NoTime]
    /\ Lapse({t \in Trucks : avail[t] # NoTime})
    /\ UNCHANGED <<clock, stamp, list, free, picked, db_out, pc, proc, local,
                   last_at, outstanding, news, faults>>

-----------------------------------------------------------------------------
(* The tick.                                                               *)

\* The values a tick has read do not outlive it.
Forget ==
    /\ as_of' = NoTime /\ tos_sig' = [t \in Trucks |-> NoSig]
    /\ redir' = EmptyMap /\ frozen' = {} /\ work' = {} /\ swapped' = {}
    /\ news' = {} /\ lapses' = {}

EndTick == pc' = "wait" /\ Forget

\* wait_for_workpool_landing returned and the freshness gate is open.  The
\* stamp of the list is recovered as now minus a rounded age, hence the
\* error.  One clock unit is shorter than a tick, so two ticks never write
\* at the same time.
Wake ==
    /\ pc = "wait"
    /\ clock > last_at
    /\ IF HasRows(list)
         THEN \E e \in 0 .. ReadErr : as_of' = list.stamped + e
         ELSE as_of' = NoTime
    /\ pc' = IF restored THEN "signals" ELSE "restore"
    /\ held' = IF hold_sent THEN held ELSE {}
    /\ UNCHANGED <<clock, db_in, db_out, hold_sent, restored, tos_sig, redir,
                   frozen, work, swapped, last_at, ghost, lands, faults>>

MutRestoreNone(rows) == {}

\* restore_holds: of the rows of one truck the one sent last.
restore_holds(rows) ==
    {r \in rows : \A o \in rows : o.truck = r.truck => o.at <= r.at}

Expired(rows) == {r \in rows : clock - r.at > RestoreMaxAge}

\* close_sent: an UPDATE that may fail; the holds are gone from memory either way.
close_sent(rows) ==
    \/ open' = open \ rows /\ faults' = faults
    \/ rows # {} /\ faults < MaxFaults /\ faults' = faults + 1 /\ open' = open

Restore ==
    /\ pc = "restore" /\ hold_sent
    /\ held' = restore_holds(open \ Expired(open))
    /\ close_sent(open \ held')
    /\ outstanding' = outstanding \ Expired(open)
    /\ lapsed' = lapsed \cap outstanding'
    /\ restored' = TRUE
    /\ pc' = "signals"
    /\ UNCHANGED <<clock, db_in, hist, swap_ts, hold_sent, local, last_at,
                   news, lapses, lands>>

\* The open rows could not be read: the tick is given up.
RestoreFails ==
    /\ pc = "restore" /\ hold_sent
    /\ EndTick
    /\ UNCHANGED <<clock, db_in, db_out, proc, last_at, outstanding, lapsed, lands, faults>>

\* MATCH_HOLD_SENT=0: the open rows are closed as 'cancelled', once; if that
\* fails the tick goes on and the next one tries again.
Cancel ==
    /\ pc = "restore" /\ ~ hold_sent
    /\ \/ /\ open' = {} /\ outstanding' = {} /\ lapsed' = {} /\ restored' = TRUE
          /\ faults' = faults
       \/ /\ faults < MaxFaults /\ faults' = faults + 1
          /\ UNCHANGED <<open, outstanding, lapsed, restored>>
    /\ pc' = "signals"
    /\ UNCHANGED <<clock, db_in, hist, swap_ts, hold_sent, held, local, last_at,
                   news, lapses, lands>>

Max2(a, b) == IF a > b THEN a ELSE b

\* Last listing of truck t: the current list, or a remembered one that is recent.
ListedAt(t) ==
    Max2(IF t \in list.listed THEN list.stamped ELSE NoTime,
         IF hist[t] > clock - ListedRecent THEN hist[t] ELSE NoTime)

SigOf(t) ==
    IF Known(t)
      THEN [free |-> free[t],
            dis |-> IF t \in DOMAIN list.dis THEN list.dis[t] ELSE NoTime, listed_at |-> ListedAt(t),
            picked |-> picked[t], avail_since |-> avail[t]]
      ELSE NoSig

ReadSignals ==
    /\ pc = "signals"
    /\ tos_sig' = [t \in Trucks |-> SigOf(t)]
    /\ news' = {} /\ lapses' = {}
    /\ pc' = "pool"
    /\ UNCHANGED <<clock, db_in, db_out, proc, as_of, redir, frozen, work,
                   swapped, last_at, outstanding, lapsed, lands, faults>>

\* The trucks that are dispatched but have not picked up, the swap freezes and
\* the history of listings.  If the first read fails there are no candidates,
\* if the second fails every truck counts as frozen.
ReadPool ==
    /\ pc = "pool"
    /\ LET now_frozen == {t \in Trucks : swap_is_frozen(swap_ts[t], tos_sig[t].free)}
           now_hist   == [t \in Trucks |-> IF t \in list.listed
                                             THEN Max2(hist[t], list.stamped) ELSE hist[t]]
       IN \/ redir' = list.q /\ frozen' = now_frozen /\ hist' = now_hist /\ faults' = faults
          \/ /\ faults < MaxFaults /\ faults' = faults + 1
             /\ redir' \in {list.q, EmptyMap} /\ frozen' \in {now_frozen, Trucks}
             /\ hist' \in {now_hist, hist}
    /\ pc' = "work"
    /\ UNCHANGED <<clock, db_in, open, swap_ts, proc, as_of, tos_sig, work,
                   swapped, last_at, ghost, lands>>

\* stage2_work_candidates: the boxes no truck has been sent to.
ReadWork ==
    /\ pc = "work"
    /\ work' = list.work
    /\ pc' = "swap"
    /\ UNCHANGED <<clock, db_in, db_out, proc, as_of, tos_sig, redir, frozen,
                   swapped, last_at, ghost, lands, faults>>

\* A query of the tick failed (TOS signals, work list): the tick is given up.
ReadFails ==
    /\ pc \in {"signals", "work"}
    /\ EndTick
    /\ UNCHANGED <<clock, db_in, db_out, proc, last_at, outstanding, lapsed, lands, faults>>

MutForgetHold(rows) == held

\* apply_written: each truck is held to its new order; an older hold of the
\* truck is replaced.
apply_written(rows) == {h \in held : h.truck \notin TruckOf(rows)} \cup rows

Superseded(rows) == {h \in held : h.truck \in TruckOf(rows)}

\* write_sent and apply_written for the orders `rows`: all rows commit, none
\* does, or all do and the answer is lost, which the code takes for a failure.
WriteOk(rows) ==
    /\ held' = apply_written(rows)
    /\ open' = (open \cup rows) \ Superseded(rows)
    /\ outstanding' = outstanding \cup {r \in rows : r.truck \notin news}
    /\ lapsed' = lapsed \cup {r \in rows : r.truck \in lapses \ news}
    /\ last_at' = IF rows = {} THEN last_at ELSE clock
    /\ faults' = faults

WriteFails(rows) ==
    /\ rows # {} /\ faults < MaxFaults /\ faults' = faults + 1
    /\ \/ open' = open /\ last_at' = last_at
       \/ open' = open \cup rows /\ last_at' = clock
    /\ UNCHANGED <<held, outstanding, lapsed>>

MutSwapHeld(t) ==
    /\ t \in DOMAIN redir
    /\ tos_sig[t] # NoSig
    /\ ~ is_free_tos(tos_sig[t])
    /\ ~ loaded(tos_sig[t])
    /\ t \notin frozen

MutSwapFrozen(t) ==
    /\ t \in DOMAIN redir
    /\ tos_sig[t] # NoSig
    /\ ~ is_free_tos(tos_sig[t])
    /\ ~ loaded(tos_sig[t])
    /\ t \notin TruckOf(held)

\* A truck whose destination may be swapped: TOS has dispatched it, it has not
\* picked up, it is not frozen and holds no order of ours.
SwapCand(t) ==
    /\ t \in DOMAIN redir
    /\ tos_sig[t] # NoSig
    /\ ~ is_free_tos(tos_sig[t])
    /\ ~ loaded(tos_sig[t])
    /\ t \notin frozen
    /\ t \notin TruckOf(held)

\* pick_swaps chooses disjoint pairs of candidates: a partner for each truck.
Swaps ==
    {s \in PartialMaps({t \in Trucks : SwapCand(t)}, Trucks) :
        \A t \in DOMAIN s : s[t] # t /\ s[t] \in DOMAIN s /\ s[s[t]] = t}

SwapRow(s, t) == [truck |-> t, box |-> redir[s[t]], kind |-> "swap", at |-> clock]

\* The swap stage: the orders are written first, the freeze after them.
Swap ==
    /\ pc = "swap"
    /\ \E s \in Swaps :
        LET rows == IF hold_sent THEN {SwapRow(s, t) : t \in DOMAIN s} ELSE {} IN
        \/ WriteOk(rows) /\ swapped' = {{t, s[t]} : t \in DOMAIN s}
        \/ WriteFails(rows) /\ swapped' = {}
    /\ pc' = "swaplog"
    /\ redir' = EmptyMap /\ frozen' = {}   \* not looked at again in this tick
    /\ UNCHANGED <<clock, db_in, hist, swap_ts, hold_sent, restored, as_of,
                   tos_sig, work, news, lapses, lands>>

\* The freeze is recorded after the orders are out, one insert per pair.
LogSwap ==
    /\ pc = "swaplog"
    /\ \E done \in SUBSET swapped :
        /\ IF done = swapped THEN faults' = faults
             ELSE faults < MaxFaults /\ faults' = faults + 1
        /\ swap_ts' = [t \in Trucks |-> IF t \in UNION done THEN clock ELSE swap_ts[t]]
    /\ pc' = "release" /\ swapped' = {}
    /\ UNCHANGED <<clock, db_in, hist, open, proc, as_of, tos_sig, redir, frozen,
                   work, last_at, ghost, lands>>

\* No candidate truck with a position, or no work with a coordinate and a
\* time: the tick ends before the holds are looked at.
SkipMatch ==
    /\ pc = "release"
    /\ EndTick
    /\ UNCHANGED <<clock, db_in, db_out, proc, last_at, outstanding, lapsed, lands, faults>>

\* release_held: a list stamped after the order, or a TOS signal that the
\* truck is at work.
Releasable(h) ==
    \/ as_of # NoTime /\ h.at + Margin < as_of
    \/ truck_busy_after(tos_sig[h.truck], h.kind, h.at)

release_held ==
    /\ pc = "release"
    /\ LET out == IF hold_sent THEN {h \in held : Releasable(h)} ELSE {} IN
         /\ held' = held \ out
         /\ close_sent(out)
    /\ pc' = "match"
    /\ UNCHANGED <<clock, db_in, hist, swap_ts, hold_sent, restored, local,
                   last_at, ghost, lands>>

MutEdgeOwnHoldOnly(t, b) ==
    \A h \in held : h.truck = t => h.box = b

\* A held truck sees only its box, a held box is seen only by its truck.
edge_allowed_by_hold(t, b) ==
    IF t \in TruckOf(held)
      THEN \E h \in held : h.truck = t /\ h.box = b
      ELSE b \notin BoxOf(held)

\* The trucks an order can go to now: free by the TOS records, or without any
\* TOS record and (by GPS) idle.
FreeNow(t) == is_free_tos(tos_sig[t]) \/ tos_sig[t] = NoSig

\* What the solver can return for them: some of the allowed pairs, each truck
\* and each box in at most one.
Matchings ==
    {m \in PartialMaps({t \in Trucks : FreeNow(t)}, work) :
        /\ \A t \in DOMAIN m : edge_allowed_by_hold(t, m[t])
        /\ \A t, u \in DOMAIN m : m[t] = m[u] => t = u}

\* A pair of a truck that is already held is no new order.
NewOrders(m) ==
    {[truck |-> t, box |-> m[t], kind |-> "assign", at |-> clock] :
        t \in {t \in DOMAIN m : t \notin TruckOf(held)}}

Match ==
    /\ pc = "match"
    /\ \E m \in Matchings :
        LET rows == IF hold_sent THEN NewOrders(m) ELSE {} IN
        WriteOk(rows) \/ WriteFails(rows)
    /\ EndTick
    /\ UNCHANGED <<clock, db_in, hist, swap_ts, hold_sent, restored, lands>>

\* The API process dies between any two steps and comes back with empty
\* memory and possibly another setting of the kill switch.
Restart ==
    /\ faults < MaxFaults /\ faults' = faults + 1
    /\ pc' = "wait" /\ held' = {} /\ restored' = FALSE
    /\ hold_sent' \in BOOLEAN
    /\ Forget
    /\ UNCHANGED <<clock, db_in, db_out, last_at, outstanding, lapsed, lands>>

Landing == \/ StampList \/ FailList \/ LandList \/ LandPicked \/ LandFree
           \/ OpenAvail \/ CloseAvail \/ AnchorStale

Step == \/ Wake \/ Restore \/ RestoreFails \/ Cancel \/ ReadSignals
        \/ ReadPool \/ ReadWork \/ ReadFails \/ Swap \/ LogSwap \/ SkipMatch
        \/ release_held \/ Match

Next == Tick \/ Landing \/ Step \/ Restart

Spec == Init /\ [][Next]_vars

-----------------------------------------------------------------------------
(* Properties.                                                             *)

\* The orders that nothing TOS has reported since they were decided bears on.
Unanswered == outstanding \ lapsed

\* A truck has at most one order that is still unanswered: between an order
\* and the first list stamped after it (or the first TOS record of the truck
\* at work) no tick sends the truck a second order, whatever landed in
\* between, and whether or not the process was restarted, a row could not be
\* written or closed, or an acknowledgement was lost (apply_written,
\* release_held, restore_holds, the held filter of new_rows and hold_trucks).
OneOrderPerTruck ==
    \A r, o \in Unanswered : r.truck = o.truck => r = o

\* The matcher never assigns a box that an unanswered order already names: of
\* two unanswered orders for one box the later one is a swap
\* (edge_allowed_by_hold, held_boxes).
OneAssignPerBox ==
    \A r, o \in Unanswered :
        (r.box = o.box /\ r # o /\ r.at <= o.at) => o.kind = "swap"

\* An unanswered order can always be recovered: its row is open and is the
\* newest open row of its truck, so a restart restores this order and not an
\* older one (write_sent before the hold, close_sent, restore_holds).
UnansweredIsRestorable ==
    \A r \in Unanswered :
        r \in open /\ \A o \in open : o.truck = r.truck => o = r \/ o.at < r.at

\* A truck is told to swap at most once between two frees: when a swap order
\* is written, the last recorded swap of the truck is not younger than its last
\* free record, although both were read earlier in the tick (swap_is_frozen,
\* the swap_frozen query, stage2_swap_shadow).
SwapOncePerTrip ==
    [][\A r \in open' \ open :
        r.kind = "swap" => ~ swap_is_frozen(swap_ts[r.truck], free[r.truck])]_vars

\* A box has at most one unanswered order: until the first list stamped after
\* an order for it, no other truck is told to take the box (the comment on
\* edge_allowed_by_hold: the held box has only its truck's edge).
OneOrderPerBox ==
    \A r, o \in Unanswered : r.box = o.box => r = o

=============================================================================
