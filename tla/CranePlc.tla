------------------------------- MODULE CranePlc -------------------------------
(***************************************************************************)
(* The hook of a quay crane (livemap.rs): ingest_ctab counts a move when    *)
(* the hook goes from empty to laden, the pruner forgets a crane silent for *)
(* LOST_AFTER_S, and every 10 s spawn_qc_handover_logger writes the moves   *)
(* of the last 25 s to qc_handover_edge, for cranes whose work point is     *)
(* known.  The map keeps the cranes apart: this is one of them.             *)
(***************************************************************************)
EXTENDS Integers, Sequences, SequencesExt, FiniteSets, Clock

CONSTANTS
    MoveGap,        \* MIN_MOVE_GAP_MS: 40 s
    MoveWindow,     \* MOVE_WINDOW_MS: 1 h
    EdgeKeep,       \* 25 s in which a move may be written
    PlcLost,        \* LOST_AFTER_S: 600 s
    PlcEnd,         \* bound on the clock
    MaxPlcRuns      \* bound on the processes

ASSUME PlcAssumption ==
    /\ {MoveGap, MoveWindow, EdgeKeep, PlcLost, PlcEnd, MaxPlcRuns} \subseteq Nat
    /\ EdgeKeep < MoveGap /\ MoveGap <= PlcLost /\ PlcLost < MoveWindow

VARIABLES
    plc_connected,  \* LiveMap.plc_connected
    plc,            \* the crane's Plc (seen = 0: not in the map)
    last_edge,      \* spawn_qc_handover_logger's last_edge, 0 for none
    edge,           \* newest row of qc_handover_edge and the process that wrote it
    counted,        \* every move counted since the entry was created (history)
    looked,         \* when the logger last saw the crane (history)
    pruns           \* processes so far

plcVars == <<plc_connected, plc, last_edge, edge, counted, looked, pruns>>

NoPlc == [seen |-> 0, laden |-> FALSE, moves |-> <<>>, last |-> 0]

PlcInit ==
    /\ plc_connected = FALSE /\ plc = NoPlc /\ last_edge = 0
    /\ edge = [at |-> 0, run |-> 1] /\ counted = {} /\ looked = 0 /\ pruns = 1

\* spawn (second feed), serve_ctab: the sleep between two connections only delays the next.
CtabConnect ==
    /\ ~plc_connected /\ plc_connected' = TRUE
    /\ UNCHANGED <<now, plc, last_edge, edge, counted, looked, pruns>>

CtabEnd ==
    /\ plc_connected /\ plc_connected' = FALSE
    /\ UNCHANGED <<now, plc, last_edge, edge, counted, looked, pruns>>

\* Hysteresis: PLC_LADEN_T or more is laden, less than PLC_EMPTY_T is empty, a load in
\* between or none keeps the state.
NowLaden(load) ==
    CASE load = "laden" -> TRUE [] load = "empty" -> FALSE [] OTHER -> plc.laden

MutIsPickup(laden) == ~plc.laden /\ laden

\* A rising edge, not within MIN_MOVE_GAP_MS of the last counted one.
IsPickup(laden) ==
    ~plc.laden /\ laden /\ (plc.last = 0 \/ now - plc.last >= MoveGap)

\* moves.pop_front while the oldest is out of the window; the move just counted is in.
PopOld(moves) ==
    LET oldest == CHOOSE k \in DOMAIN moves :
                      /\ now - moves[k] <= MoveWindow
                      /\ \A i \in 1..(k - 1) : now - moves[i] > MoveWindow
    IN  SubSeq(moves, oldest, Len(moves))

\* ingest_ctab
Frame(load) ==
    LET laden == NowLaden(load)
        pickup == IsPickup(laden)
    IN  /\ plc_connected
        /\ plc' = [seen |-> now, laden |-> laden,
                   moves |-> IF pickup THEN PopOld(Append(plc.moves, now)) ELSE plc.moves,
                   last |-> IF pickup THEN now ELSE plc.last]
        /\ plc' # plc
        /\ counted' = IF pickup THEN counted \cup {now} ELSE counted
        /\ UNCHANGED <<now, plc_connected, last_edge, edge, looked, pruns>>

\* The pruner of spawn: the crane's state goes with its entry.
ForgetCrane ==
    /\ plc.seen > 0 /\ plc.seen < now - PlcLost
    /\ plc' = NoPlc /\ counted' = {}
    /\ UNCHANGED <<now, plc_connected, last_edge, edge, looked, pruns>>

(***************************************************************************)
(* spawn_qc_handover_logger: a tick that knows the crane's work point (one *)
(* that does not skips the crane).  A row also names the docked truck, if   *)
(* there is one within QC_DOCK_M; last_edge moves before the insert.        *)
(***************************************************************************)
DueEdges == {ts \in ToSet(plc.moves) : ts > last_edge /\ now - ts <= EdgeKeep}

HandoverTick ==
    /\ plc.seen > 0
    /\ looked' = now
    /\ \/ DueEdges = {} /\ UNCHANGED <<last_edge, edge>>
       \/ \E ts \in DueEdges :
            /\ \A other \in DueEdges : other <= ts
            /\ last_edge' = ts
            /\ edge' = IF ts = edge.at THEN edge ELSE [at |-> ts, run |-> pruns]
    /\ <<looked', edge'>> # <<looked, edge>>
    /\ UNCHANGED <<now, plc_connected, plc, counted, pruns>>

RestartPlc ==
    /\ pruns < MaxPlcRuns /\ pruns' = pruns + 1
    /\ plc_connected' = FALSE /\ plc' = NoPlc /\ last_edge' = 0 /\ counted' = {}
    /\ UNCHANGED <<now, edge, looked>>

PlcTick == Advance(PlcEnd) /\ UNCHANGED plcVars

PlcNext ==
    \/ CtabConnect \/ CtabEnd
    \/ \E load \in {"none", "empty", "between", "laden"} : Frame(load)
    \/ ForgetCrane \/ HandoverTick \/ RestartPlc \/ PlcTick

PlcSpec == ClockInit /\ PlcInit /\ [][PlcNext]_<<now, plcVars>>

------------------------------------------------------------------------------
\* Two rows of a crane are a whole spreader cycle apart ("one spreader cycle can't
\* complete in <40s"), also when the crane was forgotten in between, which loses
\* the time of its last move; only a restart may come sooner.
EdgesApart ==
    edge' # edge /\ edge.at > 0 => edge'.at - edge.at >= MoveGap \/ edge'.run # edge.run

\* Every tick of the logger that sees the crane leaves no counted move of the last
\* 25 s unwritten, whatever it wrote or skipped before.
NoEdgeMissed == looked' # looked => \A ts \in counted : now - ts <= EdgeKeep => ts = edge'.at

\* The moves an hour shown for the crane are the moves counted in that hour,
\* although the list is only trimmed when a move is counted.
HourCounted == {ts \in ToSet(plc.moves) : now - ts <= MoveWindow} =
               {ts \in counted : now - ts <= MoveWindow}

\* The hook's moves: each counted once, written once, and shown for an hour.
Handovers == [][EdgesApart /\ NoEdgeMissed /\ HourCounted]_<<now, plcVars>>
==============================================================================
