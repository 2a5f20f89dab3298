---------------------------- MODULE LiveMapProofs ----------------------------
(***************************************************************************)
(* Parts of the live map, for every interleaving of their tasks, every loss *)
(* of the feed and every restart: what the position history holds           *)
(* (LiveFeed), that every move of a hook is counted and written once        *)
(* (CranePlc), that a trip is recorded once (TripLog), and that a truck     *)
(* neither delivers twice nor loses its pickup, and tells its cycle in order *)
(* (TruckCycle); that a comparison with the terminal's dispatch speaks of the *)
(* moment it names (DispatchCompare); that what is learned from the        *)
(* deliveries is about the right ones (CycleTables); and that the rows of   *)
(* the waiting cranes are complete and agree (WaitKpi).                     *)
(* These properties speak of rows written long before, so the               *)
(* invariants relate a row to the memory of the process that wrote it: the  *)
(* memory still holds the row, or the row is too old to matter.             *)
(***************************************************************************)
EXTENDS LiveFeed, CranePlc, TripLog, TruckCycle, CycleTables, DispatchCompare,
        WaitKpi, FiniteSetTheorems, SequenceTheorems, WellFoundedInduction, TLAPS

FeedTypes ==
    /\ now \in Nat /\ run \in Nat
    /\ devices \in [TTs \cup RTGs -> [at : Nat, place : Places \cup {NoFix.place}]]
    /\ last \in [TTs -> [at : Nat, place : Places \cup {NoFix.place}]]
    /\ hifreq \in [TTs -> [at : Nat, place : Places \cup {NoFix.place}, run : Nat]]
    /\ last_seen \in [RTGs -> Nat]
    /\ rtgpos \in [RTGs -> [seen : Nat, run : Nat, ts : Nat]]

\* A row of this process is remembered, or older than the cache keeps.
RowsRemembered ==
    /\ \A d \in TTs :
        /\ hifreq[d].run <= run
        /\ hifreq[d].run = run =>
            \/ last[d].at = hifreq[d].at /\ last[d].place = hifreq[d].place
            \/ now - hifreq[d].at >= CacheKeep
    /\ \A d \in RTGs :
        /\ rtgpos[d].run <= run
        /\ rtgpos[d].run = run =>
            \/ last_seen[d] = rtgpos[d].seen
            \/ now - rtgpos[d].seen >= CacheKeep

FeedIInv == FeedTypes /\ RowsRemembered

--------------------------------------------------------------------------------
LEMMA FeedStart ==
    ASSUME ClockInit, FeedInit
    PROVE  FeedIInv
<1> DEFINE place0 == NoFix.place
<1>1. NoFix = [at |-> 0, place |-> place0]
  BY DEF NoFix
<1> HIDE DEF place0
<1>2. FeedTypes
  BY <1>1 DEF ClockInit, FeedInit, FeedTypes, place0
<1>3. RowsRemembered
  BY <1>1 DEF FeedInit, RowsRemembered, place0
<1> QED
  BY <1>2, <1>3 DEF FeedIInv

\* Everything but the two writers and the restart leaves the rows and the caches alone,
\* and a row only gets older.
LEMMA FeedQuiet ==
    ASSUME FeedIInv, FeedNext \/ UNCHANGED <<now, feedVars>>,
           UNCHANGED <<last, last_seen, hifreq, rtgpos, run>>
    PROVE  FeedIInv'
<1> USE FeedAssumption DEF FeedIInv
<1>1. now' \in Nat /\ now' >= now
  BY DEF FeedNext, Connect, LinkError, LinkClosed, FeedTick, Advance, Fix, PruneDevices, HifreqTick,
         RtgTick, PosHistTick, RestartFeed, FeedTypes, feedVars
<1>2. devices' \in [TTs \cup RTGs -> [at : Nat, place : Places \cup {NoFix.place}]]
  <2>1. NoFix \in [at : Nat, place : Places \cup {NoFix.place}]
    BY DEF NoFix
  <2>2. CASE devices' = devices
    BY <2>2 DEF FeedTypes
  <2>3. ASSUME NEW d \in TTs \cup RTGs, NEW place \in Places, Fix(d, place)
        PROVE  devices' \in [TTs \cup RTGs -> [at : Nat, place : Places \cup {NoFix.place}]]
    BY <2>3 DEF Fix, FeedTypes
  <2>4. CASE PruneDevices
    BY <2>1, <2>4 DEF PruneDevices, FeedTypes
  <2>5. CASE RestartFeed
    BY <2>1, <2>5 DEF RestartFeed
  <2> QED
    BY <2>2, <2>3, <2>4, <2>5
       DEF FeedNext, Connect, LinkError, LinkClosed, FeedTick, HifreqTick, RtgTick, PosHistTick,
           feedVars
<1>3. FeedTypes'
  BY <1>1, <1>2 DEF FeedTypes
<1>4. RowsRemembered'
  <2>1. \A d \in TTs : hifreq[d].at \in Nat
    BY DEF FeedTypes
  <2>2. \A d \in RTGs : rtgpos[d].seen \in Nat
    BY DEF FeedTypes
  <2>3. now \in Nat
    BY DEF FeedTypes
  <2> QED
    BY <1>1, <2>1, <2>2, <2>3 DEF RowsRemembered
<1> QED
  BY <1>3, <1>4

LEMMA HifreqStep ==
    ASSUME FeedIInv, HifreqTick
    PROVE  FeedIInv'
<1> USE FeedAssumption DEF FeedIInv
<1> DEFINE rows == {d \in FreshTTs : Moved(d)}
           over == Cardinality(rows) > WriteMax
<1>1. /\ last' = [d \in TTs |-> IF d \in rows /\ ~over THEN [at |-> now, place |-> devices[d].place]
                                ELSE KeptLast[d]]
      /\ hifreq' = [d \in TTs |-> IF d \in rows /\ ~over
                                  THEN [at |-> now, place |-> devices[d].place, run |-> run]
                                  ELSE hifreq[d]]
      /\ UNCHANGED <<now, devices, last_seen, rtgpos, run>>
  BY DEF HifreqTick
<1> HIDE DEF rows, over
<1>2. \A d \in TTs : KeptLast[d] = IF now - last[d].at < CacheKeep THEN last[d] ELSE NoFix
  BY DEF KeptLast
<1>3. \A d \in TTs : devices[d] \in [at : Nat, place : Places \cup {NoFix.place}]
  BY DEF FeedTypes
<1>4. NoFix \in [at : Nat, place : Places \cup {NoFix.place}]
  BY DEF NoFix
<1>5. FeedTypes'
  BY <1>1, <1>2, <1>3, <1>4 DEF FeedTypes
<1>6. ASSUME NEW d \in TTs
      PROVE  /\ hifreq'[d].run <= run
             /\ hifreq'[d].run = run =>
                 \/ last'[d].at = hifreq'[d].at /\ last'[d].place = hifreq'[d].place
                 \/ now - hifreq'[d].at >= CacheKeep
  <2>1. CASE d \in rows /\ ~over
    BY <1>1, <2>1 DEF FeedTypes
  <2>2. CASE ~(d \in rows /\ ~over)
    <3>1. hifreq'[d] = hifreq[d] /\ last'[d] = KeptLast[d]
      BY <1>1, <2>2
    <3>2. last[d].at \in Nat /\ hifreq[d].at \in Nat /\ now \in Nat
      BY DEF FeedTypes
    <3> QED
      BY <1>2, <3>1, <3>2 DEF RowsRemembered
  <2> QED
    BY <2>1, <2>2
<1>7. RowsRemembered'
  BY <1>1, <1>6 DEF RowsRemembered
<1> QED
  BY <1>5, <1>7

LEMMA RtgStep ==
    ASSUME FeedIInv, RtgTick
    PROVE  FeedIInv'
<1> USE FeedAssumption DEF FeedIInv
<1> DEFINE kept == [d \in RTGs |-> IF now - last_seen[d] < CacheKeep THEN last_seen[d] ELSE 0]
           fixes == {d \in RTGs : Fresh(d) /\ NewFix(d, kept)}
           over == Cardinality(fixes) > WriteMax
<1>1. /\ last_seen' = [d \in RTGs |-> IF d \in fixes /\ ~over THEN devices[d].at ELSE kept[d]]
      /\ rtgpos' = [d \in RTGs |-> IF d \in fixes /\ ~over
                                   THEN [seen |-> devices[d].at, run |-> run, ts |-> now]
                                   ELSE rtgpos[d]]
      /\ UNCHANGED <<now, devices, last, hifreq, run>>
  BY DEF RtgTick
<1> HIDE DEF fixes, over
<1>2. \A d \in RTGs : devices[d].at \in Nat /\ kept[d] \in Nat
  BY DEF FeedTypes
<1>3. FeedTypes'
  BY <1>1, <1>2 DEF FeedTypes
<1>4. ASSUME NEW d \in RTGs
      PROVE  /\ rtgpos'[d].run <= run
             /\ rtgpos'[d].run = run =>
                 \/ last_seen'[d] = rtgpos'[d].seen
                 \/ now - rtgpos'[d].seen >= CacheKeep
  <2>1. CASE d \in fixes /\ ~over
    BY <1>1, <2>1 DEF FeedTypes
  <2>2. CASE ~(d \in fixes /\ ~over)
    <3>1. rtgpos'[d] = rtgpos[d] /\ last_seen'[d] = kept[d]
      BY <1>1, <2>2
    <3>2. kept[d] = IF now - last_seen[d] < CacheKeep THEN last_seen[d] ELSE 0
      OBVIOUS
    <3>3. last_seen[d] \in Nat /\ rtgpos[d].seen \in Nat /\ now \in Nat
      BY DEF FeedTypes
    <3> HIDE DEF kept
    <3> QED
      BY <1>1, <3>1, <3>2, <3>3 DEF RowsRemembered
  <2> QED
    BY <2>1, <2>2
<1>5. RowsRemembered'
  BY <1>1, <1>4 DEF RowsRemembered
<1> QED
  BY <1>3, <1>5

\* The new process remembers nothing, and no row is its own.
LEMMA FeedRestart ==
    ASSUME FeedIInv, RestartFeed
    PROVE  FeedIInv'
<1> USE FeedAssumption DEF FeedIInv
<1>1. NoFix \in [at : Nat, place : Places \cup {NoFix.place}]
  BY DEF NoFix
<1>2. FeedTypes'
  BY <1>1 DEF RestartFeed, FeedTypes
<1>3. \A d \in TTs : hifreq'[d].run \in Nat /\ hifreq'[d].run < run'
  BY DEF RestartFeed, FeedTypes, RowsRemembered
<1>4. \A d \in RTGs : rtgpos'[d].run \in Nat /\ rtgpos'[d].run < run'
  BY DEF RestartFeed, FeedTypes, RowsRemembered
<1>5. run' \in Nat
  BY <1>2 DEF FeedTypes
<1> QED
  BY <1>2, <1>3, <1>4, <1>5 DEF RowsRemembered

LEMMA FeedStep ==
    ASSUME FeedIInv, [FeedNext]_<<now, feedVars>>
    PROVE  FeedIInv'
<1>1. CASE HifreqTick \/ RtgTick \/ RestartFeed
  BY <1>1, HifreqStep, RtgStep, FeedRestart
<1>2. CASE ~(HifreqTick \/ RtgTick \/ RestartFeed)
  <2>1. UNCHANGED <<last, last_seen, hifreq, rtgpos, run>>
    BY <1>2 DEF FeedNext, Connect, LinkError, LinkClosed, FeedTick, Fix, PruneDevices,
                PosHistTick, feedVars, histVars, linkVars
  <2> QED
    BY <2>1, FeedQuiet
<1> QED
  BY <1>1, <1>2

\* What the writers add.
LEMMA MovesOnly ==
    ASSUME FeedIInv, [FeedNext]_<<now, feedVars>>, NEW d \in TTs,
           hifreq'[d] # hifreq[d], hifreq[d].at > 0, hifreq'[d].run = hifreq[d].run,
           hifreq'[d].at - hifreq[d].at < CacheKeep
    PROVE  hifreq'[d].place # hifreq[d].place
<1> USE FeedAssumption DEF FeedIInv
<1>1. HifreqTick \/ hifreq' = hifreq
  BY DEF FeedNext, Connect, LinkError, LinkClosed, FeedTick, Fix, PruneDevices, RtgTick,
         PosHistTick, RestartFeed, feedVars, histVars, linkVars
<1>2. /\ HifreqTick /\ Fresh(d) /\ Moved(d)
      /\ hifreq'[d].at = now /\ hifreq'[d].place = devices[d].place /\ hifreq'[d].run = run
  <2> DEFINE rows == {e \in FreshTTs : Moved(e)}
             over == Cardinality(rows) > WriteMax
  <2>1. hifreq'[d] = IF d \in rows /\ ~over
                     THEN [at |-> now, place |-> devices[d].place, run |-> run] ELSE hifreq[d]
    BY <1>1 DEF HifreqTick
  <2> HIDE DEF over
  <2> QED
    BY <1>1, <2>1 DEF FreshTTs
<1>3. hifreq[d].at \in Nat /\ now \in Nat
  BY DEF FeedTypes
<1>4. last[d].at = hifreq[d].at /\ last[d].place = hifreq[d].place
  <2>1. hifreq[d].run = run /\ ~(now - hifreq[d].at >= CacheKeep)
    BY <1>2, <1>3
  <2> QED
    BY <2>1 DEF RowsRemembered
<1>5. KeptLast[d] = last[d]
  BY <1>2, <1>3, <1>4 DEF KeptLast
<1> QED
  BY <1>2, <1>3, <1>4, <1>5 DEF Moved

LEMMA NewFixOnly ==
    ASSUME FeedIInv, [FeedNext]_<<now, feedVars>>, NEW d \in RTGs,
           rtgpos'[d] # rtgpos[d], rtgpos'[d].run = rtgpos[d].run
    PROVE  rtgpos'[d].seen > rtgpos[d].seen
<1> USE FeedAssumption DEF FeedIInv
<1>1. RtgTick \/ rtgpos' = rtgpos
  BY DEF FeedNext, Connect, LinkError, LinkClosed, FeedTick, Fix, PruneDevices, HifreqTick,
         PosHistTick, RestartFeed, feedVars, histVars, linkVars
<1> DEFINE kept == [c \in RTGs |-> IF now - last_seen[c] < CacheKeep THEN last_seen[c] ELSE 0]
<1>2. /\ Fresh(d) /\ NewFix(d, kept)
      /\ rtgpos'[d].seen = devices[d].at /\ rtgpos'[d].run = run
  <2> DEFINE fixes == {e \in RTGs : Fresh(e) /\ NewFix(e, kept)}
             over == Cardinality(fixes) > WriteMax
  <2>1. rtgpos'[d] = IF d \in fixes /\ ~over
                     THEN [seen |-> devices[d].at, run |-> run, ts |-> now] ELSE rtgpos[d]
    BY <1>1 DEF RtgTick
  <2> HIDE DEF over, kept
  <2> QED
    BY <1>1, <2>1
<1>3. /\ rtgpos[d].seen \in Nat /\ now \in Nat /\ devices[d].at \in Nat /\ last_seen[d] \in Nat
      /\ devices[d].at > 0 /\ now - devices[d].at <= StaleAfter
  BY <1>2 DEF FeedTypes, Fresh
<1>4. kept[d] = 0 \/ devices[d].at > kept[d]
  BY <1>2 DEF NewFix
<1>5. kept[d] = IF now - last_seen[d] < CacheKeep THEN last_seen[d] ELSE 0
  OBVIOUS
<1> HIDE DEF kept
<1>6. last_seen[d] = rtgpos[d].seen \/ now - rtgpos[d].seen >= CacheKeep
  BY <1>2 DEF RowsRemembered
<1> QED
  BY <1>2, <1>3, <1>4, <1>5, <1>6

LEMMA TickComplete ==
    ASSUME FeedIInv, [FeedNext]_<<now, feedVars>>, poshist' # poshist
    PROVE  poshist'.trucks = FreshTTs
<1>1. PosHistTick
  BY DEF FeedNext, Connect, LinkError, LinkClosed, FeedTick, Fix, PruneDevices, HifreqTick, RtgTick,
         RestartFeed, feedVars, histVars, linkVars
<1> QED
  BY <1>1 DEF PosHistTick, Capped

\* truck_pos_hifreq gets movement only, a fix of a yard crane is written once by a
\* process, and a tick of truck_pos_hist has every fresh truck, although the tasks
\* forget, are cut off by the cap, and start again.
THEOREM PositionHistory == FeedSpec => FixHistory
<1>1. ClockInit /\ FeedInit => FeedIInv
  BY FeedStart
<1>2. FeedIInv /\ [FeedNext]_<<now, feedVars>> => FeedIInv'
  BY FeedStep
<1>3. FeedIInv /\ [FeedNext]_<<now, feedVars>> =>
        [\A d \in TTs :
          /\ hifreq'[d] # hifreq[d] /\ hifreq[d].at > 0
          /\ hifreq'[d].run = hifreq[d].run
          /\ hifreq'[d].at - hifreq[d].at < CacheKeep
          => hifreq'[d].place # hifreq[d].place]_<<now, feedVars>>
  BY MovesOnly
<1>4. FeedIInv /\ [FeedNext]_<<now, feedVars>> =>
        [\A d \in RTGs :
          rtgpos'[d] # rtgpos[d] /\ rtgpos'[d].run = rtgpos[d].run
          => rtgpos'[d].seen > rtgpos[d].seen]_<<now, feedVars>>
  BY NewFixOnly
<1>5. FeedIInv /\ [FeedNext]_<<now, feedVars>> =>
        [poshist' # poshist => poshist'.trucks = FreshTTs]_<<now, feedVars>>
  BY TickComplete
<1> QED
  BY <1>1, <1>2, <1>3, <1>4, <1>5, PTL DEF FeedSpec, FixHistory, HifreqMoves, FixOnce, WholeTick

--------------------------------------------------------------------------------
PlcTypes ==
    /\ now \in Nat \ {0} /\ pruns \in Nat
    /\ plc \in [seen : Nat, laden : BOOLEAN, moves : Seq(Nat), last : Nat]
    /\ last_edge \in Nat /\ edge \in [at : Nat, run : Nat]
    /\ counted \in SUBSET Nat

\* The moves are a cycle apart, and the list has those of the last hour.
MovesCounted ==
    /\ plc.last <= plc.seen /\ plc.seen <= now
    /\ \A ts \in counted : 0 < ts /\ ts <= plc.last
    /\ \A a, b \in counted : a < b => b - a >= MoveGap
    /\ ToSet(plc.moves) \subseteq counted
    /\ \A ts \in counted : now - ts <= MoveWindow => ts \in ToSet(plc.moves)

\* The move written last is one of the counted ones, or, once the crane was
\* forgotten, a cycle before all of them and before now.
EdgeKnown ==
    /\ edge.run <= pruns
    /\ edge.run = pruns /\ edge.at > 0 => last_edge = edge.at
    /\ last_edge > 0 =>
        /\ edge.at = last_edge
        /\ \/ last_edge \in counted
           \/ /\ now - last_edge >= MoveGap
              /\ \A ts \in counted : ts - last_edge >= MoveGap

PlcIInv == PlcTypes /\ MovesCounted /\ EdgeKnown

LEMMA AppendedSet ==
    ASSUME NEW moves \in Seq(Nat), NEW ts \in Nat
    PROVE  ToSet(Append(moves, ts)) = ToSet(moves) \cup {ts}
<1> DEFINE longer == Append(moves, ts)
           n == Len(moves)
<1>1. /\ n \in Nat /\ DOMAIN moves = 1..n /\ DOMAIN longer = 1..(n + 1)
      /\ longer[n + 1] = ts /\ \A i \in 1..n : longer[i] = moves[i]
  OBVIOUS
<1> HIDE DEF longer, n
<1>2. ASSUME NEW i \in 1..(n + 1)
      PROVE  longer[i] \in ToSet(moves) \cup {ts}
  <2>1. i \in 1..n \/ i = n + 1
    BY <1>1
  <2> QED
    BY <1>1, <2>1 DEF ToSet
<1>3. ASSUME NEW i \in 1..n
      PROVE  moves[i] \in ToSet(longer)
  <2>1. i \in 1..(n + 1)
    BY <1>1
  <2> QED
    BY <1>1, <2>1 DEF ToSet
<1>4. ts \in ToSet(longer)
  <2>1. n + 1 \in 1..(n + 1)
    BY <1>1
  <2> QED
    BY <1>1, <2>1 DEF ToSet
<1>5. ToSet(longer) = ToSet(moves) \cup {ts}
  BY <1>1, <1>2, <1>3, <1>4 DEF ToSet
<1> QED
  BY <1>5 DEF longer

\* What trimming keeps of a list whose newest move is in the window: moves of the
\* list, and all of those in the window.
LEMMA Trimmed ==
    ASSUME now \in Nat, NEW moves \in Seq(Nat), Len(moves) > 0, moves[Len(moves)] = now
    PROVE  /\ PopOld(moves) \in Seq(Nat)
           /\ ToSet(PopOld(moves)) \subseteq ToSet(moves)
           /\ \A ts \in ToSet(moves) : now - ts <= MoveWindow => ts \in ToSet(PopOld(moves))
<1> DEFINE n == Len(moves)
           inside == {k \in 1..n : now - moves[k] <= MoveWindow}
           R == OpToRel(<, Nat)
<1>0. MoveWindow \in Nat /\ now \in Nat
  BY PlcAssumption
<1>1. n \in Nat /\ DOMAIN moves = 1..n /\ \A k \in 1..n : moves[k] \in Nat
  OBVIOUS
<1>2. inside \subseteq Nat /\ inside # {}
  <2>2. n \in 1..n /\ now - moves[n] <= MoveWindow
    BY <1>0, <1>1
  <2>3. n \in inside
    BY <2>2
  <2>4. 1..n \subseteq Nat
    BY <1>1
  <2> QED
    BY <2>3, <2>4
<1>3. PICK k \in inside : \A y \in inside : ~(<<y, k>> \in R)
  <2>1. IsWellFoundedOn(R, Nat)
    BY NatLessThanWellFounded
  <2> HIDE DEF inside, R
  <2> QED
    BY <1>2, <2>1, WFMin
<1>4. \A y \in inside : ~(y < k)
  BY <1>2, <1>3 DEF OpToRel
<1> HIDE DEF R
<1>5. k \in 1..n /\ now - moves[k] <= MoveWindow /\ \A i \in 1..(k - 1) : now - moves[i] > MoveWindow
  <2>1. k \in 1..n /\ now - moves[k] <= MoveWindow
    OBVIOUS
  <2>2. ASSUME NEW i \in 1..(k - 1) PROVE now - moves[i] > MoveWindow
    <3>1. i \in 1..n /\ i < k
      BY <1>1, <2>1, <2>2
    <3>2. i \notin inside
      BY <1>4, <3>1
    <3>3. moves[i] \in Nat
      BY <1>1, <3>1
    <3>4. ~(now - moves[i] <= MoveWindow)
      BY <3>1, <3>2
    <3> HIDE DEF n, inside
    <3> QED BY <1>0, <3>3, <3>4
  <2> QED BY <2>1, <2>2
<1> DEFINE Oldest(o) == now - moves[o] <= MoveWindow /\ \A i \in 1..(o - 1) : now - moves[i] > MoveWindow
           oldest == CHOOSE o \in DOMAIN moves : Oldest(o)
<1>6. oldest \in 1..n /\ Oldest(oldest)
  <2>1. \E o \in DOMAIN moves : Oldest(o)
    BY <1>1, <1>5
  <2> HIDE DEF Oldest
  <2> QED
    BY <1>1, <2>1
<1>7. PopOld(moves) = SubSeq(moves, oldest, n)
  BY DEF PopOld
<1> HIDE DEF oldest, inside
<1>8. /\ PopOld(moves) \in Seq(Nat) /\ Len(PopOld(moves)) = n - oldest + 1
      /\ \A i \in 1..(n - oldest + 1) : PopOld(moves)[i] = moves[oldest + i - 1]
  <2>1. \A i \in oldest..n : moves[i] \in Nat
    BY <1>1, <1>6
  <2>2. oldest \in Int /\ n \in Int /\ oldest <= n
    BY <1>1, <1>6
  <2> HIDE DEF n
  <2> QED
    BY <1>7, <2>1, <2>2, SubSeqProperties
<1>9. DOMAIN PopOld(moves) = 1..(n - oldest + 1)
  BY <1>8
<1>10. ToSet(PopOld(moves)) \subseteq ToSet(moves)
  <2>1. \A i \in 1..(n - oldest + 1) : oldest + i - 1 \in 1..n
    BY <1>1, <1>6
  <2> QED
    BY <1>1, <1>8, <1>9, <2>1 DEF ToSet
<1>11. ASSUME NEW ts \in ToSet(moves), now - ts <= MoveWindow
       PROVE  ts \in ToSet(PopOld(moves))
  <2>1. PICK i \in 1..n : ts = moves[i]
    BY <1>1 DEF ToSet
  <2>2. i >= oldest
    <3>1. ~(i \in 1..(oldest - 1))
      <4>1. now - moves[i] <= MoveWindow /\ moves[i] \in Nat
        BY <1>1, <1>11, <2>1
      <4>2. \A m \in 1..(oldest - 1) : now - moves[m] > MoveWindow
        BY <1>6
      <4> QED
        BY <1>0, <4>1, <4>2
    <3> QED
      BY <1>1, <1>6, <3>1
  <2>3. i - oldest + 1 \in 1..(n - oldest + 1) /\ oldest + (i - oldest + 1) - 1 = i
    BY <1>1, <1>6, <2>2
  <2>4. PopOld(moves)[i - oldest + 1] = moves[i]
    BY <1>8, <2>3
  <2> QED
    BY <1>9, <2>1, <2>3, <2>4 DEF ToSet
<1> QED
  BY <1>8, <1>10, <1>11

LEMMA PlcStart ==
    ASSUME ClockInit, PlcInit
    PROVE  PlcIInv
BY PlcAssumption DEF ClockInit, PlcInit, NoPlc, PlcIInv, PlcTypes, MovesCounted, EdgeKnown, ToSet

\* A frame: a pickup is a cycle after the last counted move.
LEMMA FrameStep ==
    ASSUME PlcIInv, NEW load \in {"none", "empty", "between", "laden"}, Frame(load)
    PROVE  PlcIInv'
<1>0. /\ PlcTypes /\ MovesCounted /\ EdgeKnown
      /\ MoveGap \in Nat /\ MoveWindow \in Nat /\ MoveGap < MoveWindow
  BY PlcAssumption DEF PlcIInv
<1> DEFINE laden == NowLaden(load)
           pickup == IsPickup(laden)
<1>1. laden \in BOOLEAN
  BY <1>0 DEF NowLaden, PlcTypes
<1>2. /\ plc' = [seen |-> now, laden |-> laden,
                 moves |-> IF pickup THEN PopOld(Append(plc.moves, now)) ELSE plc.moves,
                 last |-> IF pickup THEN now ELSE plc.last]
      /\ counted' = IF pickup THEN counted \cup {now} ELSE counted
      /\ UNCHANGED <<now, last_edge, edge, pruns>>
  BY DEF Frame
<1>3. pickup => plc.last = 0 \/ now - plc.last >= MoveGap
  BY DEF IsPickup
<1> HIDE DEF laden, pickup
<1>4. /\ now \in Nat \ {0} /\ plc.last \in Nat /\ plc.moves \in Seq(Nat) /\ plc.seen \in Nat
      /\ counted \in SUBSET Nat
  BY <1>0 DEF PlcTypes
<1>5. CASE ~pickup
  <2>1. plc'.seen = now /\ plc'.last = plc.last /\ plc'.moves = plc.moves /\ counted' = counted
    BY <1>2, <1>5
  <2>2. PlcTypes'
    BY <1>0, <1>1, <1>2, <1>4, <1>5 DEF PlcTypes
  <2>3. MovesCounted'
    BY <1>0, <1>2, <1>4, <2>1 DEF MovesCounted
  <2>4. EdgeKnown'
    BY <1>0, <1>2, <2>1 DEF EdgeKnown
  <2> QED
    BY <2>2, <2>3, <2>4 DEF PlcIInv
<1>6. CASE pickup
  <2> DEFINE longer == Append(plc.moves, now)
  <2>1. /\ longer \in Seq(Nat) /\ Len(longer) > 0 /\ longer[Len(longer)] = now
        /\ ToSet(longer) = ToSet(plc.moves) \cup {now}
    <3>1. /\ longer \in Seq(Nat) /\ Len(longer) = Len(plc.moves) + 1 /\ Len(plc.moves) \in Nat
          /\ longer[Len(plc.moves) + 1] = now
      BY <1>4
    <3> HIDE DEF longer
    <3>2. Len(longer) > 0 /\ longer[Len(longer)] = now
      BY <3>1
    <3> QED
      BY <1>4, <3>1, <3>2, AppendedSet DEF longer
  <2> HIDE DEF longer
  <2>2. /\ plc'.seen = now /\ plc'.last = now /\ plc'.moves = PopOld(longer)
        /\ counted' = counted \cup {now}
    BY <1>2, <1>6 DEF longer
  <2>3. /\ PopOld(longer) \in Seq(Nat)
        /\ ToSet(PopOld(longer)) \subseteq ToSet(longer)
        /\ \A ts \in ToSet(longer) : now - ts <= MoveWindow => ts \in ToSet(PopOld(longer))
    BY <1>4, <2>1, Trimmed
  <2>4. PlcTypes'
    <3>1. plc' = [seen |-> now, laden |-> laden, moves |-> PopOld(longer), last |-> now]
      BY <1>2, <1>6 DEF longer
    <3> QED
      BY <1>0, <1>1, <1>2, <1>4, <2>2, <2>3, <3>1 DEF PlcTypes
  <2>5. \A ts \in counted : ts \in Nat /\ now - ts >= MoveGap /\ ts > 0
    BY <1>0, <1>3, <1>4, <1>6 DEF MovesCounted
  <2>6. MovesCounted'
    <3>1. \A ts \in counted' : 0 < ts /\ ts <= plc'.last
      BY <1>0, <1>4, <2>2, <2>5
    <3>2. \A a, b \in counted' : a < b => b - a >= MoveGap
      BY <1>0, <1>4, <2>2, <2>5 DEF MovesCounted
    <3>3. ToSet(plc'.moves) \subseteq counted'
      BY <1>0, <2>1, <2>2, <2>3 DEF MovesCounted
    <3>4. \A ts \in counted' : now - ts <= MoveWindow => ts \in ToSet(plc'.moves)
      BY <1>0, <2>1, <2>2, <2>3 DEF MovesCounted
    <3> QED
      BY <1>0, <1>2, <1>4, <2>2, <3>1, <3>2, <3>3, <3>4 DEF MovesCounted
  <2>7. EdgeKnown'
    BY <1>0, <1>2, <1>4, <2>2 DEF EdgeKnown
  <2> QED
    BY <2>4, <2>6, <2>7 DEF PlcIInv
<1> QED
  BY <1>5, <1>6

\* A crane silent so long is forgotten, the move written last is not: it is by then
\* a cycle before whatever its hook does next.
LEMMA ForgetStep ==
    ASSUME PlcIInv, ForgetCrane
    PROVE  PlcIInv'
<1> USE PlcAssumption DEF PlcIInv
<1>1. /\ plc' = NoPlc /\ counted' = {} /\ UNCHANGED <<now, last_edge, edge, pruns>>
      /\ plc.seen < now - PlcLost
  BY DEF ForgetCrane
<1>2. PlcTypes' /\ MovesCounted'
  BY <1>1 DEF PlcTypes, MovesCounted, NoPlc, ToSet
<1>3. EdgeKnown'
  <2>1. last_edge \in counted => now - last_edge >= MoveGap
    BY <1>1 DEF PlcTypes, MovesCounted
  <2> QED
    BY <1>1, <2>1 DEF EdgeKnown
<1> QED
  BY <1>2, <1>3

LEMMA WriteStep ==
    ASSUME PlcIInv, HandoverTick
    PROVE  PlcIInv'
<1> USE DEF PlcIInv
<1>1. UNCHANGED <<now, plc, counted, pruns>>
  BY DEF HandoverTick
<1>2. CASE UNCHANGED <<last_edge, edge>>
  BY <1>1, <1>2 DEF PlcTypes, MovesCounted, EdgeKnown
<1>3. CASE \E ts \in DueEdges : /\ last_edge' = ts
                              /\ edge' = IF ts = edge.at THEN edge ELSE [at |-> ts, run |-> pruns]
  <2>1. PICK ts \in DueEdges : /\ last_edge' = ts
                              /\ edge' = IF ts = edge.at THEN edge ELSE [at |-> ts, run |-> pruns]
    BY <1>3
  <2>2. ts \in counted /\ ts \in Nat /\ edge \in [at : Nat, run : Nat] /\ pruns \in Nat
    BY DEF DueEdges, MovesCounted, PlcTypes
  <2>3. edge' \in [at : Nat, run : Nat] /\ edge'.at = ts /\ edge'.run <= pruns
    BY <2>1, <2>2 DEF EdgeKnown
  <2> QED
    BY <1>1, <2>1, <2>2, <2>3 DEF PlcTypes, MovesCounted, EdgeKnown
<1> QED
  BY <1>2, <1>3 DEF HandoverTick

LEMMA PlcStepInv ==
    ASSUME PlcIInv, [PlcNext]_<<now, plcVars>>
    PROVE  PlcIInv'
<1> USE DEF PlcIInv
<1>0. MoveGap \in Nat /\ MoveWindow \in Nat
  BY PlcAssumption
<1>1. CASE CtabConnect \/ CtabEnd \/ UNCHANGED <<now, plcVars>>
  BY <1>1 DEF CtabConnect, CtabEnd, plcVars, PlcTypes, MovesCounted, EdgeKnown
<1>2. CASE RestartPlc
  <2>1. /\ plc' = NoPlc /\ last_edge' = 0 /\ counted' = {} /\ pruns' = pruns + 1
        /\ UNCHANGED <<now, edge>>
    BY <1>2 DEF RestartPlc
  <2>2. now \in Nat /\ pruns \in Nat /\ edge \in [at : Nat, run : Nat] /\ edge.run <= pruns
    BY DEF PlcTypes, EdgeKnown
  <2>3. PlcTypes'
    BY <2>1 DEF PlcTypes, NoPlc
  <2>4. MovesCounted'
    BY <2>1, <2>2 DEF MovesCounted, NoPlc, ToSet
  <2>5. EdgeKnown'
    BY <2>1, <2>2 DEF EdgeKnown
  <2> QED
    BY <2>3, <2>4, <2>5
<1>3. CASE PlcTick
  <2>1. now \in Nat /\ now' = now + 1 /\ UNCHANGED <<plc, last_edge, edge, counted, pruns>>
    BY <1>3 DEF PlcTick, Advance, PlcTypes, plcVars
  <2>2. PlcTypes'
    <3>1. now' \in Nat \ {0}
      BY <2>1
    <3> QED
      BY <2>1, <3>1 DEF PlcTypes
  <2>3. last_edge \in Nat /\ MoveGap \in Nat /\ MoveWindow \in Nat /\ \A ts \in counted : ts \in Nat
    BY <1>0 DEF PlcTypes
  <2>4. EdgeKnown'
    <3>1. now - last_edge >= MoveGap => now' - last_edge >= MoveGap
      BY <2>1, <2>3
    <3> QED
      BY <2>1, <3>1 DEF EdgeKnown
  <2>5. MovesCounted'
    <3>1. \A ts \in counted : now' - ts <= MoveWindow => now - ts <= MoveWindow
      BY <2>1, <2>3
    <3>2. plc.seen \in Nat
      BY DEF PlcTypes
    <3>3. plc.seen <= now => plc.seen <= now'
      BY <2>1, <3>2
    <3> QED
      BY <2>1, <3>1, <3>3 DEF MovesCounted
  <2> QED
    BY <2>2, <2>4, <2>5
<1> QED
  BY <1>1, <1>2, <1>3, FrameStep, ForgetStep, WriteStep DEF PlcNext

\* A new row is a cycle after the last one of this process.
LEMMA RowsApart ==
    ASSUME PlcIInv, [PlcNext]_<<now, plcVars>>
    PROVE  EdgesApart
<1> USE PlcAssumption DEF PlcIInv
<1>1. SUFFICES ASSUME edge' # edge, edge.at > 0, edge'.run = edge.run
               PROVE  edge'.at - edge.at >= MoveGap
  BY DEF EdgesApart
<1>2. HandoverTick
  BY <1>1 DEF PlcNext, CtabConnect, CtabEnd, Frame, ForgetCrane, RestartPlc, PlcTick, plcVars
<1>3. PICK ts \in DueEdges : edge' = IF ts = edge.at THEN edge ELSE [at |-> ts, run |-> pruns]
  BY <1>1, <1>2 DEF HandoverTick
<1>4. edge'.at = ts /\ edge'.run = pruns
  BY <1>1, <1>3
<1>5. ts \in counted /\ ts \in Nat /\ ts > last_edge /\ last_edge \in Nat
  BY DEF DueEdges, MovesCounted, PlcTypes
<1>6. last_edge = edge.at /\ edge.at > 0
  BY <1>1, <1>4 DEF EdgeKnown
<1> QED
  BY <1>4, <1>5, <1>6 DEF EdgeKnown, MovesCounted

\* What the logger leaves behind: a recent move that was not due was the last written.
LEMMA RecentWritten ==
    ASSUME PlcIInv, [PlcNext]_<<now, plcVars>>
    PROVE  NoEdgeMissed
<1> USE PlcAssumption DEF PlcIInv
<1>1. SUFFICES ASSUME looked' # looked, NEW ts \in counted, now - ts <= EdgeKeep
               PROVE  ts = edge'.at
  BY DEF NoEdgeMissed
<1>2. HandoverTick
  BY <1>1 DEF PlcNext, CtabConnect, CtabEnd, Frame, ForgetCrane, RestartPlc, PlcTick, plcVars
<1>3. /\ now \in Nat /\ \A x \in counted : x \in Nat /\ x <= now /\ x > 0
      /\ last_edge \in Nat /\ edge.at \in Nat
  <2>1. /\ now \in Nat /\ counted \in SUBSET Nat /\ plc.last \in Nat /\ plc.seen \in Nat
        /\ last_edge \in Nat /\ edge.at \in Nat
    BY DEF PlcTypes
  <2> QED
    BY <2>1 DEF MovesCounted
<1>4. ASSUME NEW x \in counted, now - x <= EdgeKeep
      PROVE  x = ts
  <2>1. ~(x < ts) /\ ~(ts < x)
    BY <1>1, <1>3, <1>4 DEF MovesCounted
  <2> QED
    BY <1>3, <2>1
<1>5. ts \in ToSet(plc.moves)
  BY <1>1, <1>3 DEF MovesCounted
<1>6. CASE ts > last_edge
  <2>1. ts \in DueEdges
    BY <1>1, <1>5, <1>6 DEF DueEdges
  <2>2. PICK due \in DueEdges : edge' = IF due = edge.at THEN edge ELSE [at |-> due, run |-> pruns]
    BY <1>2, <2>1 DEF HandoverTick
  <2>3. due = ts
    BY <1>4 DEF DueEdges, MovesCounted
  <2> QED
    BY <2>2, <2>3
<1>7. CASE ~(ts > last_edge)
  <2>1. last_edge > 0 /\ ts <= last_edge
    BY <1>3, <1>7
  <2>2. edge.at = last_edge /\ last_edge \in counted
    BY <1>3, <2>1 DEF EdgeKnown
  <2>3. last_edge = ts
    <3>1. now - last_edge <= EdgeKeep
      BY <1>1, <1>3, <2>1
    <3> QED
      BY <1>4, <2>2, <3>1
  <2>4. DueEdges = {}
    <3>1. ASSUME NEW due \in DueEdges PROVE FALSE
      <4>1. due = ts /\ due > last_edge
        BY <1>4 DEF DueEdges, MovesCounted
      <4> QED
        BY <1>3, <2>3, <4>1
    <3> QED
      BY <3>1
  <2> QED
    BY <1>2, <2>2, <2>3, <2>4 DEF HandoverTick
<1> QED
  BY <1>6, <1>7

\* Whatever the feeds, the pruner and the restarts do: no two rows of one process
\* within a spreader cycle, no recent move missed by the logger, and the moves an
\* hour are the moves counted.
THEOREM HookHandovers == PlcSpec => Handovers
<1>1. ClockInit /\ PlcInit => PlcIInv
  BY PlcStart
<1>2. PlcIInv /\ [PlcNext]_<<now, plcVars>> => PlcIInv'
  BY PlcStepInv
<1>3. PlcIInv => HourCounted
  BY DEF PlcIInv, MovesCounted, HourCounted
<1>4. PlcIInv /\ [PlcNext]_<<now, plcVars>> =>
        [EdgesApart /\ NoEdgeMissed /\ HourCounted]_<<now, plcVars>>
  BY <1>3, RowsApart, RecentWritten
<1> QED
  BY <1>1, <1>2, <1>4, PTL DEF PlcSpec, Handovers

--------------------------------------------------------------------------------
(* TripLog: what the recorders of a truck's trips remember.                     *)

TripTypes ==
    /\ now \in Nat /\ seen \in Nat /\ truck \in View
    /\ soon_open \subseteq Boxes /\ broken \subseteq Boxes
    /\ arr_open \subseteq Boxes /\ arr_broken \subseteq Boxes
    /\ preds.box \in Boxes \cup {Nothing} /\ arrivals.box \in Boxes \cup {Nothing}
    /\ mm \in [dest : Targets \cup {Nothing}, started : Nat, last : Nat,
               progress : Nat, routed : BOOLEAN]
    /\ mmrow.to \in Nat

\* The box of the newest row is remembered, or a tick did not see the truck with it.
RecordedOrBroken ==
    /\ preds.box # Nothing => preds.box \in soon_open \cup broken
    /\ arrivals.box # Nothing => arrivals.box \in arr_open \cup arr_broken

\* The leg under way began when the recorded ones were over.
LegIsNew ==
    /\ mm.last <= now /\ mmrow.to <= now
    /\ mm.started > 0 => mm.started >= mmrow.to

TripIInv == TripTypes /\ RecordedOrBroken /\ LegIsNew

LEMMA TripStart ==
    ASSUME ClockInit, TripInit
    PROVE  TripIInv
<1>1. truck \in View
  BY ViewsAssumption DEF TripInit
<1> QED
  BY <1>1 DEF ClockInit, TripInit, TripIInv, TripTypes, RecordedOrBroken, LegIsNew, NoRow,
              NoEntry, Nothing

\* The box a tick sees on a truck is a box.
LEMMA BoxSeen ==
    ASSUME TripTypes
    PROVE  /\ Container(truck) \in Boxes \cup {Nothing}
           /\ Carried(truck) \in Boxes \cup {Nothing}
BY DEF TripTypes, View, Container, Carried

\* What one tick of spawn_soon_idle_logger does to its memory and its table.
LEMMA SoonTickRows ==
    ASSUME TripIInv, SoonTick
    PROVE  /\ soon_open' \subseteq Boxes /\ broken' \subseteq Boxes
           /\ preds'.box \in Boxes \cup {Nothing}
           /\ preds'.box # Nothing => preds'.box \in soon_open' \cup broken'
           /\ PredictedOnce /\ PredictedAtDrop
<1> DEFINE cur == IF TruckFresh THEN {Container(truck)} \ {Nothing} ELSE {}
           enters == TruckFresh /\ classify_tt(truck) = "soon_idle" /\ cur # {}
                       /\ cur \cap Retain(soon_open, cur) = {}
<1>1. cur \subseteq Boxes
  BY BoxSeen DEF TripIInv
<1>2. /\ soon_open' = IF enters THEN Retain(soon_open, cur) \cup cur ELSE Retain(soon_open, cur)
      /\ preds' = IF enters THEN [box |-> Container(truck), at |-> now] ELSE preds
      /\ broken' = (broken \cup (Boxes \ cur)) \ (IF preds' # preds THEN cur ELSE {})
  BY DEF SoonTick
<1>3. CASE enters
  <2>1. cur = {Container(truck)} /\ Container(truck) # Nothing
    BY <1>3
  <2>2. preds'.box = Container(truck) /\ Container(truck) \in soon_open'
    BY <1>2, <1>3, <2>1
  <2>3. Container(truck) \notin soon_open
    BY <1>3, <2>1 DEF Retain
  <2>4. PredictedOnce
    BY <2>1, <2>2, <2>3 DEF PredictedOnce, TripIInv, RecordedOrBroken
  <2>5. PredictedAtDrop
    <3>1. drop_at_crane(truck) = to_crane(truck.topos) /\ Arrived(truck)
      BY <1>3 DEF classify_tt
    <3> QED BY <3>1 DEF PredictedAtDrop, drop_at_crane, Nothing
  <2> QED BY <1>1, <1>2, <2>1, <2>2, <2>4, <2>5 DEF Retain, TripIInv, TripTypes
<1>4. CASE ~ enters
  <2>1. preds' = preds /\ soon_open' = soon_open \cap cur /\ broken' = broken \cup (Boxes \ cur)
    BY <1>2, <1>4 DEF Retain
  <2> HIDE DEF cur, enters
  <2> QED BY <1>1, <2>1 DEF TripIInv, TripTypes, RecordedOrBroken, PredictedOnce, PredictedAtDrop
<1> QED BY <1>3, <1>4

\* The same for spawn_wp_arrival_logger.
LEMMA ArrivalTickRows ==
    ASSUME TripIInv, ArrivalTick
    PROVE  /\ arr_open' \subseteq Boxes /\ arr_broken' \subseteq Boxes
           /\ arrivals'.box \in Boxes \cup {Nothing}
           /\ arrivals'.box # Nothing => arrivals'.box \in arr_open' \cup arr_broken'
           /\ ArrivedOnce
<1> DEFINE cur == IF TruckFresh /\ OnTrip(truck) THEN {Carried(truck)} ELSE {}
           first == truck.wp = "tight" /\ cur # {} /\ cur \cap arr_open = {}
<1>1. cur \subseteq Boxes
  BY BoxSeen DEF TripIInv, OnTrip
<1>2. /\ arr_open' = (arr_open \cap cur) \cup (IF first THEN cur ELSE {})
      /\ arrivals' = IF first THEN [box |-> Carried(truck), at |-> now] ELSE arrivals
      /\ arr_broken' = (arr_broken \cup (Boxes \ cur)) \ (IF first THEN cur ELSE {})
  BY DEF ArrivalTick
<1>3. CASE first
  <2>1. cur = {Carried(truck)} /\ Carried(truck) # Nothing
    BY <1>3 DEF OnTrip
  <2>2. arrivals'.box = Carried(truck) /\ Carried(truck) \in arr_open' /\ Carried(truck) \notin arr_open
    BY <1>2, <1>3, <2>1
  <2>3. ArrivedOnce
    BY <2>1, <2>2 DEF ArrivedOnce, TripIInv, RecordedOrBroken
  <2> QED BY <1>1, <1>2, <2>1, <2>2, <2>3 DEF TripIInv, TripTypes
<1>4. CASE ~ first
  <2>1. arrivals' = arrivals /\ arr_open' = arr_open \cap cur
        /\ arr_broken' = arr_broken \cup (Boxes \ cur)
    BY <1>2, <1>4
  <2> HIDE DEF cur, first
  <2> QED BY <1>1, <2>1 DEF TripIInv, TripTypes, RecordedOrBroken, ArrivedOnce
<1> QED BY <1>3, <1>4

\* The same for spawn_mapmatch_shadow: a leg is written when its entry is given up.
LEMMA MatchTickRows ==
    ASSUME TripIInv, MatchTick
    PROVE  /\ mm' \in [dest : Targets \cup {Nothing}, started : Nat, last : Nat,
                       progress : Nat, routed : BOOLEAN]
           /\ mmrow'.to \in Nat /\ LegIsNew' /\ LegsApart
<1> USE TripAssumption
<1> DEFINE here == seen > 0 /\ now - seen <= TripLost
           begun == [dest |-> truck.topos, started |-> now, last |-> now, progress |-> 0,
                     routed |-> truck.routed]
           ends == mm_finalize(mm) /\ ~(here /\ truck.topos = mm.dest)
           Same == here /\ truck.topos = mm.dest /\ mm.started # 0
<1>1. /\ mmrow' = IF ends THEN [from |-> mm.started, to |-> mm.last, at |-> now] ELSE mmrow
      /\ mm' = IF here THEN Project(LegEntry(truck), truck) ELSE NoEntry
      /\ now' = now
  BY DEF MatchTick
<1>2. /\ now \in Nat /\ truck \in View /\ mm.started \in Nat /\ mm.last \in Nat
      /\ mm.progress \in Nat /\ mm.routed \in BOOLEAN /\ mm.dest \in Targets \cup {Nothing}
      /\ mm.last <= now /\ mmrow.to <= now /\ mmrow.to \in Nat
      /\ mm.started > 0 => mm.started >= mmrow.to
      /\ mm \in [dest : Targets \cup {Nothing}, started : Nat, last : Nat,
                 progress : Nat, routed : BOOLEAN]
  BY DEF TripIInv, TripTypes, LegIsNew
<1>3. /\ truck.topos \in Targets \cup {Nothing} /\ truck.routed \in BOOLEAN
      /\ truck.pos \in Nat /\ MinLeg \in Nat
  BY <1>2 DEF View
<1>4. here => LegEntry(truck) \in {NoEntry, begun} \/ (Same /\ LegEntry(truck) = mm)
  BY DEF LegEntry
<1>5. \A e \in {NoEntry, mm, begun} :
        /\ Project(e, truck) \in [dest : Targets \cup {Nothing}, started : Nat, last : Nat,
                                  progress : Nat, routed : BOOLEAN]
        /\ Project(e, truck).started = e.started /\ Project(e, truck).last <= now
  <2> SUFFICES ASSUME NEW e \in {NoEntry, mm, begun}
               PROVE  /\ Project(e, truck) \in [dest : Targets \cup {Nothing}, started : Nat, last : Nat,
                                  progress : Nat, routed : BOOLEAN]
                      /\ Project(e, truck).started = e.started /\ Project(e, truck).last <= now
    OBVIOUS
  <2>1. /\ e \in [dest : Targets \cup {Nothing}, started : Nat, last : Nat,
                  progress : Nat, routed : BOOLEAN]
        /\ e.last <= now
    <3>1. CASE e = NoEntry
      BY <1>2, <3>1 DEF NoEntry
    <3>2. CASE e = mm
      BY <1>2, <3>2
    <3>3. CASE e = begun
      BY <1>2, <1>3, <3>3
    <3> QED BY <3>1, <3>2, <3>3
  <2> HIDE DEF begun, here, ends, Same
  <2>2. CASE e.routed
    <3>1. Project(e, truck) =
            [e EXCEPT !.progress = IF truck.pos > e.progress THEN truck.pos ELSE e.progress,
                      !.last = now]
      BY <2>2 DEF Project
    <3>2. PICK n \in Nat : n = IF truck.pos > e.progress THEN truck.pos ELSE e.progress
      BY <1>3, <2>1
    <3>3. Project(e, truck) = [e EXCEPT !.progress = n, !.last = now]
      BY <3>1, <3>2
    <3>4. Project(e, truck) = [dest |-> e.dest, started |-> e.started, last |-> now,
                               progress |-> n, routed |-> e.routed]
      BY <2>1, <3>3
    <3> QED BY <1>2, <2>1, <3>2, <3>4
  <2>3. CASE ~ e.routed
    BY <2>1, <2>3 DEF Project
  <2> QED BY <2>2, <2>3
<1>6. mm' \in [dest : Targets \cup {Nothing}, started : Nat, last : Nat,
               progress : Nat, routed : BOOLEAN]
      /\ mm'.last <= now
  <2>1. CASE here
    BY <1>1, <1>4, <1>5, <2>1
  <2>2. CASE ~ here
    BY <1>1, <1>2, <2>2 DEF NoEntry
  <2> QED BY <2>1, <2>2
<1>7. mm'.started \in {0, now} \/ (Same /\ mm'.started = mm.started)
  <2>1. CASE here
    BY <1>1, <1>4, <1>5, <2>1 DEF NoEntry
  <2>2. CASE ~ here
    BY <1>1, <2>2 DEF NoEntry
  <2> QED BY <2>1, <2>2
<1> HIDE DEF begun
<1>8. CASE ends
  <2>1. mmrow'.to = mm.last /\ mmrow'.from = mm.started /\ mm.started > 0
        /\ mm.last - mm.started >= MinLeg
    BY <1>1, <1>8 DEF mm_finalize
  <2>2. ~ Same
    BY <1>8
  <2>3. LegsApart
    BY <1>2, <1>3, <2>1 DEF LegsApart
  <2> HIDE DEF Same, ends
  <2>4. LegIsNew'
    BY <1>1, <1>2, <1>6, <1>7, <2>1, <2>2 DEF LegIsNew
  <2> QED BY <1>2, <1>6, <2>1, <2>3, <2>4
<1>9. CASE ~ ends
  <2>1. mmrow' = mmrow
    BY <1>1, <1>9
  <2> HIDE DEF Same, ends
  <2>2. LegIsNew'
    BY <1>1, <1>2, <1>6, <1>7, <2>1 DEF LegIsNew
  <2> QED BY <1>2, <1>6, <2>1, <2>2 DEF LegsApart
<1> QED BY <1>8, <1>9

\* Every other step keeps the rows, and the memory unless the process restarts.
LEMMA TripQuiet ==
    ASSUME TripIInv,
           \/ \E v \in Views : Report(v)
           \/ Forget \/ RestartTrip \/ TripTick \/ UNCHANGED <<now, tripVars>>
    PROVE  TripIInv' /\ UNCHANGED <<preds, arrivals, mmrow>>
<1> USE TripAssumption, ViewsAssumption DEF TripIInv, TripTypes, RecordedOrBroken, LegIsNew
<1>1. CASE \E v \in Views : Report(v)
  BY <1>1 DEF Report, soonVars, arrVars, mmVars
<1>2. CASE Forget
  BY <1>2 DEF Forget, soonVars, arrVars, mmVars
<1>3. CASE RestartTrip
  BY <1>3 DEF RestartTrip, NoEntry
<1>4. CASE TripTick
  BY <1>4 DEF TripTick, Advance, tripVars, soonVars, arrVars, mmVars
<1>5. CASE UNCHANGED <<now, tripVars>>
  BY <1>5 DEF tripVars, soonVars, arrVars, mmVars
<1> QED BY <1>1, <1>2, <1>3, <1>4, <1>5

TripRow == PredictedOnce /\ PredictedAtDrop /\ ArrivedOnce /\ LegsApart

LEMMA TripStep == TripIInv /\ [TripNext]_<<now, tripVars>> => TripIInv' /\ TripRow
<1> SUFFICES ASSUME TripIInv, [TripNext]_<<now, tripVars>> PROVE TripIInv' /\ TripRow
  OBVIOUS
<1> USE DEF soonVars, arrVars, mmVars
<1>1. CASE SoonTick
  <2>1. UNCHANGED <<now, truck, seen, arrVars, mmVars>>
    BY <1>1 DEF SoonTick
  <2> QED BY <1>1, <2>1, SoonTickRows DEF TripIInv, TripTypes, RecordedOrBroken, LegIsNew,
            TripRow, ArrivedOnce, LegsApart
<1>2. CASE ArrivalTick
  <2>1. UNCHANGED <<now, truck, seen, soonVars, mmVars>>
    BY <1>2 DEF ArrivalTick
  <2> QED BY <1>2, <2>1, ArrivalTickRows DEF TripIInv, TripTypes, RecordedOrBroken, LegIsNew,
            TripRow, PredictedOnce, PredictedAtDrop, LegsApart
<1>3. CASE MatchTick
  <2>1. UNCHANGED <<now, truck, seen, soonVars, arrVars>>
    BY <1>3 DEF MatchTick
  <2> QED BY <1>3, <2>1, MatchTickRows DEF TripIInv, TripTypes, RecordedOrBroken,
            TripRow, PredictedOnce, PredictedAtDrop, ArrivedOnce
<1>4. CASE \/ \E v \in Views : Report(v)
           \/ Forget \/ RestartTrip \/ TripTick \/ UNCHANGED <<now, tripVars>>
  BY <1>4, TripQuiet DEF TripRow, PredictedOnce, PredictedAtDrop, ArrivedOnce, LegsApart
<1> QED BY <1>1, <1>2, <1>3, <1>4 DEF TripNext

\* The recorders of a truck write one row per trip and leg, at the place it is
\* about: spawn_soon_idle_logger and spawn_wp_arrival_logger do not write a box
\* twice while every tick sees the truck with it, a prediction is made where the
\* job frees the truck, and the legs of spawn_mapmatch_shadow neither overlap nor
\* fall below MinLeg, whatever the truck reports and however often it is lost.
THEOREM TripsRecordedOnce == TripSpec => TripRows
<1>1. ClockInit /\ TripInit => TripIInv
  BY TripStart
<1>2. TripIInv /\ [TripNext]_<<now, tripVars>> => [TripRow]_<<now, tripVars>>
  BY TripStep
<1> QED
  BY <1>1, <1>2, TripStep, PTL DEF TripSpec, TripRows, TripRow

--------------------------------------------------------------------------------
(* TruckCycle.  A message passes through the stages of Ingest; each lemma says *)
(* what a stage leaves alone, whatever the message.                            *)

\* The record has the fields of NoPos.
PosShape(q) ==
    /\ DOMAIN q = DOMAIN NoPos
    /\ DOMAIN q.open = DOMAIN NoOpen
    /\ DOMAIN q.v2 = DOMAIN NoV2

CarryKept(q, r) ==
    /\ PosShape(r)
    /\ r.c1 = q.c1 /\ r.c2 = q.c2 /\ r.carry_since = q.carry_since /\ r.last_drop = q.last_drop

LegsKept(q, r) ==
    /\ CarryKept(q, r)
    /\ r.v2.legs = q.v2.legs /\ (q.v2.opened # 0 => r.v2.opened # 0)

IsList(s) == s \in Seq(Range(s))

LEMMA ArriveOpenKeeps ==
    ASSUME NEW q, NEW m, NEW t, PosShape(q)
    PROVE  CarryKept(q, ArriveOpen(q, m, t)) /\ ArriveOpen(q, m, t).v2 = q.v2
BY DEF PosShape, CarryKept, ArriveOpen, NoPos, NoOpen, NoV2

LEMMA ArriveEmptyKeeps ==
    ASSUME NEW q, NEW m, NEW t, PosShape(q)
    PROVE  CarryKept(q, ArriveEmpty(q, m, t)) /\ ArriveEmpty(q, m, t).v2 = q.v2
BY DEF PosShape, CarryKept, ArriveEmpty, NoPos, NoOpen, NoV2

LEMMA ArriveCraneKeeps ==
    ASSUME NEW q, NEW m, NEW t, PosShape(q)
    PROVE  CarryKept(q, ArriveCrane(q, m, t)) /\ ArriveCrane(q, m, t).v2 = q.v2
BY DEF PosShape, CarryKept, ArriveCrane, NoPos, NoOpen, NoV2

\* The record when the tracker looks at the box: the slots of the message, the
\* carry and the legs of the record before.
Arrived1(m, t) == ArriveCrane(ArriveEmpty(ArriveOpen(Carry(m, t), m, t), m, t), m, t)

LEMMA ArrivedRecord ==
    ASSUME NEW m, NEW t, PosShape(p)
    PROVE  LET q == Arrived1(m, t)
           IN  /\ PosShape(q) /\ q.c1 = m.c1 /\ q.c2 = m.c2
               /\ q.carry_since = p.carry_since /\ q.last_drop = p.last_drop /\ q.v2 = p.v2
<1> DEFINE q0 == Carry(m, t)
           q1 == ArriveOpen(q0, m, t)
           q2 == ArriveEmpty(q1, m, t)
           q3 == ArriveCrane(q2, m, t)
<1>1. /\ PosShape(q0) /\ q0.c1 = m.c1 /\ q0.c2 = m.c2 /\ q0.v2 = p.v2
      /\ q0.carry_since = p.carry_since /\ q0.last_drop = p.last_drop
  BY DEF Carry, PosShape, NoPos, NoOpen, NoV2
<1> HIDE DEF q0
<1>2. CarryKept(q0, q1) /\ q1.v2 = q0.v2
  BY <1>1, ArriveOpenKeeps
<1> HIDE DEF q1
<1>3. CarryKept(q1, q2) /\ q2.v2 = q1.v2
  BY <1>2, ArriveEmptyKeeps DEF CarryKept
<1> HIDE DEF q2
<1>4. CarryKept(q2, q3) /\ q3.v2 = q2.v2
  BY <1>3, ArriveCraneKeeps DEF CarryKept
<1>5. q3 = Arrived1(m, t)
  BY DEF q0, q1, q2, Arrived1
<1> QED BY <1>1, <1>2, <1>3, <1>4, <1>5 DEF CarryKept

\* A change of box starts a carry or ends one; a delivery is remembered.
LEMMA BoxChangeCarry ==
    ASSUME NEW q, NEW m, NEW t, PosShape(q)
    PROVE  LET r == BoxChange(q, m, t)
           IN  /\ PosShape(r) /\ r.c1 = q.c1 /\ r.c2 = q.c2 /\ r.v2 = q.v2
               /\ r.last_drop = IF Delivered(q, m, t) THEN t ELSE q.last_drop
               /\ r.carry_since = IF m.c1 = p.c1 \/ slot_swap(m) THEN q.carry_since
                                  ELSE IF m.c1 = No THEN 0 ELSE t
<1> DEFINE told == IF Delivered(q, m, t)
                   THEN [q EXCEPT !.last_drop = t, !.open = NoOpen, !.box = No] ELSE q
           next == IF p.c1 # No THEN [told EXCEPT !.empty_since = t] ELSE told
           loaded1 == [next EXCEPT !.carry_since = t, !.carry_trip = 0, !.box = m.c1,
                               !.open = open_cycle([next EXCEPT !.box = m.c1], t),
                               !.empty_arrived = 0]
           emptied == [told EXCEPT !.carry_since = 0, !.carry_trip = 0,
                               !.empty_since = t, !.empty_arrived = 0]
           r == BoxChange(q, m, t)
<1>1. /\ PosShape(told) /\ told.c1 = q.c1 /\ told.c2 = q.c2 /\ told.v2 = q.v2
      /\ told.last_drop = IF Delivered(q, m, t) THEN t ELSE q.last_drop
  BY DEF PosShape, NoPos, NoOpen, NoV2
<1>2. CASE m.c1 = p.c1 \/ slot_swap(m)
  BY <1>2 DEF BoxChange, Delivered
<1>3. CASE ~(m.c1 = p.c1 \/ slot_swap(m)) /\ m.c1 = No
  <2>1. r = emptied
    BY <1>3 DEF BoxChange
  <2> HIDE DEF told, r
  <2>2. /\ PosShape(emptied) /\ emptied.c1 = told.c1 /\ emptied.c2 = told.c2
        /\ emptied.v2 = told.v2 /\ emptied.last_drop = told.last_drop /\ emptied.carry_since = 0
    BY <1>1 DEF PosShape, NoPos
  <2> HIDE DEF emptied
  <2>3. QED BY <1>1, <1>3, <2>1, <2>2 DEF r
<1>4. CASE ~(m.c1 = p.c1 \/ slot_swap(m)) /\ m.c1 # No
  <2>1. r = loaded1
    BY <1>4 DEF BoxChange
  <2> HIDE DEF told, r
  <2>2. /\ PosShape(next) /\ next.c1 = told.c1 /\ next.c2 = told.c2
        /\ next.v2 = told.v2 /\ next.last_drop = told.last_drop
    BY <1>1 DEF PosShape, NoPos
  <2>3. DOMAIN open_cycle([next EXCEPT !.box = m.c1], t) = DOMAIN NoOpen
    BY DEF open_cycle
  <2> HIDE DEF next
  <2>4. /\ PosShape(loaded1) /\ loaded1.c1 = next.c1 /\ loaded1.c2 = next.c2
        /\ loaded1.v2 = next.v2 /\ loaded1.last_drop = next.last_drop /\ loaded1.carry_since = t
    BY <2>2, <2>3 DEF PosShape, NoPos
  <2> HIDE DEF loaded1
  <2>5. QED BY <1>1, <1>4, <2>1, <2>2, <2>4 DEF r
<1> QED BY <1>2, <1>3, <1>4

LEMMA TravelStartKeeps ==
    ASSUME NEW q, NEW m, NEW t, PosShape(q)
    PROVE  LegsKept(q, TravelStart(q, m, t))
BY DEF PosShape, CarryKept, LegsKept, TravelStart, NoPos, NoV2

LEMMA ProgressKeeps ==
    ASSUME NEW q, NEW m, NEW t, PosShape(q)
    PROVE  LegsKept(q, Progress(q, m, t))
BY DEF PosShape, CarryKept, LegsKept, Progress, NoPos, NoV2

LEMMA Open2Keeps ==
    ASSUME NEW q, NEW t, PosShape(q), t # 0
    PROVE  LegsKept(q, Open2(q, t)) /\ Open2(q, t).v2.opened # 0
BY DEF PosShape, CarryKept, LegsKept, Open2, NoPos, NoV2

LEMMA PickupLegKeeps ==
    ASSUME NEW q, NEW m, NEW t, PosShape(q), t # 0
    PROVE  LegsKept(q, PickupLeg(q, m, t))
<1> DEFINE o == Open2(q, t)
           target == Or(q.topos, m.loc)
<1>1. LegsKept(q, o)
  BY Open2Keeps
<1> HIDE DEF o
<1>2. \A cur : LegsKept(q, [o EXCEPT !.v2.cur = cur])
  BY <1>1 DEF LegsKept, CarryKept, PosShape, NoPos, NoV2
<1>3. LegsKept(q, [o EXCEPT !.v2.cur.arrived = t, !.v2.cur.src = "container1"])
  BY <1>1 DEF LegsKept, CarryKept, PosShape, NoPos, NoV2
<1>4. LegsKept(q, q)
  BY DEF LegsKept, CarryKept
<1> QED BY <1>1, <1>2, <1>3, <1>4 DEF PickupLeg, o

LEMMA ReopenKeeps ==
    ASSUME NEW q, NEW m, NEW t, PosShape(q)
    PROVE  CarryKept(q, Reopen(q, m, t)) /\ Reopen(q, m, t).v2.legs = <<>>
BY DEF PosShape, CarryKept, Reopen, NoPos, NoV2

\* Taking the second of at least two out of a list keeps the first.
LEMMA RemoveSecond ==
    ASSUME NEW S, NEW s \in Seq(S), Len(s) >= 2
    PROVE  /\ RemoveAt(s, 2) \in Seq(S) /\ RemoveAt(s, 2) # <<>>
           /\ RemoveAt(s, 2)[1] = s[1]
BY DEF RemoveAt

\* A transition appends the leg it ends, and the first one stays first.
LEMMA TransitionKeeps ==
    ASSUME NEW q, NEW m, NEW t, PosShape(q), t # 0, IsList(q.v2.legs)
    PROVE  LET r == Transition(q, m, t)
           IN  /\ CarryKept(q, r) /\ IsList(r.v2.legs)
               /\ q.v2.legs # <<>> => r.v2.legs # <<>> /\ r.v2.legs[1] = q.v2.legs[1]
               /\ q.v2.opened # 0 => r.v2.opened # 0
               /\ r.v2.legs # q.v2.legs => r.v2.opened # 0
<1> DEFINE o == Open2(q, t)
           kept == IF Len(q.v2.legs) >= LegsMax THEN RemoveAt(q.v2.legs, 2) ELSE q.v2.legs
           ended == EndLeg(q.v2.cur, t)
           legs == IF q.v2.cur = NoLeg THEN q.v2.legs ELSE Append(kept, ended)
           leg == NewLeg(m.topos, m, t)
           r == Transition(q, m, t)
<1>1. LegsKept(q, o) /\ o.v2.opened # 0
  BY Open2Keeps
<1>2. CASE m.topos = No \/ m.topos = p.topos \/ m.topos = q.v2.cur.target
  <2>1. r = q
    BY <1>2 DEF Transition
  <2> QED BY <2>1 DEF CarryKept
<1>3. CASE ~(m.topos = No \/ m.topos = p.topos \/ m.topos = q.v2.cur.target)
  <2>1. r = [o EXCEPT !.v2.legs = legs, !.v2.cur = leg]
    BY <1>1, <1>3 DEF Transition, LegsKept, CarryKept, PosShape, NoPos, NoV2
  <2>2. PICK S : S = Range(q.v2.legs) \cup {ended}
    OBVIOUS
  <2>3. q.v2.legs \in Seq(S) /\ ended \in S
    BY <2>2, SeqMonotonic DEF IsList
  <2>4. LegsMax \in Nat /\ LegsMax >= 2
    BY CycleAssumption
  <2> HIDE DEF ended, leg, o
  <2>5. kept \in Seq(S) /\ (q.v2.legs # <<>> => kept # <<>> /\ kept[1] = q.v2.legs[1])
    <3>1. Len(q.v2.legs) \in Nat
      BY <2>3
    <3> QED BY <2>3, <2>4, <3>1, RemoveSecond
  <2> HIDE DEF kept
  <2>6. legs \in Seq(S) /\ (q.v2.legs # <<>> => legs # <<>> /\ legs[1] = q.v2.legs[1])
    <3>1. Append(kept, ended) \in Seq(S) /\ Append(kept, ended) # <<>>
      BY <2>3, <2>5
    <3>2. kept # <<>> => Append(kept, ended)[1] = kept[1]
      BY <2>3, <2>5
    <3> QED BY <2>3, <2>5, <3>1, <3>2
  <2>7. IsList(legs)
    BY <2>6, SeqOfRange DEF IsList
  <2> HIDE DEF legs, r
  <2>8. CarryKept(q, r) /\ r.v2.legs = legs /\ r.v2.opened # 0
    BY <1>1, <2>1 DEF LegsKept, CarryKept, PosShape, NoPos, NoV2
  <2> QED BY <2>6, <2>7, <2>8 DEF r
<1> QED BY <1>2, <1>3

\* A carry with a start began after the last delivery, and legs are those of an
\* open cycle.
CycleTies ==
    /\ now \in Nat /\ PosShape(p)
    /\ p.carry_since \in Nat /\ p.last_drop \in 0..now
    /\ p.carry_since > 0 => p.carry_since >= p.last_drop
    /\ IsList(p.v2.legs)
    /\ p.v2.legs # <<>> => p.v2.opened # 0

LEMMA CycleStart == now \in Nat /\ p = NoPos => CycleTies
<1>1. IsList(NoPos.v2.legs)
  BY EmptySeq DEF IsList, NoPos, NoV2
<1> QED BY <1>1 DEF CycleTies, PosShape, NoPos, NoOpen, NoV2

CycleStepOK == DeliveriesApart /\ StartUnknown /\ PickupLegKept

LEMMA IngestOK ==
    ASSUME CycleTies, NEW m, Ingest(m)
    PROVE  CycleTies' /\ CycleStepOK
<1> DEFINE t == now + 1
           q1 == Arrived1(m, t)
           told == Delivered(q1, m, t)
           q2 == BoxChange(q1, m, t)
           s1 == TravelStart(q2, m, t)
           s2 == Progress(s1, m, t)
           q3 == PickupLeg(s2, m, t)
           q4 == IF told THEN Reopen(q3, m, t) ELSE q3
           q5 == Transition(q4, m, t)
<1>1. /\ now' = t /\ p' = q5
      /\ cycle' = IF told THEN finalize_cycle(q1, m, t) ELSE NoCycle
  BY DEF Ingest, Arrived1
<1>2. t \in Nat /\ t # 0 /\ t > now /\ now \in Nat /\ PosShape(p)
  BY DEF CycleTies
<1>3. cycle'.dropped = IF told THEN t ELSE 0
  BY <1>1 DEF finalize_cycle, NoCycle
<1>4. /\ PosShape(q1) /\ q1.c1 = m.c1 /\ q1.c2 = m.c2
      /\ q1.carry_since = p.carry_since /\ q1.last_drop = p.last_drop /\ q1.v2 = p.v2
  BY <1>2, ArrivedRecord
<1>5. told /\ p.carry_since > 0 => t - p.carry_since >= MinLoaded
  BY <1>4 DEF Delivered
<1> HIDE DEF t, q1
<1>6. /\ PosShape(q2) /\ q2.c1 = m.c1 /\ q2.c2 = m.c2 /\ q2.v2 = p.v2
      /\ q2.last_drop = IF told THEN t ELSE p.last_drop
      /\ q2.carry_since = IF m.c1 = p.c1 \/ slot_swap(m) THEN p.carry_since
                          ELSE IF m.c1 = No THEN 0 ELSE t
  BY <1>4, BoxChangeCarry
<1> HIDE DEF q2, told
<1>7. LegsKept(q2, s1)
  BY <1>6, TravelStartKeeps
<1> HIDE DEF s1
<1>8. LegsKept(s1, s2)
  BY <1>7, ProgressKeeps DEF LegsKept, CarryKept
<1> HIDE DEF s2
<1>9. LegsKept(s2, q3)
  BY <1>2, <1>8, PickupLegKeeps DEF LegsKept, CarryKept
<1> HIDE DEF q3
<1>10. LegsKept(q2, q3)
  BY <1>7, <1>8, <1>9 DEF LegsKept, CarryKept
<1>11. /\ CarryKept(q3, q4)
       /\ IF told THEN q4.v2.legs = <<>> ELSE q4 = q3
  BY <1>10, ReopenKeeps DEF LegsKept, CarryKept
<1> HIDE DEF q4
<1>12. /\ IsList(q4.v2.legs)
       /\ ~told => q4.v2.legs = p.v2.legs
       /\ q4.v2.legs # <<>> => q4.v2.opened # 0
  BY <1>6, <1>10, <1>11, EmptySeq DEF LegsKept, CycleTies, IsList
<1>13. /\ CarryKept(q4, q5) /\ IsList(q5.v2.legs)
       /\ q4.v2.legs # <<>> => q5.v2.legs # <<>> /\ q5.v2.legs[1] = q4.v2.legs[1]
       /\ q4.v2.opened # 0 => q5.v2.opened # 0
       /\ q5.v2.legs # q4.v2.legs => q5.v2.opened # 0
  BY <1>2, <1>11, <1>12, TransitionKeeps DEF CarryKept
<1> HIDE DEF q5
<1>14. /\ PosShape(p') /\ p'.c1 = m.c1 /\ p'.c2 = m.c2
       /\ p'.last_drop = IF told THEN t ELSE p.last_drop
       /\ p'.carry_since = IF m.c1 = p.c1 \/ slot_swap(m) THEN p.carry_since
                           ELSE IF m.c1 = No THEN 0 ELSE t
  BY <1>1, <1>6, <1>10, <1>11, <1>13 DEF LegsKept, CarryKept
<1>15. CycleTies'
  <2>1. IsList(p.v2.legs)' /\ (p.v2.legs # <<>> => p.v2.opened # 0)'
    BY <1>1, <1>12, <1>13 DEF IsList
  <2>2. p'.carry_since \in Nat /\ p'.last_drop \in 0..t
        /\ (p'.carry_since > 0 => p'.carry_since >= p'.last_drop)
    <3>1. told => ~(m.c1 = p.c1 \/ slot_swap(m))
      BY DEF told, Delivered
    <3> QED BY <1>2, <1>14, <3>1 DEF CycleTies
  <2> QED BY <1>1, <1>2, <1>14, <2>1, <2>2 DEF CycleTies, PosShape
<1>16. DeliveriesApart
  <2>1. MinLoaded \in Nat
    BY CycleAssumption
  <2> QED BY <1>2, <1>3, <1>5, <2>1 DEF DeliveriesApart, CycleTies
<1>17. StartUnknown
  BY <1>2, <1>14 DEF StartUnknown, slot_swap, CycleTies
<1>18. PickupLegKept
  BY <1>1, <1>2, <1>3, <1>12, <1>13 DEF PickupLegKept
<1> QED BY <1>15, <1>16, <1>17, <1>18 DEF CycleStepOK

\* A truck that is forgotten starts again.
LEMMA ForgottenOK ==
    ASSUME CycleTies, Prune \/ Restart
    PROVE  CycleTies' /\ CycleStepOK
<1>1. now' \in Nat /\ p' = NoPos /\ cycle' = NoCycle
  <2>1. Lost \in Nat /\ now \in Nat
    BY CycleAssumption DEF CycleTies
  <2> QED BY <2>1 DEF Prune, Restart
<1>2. CycleTies'
  <2>1. IsList(NoPos.v2.legs)
    BY EmptySeq DEF IsList, NoPos, NoV2
  <2> QED BY <1>1, <2>1 DEF CycleTies, PosShape, IsList, NoPos, NoOpen, NoV2
<1>3. CycleStepOK
  BY <1>1 DEF CycleTies, CycleStepOK, DeliveriesApart, StartUnknown, PickupLegKept, NoPos,
              NoV2, NoCycle
<1> QED BY <1>2, <1>3

\* From message to message, whatever the feed says, repeats or omits and whenever the
\* truck is forgotten: two deliveries with a known start are MinLoaded apart, a box
\* whose start is unknown came forward from the second slot, and an open v2 cycle
\* keeps its pickup leg.
THEOREM DeliveriesTold == CycleSpec => CycleSteps
<1>1. now = Start /\ CycleInit => CycleTies
  BY CycleStart, CycleAssumption DEF CycleInit
<1>2. CycleTies /\ [CycleNext]_<<now, cycleVars>>
        => CycleTies' /\ [CycleStepOK]_<<now, cycleVars>>
  <2>1. CycleTies /\ UNCHANGED <<now, cycleVars>> => CycleTies'
    BY DEF cycleVars, CycleTies, PosShape, IsList
  <2> QED BY <2>1, IngestOK, ForgottenOK DEF CycleNext, Receive
<1> QED BY <1>1, <1>2, PTL DEF CycleSpec, CycleSteps, CycleStepOK

--------------------------------------------------------------------------------
(* What the tracker tells of a delivery.  The stamps of the open cycle are in  *)
(* order at every stage, so they are when the cycle is closed.                 *)

\* The open record of tt_cycle_log at time n: stamps of the past, in order.
OpenOK(o, n) ==
    /\ {o.assigned, o.pickup_arrived, o.pickup_left, o.pickup, o.arrived,
        o.pickup_crane, o.arrived_crane} \subseteq 0..n
    /\ o = NoOpen \/ (o.pickup > 0 /\ o.assigned > 0)
    /\ Ordered(o.assigned, o.pickup) /\ Ordered(o.assigned, o.pickup_arrived)
    /\ Ordered(o.pickup_arrived, o.pickup_left) /\ Ordered(o.pickup, o.arrived)
    /\ o.pickup_left > 0 => o.pickup_arrived > 0

StampsOK(q, n) ==
    /\ {q.carry_since, q.last_drop, q.empty_since, q.empty_arrived} \subseteq 0..n
    /\ q.arr \in 0..(n + Future) /\ q.carry_trip \in 0..MinCarryTrip
    /\ OpenOK(q.open, n)

StampsKept(q, r) ==
    /\ PosShape(r)
    /\ r.carry_since = q.carry_since /\ r.last_drop = q.last_drop
    /\ r.empty_since = q.empty_since /\ r.empty_arrived = q.empty_arrived
    /\ r.arr = q.arr /\ r.carry_trip = q.carry_trip /\ r.open = q.open

\* x lies in its day: a quotient, and a rest below Day.
LEMMA DayParts ==
    ASSUME NEW x \in Int
    PROVE  /\ x \div Day \in Int /\ x % Day \in 0..(Day - 1)
           /\ x = (x \div Day) * Day + (x % Day)
<1>1. Day \in Nat /\ Day > 0
  BY CycleAssumption
<1> QED BY <1>1

\* The time of day of an instant less than a day old, and ahead by at most Future,
\* gets its own date back, or none when the instant is ahead or older than Stale.
LEMMA Dated ==
    ASSUME NEW t \in Int, NEW at \in (t + Future - Day + 1)..(t + Future)
    PROVE  LET d == parse_arr_dtime(at % Day, t)
           IN  (d = at /\ t - at <= Stale) \/ (d = 0 /\ (at > t \/ t - at > Stale))
<1> DEFINE n == t \div Day
           k == at \div Day
           r == at % Day
           today == n * Day + r
<1>1. /\ Day \in Nat /\ Future \in Nat /\ Stale \in Nat /\ Future + Stale < Day
      /\ at \in Int /\ at > t + Future - Day /\ at <= t + Future
  BY CycleAssumption
<1>2. /\ n \in Int /\ k \in Int /\ r \in 0..(Day - 1) /\ t % Day \in 0..(Day - 1)
      /\ t = n * Day + (t % Day) /\ at = k * Day + r
  BY <1>1, DayParts
<1> HIDE DEF n, k, r
<1>3. k \in {n - 1, n, n + 1}
  <2>1. (k - n) * Day < 2 * Day /\ (k - n) * Day > (-2) * Day
    BY <1>1, <1>2
  <2> QED BY <1>1, <1>2, <2>1
<1>4. /\ k = n => today = at
      /\ k = n - 1 => today = at + Day
      /\ k = n + 1 => today = at - Day /\ at > t
  BY <1>1, <1>2
<1>5. today \in Int
  BY <1>1, <1>2
<1>6. parse_arr_dtime(at % Day, t) =
        LET d == IF today > t + Future THEN today - Day ELSE today
        IN  IF t - d <= Stale THEN d ELSE 0
  BY DEF parse_arr_dtime, n, r
<1> HIDE DEF today
<1>7. CASE k = n
  BY <1>1, <1>4, <1>6, <1>7
<1>8. CASE k = n - 1
  <2>1. today > t + Future /\ today - Day = at
    BY <1>1, <1>4, <1>8
  <2> QED BY <1>1, <1>6, <2>1
<1>9. CASE k = n + 1
  <2>1. at > t /\ today <= t + Future /\ ~(t - today <= Stale)
    BY <1>1, <1>4, <1>9
  <2> QED BY <1>1, <1>5, <1>6, <2>1
<1> QED BY <1>3, <1>7, <1>8, <1>9

LEMMA ArrivalsDated ==
    ASSUME now \in Nat
    PROVE  ArrivalDated
<1> SUFFICES ASSUME NEW at \in (now - Stale)..(now + Future), at > 0
             PROVE  LET dated == parse_arr_dtime(at % Day, now)
                    IN  dated = at \/ (at > now /\ dated = 0)
  BY DEF ArrivalDated
<1>1. /\ Stale \in Nat /\ Future \in Nat /\ Day \in Nat /\ Future + Stale < Day
      /\ at \in (now + Future - Day + 1)..(now + Future) /\ now - at <= Stale
  BY CycleAssumption
<1> DEFINE d == parse_arr_dtime(at % Day, now)
<1>2. (d = at /\ now - at <= Stale) \/ (d = 0 /\ (at > now \/ now - at > Stale))
  BY <1>1, Dated
<1> HIDE DEF d
<1>3. d = at \/ (at > now /\ d = 0)
  BY <1>1, <1>2
<1> QED BY <1>3 DEF d

\* What the feed says of an arrival is a time, ahead of ours by at most Future.
LEMMA ArrivalTime ==
    ASSUME NEW m \in Messages, NEW t \in Nat, t >= Stale
    PROVE  ArrTime(m, t) \in 0..(t + Future)
<1>0. Stale \in Nat /\ Future \in Nat /\ Day \in Nat /\ Day > 0
  BY CycleAssumption
<1>1. CASE m.arr = {}
  BY <1>0, <1>1 DEF ArrTime
<1>2. CASE m.arr # {}
  <2> DEFINE ago == CHOOSE a \in m.arr : TRUE
             tod == (t - ago) % Day
             today == (t \div Day) * Day + tod
             d == parse_arr_dtime(tod, t)
  <2>1. ago \in Int
    BY <1>2, CycleAssumption
  <2>2. ArrTime(m, t) = d
    BY <1>2 DEF ArrTime
  <2> HIDE DEF ago
  <2>3. tod \in 0..(Day - 1)
    BY <2>1, DayParts
  <2>4. /\ t % Day \in 0..(Day - 1) /\ t = (t \div Day) * Day + (t % Day)
        /\ t \div Day \in Int
    BY DayParts
  <2>5. d = LET x == IF today > t + Future THEN today - Day ELSE today
            IN  IF t - x <= Stale THEN x ELSE 0
    BY DEF parse_arr_dtime
  <2> HIDE DEF tod, d
  <2>6. today \in Int /\ today <= t + Day - 1
    BY <1>0, <2>3, <2>4
  <2> HIDE DEF today
  <2> QED BY <1>0, <2>2, <2>5, <2>6
<1> QED BY <1>1, <1>2

-----------------------------------------------------------------------------
\* The arrivals.  A stamp that is set is the time of the message, and the stamps
\* that must come before it are set already.
LEMMA CarryOK ==
    ASSUME NEW m \in Messages, now \in Nat, now >= Stale, PosShape(p), StampsOK(p, now)
    PROVE  LET q == Carry(m, now + 1)
           IN  PosShape(q) /\ StampsOK(q, now + 1)
<1> DEFINE t == now + 1
           a == ArrTime(m, t)
           q == Carry(m, t)
           trip == IF p.seen > 0 /\ m.step <= MaxFixStep
                   THEN Min2(p.carry_trip + m.step, MinCarryTrip) ELSE p.carry_trip
<1>1. a \in 0..(t + Future)
  BY ArrivalTime, CycleAssumption
<1> HIDE DEF a
<1>2. /\ PosShape(q) /\ q.open = p.open
      /\ q.carry_since = p.carry_since /\ q.last_drop = p.last_drop
      /\ q.empty_since = p.empty_since /\ q.empty_arrived = p.empty_arrived
      /\ q.arr = (IF a = 0 THEN p.arr ELSE a) /\ q.carry_trip = trip
  BY DEF Carry, PosShape, NoPos, NoOpen, NoV2, a
<1>3. trip \in 0..MinCarryTrip
  BY CycleAssumption DEF StampsOK, Min2
<1> HIDE DEF q, trip
<1>4. OpenOK(p.open, t)
  BY DEF StampsOK, OpenOK
<1>5. PosShape(q) /\ StampsOK(q, t)
  <2>1. t >= now /\ now \in Nat /\ Future \in Nat
    BY CycleAssumption
  <2> QED BY <1>1, <1>2, <1>3, <1>4, <2>1 DEF StampsOK
<1> QED BY <1>5 DEF q

LEMMA StampOpen ==
    ASSUME NEW q, NEW t \in Nat, t > 0, PosShape(q), StampsOK(q, t), q.open # NoOpen,
           NEW f \in {"arrived", "pickup_arrived", "pickup_left"},
           NEW v, v = q.open[f] \/ (v = t /\ q.open[f] = 0),
           f = "pickup_left" => q.open.pickup_arrived # 0,
           f = "pickup_arrived" => v = q.open[f] \/ q.open.pickup_left = 0
    PROVE  LET r == [q EXCEPT !.open = [q.open EXCEPT ![f] = v]]
           IN  CarryKept(q, r) /\ StampsOK(r, t)
<1> DEFINE r == [q EXCEPT !.open = [q.open EXCEPT ![f] = v]]
<1>1. CarryKept(q, r) /\ r.open = [q.open EXCEPT ![f] = v]
  BY DEF CarryKept, PosShape, NoPos
<1>2. /\ r.empty_since = q.empty_since /\ r.empty_arrived = q.empty_arrived
      /\ r.arr = q.arr /\ r.carry_trip = q.carry_trip
  BY DEF PosShape, NoPos
<1>3. OpenOK([q.open EXCEPT ![f] = v], t)
  BY DEF PosShape, NoOpen, OpenOK, StampsOK, Ordered
<1> HIDE DEF r
<1>4. StampsOK(r, t)
  BY <1>1, <1>2, <1>3 DEF StampsOK, CarryKept
<1> QED BY <1>1, <1>4 DEF r

LEMMA ArriveOpenOK ==
    ASSUME NEW q, NEW m, NEW t \in Nat, t > 0, PosShape(q), StampsOK(q, t)
    PROVE  CarryKept(q, ArriveOpen(q, m, t)) /\ StampsOK(ArriveOpen(q, m, t), t)
<1> DEFINE r == ArriveOpen(q, m, t)
           o == q.open
<1>1. CASE q.open = NoOpen
  BY <1>1 DEF ArriveOpen, CarryKept
<1>3. CASE o # NoOpen /\ ArrivedEdge(m) /\ DropSide(q)
  <2> DEFINE v == IF o.arrived = 0 THEN t ELSE o.arrived
  <2>1. r = [q EXCEPT !.open = [o EXCEPT !["arrived"] = v]]
    BY <1>3 DEF ArriveOpen
  <2>2. v = o["arrived"] \/ (v = t /\ o["arrived"] = 0)
    OBVIOUS
  <2> HIDE DEF v
  <2> QED BY <1>3, <2>1, <2>2, StampOpen
<1>4. CASE o # NoOpen /\ ArrivedEdge(m) /\ ~DropSide(q)
  <2> DEFINE v == IF o.pickup_arrived = 0 /\ o.arrived = 0 THEN t ELSE o.pickup_arrived
  <2>1. r = [q EXCEPT !.open = [o EXCEPT !["pickup_arrived"] = v]]
    BY <1>4 DEF ArriveOpen
  <2>2. v = o["pickup_arrived"] \/ (v = t /\ o["pickup_arrived"] = 0)
    OBVIOUS
  <2>3. v = o["pickup_arrived"] \/ o.pickup_left = 0
    BY DEF StampsOK, OpenOK
  <2> HIDE DEF v
  <2> QED BY <1>4, <2>1, <2>2, <2>3, StampOpen
<1>5. CASE o # NoOpen /\ ~ArrivedEdge(m)
  <2>1. CASE ~m.arrived /\ m.moving /\ o.pickup_arrived # 0 /\ o.pickup_left = 0
    <3>1. r = [q EXCEPT !.open = [o EXCEPT !["pickup_left"] = t]]
      BY <1>5, <2>1 DEF ArriveOpen
    <3> QED BY <1>5, <2>1, <3>1, StampOpen
  <2>2. CASE ~(~m.arrived /\ m.moving /\ o.pickup_arrived # 0 /\ o.pickup_left = 0)
    BY <1>5, <2>2 DEF ArriveOpen, CarryKept
  <2> QED BY <2>1, <2>2
<1> QED BY <1>1, <1>3, <1>4, <1>5

LEMMA ArriveEmptyOK ==
    ASSUME NEW q, NEW m, NEW t \in Nat, PosShape(q), StampsOK(q, t)
    PROVE  CarryKept(q, ArriveEmpty(q, m, t)) /\ StampsOK(ArriveEmpty(q, m, t), t)
BY DEF ArriveEmpty, CarryKept, StampsOK, PosShape, NoPos

LEMMA ArriveCraneOK ==
    ASSUME NEW q, NEW m, NEW t \in Nat, PosShape(q), StampsOK(q, t)
    PROVE  CarryKept(q, ArriveCrane(q, m, t)) /\ StampsOK(ArriveCrane(q, m, t), t)
<1> DEFINE r == ArriveCrane(q, m, t)
           o == q.open
           Set(f) == [q EXCEPT !.open = [o EXCEPT ![f] = IF @ = 0 THEN t ELSE @]]
<1>1. r = q \/ (o # NoOpen /\ \E f \in {"arrived_crane", "pickup_crane"} : r = Set(f))
  BY DEF ArriveCrane
<1> HIDE DEF r
<1>2. ASSUME NEW f \in {"arrived_crane", "pickup_crane"}, o # NoOpen, r = Set(f)
      PROVE  CarryKept(q, r) /\ StampsOK(r, t)
  <2> DEFINE v == IF o[f] = 0 THEN t ELSE o[f]
  <2>1. r = [q EXCEPT !.open = [o EXCEPT ![f] = v]]
    BY <1>2
  <2>2. v \in 0..t
    BY DEF StampsOK, OpenOK
  <2> HIDE DEF v
  <2>3. CarryKept(q, r) /\ r.open = [o EXCEPT ![f] = v]
    BY <2>1 DEF CarryKept, PosShape, NoPos
  <2>4. /\ r.empty_since = q.empty_since /\ r.empty_arrived = q.empty_arrived
        /\ r.arr = q.arr /\ r.carry_trip = q.carry_trip
    BY <2>1 DEF PosShape, NoPos
  <2>5. OpenOK([o EXCEPT ![f] = v], t)
    BY <1>2, <2>2 DEF PosShape, NoOpen, OpenOK, StampsOK, Ordered
  <2> QED BY <2>3, <2>4, <2>5 DEF StampsOK, CarryKept
<1>3. CarryKept(q, q)
  BY DEF CarryKept
<1>4. r = q => CarryKept(q, r) /\ StampsOK(r, t)
  BY <1>3
<1> QED BY <1>1, <1>2, <1>4 DEF r

\* A change of box opens a cycle whose stamps are in order.
LEMMA OpenCycleOK ==
    ASSUME NEW q, NEW t \in Nat, t > 0, q.empty_since \in 0..t, q.empty_arrived \in 0..t
    PROVE  OpenOK(open_cycle(q, t), t)
<1> DEFINE o == open_cycle(q, t)
<1>1. /\ o.assigned = (IF q.empty_since > 0 THEN q.empty_since ELSE t)
      /\ o.pickup_arrived = (IF q.empty_since > 0 /\ q.empty_arrived > q.empty_since
                             THEN q.empty_arrived ELSE 0)
      /\ o.pickup = t /\ o.pickup_left = 0 /\ o.arrived = 0
      /\ o.pickup_crane = 0 /\ o.arrived_crane = 0
  BY DEF open_cycle, NoOpen
<1> HIDE DEF o
<1>2. OpenOK(o, t)
  BY <1>1 DEF OpenOK, Ordered
<1> QED BY <1>2 DEF o

LEMMA BoxChangeOK ==
    ASSUME NEW q, NEW m, NEW t \in Nat, t > 0, PosShape(q), StampsOK(q, t)
    PROVE  StampsOK(BoxChange(q, m, t), t)
<1> DEFINE told == IF Delivered(q, m, t)
                   THEN [q EXCEPT !.last_drop = t, !.open = NoOpen, !.box = No] ELSE q
           next == IF p.c1 # No THEN [told EXCEPT !.empty_since = t] ELSE told
           boxed == [next EXCEPT !.box = m.c1]
           loaded1 == [next EXCEPT !.carry_since = t, !.carry_trip = 0, !.box = m.c1,
                               !.open = open_cycle(boxed, t), !.empty_arrived = 0]
           emptied == [told EXCEPT !.carry_since = 0, !.carry_trip = 0,
                               !.empty_since = t, !.empty_arrived = 0]
           r == BoxChange(q, m, t)
<1>0. MinCarryTrip \in Nat
  BY CycleAssumption
<1>1. PosShape(told) /\ StampsOK(told, t)
  <2>1. CASE Delivered(q, m, t)
    <3>1. told = [q EXCEPT !.last_drop = t, !.open = NoOpen, !.box = No]
      BY <2>1
    <3> HIDE DEF told
    <3>2. /\ PosShape(told) /\ told.last_drop = t /\ told.open = NoOpen
          /\ told.carry_since = q.carry_since /\ told.carry_trip = q.carry_trip
          /\ told.empty_since = q.empty_since /\ told.empty_arrived = q.empty_arrived
          /\ told.arr = q.arr
      BY <3>1 DEF PosShape, NoPos
    <3>3. OpenOK(NoOpen, t)
      BY DEF OpenOK, NoOpen, Ordered
    <3> QED BY <3>2, <3>3 DEF StampsOK
  <2>2. CASE ~Delivered(q, m, t)
    BY <2>2
  <2> QED BY <2>1, <2>2
<1>2. r = IF m.c1 = p.c1 \/ slot_swap(m) THEN q ELSE IF m.c1 = No THEN emptied ELSE loaded1
  BY DEF BoxChange
<1> HIDE DEF told, r
<1>3. StampsOK(emptied, t)
  <2>1. /\ emptied.carry_since = 0 /\ emptied.carry_trip = 0
        /\ emptied.empty_since = t /\ emptied.empty_arrived = 0
        /\ emptied.last_drop = told.last_drop /\ emptied.arr = told.arr
        /\ emptied.open = told.open
    BY <1>1 DEF PosShape, NoPos
  <2> HIDE DEF emptied
  <2> QED BY <1>0, <1>1, <2>1 DEF StampsOK
<1>4. PosShape(next) /\ StampsOK(next, t)
  <2>1. PosShape([told EXCEPT !.empty_since = t]) /\ StampsOK([told EXCEPT !.empty_since = t], t)
    BY <1>1 DEF PosShape, NoPos, StampsOK
  <2> QED BY <1>1, <2>1
<1> HIDE DEF next
<1>5. StampsOK(loaded1, t)
  <2>1. boxed.empty_since = next.empty_since /\ boxed.empty_arrived = next.empty_arrived
    BY <1>4 DEF PosShape, NoPos
  <2> HIDE DEF boxed
  <2>2. OpenOK(open_cycle(boxed, t), t)
    BY <1>4, <2>1, OpenCycleOK DEF StampsOK
  <2>3. /\ loaded1.carry_since = t /\ loaded1.carry_trip = 0 /\ loaded1.empty_arrived = 0
        /\ loaded1.empty_since = next.empty_since /\ loaded1.open = open_cycle(boxed, t)
        /\ loaded1.last_drop = next.last_drop /\ loaded1.arr = next.arr
    BY <1>4 DEF PosShape, NoPos
  <2> HIDE DEF loaded1
  <2> QED BY <1>0, <1>4, <2>2, <2>3 DEF StampsOK
<1> HIDE DEF emptied, loaded1
<1>6. StampsOK(r, t)
  BY <1>2, <1>3, <1>5
<1> QED BY <1>6 DEF r

\* A cycle is closed with its stamps in order, or with the start of the carry only.
LEMMA ClosedInOrder ==
    ASSUME NEW q, NEW m, NEW t \in Nat, t > 0, PosShape(q), StampsOK(q, t),
           cycle' = finalize_cycle(q, m, t)
    PROVE  PhasesInOrder'
<1> DEFINE o == q.open
           c == cycle'.open
           pickup == IF o.pickup > 0 THEN o.pickup ELSE q.carry_since
<1>1. /\ c.pickup = pickup /\ c.assigned = (IF o.assigned > 0 THEN o.assigned ELSE pickup)
      /\ c.pickup_arrived = o.pickup_arrived /\ c.pickup_left = o.pickup_left
      /\ c.arrived = o.arrived /\ cycle'.dropped = t
  BY DEF finalize_cycle, PosShape, NoOpen
<1>2. OpenOK(o, t) /\ q.carry_since \in 0..t
  BY DEF StampsOK
<1>3. o = NoOpen => /\ o.pickup = 0 /\ o.assigned = 0 /\ o.pickup_arrived = 0
                    /\ o.pickup_left = 0 /\ o.arrived = 0
  BY DEF NoOpen
<1> HIDE DEF o, c
<1>4. /\ Ordered(c.assigned, c.pickup) /\ Ordered(c.pickup, t)
      /\ Ordered(c.assigned, c.pickup_arrived)
      /\ Ordered(c.pickup_arrived, c.pickup_left)
      /\ Ordered(c.pickup, c.arrived) /\ Ordered(c.arrived, t)
  BY <1>1, <1>2, <1>3 DEF OpenOK, Ordered
<1> QED BY <1>1, <1>4 DEF PhasesInOrder, c

-----------------------------------------------------------------------------
\* The stages of tt_cycle_v2 leave the stamps of tt_cycle_log alone.
LEMMA TravelStartStamps ==
    ASSUME NEW q, NEW m, NEW t, PosShape(q)
    PROVE  StampsKept(q, TravelStart(q, m, t))
BY DEF PosShape, StampsKept, TravelStart, NoPos, NoV2

LEMMA ProgressStamps ==
    ASSUME NEW q, NEW m, NEW t, PosShape(q)
    PROVE  StampsKept(q, Progress(q, m, t))
BY DEF PosShape, StampsKept, Progress, NoPos, NoV2

LEMMA Open2Stamps ==
    ASSUME NEW q, NEW t, PosShape(q)
    PROVE  StampsKept(q, Open2(q, t))
BY DEF PosShape, StampsKept, Open2, NoPos, NoV2

LEMMA PickupLegStamps ==
    ASSUME NEW q, NEW m, NEW t, PosShape(q)
    PROVE  StampsKept(q, PickupLeg(q, m, t))
<1> DEFINE o == Open2(q, t)
<1>1. StampsKept(q, o)
  BY Open2Stamps
<1> HIDE DEF o
<1>2. \A cur : StampsKept(q, [o EXCEPT !.v2.cur = cur])
  BY <1>1 DEF StampsKept, PosShape, NoPos, NoV2
<1>3. StampsKept(q, [o EXCEPT !.v2.cur.arrived = t, !.v2.cur.src = "container1"])
  BY <1>1 DEF StampsKept, PosShape, NoPos, NoV2
<1>4. StampsKept(q, q)
  BY DEF StampsKept
<1> QED BY <1>1, <1>2, <1>3, <1>4 DEF PickupLeg, o

LEMMA ReopenStamps ==
    ASSUME NEW q, NEW m, NEW t, PosShape(q)
    PROVE  StampsKept(q, Reopen(q, m, t))
BY DEF PosShape, StampsKept, Reopen, NoPos, NoV2

LEMMA TransitionStamps ==
    ASSUME NEW q, NEW m, NEW t, PosShape(q)
    PROVE  StampsKept(q, Transition(q, m, t))
<1> DEFINE o == Open2(q, t)
           r == Transition(q, m, t)
           kept == IF Len(q.v2.legs) >= LegsMax THEN RemoveAt(q.v2.legs, 2) ELSE q.v2.legs
           legs1 == IF q.v2.cur = NoLeg THEN o.v2.legs ELSE Append(kept, EndLeg(q.v2.cur, t))
           leg1 == NewLeg(m.topos, m, t)
<1>1. StampsKept(q, o)
  BY Open2Stamps
<1> HIDE DEF o
<1>2. StampsKept(q, q)
  BY DEF StampsKept
<1>4. r = q \/ r = [o EXCEPT !.v2.legs = legs1, !.v2.cur = leg1]
  <2>1. r = q \/ r = [o EXCEPT !.v2.legs = IF q.v2.cur = NoLeg THEN @
                                          ELSE Append(kept, EndLeg(q.v2.cur, t)),
                                !.v2.cur = leg1]
    BY DEF Transition, o
  <2> HIDE DEF r, leg1, kept
  <2>2. [o EXCEPT !.v2.legs = IF q.v2.cur = NoLeg THEN @
                             ELSE Append(kept, EndLeg(q.v2.cur, t)), !.v2.cur = leg1]
        = [o EXCEPT !.v2.legs = legs1, !.v2.cur = leg1]
    OBVIOUS
  <2> QED BY <2>1, <2>2
<1> HIDE DEF r, legs1, leg1
<1>5. StampsKept(q, r)
  BY <1>1, <1>2, <1>4 DEF StampsKept, PosShape, NoPos, NoV2
<1> QED BY <1>5 DEF r

-----------------------------------------------------------------------------
\* A leg that was assigned to a target.
TargetOK(l, n) == DOMAIN l = DOMAIN NoLeg /\ l.target # No /\ l.assigned \in 0..n

\* The legs of an open cycle.
LegsOK(v, n) ==
    /\ v.opened \in 0..n
    /\ v.cur = NoLeg \/ TargetOK(v.cur, n)
    /\ IsList(v.legs) /\ Len(v.legs) <= LegsMax
    /\ \A l \in Range(v.legs) : TargetOK(l, n)

\* Reaching a leg and leaving it changes neither its target nor its start.
LEMMA LegArrivalTarget ==
    ASSUME NEW leg, NEW q, NEW m, NEW t, NEW n, TargetOK(leg, n)
    PROVE  TargetOK(LegArrival(leg, q, m, t), n)
BY DEF LegArrival, Reached, TargetOK, NoLeg

LEMMA LegDepartureTarget ==
    ASSUME NEW leg, NEW m, NEW t, NEW n, TargetOK(leg, n)
    PROVE  TargetOK(LegDeparture(leg, m, t), n)
BY DEF LegDeparture, TargetOK, NoLeg

LEMMA EndLegTarget ==
    ASSUME NEW leg, NEW t, NEW n, TargetOK(leg, n)
    PROVE  TargetOK(EndLeg(leg, t), n)
BY DEF EndLeg, TargetOK, NoLeg

LEMMA NewLegTarget ==
    ASSUME NEW target, NEW m, NEW t \in Nat, target # No
    PROVE  TargetOK(NewLeg(target, m, t), t)
BY DEF NewLeg, TargetOK, NoLeg

LEMMA TravelStartLegs ==
    ASSUME NEW q, NEW m, NEW t, PosShape(q), LegsOK(q.v2, t)
    PROVE  LegsOK(TravelStart(q, m, t).v2, t)
<1> DEFINE r == TravelStart(q, m, t)
<1>1. r.v2.opened = q.v2.opened /\ r.v2.cur = q.v2.cur /\ r.v2.legs = q.v2.legs
  BY DEF TravelStart, PosShape, NoPos, NoV2
<1> HIDE DEF r
<1>2. LegsOK(r.v2, t)
  BY <1>1 DEF LegsOK, IsList
<1> QED BY <1>2 DEF r

LEMMA ProgressLegs ==
    ASSUME NEW q, NEW m, NEW t, PosShape(q), LegsOK(q.v2, t)
    PROVE  LegsOK(Progress(q, m, t).v2, t)
<1> DEFINE r == Progress(q, m, t)
           arrived == LegArrival(q.v2.cur, q, m, t)
           leg == LegDeparture(arrived, m, t)
<1>1. CASE q.v2.cur = NoLeg
  BY <1>1 DEF Progress
<1>2. CASE q.v2.cur # NoLeg
  <2>1. TargetOK(q.v2.cur, t)
    BY <1>2 DEF LegsOK
  <2>2. TargetOK(arrived, t)
    BY <2>1, LegArrivalTarget
  <2> HIDE DEF arrived
  <2>3. TargetOK(leg, t)
    BY <2>2, LegDepartureTarget
  <2>4. r = [q EXCEPT !.v2.cur = leg]
    BY <1>2 DEF Progress, arrived
  <2> HIDE DEF leg, r
  <2>5. r.v2.opened = q.v2.opened /\ r.v2.cur = leg /\ r.v2.legs = q.v2.legs
    BY <2>4 DEF PosShape, NoPos, NoV2
  <2>6. LegsOK(r.v2, t)
    BY <2>3, <2>5 DEF LegsOK, IsList
  <2> QED BY <2>6 DEF r
<1> QED BY <1>1, <1>2

LEMMA Open2Legs ==
    ASSUME NEW q, NEW t \in Nat, PosShape(q), LegsOK(q.v2, t)
    PROVE  /\ LegsOK(Open2(q, t).v2, t) /\ PosShape(Open2(q, t))
           /\ Open2(q, t).v2.legs = q.v2.legs /\ Open2(q, t).v2.cur = q.v2.cur
<1> DEFINE r == Open2(q, t)
<1>1. /\ r.v2.opened \in {q.v2.opened, t} /\ r.v2.cur = q.v2.cur
      /\ r.v2.legs = q.v2.legs /\ PosShape(r)
  BY DEF Open2, PosShape, NoPos, NoV2
<1> HIDE DEF r
<1>2. LegsOK(r.v2, t)
  BY <1>1 DEF LegsOK, IsList
<1> QED BY <1>1, <1>2 DEF r

LEMMA PickupLegLegs ==
    ASSUME NEW q, NEW m, NEW t \in Nat, PosShape(q), LegsOK(q.v2, t)
    PROVE  LegsOK(PickupLeg(q, m, t).v2, t)
<1> DEFINE o == Open2(q, t)
           target == Or(q.topos, m.loc)
           reached == [o EXCEPT !.v2.cur.arrived = t, !.v2.cur.src = "container1"]
           leg == [target |-> target, crane |-> Or(o.v2.job, q.job) = "DS",
                   assigned |-> o.v2.opened, arrived |-> t, src |-> "container1", left |-> 0]
           r == PickupLeg(q, m, t)
<1>1. PosShape(o) /\ LegsOK(o.v2, t)
  BY Open2Legs
<1>2. \/ r = q \/ r = o
      \/ o.v2.cur # NoLeg /\ r = reached
      \/ target # No /\ r = [o EXCEPT !.v2.cur = leg]
  BY DEF PickupLeg
<1> HIDE DEF o, target, r
<1>3. CASE o.v2.cur # NoLeg /\ r = reached
  <2>1. TargetOK(o.v2.cur, t)
    BY <1>1, <1>3 DEF LegsOK
  <2>2. /\ DOMAIN r.v2.cur = DOMAIN o.v2.cur /\ r.v2.cur.target = o.v2.cur.target
        /\ r.v2.cur.assigned = o.v2.cur.assigned
        /\ r.v2.opened = o.v2.opened /\ r.v2.legs = o.v2.legs
    BY <1>1, <1>3, <2>1 DEF TargetOK, PosShape, NoPos, NoV2, NoLeg
  <2> HIDE DEF reached
  <2>3. TargetOK(r.v2.cur, t)
    BY <2>1, <2>2 DEF TargetOK
  <2>4. LegsOK(r.v2, t)
    BY <1>1, <2>2, <2>3 DEF LegsOK, IsList
  <2> QED BY <2>4 DEF r
<1>4. CASE target # No /\ r = [o EXCEPT !.v2.cur = leg]
  <2>1. TargetOK(leg, t)
    BY <1>1, <1>4 DEF TargetOK, NoLeg, LegsOK
  <2> HIDE DEF leg
  <2>2. r.v2.cur = leg /\ r.v2.opened = o.v2.opened /\ r.v2.legs = o.v2.legs
    BY <1>1, <1>4 DEF PosShape, NoPos, NoV2
  <2>3. LegsOK(r.v2, t)
    BY <1>1, <2>1, <2>2 DEF LegsOK, IsList
  <2> QED BY <2>3 DEF r
<1>5. r = q \/ r = o => LegsOK(r.v2, t)
  BY <1>1
<1>6. LegsOK(r.v2, t)
  BY <1>2, <1>3, <1>4, <1>5 DEF r
<1> QED BY <1>6 DEF r

\* At a delivery at most one leg more is closed.
LEMMA ClosedLegsTarget ==
    ASSUME NEW q, NEW t \in Nat, LegsOK(q.v2, t)
    PROVE  LET legs == ClosedLegs(q, t)
           IN  /\ IsList(legs) /\ Len(legs) <= LegsMax + 1
               /\ \A l \in Range(legs) : TargetOK(l, t)
<1> DEFINE legs == ClosedLegs(q, t)
           ended == EndLeg(q.v2.cur, t)
           S == Range(q.v2.legs) \cup {ended}
<1>0. LegsMax \in Nat
  BY CycleAssumption
<1>1. CASE q.v2.cur = NoLeg \/ CarryOver(q)
  <2>1. legs = q.v2.legs
    BY <1>1 DEF ClosedLegs
  <2>2. Len(legs) \in Nat
    BY <2>1, LenProperties DEF LegsOK, IsList
  <2> HIDE DEF legs
  <2>3. /\ IsList(legs) /\ Len(legs) <= LegsMax + 1
        /\ \A l \in Range(legs) : TargetOK(l, t)
    BY <1>0, <2>1, <2>2 DEF LegsOK, IsList
  <2> QED BY <2>3 DEF legs
<1>2. CASE ~(q.v2.cur = NoLeg \/ CarryOver(q))
  <2>1. legs = Append(q.v2.legs, ended)
    BY <1>2 DEF ClosedLegs
  <2>2. TargetOK(ended, t)
    BY <1>2, EndLegTarget DEF LegsOK
  <2> HIDE DEF ended, legs
  <2>3. q.v2.legs \in Seq(S) /\ ended \in S
    BY SeqMonotonic DEF LegsOK, IsList
  <2>4. \A l \in S : TargetOK(l, t)
    BY <2>2 DEF LegsOK
  <2> HIDE DEF S
  <2>5. legs \in Seq(S) /\ Len(legs) = Len(q.v2.legs) + 1
    BY <2>1, <2>3
  <2>6. IsList(legs) /\ Range(legs) \subseteq S
    BY <2>5, SeqOfRange, RangeOfSeq DEF IsList
  <2>7. Len(legs) <= LegsMax + 1
    <3>1. Len(q.v2.legs) \in Nat /\ Len(q.v2.legs) <= LegsMax
      BY <2>3, LenProperties DEF LegsOK
    <3> QED BY <1>0, <2>5, <3>1
  <2>8. /\ IsList(legs) /\ Len(legs) <= LegsMax + 1
        /\ \A l \in Range(legs) : TargetOK(l, t)
    BY <2>4, <2>6, <2>7
  <2> QED BY <2>8 DEF legs
<1> QED BY <1>1, <1>2

LEMMA ReopenLegs ==
    ASSUME NEW q, NEW m, NEW t \in Nat, PosShape(q), LegsOK(q.v2, t)
    PROVE  LegsOK(Reopen(q, m, t).v2, t)
<1> DEFINE kept == CarryOver(q)
           r == Reopen(q, m, t)
           opened == IF m.c1 # No THEN t ELSE IF kept THEN Min2(q.v2.cur.assigned, t) ELSE 0
           new == NewLeg(q.topos, m, t)
           cur == IF kept THEN q.v2.cur
                  ELSE IF m.c1 # No /\ q.topos # No /\ q.topos # p.topos THEN new
                  ELSE NoLeg
<1>1. r.v2.opened = opened /\ r.v2.cur = cur /\ r.v2.legs = <<>>
  BY DEF Reopen, PosShape, NoPos, NoV2
<1>2. opened \in 0..t
  <2>1. kept => q.v2.cur.assigned \in 0..t
    BY DEF LegsOK, TargetOK, CarryOver
  <2> HIDE DEF kept
  <2> QED BY <2>1 DEF Min2
<1>3. cur = NoLeg \/ TargetOK(cur, t)
  <2>1. q.topos # No => TargetOK(new, t)
    BY NewLegTarget
  <2>2. kept => TargetOK(q.v2.cur, t)
    BY DEF LegsOK, CarryOver
  <2> HIDE DEF kept, new
  <2> QED BY <2>1, <2>2
<1>4. IsList(<<>>) /\ Len(<<>>) = 0 /\ Range(<<>>) = {}
  BY EmptySeq DEF IsList, Range
<1>5. LegsMax \in Nat
  BY CycleAssumption
<1> HIDE DEF r, opened, cur
<1>6. LegsOK(r.v2, t)
  BY <1>1, <1>2, <1>3, <1>4, <1>5 DEF LegsOK
<1> QED BY <1>6 DEF r

\* The second of at least two taken out: one leg less.
LEMMA RemoveSecondLen ==
    ASSUME NEW S, NEW s \in Seq(S), Len(s) >= 2
    PROVE  Len(RemoveAt(s, 2)) = Len(s) - 1
<1> DEFINE head == SubSeq(s, 1, 1)
           rest == SubSeq(s, 3, Len(s))
<1>1. Len(s) \in Nat
  BY LenProperties
<1>2. head \in Seq(S) /\ Len(head) = 1
  OBVIOUS
<1>3. rest \in Seq(S) /\ Len(rest) = Len(s) - 2
  <2>1. Len(s) \in Int /\ 3 \in Int /\ \A i \in 3..Len(s) : s[i] \in S
    BY <1>1, ElementOfSeq
  <2>2. rest \in Seq(S) /\ Len(rest) = IF 3 <= Len(s) THEN Len(s) - 3 + 1 ELSE 0
    BY <2>1, SubSeqProperties
  <2>3. Len(rest) = Len(s) - 2
    <3> DEFINE n == Len(s)
               k == Len(rest)
    <3>1. n \in Nat /\ n >= 2 /\ k = IF 3 <= n THEN n - 3 + 1 ELSE 0
      BY <1>1, <2>2
    <3> HIDE DEF n, k
    <3>2. k = n - 2
      BY <3>1
    <3> QED BY <3>2 DEF n, k
  <2> QED BY <2>2, <2>3
<1>4. RemoveAt(s, 2) = head \o rest
  BY DEF RemoveAt
<1> HIDE DEF head, rest
<1>5. Len(head \o rest) = Len(head) + Len(rest)
  BY <1>2, <1>3, ConcatProperties
<1> QED BY <1>1, <1>2, <1>3, <1>4, <1>5

LEMMA TransitionLegs ==
    ASSUME NEW q, NEW m, NEW t \in Nat, PosShape(q), LegsOK(q.v2, t)
    PROVE  LegsOK(Transition(q, m, t).v2, t)
<1> DEFINE o == Open2(q, t)
           kept == IF Len(q.v2.legs) >= LegsMax THEN RemoveAt(q.v2.legs, 2) ELSE q.v2.legs
           ended == EndLeg(q.v2.cur, t)
           legs == IF q.v2.cur = NoLeg THEN q.v2.legs ELSE Append(kept, ended)
           leg == NewLeg(m.topos, m, t)
           S == IF q.v2.cur = NoLeg THEN Range(q.v2.legs) ELSE Range(q.v2.legs) \cup {ended}
           r == Transition(q, m, t)
<1>0. LegsMax \in Nat /\ LegsMax >= 2
  BY CycleAssumption
<1>1. LegsOK(o.v2, t) /\ PosShape(o) /\ o.v2.legs = q.v2.legs /\ o.v2.cur = q.v2.cur
  BY Open2Legs
<1>2. CASE m.topos = No \/ m.topos = p.topos \/ m.topos = q.v2.cur.target
  BY <1>2 DEF Transition
<1>3. CASE ~(m.topos = No \/ m.topos = p.topos \/ m.topos = q.v2.cur.target)
  <2>1. r = [o EXCEPT !.v2.legs = legs, !.v2.cur = leg]
    BY <1>1, <1>3 DEF Transition, PosShape, NoPos, NoV2
  <2>2. TargetOK(leg, t)
    BY <1>3, NewLegTarget
  <2>3. q.v2.cur # NoLeg => TargetOK(ended, t)
    BY EndLegTarget DEF LegsOK
  <2> HIDE DEF ended, leg, o, r
  <2>4. \A l \in S : TargetOK(l, t)
    BY <2>3 DEF LegsOK
  <2>5. q.v2.legs \in Seq(S) /\ (q.v2.cur # NoLeg => ended \in S)
    BY SeqMonotonic DEF LegsOK, IsList
  <2> HIDE DEF S
  <2>6. Len(q.v2.legs) \in Nat /\ Len(q.v2.legs) <= LegsMax
    BY <2>5, LenProperties DEF LegsOK
  <2>7. kept \in Seq(S) /\ Len(kept) \in Nat /\ Len(kept) + 1 <= LegsMax
    <3>1. CASE Len(q.v2.legs) >= LegsMax
      <4>1. RemoveAt(q.v2.legs, 2) \in Seq(S) /\ Len(RemoveAt(q.v2.legs, 2)) = Len(q.v2.legs) - 1
        <5>1. Len(q.v2.legs) >= 2
          BY <1>0, <2>6, <3>1
        <5> QED BY <2>5, <5>1, RemoveSecond, RemoveSecondLen
      <4> QED BY <1>0, <2>6, <3>1, <4>1
    <3>2. CASE ~(Len(q.v2.legs) >= LegsMax)
      BY <1>0, <2>5, <2>6, <3>2
    <3> QED BY <3>1, <3>2
  <2> HIDE DEF kept
  <2>8. legs \in Seq(S) /\ Len(legs) <= LegsMax
    <3>1. q.v2.cur # NoLeg => Append(kept, ended) \in Seq(S) /\ Len(Append(kept, ended)) = Len(kept) + 1
      BY <2>5, <2>7
    <3> QED BY <2>5, <2>6, <2>7, <3>1
  <2>9. IsList(legs) /\ Range(legs) \subseteq S
    BY <2>8, SeqOfRange, RangeOfSeq DEF IsList
  <2> HIDE DEF legs
  <2>10. r.v2.legs = legs /\ r.v2.cur = leg /\ r.v2.opened = o.v2.opened
    BY <1>1, <2>1 DEF PosShape, NoPos, NoV2
  <2>11. LegsOK(r.v2, t)
    BY <1>1, <2>2, <2>4, <2>8, <2>9, <2>10 DEF LegsOK
  <2> QED BY <2>11 DEF r
<1> QED BY <1>2, <1>3

-----------------------------------------------------------------------------
\* The truck's record at every moment, and the last rows it gave.
RecordOK ==
    /\ now \in Start..MaxTime /\ PosShape(p) /\ StampsOK(p, now) /\ LegsOK(p.v2, now)
    /\ IsList(cycle2.legs) /\ Len(cycle2.legs) <= LegsMax + 1
    /\ \A l \in Range(cycle2.legs) : TargetOK(l, now)
    /\ sample \in {0} \cup MinCycle..MaxCycle

LEMMA NewRecord ==
    ASSUME NEW n \in Nat
    PROVE  PosShape(NoPos) /\ StampsOK(NoPos, n) /\ LegsOK(NoPos.v2, n)
<1>1. PosShape(NoPos)
  BY DEF PosShape, NoPos, NoOpen, NoV2
<1>2. StampsOK(NoPos, n)
  <2>1. Future \in Nat /\ MinCarryTrip \in Nat
    BY CycleAssumption
  <2> QED BY <2>1 DEF StampsOK, OpenOK, Ordered, NoPos, NoOpen
<1>3. LegsOK(NoPos.v2, n)
  <2>1. IsList(<<>>) /\ Len(<<>>) = 0 /\ Range(<<>>) = {}
    BY EmptySeq DEF IsList, Range
  <2>2. LegsMax \in Nat
    BY CycleAssumption
  <2>3. NoPos.v2.opened = 0 /\ NoPos.v2.cur = NoLeg /\ NoPos.v2.legs = <<>>
    BY DEF NoPos, NoV2
  <2> QED BY <2>1, <2>2, <2>3 DEF LegsOK
<1> QED BY <1>1, <1>2, <1>3

LEMMA NothingClosed == IsList(NoCycle2.legs) /\ Len(NoCycle2.legs) = 0 /\ Range(NoCycle2.legs) = {}
BY EmptySeq DEF NoCycle2, IsList, Range

LEMMA RecordStart ==
    ASSUME now = Start, CycleInit
    PROVE  RecordOK /\ PhasesInOrder
<1>1. Start \in Nat /\ MaxTime \in Nat /\ LegsMax \in Nat /\ Start <= MaxTime
  BY CycleAssumption
<1>2. RecordOK
  BY <1>1, NewRecord, NothingClosed DEF CycleInit, RecordOK
<1> QED BY <1>2 DEF CycleInit, PhasesInOrder, NoCycle

LEMMA StampsCarried ==
    ASSUME NEW q, NEW r, NEW t, StampsOK(q, t), StampsKept(q, r)
    PROVE  StampsOK(r, t) /\ PosShape(r)
BY DEF StampsOK, StampsKept

\* The stages before the legs keep the stamps in order.
LEMMA ArrivedStamps ==
    ASSUME RecordOK, NEW m \in Messages
    PROVE  StampsOK(Arrived1(m, now + 1), now + 1)
<1> DEFINE t == now + 1
           q0 == Carry(m, t)
           a1 == ArriveOpen(q0, m, t)
           a2 == ArriveEmpty(a1, m, t)
<1>1. /\ now \in Nat /\ t \in Nat /\ t > 0 /\ now >= Stale /\ PosShape(p) /\ StampsOK(p, now)
  <2>1. /\ Start \in Nat /\ MaxTime \in Nat /\ Stale \in Nat /\ Stale <= Start
    BY CycleAssumption
  <2>2. now \in Start..MaxTime /\ PosShape(p) /\ StampsOK(p, now)
    BY DEF RecordOK
  <2> QED BY <2>1, <2>2
<1>2. PosShape(q0) /\ StampsOK(q0, t)
  BY <1>1, CarryOK
<1>3. Arrived1(m, t) = ArriveCrane(a2, m, t)
  BY DEF Arrived1
<1> HIDE DEF q0
<1>4. PosShape(a1) /\ StampsOK(a1, t)
  BY <1>1, <1>2, ArriveOpenOK DEF CarryKept
<1> HIDE DEF a1
<1>5. PosShape(a2) /\ StampsOK(a2, t)
  BY <1>1, <1>4, ArriveEmptyOK DEF CarryKept
<1> HIDE DEF a2
<1> QED BY <1>1, <1>3, <1>5, ArriveCraneOK

\* A message leaves the record in order, and so is the cycle it closes.
LEMMA IngestRecord ==
    ASSUME RecordOK, NEW m \in Messages, Ingest(m)
    PROVE  RecordOK' /\ PhasesInOrder'
<1> DEFINE t == now + 1
           q1 == ArriveCrane(ArriveEmpty(ArriveOpen(Carry(m, t), m, t), m, t), m, t)
           told == Delivered(q1, m, t)
           q2 == BoxChange(q1, m, t)
           s1 == TravelStart(q2, m, t)
           s2 == Progress(s1, m, t)
           q3 == PickupLeg(s2, m, t)
           q4 == IF told THEN Reopen(q3, m, t) ELSE q3
           q5 == Transition(q4, m, t)
           c == finalize_cycle(q1, m, t)
<1>1. /\ now' = t /\ p' = q5 /\ now < MaxTime
      /\ cycle' = IF told THEN c ELSE NoCycle
      /\ cycle2' = IF told THEN finalize_v2(q3, c, t) ELSE NoCycle2
      /\ sample' = CycleSample(q1, m, t)
  BY DEF Ingest
<1>2. /\ now \in Nat /\ t \in Nat /\ t > 0 /\ now >= Stale /\ t \in Start..MaxTime
      /\ PosShape(p) /\ StampsOK(p, now) /\ LegsOK(p.v2, now)
  <2>1. /\ Start \in Nat /\ MaxTime \in Nat /\ Stale \in Nat /\ Start > 0 /\ Stale <= Start
    BY CycleAssumption
  <2>2. /\ now \in Start..MaxTime /\ PosShape(p) /\ StampsOK(p, now) /\ LegsOK(p.v2, now)
    BY DEF RecordOK
  <2> QED BY <1>1, <2>1, <2>2
<1>3. PosShape(q1) /\ q1.v2 = p.v2
  BY <1>2, ArrivedRecord DEF Arrived1
<1>4. StampsOK(q1, t)
  BY ArrivedStamps DEF Arrived1
<1> HIDE DEF q1
<1>5. StampsOK(q2, t) /\ PosShape(q2) /\ q2.v2 = p.v2
  BY <1>2, <1>3, <1>4, BoxChangeOK, BoxChangeCarry
<1>6. LegsOK(q2.v2, t)
  BY <1>2, <1>5 DEF LegsOK, TargetOK
<1> HIDE DEF t, q2
<1>7. StampsOK(s1, t) /\ PosShape(s1) /\ LegsOK(s1.v2, t)
  BY <1>5, <1>6, TravelStartStamps, TravelStartLegs, StampsCarried
<1> HIDE DEF s1
<1>8. StampsOK(s2, t) /\ PosShape(s2) /\ LegsOK(s2.v2, t)
  BY <1>7, ProgressStamps, ProgressLegs, StampsCarried
<1> HIDE DEF s2
<1>9. StampsOK(q3, t) /\ PosShape(q3) /\ LegsOK(q3.v2, t)
  BY <1>2, <1>8, PickupLegStamps, PickupLegLegs, StampsCarried
<1> HIDE DEF q3
<1>10. StampsOK(q4, t) /\ PosShape(q4) /\ LegsOK(q4.v2, t)
  <2>1. /\ StampsOK(Reopen(q3, m, t), t) /\ PosShape(Reopen(q3, m, t))
        /\ LegsOK(Reopen(q3, m, t).v2, t)
    BY <1>2, <1>9, ReopenStamps, ReopenLegs, StampsCarried
  <2> QED BY <1>9, <2>1
<1> HIDE DEF q4
<1>11. StampsOK(q5, t) /\ PosShape(q5) /\ LegsOK(q5.v2, t)
  BY <1>2, <1>10, TransitionStamps, TransitionLegs, StampsCarried
<1> HIDE DEF q5, told
<1>12. /\ IsList(cycle2'.legs) /\ Len(cycle2'.legs) <= LegsMax + 1
       /\ \A l \in Range(cycle2'.legs) : TargetOK(l, t)
  <2>1. /\ IsList(NoCycle2.legs) /\ Len(NoCycle2.legs) <= LegsMax + 1
        /\ \A l \in Range(NoCycle2.legs) : TargetOK(l, t)
    <3>1. LegsMax \in Nat
      BY CycleAssumption
    <3> QED BY <3>1, NothingClosed
  <2>2. cycle2' = NoCycle2 \/ cycle2'.legs = ClosedLegs(q3, t)
    BY <1>1 DEF finalize_v2
  <2>3. CASE cycle2' = NoCycle2
    BY <2>1, <2>3
  <2>4. CASE cycle2'.legs = ClosedLegs(q3, t)
    BY <1>2, <1>9, <2>4, ClosedLegsTarget DEF IsList
  <2> QED BY <2>2, <2>3, <2>4
<1>13. sample' \in {0} \cup MinCycle..MaxCycle
  BY <1>1 DEF CycleSample
<1>14. RecordOK'
  BY <1>1, <1>2, <1>11, <1>12, <1>13 DEF RecordOK, PosShape, StampsOK, OpenOK, Ordered, LegsOK,
                                         TargetOK, IsList
<1>15. PhasesInOrder'
  <2>1. CASE told
    BY <1>1, <1>2, <1>3, <1>4, <2>1, ClosedInOrder
  <2>2. CASE ~told
    BY <1>1, <2>2 DEF PhasesInOrder, NoCycle
  <2> QED BY <2>1, <2>2
<1> QED BY <1>14, <1>15

LEMMA ForgottenRecord ==
    ASSUME RecordOK, Prune \/ Restart
    PROVE  RecordOK' /\ PhasesInOrder'
<1>1. /\ now' \in Start..MaxTime /\ now' \in Nat
      /\ p' = NoPos /\ cycle' = NoCycle /\ cycle2' = NoCycle2 /\ sample' = 0
  <2>1. Lost \in Nat /\ Start \in Nat /\ MaxTime \in Nat
    BY CycleAssumption
  <2>2. now \in Start..MaxTime
    BY DEF RecordOK
  <2>3. /\ \/ now' = now + Lost /\ now + Lost <= MaxTime
           \/ now' = now + 1 /\ now < MaxTime
        /\ p' = NoPos /\ cycle' = NoCycle /\ cycle2' = NoCycle2 /\ sample' = 0
    BY DEF Prune, Restart
  <2> QED BY <2>1, <2>2, <2>3
<1>2. LegsMax \in Nat
  BY CycleAssumption
<1>3. PosShape(NoPos) /\ StampsOK(NoPos, now') /\ LegsOK(NoPos.v2, now')
  BY <1>1, NewRecord
<1>4. RecordOK'
  BY <1>1, <1>2, <1>3, NothingClosed DEF RecordOK, PosShape, StampsOK, OpenOK, Ordered, LegsOK,
                                 TargetOK, IsList
<1> QED BY <1>1, <1>4 DEF PhasesInOrder, NoCycle

\* What the invariant says of the record, in the words of the property.
LEMMA RecordTold ==
    ASSUME RecordOK, PhasesInOrder
    PROVE  CycleInv
<1>1. /\ now \in Nat /\ now <= MaxTime /\ MaxTime \in Nat /\ Future \in Nat
      /\ 0..now \subseteq Times /\ 0..(now + Future) \subseteq Times
  <2>1. Start \in Nat /\ MaxTime \in Nat /\ Future \in Nat
    BY CycleAssumption
  <2>2. now \in Start..MaxTime
    BY DEF RecordOK
  <2> QED BY <2>1, <2>2 DEF Times
<1>2. {p.open[f] : f \in DOMAIN NoOpen \ {"box"}} \subseteq 0..now
  BY DEF RecordOK, StampsOK, OpenOK, NoOpen
<1>3. \A l \in Range(p.v2.legs \o cycle2.legs) : l.target # No /\ l.assigned \in Times
  <2> DEFINE S == Range(p.v2.legs) \cup Range(cycle2.legs)
  <2>1. p.v2.legs \in Seq(S) /\ cycle2.legs \in Seq(S)
    BY SeqMonotonic DEF RecordOK, LegsOK, IsList
  <2>2. \A l \in S : l.target # No /\ l.assigned \in Times
    BY <1>1 DEF RecordOK, LegsOK, TargetOK
  <2>3. Range(p.v2.legs \o cycle2.legs) \subseteq S
    BY <2>1, RangeConcatenation
  <2> QED BY <2>2, <2>3
<1>4. CycleTypeOK
  BY <1>1, <1>2, <1>3 DEF CycleTypeOK, RecordOK, StampsOK, LegsOK
<1> QED BY <1>1, <1>4, ArrivalsDated DEF CycleInv

\* Whatever the feed says, repeats or omits, also of arrivals ahead of our clock, and
\* whenever the truck is forgotten: the record is well formed, the phases of every
\* cycle that is closed are in order, and a time of day gets its own date back.
THEOREM RecordInOrder == CycleSpec => []CycleInv
<1>1. now = Start /\ CycleInit => RecordOK /\ PhasesInOrder
  BY RecordStart
<1>2. RecordOK /\ PhasesInOrder /\ [CycleNext]_<<now, cycleVars>>
        => RecordOK' /\ PhasesInOrder'
  <2>1. RecordOK /\ PhasesInOrder /\ UNCHANGED <<now, cycleVars>> => RecordOK' /\ PhasesInOrder'
    BY DEF cycleVars, RecordOK, PhasesInOrder, Ordered, PosShape, StampsOK, OpenOK, LegsOK,
           TargetOK, IsList
  <2> QED BY <2>1, IngestRecord, ForgottenRecord DEF CycleNext, Receive
<1>3. RecordOK /\ PhasesInOrder => CycleInv
  BY RecordTold
<1> QED BY <1>1, <1>2, <1>3, PTL DEF CycleSpec

--------------------------------------------------------------------------------
(* The legs, for a feed whose clock is not ahead of ours.                    *)

\* The arrivals the feed tells of are past, by less than a day.
FeedNotAhead == \A m \in Messages : m.arr \subseteq 0..(Day - Future - 1)

\* A leg was assigned, then reached, then left, by the time n.
LegOK(l, n) ==
    /\ DOMAIN l = DOMAIN NoLeg
    /\ l.assigned \in 1..n /\ l.arrived \in 0..n /\ l.left \in 0..n
    /\ Ordered(l.assigned, l.arrived) /\ Ordered(l.arrived, l.left)
    /\ l.left > 0 => l.arrived > 0

\* Ended legs, each one left before any later one was assigned.
Linked(s, n) ==
    /\ IsList(s)
    /\ \A l \in Range(s) : LegOK(l, n) /\ (l.arrived > 0 => l.left > 0)
    /\ \A i, j \in 1..Len(s) : i < j => s[i].left <= s[j].assigned

\* The leg under way comes after the ended ones; without one nothing has ended.
ChainOK(v, n) ==
    /\ v.opened \in 0..n /\ v.travel_start \in 0..n
    /\ Linked(v.legs, n)
    /\ v.cur = NoLeg => v.legs = <<>>
    /\ v.cur # NoLeg => LegOK(v.cur, n) /\ \A l \in Range(v.legs) : l.left <= v.cur.assigned

\* What the last message closed.
ClosedOK(c, n) ==
    /\ c.dropped \in 0..n /\ {c.travel_start, c.v1_pickup, c.v1_drop} \subseteq Nat
    /\ Linked(c.legs, c.dropped)

LegsIInv == RecordOK /\ p.arr <= now /\ ChainOK(p.v2, now) /\ ClosedOK(cycle2, now)

-----------------------------------------------------------------------------
LEMMA LegLater ==
    ASSUME NEW l, NEW n \in Nat, NEW k \in Nat, n <= k, LegOK(l, n)
    PROVE  LegOK(l, k)
BY DEF LegOK

LEMMA LinkedLater ==
    ASSUME NEW s, NEW n \in Nat, NEW k \in Nat, n <= k, Linked(s, n)
    PROVE  Linked(s, k)
BY LegLater DEF Linked

LEMMA LinkedEmpty == \A n : Linked(<<>>, n) /\ Range(<<>>) = {}
<1>1. IsList(<<>>) /\ Range(<<>>) = {} /\ Len(<<>>) = 0
  BY EmptySeq DEF IsList, Range
<1> QED BY <1>1 DEF Linked

\* The elements of a list are those at its places.
LEMMA ListPlaces ==
    ASSUME NEW s, IsList(s)
    PROVE  /\ Len(s) \in Nat /\ DOMAIN s = 1..Len(s)
           /\ Range(s) = {s[i] : i \in 1..Len(s)}
BY LenProperties DEF IsList, Range

LEMMA LinkedAppend ==
    ASSUME NEW s, NEW n, NEW l, Linked(s, n), LegOK(l, n), l.arrived > 0 => l.left > 0,
           \A k \in Range(s) : k.left <= l.assigned
    PROVE  Linked(Append(s, l), n)
<1> DEFINE S == Range(s) \cup {l}
           longer == Append(s, l)
           len == Len(s)
<1>1. s \in Seq(S) /\ l \in S
  BY SeqMonotonic DEF Linked, IsList
<1>2. len \in Nat /\ \A i \in 1..len : s[i] \in Range(s)
  BY ListPlaces DEF Linked
<1>3. /\ longer \in Seq(S) /\ Len(longer) = len + 1
      /\ longer[len + 1] = l /\ \A i \in 1..len : longer[i] = s[i]
  BY <1>1, AppendProperties
<1> HIDE DEF longer
<1>4. IsList(longer) /\ Range(longer) \subseteq S
  BY <1>3, SeqOfRange, RangeOfSeq DEF IsList
<1>5. ASSUME NEW i \in 1..(len + 1), NEW j \in 1..(len + 1), i < j
      PROVE  longer[i].left <= longer[j].assigned
  <2> HIDE DEF len
  <2>1. i \in 1..len
    BY <1>2, <1>5
  <2>2. j \in 1..len \/ j = len + 1
    BY <1>2
  <2>3. CASE j \in 1..len
    BY <1>3, <1>5, <2>1, <2>3 DEF Linked, len
  <2>4. CASE j = len + 1
    BY <1>2, <1>3, <2>1, <2>4
  <2> QED BY <2>2, <2>3, <2>4
<1>6. \A k \in Range(longer) : LegOK(k, n) /\ (k.arrived > 0 => k.left > 0)
  BY <1>4 DEF Linked
<1>7. Linked(longer, n)
  BY <1>3, <1>4, <1>5, <1>6 DEF Linked
<1> QED BY <1>7 DEF longer

\* Without its second leg a chain stays one.
LEMMA LinkedRemove ==
    ASSUME NEW s, NEW n, Linked(s, n), Len(s) >= 2
    PROVE  Linked(RemoveAt(s, 2), n) /\ Range(RemoveAt(s, 2)) \subseteq Range(s)
<1> DEFINE S == Range(s)
           len == Len(s)
           head == SubSeq(s, 1, 1)
           rest == SubSeq(s, 3, Len(s))
           fewer == RemoveAt(s, 2)
           At(i) == IF i = 1 THEN 1 ELSE i + 1
<1>1. s \in Seq(S) /\ len \in Nat /\ len >= 2
  BY ListPlaces DEF Linked, IsList
<1>2. fewer = head \o rest
  BY DEF RemoveAt
<1>3. fewer \in Seq(S) /\ Len(fewer) = len - 1
  BY <1>1, RemoveSecond, RemoveSecondLen
<1>4. head \in Seq(S) /\ Len(head) = 1 /\ head[1] = s[1]
  BY <1>1
<1>5. rest \in Seq(S) /\ Len(rest) = len - 2 /\ \A i \in 1..(len - 2) : rest[i] = s[i + 2]
  <2>1. \A i \in 3..Len(s) : s[i] \in S
    BY <1>1, ElementOfSeq
  <2>2. /\ rest \in Seq(S) /\ Len(rest) = (IF 3 <= Len(s) THEN Len(s) - 3 + 1 ELSE 0)
        /\ \A i \in 1..(Len(s) - 3 + 1) : rest[i] = s[3 + i - 1]
    BY <1>1, <2>1, SubSeqProperties
  <2> HIDE DEF rest, S
  <2>3. Len(s) - 3 + 1 = len - 2 /\ (~(3 <= Len(s)) => 0 = len - 2)
        /\ (3 <= Len(s) => Len(s) - 3 + 1 = len - 2)
    <3>1. len = Len(s) /\ len \in Nat /\ len >= 2
      BY <1>1
    <3> HIDE DEF len
    <3> QED BY <3>1
  <2>4. \A i \in 1..(len - 2) : 3 + i - 1 = i + 2
    <3>1. len \in Nat
      BY <1>1
    <3> HIDE DEF len
    <3> QED BY <3>1
  <2> QED BY <2>2, <2>3, <2>4
<1> HIDE DEF head, rest
<1>6. \A i \in 1..(len - 1) : fewer[i] = s[At(i)] /\ At(i) \in 1..len
  <2> SUFFICES ASSUME NEW i \in 1..(len - 1) PROVE fewer[i] = s[At(i)] /\ At(i) \in 1..len
    OBVIOUS
  <2>1. /\ i \in 1..(Len(head) + Len(rest))
        /\ fewer[i] = IF i <= Len(head) THEN head[i] ELSE rest[i - Len(head)]
    <3>1. Len(head) + Len(rest) = len - 1
      BY <1>1, <1>4, <1>5
    <3>2. \A k \in 1..(Len(head) + Len(rest)) :
            (head \o rest)[k] = IF k <= Len(head) THEN head[k] ELSE rest[k - Len(head)]
      BY <1>4, <1>5, ConcatProperties
    <3> QED BY <1>2, <3>1, <3>2
  <2> HIDE DEF fewer, len, S
  <2>2. CASE i = 1
    BY <1>1, <1>4, <2>1, <2>2
  <2>3. CASE i # 1
    <3>1. i - 1 \in 1..(len - 2) /\ ~(i <= 1) /\ (i - 1) + 2 = i + 1 /\ i + 1 \in 1..len
      BY <1>1, <2>3
    <3>2. fewer[i] = rest[i - 1] /\ rest[i - 1] = s[i + 1]
      BY <1>4, <1>5, <2>1, <3>1
    <3> QED BY <2>3, <3>1, <3>2
  <2> QED BY <2>2, <2>3
<1> HIDE DEF fewer
<1>7. IsList(fewer) /\ Range(fewer) \subseteq S
  BY <1>3, SeqOfRange, RangeOfSeq DEF IsList
<1>8. ASSUME NEW i \in 1..(len - 1), NEW j \in 1..(len - 1), i < j
      PROVE  fewer[i].left <= fewer[j].assigned
  <2>1. At(i) < At(j)
    BY <1>1, <1>8
  <2> HIDE DEF At
  <2> QED BY <1>6, <2>1 DEF Linked
<1>9. Linked(fewer, n)
  BY <1>3, <1>7, <1>8 DEF Linked
<1> QED BY <1>7, <1>9 DEF fewer

-----------------------------------------------------------------------------
\* What the feed says of an arrival is past.
LEMMA ArrivalPast ==
    ASSUME FeedNotAhead, NEW m \in Messages, NEW t \in Nat
    PROVE  ArrTime(m, t) <= t
<1>0. Stale \in Nat /\ Future \in Nat /\ Day \in Nat
  BY CycleAssumption
<1>1. CASE m.arr = {}
  BY <1>1 DEF ArrTime
<1>2. CASE m.arr # {}
  <2> DEFINE ago == CHOOSE a \in m.arr : TRUE
             at == t - ago
             d == parse_arr_dtime(at % Day, t)
  <2>1. ago \in 0..(Day - Future - 1)
    BY <1>2 DEF FeedNotAhead
  <2>2. ArrTime(m, t) = d
    BY <1>2 DEF ArrTime
  <2> HIDE DEF ago
  <2>3. at \in (t + Future - Day + 1)..(t + Future) /\ at <= t
    BY <1>0, <2>1
  <2>4. d = at \/ d = 0
    <3> HIDE DEF at
    <3> QED BY <2>3, Dated
  <2> HIDE DEF at, d
  <2> QED BY <2>2, <2>3, <2>4
<1> QED BY <1>1, <1>2

\* The stages before the legs keep the arrival the feed told of.
LEMMA ArrKept ==
    ASSUME NEW m, NEW t, PosShape(p)
    PROVE  LET q == Arrived1(m, t)
           IN  /\ q.arr = IF ArrTime(m, t) = 0 THEN p.arr ELSE ArrTime(m, t)
               /\ BoxChange(q, m, t).arr = q.arr
<1> DEFINE q0 == Carry(m, t)
           q1 == ArriveOpen(q0, m, t)
           q2 == ArriveEmpty(q1, m, t)
           q3 == ArriveCrane(q2, m, t)
<1>1. PosShape(q0) /\ q0.arr = IF ArrTime(m, t) = 0 THEN p.arr ELSE ArrTime(m, t)
  BY DEF Carry, PosShape, NoPos, NoOpen, NoV2
<1> HIDE DEF q0
<1>2. PosShape(q1) /\ q1.arr = q0.arr
  BY <1>1, ArriveOpenKeeps DEF ArriveOpen, PosShape, CarryKept, NoPos
<1> HIDE DEF q1
<1>3. PosShape(q2) /\ q2.arr = q1.arr
  BY <1>2, ArriveEmptyKeeps DEF ArriveEmpty, PosShape, CarryKept, NoPos
<1> HIDE DEF q2
<1>4. PosShape(q3) /\ q3.arr = q2.arr
  BY <1>3, ArriveCraneKeeps DEF ArriveCrane, PosShape, CarryKept, NoPos
<1> HIDE DEF q3
<1>5. BoxChange(q3, m, t).arr = q3.arr
  <2> DEFINE told == IF Delivered(q3, m, t)
                     THEN [q3 EXCEPT !.last_drop = t, !.open = NoOpen, !.box = No] ELSE q3
             next == IF p.c1 # No THEN [told EXCEPT !.empty_since = t] ELSE told
             loaded1 == [next EXCEPT !.carry_since = t, !.carry_trip = 0, !.box = m.c1,
                                 !.open = open_cycle([next EXCEPT !.box = m.c1], t),
                                 !.empty_arrived = 0]
             emptied == [told EXCEPT !.carry_since = 0, !.carry_trip = 0,
                                 !.empty_since = t, !.empty_arrived = 0]
             r == BoxChange(q3, m, t)
  <2>1. r = q3 \/ r = emptied \/ r = loaded1
    BY DEF BoxChange
  <2>2. told.arr = q3.arr /\ DOMAIN told = DOMAIN NoPos
    BY <1>4 DEF PosShape, NoPos
  <2> HIDE DEF told, r
  <2>3. emptied.arr = told.arr
    BY <2>2 DEF NoPos
  <2>4. next.arr = told.arr /\ DOMAIN next = DOMAIN NoPos
    BY <2>2 DEF NoPos
  <2> HIDE DEF emptied, next
  <2>5. loaded1.arr = next.arr
    BY <2>4 DEF NoPos
  <2> HIDE DEF loaded1
  <2>6. r.arr = q3.arr
    BY <2>1, <2>2, <2>3, <2>4, <2>5
  <2> QED BY <2>6 DEF r
<1>6. q3 = Arrived1(m, t)
  BY DEF q0, q1, q2, q3, Arrived1
<1> QED BY <1>1, <1>2, <1>3, <1>4, <1>5, <1>6

-----------------------------------------------------------------------------
\* A leg is reached once it was assigned; a precise arrival clears a departure that is
\* not later.
LEMMA LegArrivalOK ==
    ASSUME NEW leg, NEW q, NEW m, NEW t \in Nat, LegOK(leg, t), q.arr \in 0..t
    PROVE  LET l == LegArrival(leg, q, m, t)
           IN  LegOK(l, t) /\ l.assigned = leg.assigned
<1> DEFINE precise == IF q.arr > 0 /\ q.arr >= leg.assigned THEN <<q.arr, "arr_dtime">>
                      ELSE IF ArrivedEdge(m) THEN <<t, "arrived">> ELSE <<0, No>>
           at == precise[1]
           src == precise[2]
           left == IF leg.src = "cur_loc" /\ leg.left <= at THEN 0 ELSE leg.left
           l == LegArrival(leg, q, m, t)
<1>1. /\ DOMAIN leg = DOMAIN NoLeg
      /\ leg.assigned \in 1..t /\ leg.arrived \in 0..t /\ leg.left \in 0..t
      /\ Ordered(leg.assigned, leg.arrived) /\ Ordered(leg.arrived, leg.left)
      /\ leg.left > 0 => leg.arrived > 0
  BY DEF LegOK
<1>2. at = 0 \/ (at \in 0..t /\ at >= leg.assigned)
  BY <1>1
<1>3. \/ l = leg
      \/ /\ leg.arrived = 0 \/ leg.src = "cur_loc"
         /\ at > 0 /\ l = [leg EXCEPT !.arrived = at, !.src = src, !.left = left]
      \/ leg.arrived = 0 /\ l = [leg EXCEPT !.arrived = t, !.src = "cur_loc"]
      \/ leg.arrived = 0 /\ l = [leg EXCEPT !.arrived = t, !.src = "gps"]
  <2>1. Reached(leg, precise) = [leg EXCEPT !.arrived = at, !.src = src, !.left = left]
    BY DEF Reached
  <2> HIDE DEF left
  <2> QED BY <2>1 DEF LegArrival
<1> HIDE DEF precise, at, src, l
<1>4. CASE l = leg
  BY <1>4 DEF l
<1>5. CASE /\ leg.arrived = 0 \/ leg.src = "cur_loc"
           /\ at > 0 /\ l = [leg EXCEPT !.arrived = at, !.src = src, !.left = left]
  <2>1. left \in 0..t /\ (left > 0 => left >= at)
    BY <1>1, <1>2, <1>5
  <2> HIDE DEF left
  <2>2. /\ DOMAIN l = DOMAIN NoLeg /\ l.assigned = leg.assigned /\ l.arrived = at /\ l.left = left
    BY <1>1, <1>5 DEF NoLeg
  <2>3. LegOK(l, t)
    BY <1>1, <1>2, <1>5, <2>1, <2>2 DEF LegOK, Ordered
  <2> QED BY <2>2, <2>3 DEF l
<1>6. ASSUME NEW s, leg.arrived = 0, l = [leg EXCEPT !.arrived = t, !.src = s]
      PROVE  LegOK(l, t) /\ l.assigned = leg.assigned
  <2>1. /\ DOMAIN l = DOMAIN NoLeg /\ l.assigned = leg.assigned /\ l.arrived = t
        /\ l.left = leg.left
    BY <1>1, <1>6 DEF NoLeg
  <2>2. leg.left = 0
    BY <1>1, <1>6
  <2> QED BY <1>1, <2>1, <2>2 DEF LegOK, Ordered
<1>7. LegOK(l, t) /\ l.assigned = leg.assigned
  BY <1>3, <1>4, <1>5, <1>6 DEF l
<1> QED BY <1>7 DEF l

LEMMA LegLeftOK ==
    ASSUME NEW leg, NEW t \in Nat, LegOK(leg, t), leg.arrived > 0, leg.left = 0
    PROVE  LET l == [leg EXCEPT !.left = t]
           IN  LegOK(l, t) /\ l.assigned = leg.assigned /\ l.left > 0
<1> DEFINE l == [leg EXCEPT !.left = t]
<1>1. /\ DOMAIN l = DOMAIN NoLeg /\ l.assigned = leg.assigned /\ l.arrived = leg.arrived
      /\ l.left = t /\ leg.assigned \in 1..t /\ leg.arrived \in 0..t
      /\ Ordered(leg.assigned, leg.arrived)
  BY DEF LegOK, NoLeg
<1> HIDE DEF l
<1>2. LegOK(l, t) /\ l.assigned = leg.assigned /\ l.left > 0
  BY <1>1 DEF LegOK, Ordered
<1> QED BY <1>2 DEF l

LEMMA LegDepartureOK ==
    ASSUME NEW leg, NEW m, NEW t \in Nat, LegOK(leg, t)
    PROVE  LET l == LegDeparture(leg, m, t)
           IN  LegOK(l, t) /\ l.assigned = leg.assigned
BY LegLeftOK DEF LegDeparture

LEMMA EndLegOK ==
    ASSUME NEW leg, NEW t \in Nat, LegOK(leg, t)
    PROVE  LET l == EndLeg(leg, t)
           IN  /\ LegOK(l, t) /\ l.assigned = leg.assigned
               /\ l.arrived > 0 => l.left > 0
<1>1. CASE leg.arrived > 0 /\ leg.left = 0
  BY <1>1, LegLeftOK DEF EndLeg
<1>2. CASE ~(leg.arrived > 0 /\ leg.left = 0)
  BY <1>2 DEF EndLeg, LegOK
<1> QED BY <1>1, <1>2

LEMMA NewLegOK ==
    ASSUME NEW target, NEW m, NEW t \in Nat, t > 0
    PROVE  LET l == NewLeg(target, m, t)
           IN  LegOK(l, t) /\ l.assigned = t
<1> DEFINE l == NewLeg(target, m, t)
<1>1. /\ DOMAIN l = DOMAIN NoLeg /\ l.assigned = t /\ l.left = 0 /\ l.arrived \in {0, t}
  BY DEF NewLeg, NoLeg
<1> HIDE DEF l
<1>2. LegOK(l, t) /\ l.assigned = t
  BY <1>1 DEF LegOK, Ordered
<1> QED BY <1>2 DEF l

-----------------------------------------------------------------------------
\* The stages keep the chain.
LEMMA TravelStartChain ==
    ASSUME NEW q, NEW m, NEW t \in Nat, PosShape(q), ChainOK(q.v2, t)
    PROVE  ChainOK(TravelStart(q, m, t).v2, t)
<1> DEFINE r == TravelStart(q, m, t)
<1>1. /\ r.v2.opened = q.v2.opened /\ r.v2.cur = q.v2.cur /\ r.v2.legs = q.v2.legs
      /\ r.v2.travel_start \in {q.v2.travel_start, t}
  BY DEF TravelStart, PosShape, NoPos, NoV2
<1> HIDE DEF r
<1>2. ChainOK(r.v2, t)
  BY <1>1 DEF ChainOK
<1> QED BY <1>2 DEF r

LEMMA ProgressChain ==
    ASSUME NEW q, NEW m, NEW t \in Nat, PosShape(q), q.arr \in 0..t, ChainOK(q.v2, t)
    PROVE  ChainOK(Progress(q, m, t).v2, t)
<1> DEFINE r == Progress(q, m, t)
           arrived == LegArrival(q.v2.cur, q, m, t)
           leg == LegDeparture(arrived, m, t)
<1>1. CASE q.v2.cur = NoLeg
  BY <1>1 DEF Progress
<1>2. CASE q.v2.cur # NoLeg
  <2>1. LegOK(q.v2.cur, t) /\ \A l \in Range(q.v2.legs) : l.left <= q.v2.cur.assigned
    BY <1>2 DEF ChainOK
  <2>2. LegOK(arrived, t) /\ arrived.assigned = q.v2.cur.assigned
    BY <2>1, LegArrivalOK
  <2> HIDE DEF arrived
  <2>3. LegOK(leg, t) /\ leg.assigned = arrived.assigned
    BY <2>2, LegDepartureOK
  <2>4. r = [q EXCEPT !.v2.cur = leg]
    BY <1>2 DEF Progress, arrived
  <2> HIDE DEF leg, r
  <2>5. /\ r.v2.opened = q.v2.opened /\ r.v2.cur = leg /\ r.v2.legs = q.v2.legs
        /\ r.v2.travel_start = q.v2.travel_start
    BY <2>4 DEF PosShape, NoPos, NoV2
  <2>6. leg # NoLeg
    BY <2>3 DEF LegOK, NoLeg
  <2>7. ChainOK(r.v2, t)
    BY <2>1, <2>2, <2>3, <2>5, <2>6 DEF ChainOK
  <2> QED BY <2>7 DEF r
<1> QED BY <1>1, <1>2

LEMMA Open2Chain ==
    ASSUME NEW q, NEW t \in Nat, t > 0, PosShape(q), ChainOK(q.v2, t)
    PROVE  LET r == Open2(q, t)
           IN  /\ ChainOK(r.v2, t) /\ PosShape(r) /\ r.v2.opened > 0
               /\ r.v2.legs = q.v2.legs /\ r.v2.cur = q.v2.cur
<1> DEFINE r == Open2(q, t)
<1>1. /\ r.v2.opened = (IF q.v2.opened = 0 THEN t ELSE q.v2.opened) /\ r.v2.cur = q.v2.cur
      /\ r.v2.legs = q.v2.legs /\ r.v2.travel_start = q.v2.travel_start /\ PosShape(r)
  BY DEF Open2, PosShape, NoPos, NoV2
<1> HIDE DEF r
<1>2. ChainOK(r.v2, t) /\ r.v2.opened > 0
  BY <1>1 DEF ChainOK
<1> QED BY <1>1, <1>2 DEF r

LEMMA PickupLegChain ==
    ASSUME NEW q, NEW m, NEW t \in Nat, t > 0, PosShape(q), ChainOK(q.v2, t)
    PROVE  ChainOK(PickupLeg(q, m, t).v2, t)
<1> DEFINE o == Open2(q, t)
           target == Or(q.topos, m.loc)
           reached == [o EXCEPT !.v2.cur.arrived = t, !.v2.cur.src = "container1"]
           leg == [target |-> target, crane |-> Or(o.v2.job, q.job) = "DS",
                   assigned |-> o.v2.opened, arrived |-> t, src |-> "container1", left |-> 0]
           r == PickupLeg(q, m, t)
<1>1. PosShape(o) /\ ChainOK(o.v2, t) /\ o.v2.opened > 0
  BY Open2Chain
<1>2. \/ r = q \/ r = o
      \/ o.v2.cur # NoLeg /\ o.v2.cur.arrived = 0 /\ r = reached
      \/ o.v2.cur = NoLeg /\ r = [o EXCEPT !.v2.cur = leg]
  BY DEF PickupLeg
<1> HIDE DEF o, target, r
<1>3. CASE o.v2.cur # NoLeg /\ o.v2.cur.arrived = 0 /\ r = reached
  <2>1. LegOK(o.v2.cur, t) /\ \A l \in Range(o.v2.legs) : l.left <= o.v2.cur.assigned
    BY <1>1, <1>3 DEF ChainOK
  <2>2. /\ DOMAIN r.v2.cur = DOMAIN NoLeg /\ r.v2.cur.left = o.v2.cur.left
        /\ r.v2.cur.assigned = o.v2.cur.assigned /\ r.v2.cur.arrived = t
        /\ r.v2.opened = o.v2.opened /\ r.v2.legs = o.v2.legs
        /\ r.v2.travel_start = o.v2.travel_start
    BY <1>1, <1>3, <2>1 DEF LegOK, PosShape, NoPos, NoV2, NoLeg
  <2> HIDE DEF reached
  <2>3. LegOK(r.v2.cur, t)
    <3>1. o.v2.cur.left = 0
      BY <1>3, <2>1 DEF LegOK
    <3> QED BY <2>1, <2>2, <3>1 DEF LegOK, Ordered
  <2>4. r.v2.cur # NoLeg
    BY <2>3 DEF LegOK, NoLeg
  <2>5. ChainOK(r.v2, t)
    BY <1>1, <2>1, <2>2, <2>3, <2>4 DEF ChainOK
  <2> QED BY <2>5 DEF r
<1>4. CASE o.v2.cur = NoLeg /\ r = [o EXCEPT !.v2.cur = leg]
  <2>1. /\ DOMAIN leg = DOMAIN NoLeg /\ leg.assigned = o.v2.opened /\ leg.arrived = t
        /\ leg.left = 0
    BY DEF NoLeg
  <2> HIDE DEF leg
  <2>2. o.v2.legs = <<>> /\ o.v2.opened \in 1..t
    BY <1>1, <1>4 DEF ChainOK
  <2>3. LegOK(leg, t)
    BY <2>1, <2>2 DEF LegOK, Ordered
  <2>4. /\ r.v2.cur = leg /\ r.v2.opened = o.v2.opened /\ r.v2.legs = o.v2.legs
        /\ r.v2.travel_start = o.v2.travel_start
    BY <1>1, <1>4 DEF PosShape, NoPos, NoV2
  <2>5. leg # NoLeg
    BY <2>3 DEF LegOK, NoLeg
  <2>6. Range(r.v2.legs) = {}
    BY <2>2, <2>4, LinkedEmpty
  <2>7. ChainOK(r.v2, t)
    BY <1>1, <2>3, <2>4, <2>5, <2>6 DEF ChainOK
  <2> QED BY <2>7 DEF r
<1>5. r = q \/ r = o => ChainOK(r.v2, t)
  BY <1>1
<1> HIDE DEF reached, leg
<1> QED BY <1>2, <1>3, <1>4, <1>5 DEF r

LEMMA ClosedLegsChain ==
    ASSUME NEW q, NEW t \in Nat, ChainOK(q.v2, t)
    PROVE  Linked(ClosedLegs(q, t), t)
<1>1. CASE q.v2.cur = NoLeg \/ CarryOver(q)
  BY <1>1 DEF ClosedLegs, ChainOK
<1>2. CASE ~(q.v2.cur = NoLeg \/ CarryOver(q))
  <2> DEFINE ended == EndLeg(q.v2.cur, t)
  <2>1. LegOK(q.v2.cur, t) /\ \A l \in Range(q.v2.legs) : l.left <= q.v2.cur.assigned
    BY <1>2 DEF ChainOK
  <2>2. LegOK(ended, t) /\ ended.assigned = q.v2.cur.assigned /\ (ended.arrived > 0 => ended.left > 0)
    BY <2>1, EndLegOK
  <2>3. ClosedLegs(q, t) = Append(q.v2.legs, ended)
    BY <1>2 DEF ClosedLegs
  <2> HIDE DEF ended
  <2> QED BY <2>1, <2>2, <2>3, LinkedAppend DEF ChainOK
<1> QED BY <1>1, <1>2

LEMMA ReopenChain ==
    ASSUME NEW q, NEW m, NEW t \in Nat, t > 0, PosShape(q), ChainOK(q.v2, t)
    PROVE  ChainOK(Reopen(q, m, t).v2, t)
<1> DEFINE kept == CarryOver(q)
           r == Reopen(q, m, t)
           opened == IF m.c1 # No THEN t ELSE IF kept THEN Min2(q.v2.cur.assigned, t) ELSE 0
           new == NewLeg(q.topos, m, t)
           cur == IF kept THEN q.v2.cur
                  ELSE IF m.c1 # No /\ q.topos # No /\ q.topos # p.topos THEN new
                  ELSE NoLeg
<1>1. /\ r.v2.opened = opened /\ r.v2.cur = cur /\ r.v2.legs = <<>>
      /\ r.v2.travel_start = 0
  BY DEF Reopen, PosShape, NoPos, NoV2
<1>2. kept => LegOK(q.v2.cur, t)
  BY DEF ChainOK, CarryOver
<1>3. opened \in 0..t
  <2> HIDE DEF kept
  <2> QED BY <1>2 DEF Min2, LegOK
<1>4. cur = NoLeg \/ LegOK(cur, t)
  <2>1. LegOK(new, t)
    BY NewLegOK
  <2> HIDE DEF kept, new
  <2> QED BY <1>2, <2>1
<1> HIDE DEF r, opened, cur
<1>5. ChainOK(r.v2, t)
  BY <1>1, <1>3, <1>4, LinkedEmpty DEF ChainOK
<1> QED BY <1>5 DEF r

LEMMA TransitionChain ==
    ASSUME NEW q, NEW m, NEW t \in Nat, t > 0, PosShape(q), ChainOK(q.v2, t)
    PROVE  ChainOK(Transition(q, m, t).v2, t)
<1> DEFINE o == Open2(q, t)
           kept == IF Len(q.v2.legs) >= LegsMax THEN RemoveAt(q.v2.legs, 2) ELSE q.v2.legs
           ended == EndLeg(q.v2.cur, t)
           legs == IF q.v2.cur = NoLeg THEN q.v2.legs ELSE Append(kept, ended)
           leg == NewLeg(m.topos, m, t)
           r == Transition(q, m, t)
<1>0. LegsMax \in Nat /\ LegsMax >= 2
  BY CycleAssumption
<1>1. ChainOK(o.v2, t) /\ PosShape(o) /\ o.v2.legs = q.v2.legs
  BY Open2Chain
<1>2. CASE m.topos = No \/ m.topos = p.topos \/ m.topos = q.v2.cur.target
  BY <1>2 DEF Transition
<1>3. CASE ~(m.topos = No \/ m.topos = p.topos \/ m.topos = q.v2.cur.target)
  <2>1. r = [o EXCEPT !.v2.legs = legs, !.v2.cur = leg]
    BY <1>1, <1>3 DEF Transition, PosShape, NoPos, NoV2
  <2>2. LegOK(leg, t) /\ leg.assigned = t
    BY NewLegOK
  <2>3. Linked(legs, t)
    <3>1. CASE q.v2.cur = NoLeg
      BY <3>1 DEF ChainOK
    <3>2. CASE q.v2.cur # NoLeg
      <4>1. LegOK(q.v2.cur, t) /\ \A l \in Range(q.v2.legs) : l.left <= q.v2.cur.assigned
        BY <3>2 DEF ChainOK
      <4>2. LegOK(ended, t) /\ ended.assigned = q.v2.cur.assigned
            /\ (ended.arrived > 0 => ended.left > 0)
        BY <4>1, EndLegOK
      <4> HIDE DEF ended
      <4>3. Linked(kept, t) /\ Range(kept) \subseteq Range(q.v2.legs)
        <5>1. Linked(q.v2.legs, t) /\ Len(q.v2.legs) \in Nat
          BY ListPlaces DEF ChainOK, Linked
        <5>2. CASE Len(q.v2.legs) >= LegsMax
          <6>1. Len(q.v2.legs) >= 2
            BY <1>0, <5>1, <5>2
          <6> QED BY <5>1, <5>2, <6>1, LinkedRemove
        <5>3. CASE ~(Len(q.v2.legs) >= LegsMax)
          BY <5>1, <5>3
        <5> QED BY <5>2, <5>3
      <4> HIDE DEF kept
      <4> QED BY <3>2, <4>1, <4>2, <4>3, LinkedAppend
    <3> QED BY <3>1, <3>2
  <2> HIDE DEF ended, leg, o, r, kept, legs
  <2>4. /\ r.v2.legs = legs /\ r.v2.cur = leg /\ r.v2.opened = o.v2.opened
        /\ r.v2.travel_start = o.v2.travel_start
    BY <1>1, <2>1 DEF PosShape, NoPos, NoV2
  <2>5. \A l \in Range(legs) : l.left <= t
    BY <2>3 DEF Linked, LegOK
  <2>6. leg # NoLeg
    BY <2>2 DEF LegOK, NoLeg
  <2>7. ChainOK(r.v2, t)
    BY <1>1, <2>2, <2>3, <2>4, <2>5, <2>6 DEF ChainOK
  <2> QED BY <2>7 DEF r
<1> QED BY <1>2, <1>3

LEMMA ChainLater ==
    ASSUME NEW v, NEW n \in Nat, NEW k \in Nat, n <= k, ChainOK(v, n)
    PROVE  ChainOK(v, k)
BY LegLater, LinkedLater DEF ChainOK

LEMMA NewChain == \A n \in Nat : ChainOK(NoPos.v2, n) /\ ClosedOK(NoCycle2, n)
<1> SUFFICES ASSUME NEW n \in Nat PROVE ChainOK(NoPos.v2, n) /\ ClosedOK(NoCycle2, n)
  OBVIOUS
<1>1. ChainOK(NoPos.v2, n)
  <2>1. /\ NoPos.v2.opened = 0 /\ NoPos.v2.travel_start = 0
        /\ NoPos.v2.cur = NoLeg /\ NoPos.v2.legs = <<>>
    BY DEF NoPos, NoV2
  <2> QED BY <2>1, LinkedEmpty DEF ChainOK
<1>2. ClosedOK(NoCycle2, n)
  <2>1. /\ NoCycle2.dropped = 0 /\ NoCycle2.travel_start = 0 /\ NoCycle2.v1_pickup = 0
        /\ NoCycle2.v1_drop = 0 /\ NoCycle2.legs = <<>>
    BY DEF NoCycle2
  <2> QED BY <2>1, LinkedEmpty DEF ClosedOK
<1> QED BY <1>1, <1>2

LEMMA LegsStart ==
    ASSUME now = Start, CycleInit
    PROVE  LegsIInv
<1>1. now \in Nat /\ p = NoPos /\ cycle2 = NoCycle2
  BY CycleAssumption DEF CycleInit
<1>2. p.arr <= now
  BY <1>1 DEF NoPos
<1> QED BY <1>1, <1>2, NewChain, RecordStart DEF LegsIInv

\* A closed cycle takes its legs and its travel start from the chain, and the stamps
\* of tt_cycle_log from the open cycle.
LEMMA ClosedCycleOK ==
    ASSUME NEW q, NEW o, NEW m, NEW t \in Nat, t > 0, ChainOK(q.v2, t),
           PosShape(o), OpenOK(o.open, t)
    PROVE  ClosedOK(finalize_v2(q, finalize_cycle(o, m, t), t), t)
<1> DEFINE c == finalize_cycle(o, m, t)
           r == finalize_v2(q, c, t)
           legs == ClosedLegs(q, t)
<1>1. c.open.pickup_arrived = o.open.pickup_arrived /\ c.open.arrived = o.open.arrived
  BY DEF finalize_cycle, PosShape, NoOpen
<1>2. o.open.pickup_arrived \in Nat /\ o.open.arrived \in Nat
  BY DEF OpenOK
<1> HIDE DEF c
<1>3. Linked(legs, t)
  BY ClosedLegsChain
<1>4. q.v2.travel_start \in Nat
  BY DEF ChainOK
<1>5. \/ r = NoCycle2
      \/ /\ r.dropped = t /\ r.travel_start = q.v2.travel_start /\ r.legs = legs
         /\ r.v1_pickup = c.open.pickup_arrived /\ r.v1_drop = c.open.arrived
  BY DEF finalize_v2
<1> HIDE DEF r, legs
<1>6. ClosedOK(r, t)
  <2>1. CASE r = NoCycle2
    BY <2>1, NewChain
  <2>2. CASE r # NoCycle2
    BY <1>1, <1>2, <1>3, <1>4, <1>5, <2>2 DEF ClosedOK
  <2> QED BY <2>1, <2>2
<1> QED BY <1>6 DEF r, c

LEMMA IngestLegs ==
    ASSUME FeedNotAhead, LegsIInv, NEW m \in Messages, Ingest(m)
    PROVE  LegsIInv'
<1> DEFINE t == now + 1
           q1 == ArriveCrane(ArriveEmpty(ArriveOpen(Carry(m, t), m, t), m, t), m, t)
           told == Delivered(q1, m, t)
           q2 == BoxChange(q1, m, t)
           s1 == TravelStart(q2, m, t)
           s2 == Progress(s1, m, t)
           q3 == PickupLeg(s2, m, t)
           q4 == IF told THEN Reopen(q3, m, t) ELSE q3
           q5 == Transition(q4, m, t)
           c == finalize_cycle(q1, m, t)
<1>1. /\ now' = t /\ p' = q5
      /\ cycle2' = IF told THEN finalize_v2(q3, c, t) ELSE NoCycle2
  BY DEF Ingest
<1>2. /\ now \in Nat /\ t \in Nat /\ t > 0 /\ now <= t
      /\ PosShape(p) /\ p.arr \in 0..t /\ ChainOK(p.v2, now)
  <2>1. Start \in Nat /\ MaxTime \in Nat /\ Future \in Nat
    BY CycleAssumption
  <2>2. /\ now \in Start..MaxTime /\ PosShape(p) /\ p.arr \in 0..(now + Future) /\ p.arr <= now
        /\ ChainOK(p.v2, now)
    BY DEF LegsIInv, RecordOK, StampsOK
  <2> QED BY <2>1, <2>2
<1>3. RecordOK'
  BY IngestRecord DEF LegsIInv
<1>4. PosShape(q1) /\ q1.v2 = p.v2 /\ OpenOK(q1.open, t)
  <2>1. PosShape(q1) /\ q1.v2 = p.v2
    BY <1>2, ArrivedRecord DEF Arrived1
  <2>2. StampsOK(q1, t)
    BY ArrivedStamps DEF LegsIInv, Arrived1
  <2> QED BY <2>1, <2>2 DEF StampsOK
<1>5. q1.arr \in 0..t /\ q2.arr = q1.arr
  <2>1. ArrTime(m, t) \in 0..t
    <3>1. Stale \in Nat /\ Start \in Nat /\ MaxTime \in Nat /\ Stale <= Start /\ Future \in Nat
      BY CycleAssumption
    <3>2. t >= Stale
      BY <3>1 DEF LegsIInv, RecordOK
    <3> HIDE DEF t
    <3> QED BY <1>2, <3>1, <3>2, ArrivalTime, ArrivalPast
  <2>2. /\ q1.arr = IF ArrTime(m, t) = 0 THEN p.arr ELSE ArrTime(m, t)
        /\ q2.arr = q1.arr
    BY <1>2, ArrKept DEF Arrived1
  <2> QED BY <1>2, <2>1, <2>2
<1> HIDE DEF q1
<1>6. PosShape(q2) /\ q2.v2 = p.v2
  BY <1>4, BoxChangeCarry
<1>7. ChainOK(q2.v2, t)
  BY <1>2, <1>6, ChainLater
<1> HIDE DEF t, q2
<1>8. ChainOK(s1.v2, t) /\ PosShape(s1) /\ s1.arr = q2.arr
  BY <1>2, <1>6, <1>7, TravelStartChain, TravelStartStamps DEF StampsKept
<1> HIDE DEF s1
<1>9. ChainOK(s2.v2, t) /\ PosShape(s2) /\ s2.arr = s1.arr
  BY <1>2, <1>5, <1>8, ProgressChain, ProgressStamps DEF StampsKept
<1> HIDE DEF s2
<1>10. ChainOK(q3.v2, t) /\ PosShape(q3) /\ q3.arr = s2.arr
  BY <1>2, <1>9, PickupLegChain, PickupLegStamps DEF StampsKept
<1> HIDE DEF q3
<1>11. ChainOK(q4.v2, t) /\ PosShape(q4) /\ q4.arr = q3.arr
  <2>1. /\ ChainOK(Reopen(q3, m, t).v2, t) /\ PosShape(Reopen(q3, m, t))
        /\ Reopen(q3, m, t).arr = q3.arr
    BY <1>2, <1>10, ReopenChain, ReopenStamps DEF StampsKept
  <2> QED BY <1>10, <2>1
<1> HIDE DEF q4
<1>12. ChainOK(q5.v2, t) /\ q5.arr = q4.arr
  BY <1>2, <1>11, TransitionChain, TransitionStamps DEF StampsKept
<1> HIDE DEF q5, told
<1>13. ClosedOK(cycle2', t)
  <2>1. ClosedOK(finalize_v2(q3, c, t), t)
    BY <1>2, <1>4, <1>10, ClosedCycleOK
  <2> QED BY <1>1, <1>2, <2>1, NewChain
<1>14. p'.arr <= now' /\ ChainOK(p'.v2, now') /\ ClosedOK(cycle2', now')
  BY <1>1, <1>2, <1>5, <1>8, <1>9, <1>10, <1>11, <1>12, <1>13
<1> QED BY <1>3, <1>14 DEF LegsIInv, ChainOK, ClosedOK, Linked, LegOK, Ordered, IsList

LEMMA ForgottenLegs ==
    ASSUME LegsIInv, Prune \/ Restart
    PROVE  LegsIInv'
<1>1. RecordOK' /\ now' \in Nat
  <2>1. RecordOK'
    BY ForgottenRecord DEF LegsIInv
  <2>2. Start \in Nat /\ MaxTime \in Nat
    BY CycleAssumption
  <2> QED BY <2>1, <2>2 DEF RecordOK
<1>2. p' = NoPos /\ cycle2' = NoCycle2
  BY DEF Prune, Restart
<1>3. p'.arr <= now' /\ ChainOK(p'.v2, now') /\ ClosedOK(cycle2', now')
  <2>1. NoPos.arr = 0
    BY DEF NoPos
  <2> QED BY <1>1, <1>2, <2>1, NewChain
<1> QED BY <1>1, <1>3 DEF LegsIInv, ChainOK, ClosedOK, Linked, LegOK, Ordered, IsList

\* The legs of a list are in order, each with the leg before it.
LEMMA LinkedInOrder ==
    ASSUME NEW s, NEW n \in Nat, Linked(s, n)
    PROVE  \A i \in DOMAIN s :
              /\ Ordered(s[i].assigned, s[i].arrived) /\ Ordered(s[i].arrived, s[i].left)
              /\ s[i].left > 0 => s[i].arrived > 0
              /\ i > 1 => Ordered(s[i - 1].left, s[i].assigned)
<1> SUFFICES ASSUME NEW i \in DOMAIN s
             PROVE  /\ Ordered(s[i].assigned, s[i].arrived) /\ Ordered(s[i].arrived, s[i].left)
                    /\ s[i].left > 0 => s[i].arrived > 0
                    /\ i > 1 => Ordered(s[i - 1].left, s[i].assigned)
  OBVIOUS
<1>1. DOMAIN s = 1..Len(s) /\ Len(s) \in Nat /\ s[i] \in Range(s)
  BY ListPlaces DEF Linked
<1>2. LegOK(s[i], n)
  BY <1>1 DEF Linked
<1>3. i > 1 => s[i - 1].left <= s[i].assigned
  BY <1>1 DEF Linked
<1> QED BY <1>2, <1>3 DEF LegOK, Ordered

LEMMA LegsTold == LegsIInv => LegsInOrder
<1> SUFFICES ASSUME LegsIInv PROVE LegsInOrder
  OBVIOUS
<1> DEFINE s == p.v2.legs
           cur == p.v2.cur
           all == Append(s, cur)
           Told(q) == \A i \in DOMAIN q :
              /\ Ordered(q[i].assigned, q[i].arrived) /\ Ordered(q[i].arrived, q[i].left)
              /\ q[i].left > 0 => q[i].arrived > 0
              /\ i > 1 /\ q[i].target # No => Ordered(q[i - 1].left, q[i].assigned)
<1>1. now \in Nat /\ Linked(s, now) /\ cycle2.dropped \in Nat /\ Linked(cycle2.legs, cycle2.dropped)
  <2>1. now \in Nat
    BY CycleAssumption DEF LegsIInv, RecordOK
  <2> QED BY <2>1 DEF LegsIInv, ChainOK, ClosedOK
<1>2. /\ Ordered(cur.assigned, cur.arrived) /\ Ordered(cur.arrived, cur.left)
      /\ cur.left > 0 => cur.arrived > 0
  <2>1. CASE cur = NoLeg
    BY <2>1 DEF NoLeg, Ordered
  <2>2. CASE cur # NoLeg
    BY <2>2 DEF LegsIInv, ChainOK, LegOK
  <2> QED BY <2>1, <2>2
<1>3. Told(s) /\ Told(cycle2.legs)
  BY <1>1, LinkedInOrder
<1>4. Told(all)
  <2>1. s \in Seq(Range(s) \cup {cur})
    BY <1>1, SeqMonotonic DEF Linked, IsList
  <2>2. /\ Len(s) \in Nat /\ DOMAIN s = 1..Len(s) /\ DOMAIN all = 1..(Len(s) + 1)
        /\ all[Len(s) + 1] = cur /\ \A i \in 1..Len(s) : all[i] = s[i] /\ s[i] \in Range(s)
    <3>1. cur \in Range(s) \cup {cur}
      OBVIOUS
    <3>2. Len(s) \in Nat /\ DOMAIN s = 1..Len(s) /\ \A i \in 1..Len(s) : s[i] \in Range(s)
      BY <1>1, ListPlaces DEF Linked
    <3>3. all \in Seq(Range(s) \cup {cur}) /\ Len(all) = Len(s) + 1
          /\ all[Len(s) + 1] = cur /\ \A i \in 1..Len(s) : all[i] = s[i]
      BY <2>1, <3>1, AppendProperties
    <3> HIDE DEF all
    <3>4. DOMAIN all = 1..Len(all)
      BY <3>3, LenProperties
    <3> QED BY <3>2, <3>3, <3>4
  <2>3. \A l \in Range(s) : cur # NoLeg =>
           /\ l.left <= cur.assigned /\ l.left \in Nat /\ cur.assigned \in Nat
    BY <1>1 DEF LegsIInv, ChainOK, Linked, LegOK
  <2>4. cur = NoLeg => cur.target = No
    BY DEF NoLeg
  <2> HIDE DEF all, s, cur
  <2> SUFFICES ASSUME NEW i \in 1..(Len(s) + 1)
               PROVE  /\ Ordered(all[i].assigned, all[i].arrived)
                      /\ Ordered(all[i].arrived, all[i].left)
                      /\ all[i].left > 0 => all[i].arrived > 0
                      /\ i > 1 /\ all[i].target # No => Ordered(all[i - 1].left, all[i].assigned)
    BY <2>2
  <2>5. CASE i \in 1..Len(s)
    <3>1. i > 1 => i - 1 \in 1..Len(s)
      BY <2>2, <2>5
    <3>2. all[i] = s[i] /\ (i > 1 => all[i - 1] = s[i - 1])
      BY <2>2, <2>5, <3>1
    <3> QED BY <1>3, <2>2, <2>5, <3>2
  <2>6. CASE i = Len(s) + 1
    <3>1. i > 1 => i - 1 \in 1..Len(s) /\ all[i - 1] = s[i - 1] /\ s[i - 1] \in Range(s)
      <4>1. i > 1 => i - 1 \in 1..Len(s)
        BY <2>2, <2>6
      <4> QED BY <2>2, <4>1
    <3>2. i > 1 /\ all[i].target # No => Ordered(all[i - 1].left, all[i].assigned)
      BY <2>2, <2>3, <2>4, <2>6, <3>1 DEF Ordered
    <3> QED BY <1>2, <2>2, <2>6, <3>2
  <2> QED BY <2>2, <2>5, <2>6
<1> HIDE DEF all
<1> QED BY <1>2, <1>3, <1>4 DEF LegsInOrder, all

\* A set of numbers has a least one.
LEMMA LeastOf ==
    ASSUME NEW S \in SUBSET Nat, S # {}
    PROVE  Min(S) \in S /\ \A y \in S : Min(S) <= y
<1> DEFINE R == OpToRel(<, Nat)
<1>1. IsWellFoundedOn(R, Nat)
  BY NatLessThanWellFounded
<1>2. \A x, y \in Nat : x < y => <<x, y>> \in R
  BY DEF OpToRel
<1> HIDE DEF R
<1>3. PICK a \in S : \A y \in S : ~(<<y, a>> \in R)
  BY <1>1, WFMin
<1>4. \A y \in S : ~(y < a)
  BY <1>2, <1>3
<1>5. \A y \in S : a <= y
  BY <1>4
<1> QED BY <1>5 DEF Min

\* Among places of a list there is a first one.
LEMMA FirstPlace ==
    ASSUME NEW n \in Nat, NEW S \in SUBSET (1..n), S # {}
    PROVE  LET i == CHOOSE i \in S : \A j \in S : i <= j
           IN  i \in S /\ \A j \in S : i <= j
<1>1. S \in SUBSET Nat
  OBVIOUS
<1> QED BY <1>1, LeastOf DEF Min

LEMMA SplitPlace ==
    ASSUME NEW c, NEW n \in Nat, n = Len(c.legs), DOMAIN c.legs = 1..n
    PROVE  SplitAt(c) \in 0..n
<1> DEFINE other == {i \in DOMAIN c.legs : c.legs[i].crane # (c.job = "DS")}
<1>1. CASE other # {}
  <2> DEFINE i == CHOOSE i \in other : \A j \in other : i <= j
  <2>1. other \in SUBSET (1..n)
    OBVIOUS
  <2>2. i \in 1..n
    <3> HIDE DEF other
    <3> QED BY <1>1, <2>1, FirstPlace
  <2>3. SplitAt(c) = i - 1
    BY <1>1 DEF SplitAt
  <2> HIDE DEF i
  <2> QED BY <2>2, <2>3
<1>2. CASE other = {}
  <2>1. SplitAt(c) = IF Len(c.legs) >= 2 THEN Len(c.legs) - 1 ELSE Len(c.legs)
    BY <1>2 DEF SplitAt
  <2> QED BY <2>1
<1> QED BY <1>1, <1>2

\* The stamps that are dropped when they clash leave the row in order.
LEMMA RowTold == LegsIInv => ChainMonotone
<1> SUFFICES ASSUME LegsIInv PROVE ChainMonotone
  OBVIOUS
<1> DEFINE c == cycle2
           s == c.legs
           n == Len(s)
           k == SplitAt(c)
           reached == {i \in 1..k : s[i].arrived > 0}
           at == CHOOSE i \in reached : \A j \in reached : i <= j
           first == IF reached = {} THEN NoLeg ELSE s[at]
           drop == IF k < n THEN s[k + 1] ELSE NoLeg
           left0 == IF k > 0 /\ s[k].left > 0 THEN s[k].left ELSE drop.assigned
           useP == /\ c.v1_pickup > 0 /\ c.v1_pickup <= c.dropped
                   /\ first.arrived = 0 \/ first.src \in {"pre_positioned", "container1"}
           useD == /\ c.v1_drop > 0 /\ c.v1_drop <= c.dropped
                   /\ drop.arrived = 0 \/ drop.src = "pre_positioned"
           pa0 == IF useP THEN c.v1_pickup ELSE first.arrived
           da0 == IF useD THEN c.v1_drop ELSE drop.arrived
           clash == pa0 > 0 /\ da0 > 0 /\ pa0 > da0
           pa == IF clash /\ useP THEN 0 ELSE pa0
           da == IF clash /\ ~useP /\ useD THEN 0 ELSE da0
           left == IF \/ left0 > 0 /\ pa > 0 /\ pa > left0
                      \/ left0 > 0 /\ da > 0 /\ left0 > da THEN 0 ELSE left0
           start == IF c.travel_start > 0 /\ pa > 0 /\ c.travel_start > pa
                    THEN 0 ELSE c.travel_start
<1>1. /\ c.dropped \in Nat /\ c.travel_start \in Nat /\ c.v1_pickup \in Nat /\ c.v1_drop \in Nat
      /\ Linked(s, c.dropped)
  <2>1. now \in Nat
    BY CycleAssumption DEF LegsIInv, RecordOK
  <2> QED BY <2>1 DEF LegsIInv, ClosedOK
<1>2. FlushRow(c) = [opened |-> c.opened, empty_travel_start |-> start, empty_arrived |-> pa,
                     pickup_left |-> left, laden_arrived |-> da, dropped |-> c.dropped]
  BY DEF FlushRow
<1>3. n \in Nat /\ DOMAIN s = 1..n /\ \A i \in 1..n : s[i] \in Range(s)
  BY <1>1, ListPlaces DEF Linked
<1>4. k \in 0..n
  BY <1>3, SplitPlace
<1>5. \A i \in 1..n : LegOK(s[i], c.dropped) /\ (s[i].arrived > 0 => s[i].left > 0)
  BY <1>1, <1>3 DEF Linked
<1>6. \A i, j \in 1..n : i < j => s[i].left <= s[j].assigned
  BY <1>1 DEF Linked
<1>7. NoLeg.arrived = 0 /\ NoLeg.assigned = 0
  BY DEF NoLeg
<1> HIDE DEF k, n, s
<1>8. reached # {} => at \in 1..k /\ at \in 1..n
  <2>1. reached \in SUBSET (1..k) /\ k \in Nat
    BY <1>3, <1>4
  <2>2. reached # {} => at \in reached
    <3> HIDE DEF reached
    <3> QED BY <2>1, FirstPlace
  <2>3. at \in 1..k => at \in 1..n
    <3> HIDE DEF at
    <3> QED BY <1>3, <1>4
  <2> QED BY <2>1, <2>2, <2>3
<1> HIDE DEF reached, at
<1>9. first.arrived \in Nat /\ drop.arrived \in Nat /\ drop.assigned \in Nat
      /\ drop.arrived <= c.dropped
  <2>1. first.arrived \in Nat
    BY <1>5, <1>7, <1>8 DEF LegOK
  <2>2. k < n => k + 1 \in 1..n
    BY <1>3, <1>4
  <2>3. CASE k < n
    BY <1>1, <1>5, <2>1, <2>2, <2>3 DEF LegOK
  <2>4. CASE ~(k < n)
    BY <1>1, <1>7, <2>1, <2>4
  <2> QED BY <2>3, <2>4
<1>10. left0 \in Nat
  <2>1. k > 0 => k \in 1..n
    BY <1>3, <1>4
  <2>2. k > 0 => s[k].left \in Nat
    BY <1>5, <2>1 DEF LegOK
  <2> HIDE DEF drop
  <2> QED BY <1>9, <2>2
<1>11. Ordered(first.arrived, drop.arrived)
  <2>1. CASE reached = {} \/ ~(k < n)
    BY <1>7, <2>1 DEF Ordered
  <2>2. CASE reached # {} /\ k < n
    <3> DEFINE a == s[at]
               b == s[k + 1]
    <3>1. at \in 1..n /\ k + 1 \in 1..n /\ at < k + 1
      BY <1>3, <1>4, <1>8, <2>2
    <3>2. LegOK(a, c.dropped) /\ (a.arrived > 0 => a.left > 0) /\ LegOK(b, c.dropped)
          /\ a.left <= b.assigned
      BY <1>5, <1>6, <3>1
    <3>3. first = a /\ drop = b
      BY <2>2
    <3> HIDE DEF a, b
    <3>4. Ordered(a.arrived, b.arrived)
      BY <1>1, <3>2 DEF LegOK, Ordered
    <3> QED BY <3>3, <3>4
  <2> QED BY <2>1, <2>2
<1>12. useP \in BOOLEAN /\ useD \in BOOLEAN /\ (useD => c.v1_drop <= c.dropped)
  OBVIOUS
<1> HIDE DEF c, first, drop, left0, useP, useD
<1>13. pa \in Nat /\ da \in Nat /\ Ordered(pa, da) /\ da <= c.dropped
  BY <1>1, <1>9, <1>11, <1>12 DEF Ordered
<1> HIDE DEF pa, da
<1>14. Ordered(start, pa) /\ Ordered(pa, left) /\ Ordered(left, da) /\ Ordered(da, c.dropped)
  BY <1>1, <1>10, <1>13 DEF Ordered
<1> HIDE DEF left, start
<1> QED BY <1>2, <1>13, <1>14 DEF ChainMonotone, c

\* As long as the clock of the feed is not ahead of ours, whatever else it says, repeats
\* or omits, and whenever the truck is forgotten: the legs of the open and of the closed
\* cycle, and the row of tt_cycle_v2, are in the order in which they happened.
THEOREM LegsInTime ==
    ASSUME FeedNotAhead
    PROVE  CycleSpec => []LegInv
<1>1. now = Start /\ CycleInit => LegsIInv
  BY LegsStart
<1>2. LegsIInv /\ [CycleNext]_<<now, cycleVars>> => LegsIInv'
  <2>1. LegsIInv /\ UNCHANGED <<now, cycleVars>> => LegsIInv'
    BY DEF cycleVars, LegsIInv, RecordOK, Ordered, PosShape, StampsOK, OpenOK, LegsOK,
           TargetOK, IsList, ChainOK, ClosedOK, Linked, LegOK
  <2> QED BY <2>1, IngestLegs, ForgottenLegs DEF CycleNext, Receive
<1>3. LegsIInv => LegInv
  BY LegsTold, RowTold DEF LegInv
<1> QED BY <1>1, <1>2, <1>3, PTL DEF CycleSpec

--------------------------------------------------------------------------------
(* DispatchCompare.  What a tick has read is what stood there, as far back as  *)
(* it looks; and what a verdict rests on stays in the table.                   *)

\* Rows are written once, at a time of their own, and not in the future.
CompareTypes ==
    /\ now \in Nat
    /\ \A r \in recos : /\ r.ts \in Nat /\ r.landed \in Nat /\ r.ts <= r.landed /\ r.landed <= now
                        /\ r.box \in BOOLEAN
    /\ \A r, q \in recos : r.ts = q.ts => r = q
    /\ \A s \in hist : s.ts \in Nat /\ s.ts <= now /\ s.fleet \in Fleets
    /\ \A s, q \in hist : s.ts = q.ts => s = q
    /\ job.t1 \in Nat /\ job.t1 <= now /\ job.upd \in Nat /\ job.upd <= now

\* What the tick has read: of the recommendations all that are in its window and
\* landed before the read.
ReadsHold ==
    /\ cstep \in {"rest", "hist", "recos"}
    /\ snaps_in \subseteq hist
    /\ cstep = "recos" =>
        /\ reco_fetch_at \in Nat /\ reco_fetch_at <= now /\ reco_rows \subseteq recos
        /\ \A r \in recos : r.landed < reco_fetch_at /\ r.ts > reco_fetch_at - RecoWindow
                                => r \in reco_rows

\* The rows a verdict rests on: they stood at its T1, and a later tick that looks
\* as far back reads them again.
RestsOn(c) ==
    /\ c.t1 \in Nat /\ c.t1 <= now /\ c.upd \in Nat /\ c.upd <= job.upd
    /\ c.src \in {"cont", "queue"} => c.reco # {}
    /\ c.src \in {"null", "none"} => c.reco = {}
    /\ c.src \in {"null", "none", "cont", "queue"}
    /\ \A x \in c.reco : \E r \in recos :
        /\ r.ts = x /\ x <= c.t1 /\ c.t1 - x <= RecoStanding
        /\ c.src = "cont" => r.box
        /\ cstep = "recos" /\ x > reco_fetch_at - RecoWindow => r \in reco_rows

CompareIInv ==
    /\ CompareTypes /\ ReadsHold /\ \A c \in compared : RestsOn(c)
    /\ ComparisonsHold

LEMMA CompareConstants ==
    /\ RecoStanding \in Nat /\ RecoWindow \in Nat /\ RecoMargin \in Nat /\ SnapSkew \in Nat
    /\ HistWindow \in Nat /\ LatestAge \in Nat /\ RecoMargin > 0 /\ TosTruck \in CmpTrucks
    /\ RecoLag \in Nat /\ Nowhere \in Nat
    /\ \A f \in Fleets : \A yt \in CmpTrucks : f[yt] \in [d : 0..Nowhere, free : BOOLEAN]
BY CompareAssumption

\* Of rows with times up to a bound one is the newest.
LEMMA NewestExists ==
    ASSUME NEW S, NEW b \in Nat, S # {}, \A x \in S : x.ts \in Nat /\ x.ts <= b
    PROVE  Newest(S) # {}
<1> DEFINE ages == {b - x.ts : x \in S}
           R == OpToRel(<, Nat)
<1>1. ages \subseteq Nat /\ ages # {}
  OBVIOUS
<1>2. IsWellFoundedOn(R, Nat)
  BY NatLessThanWellFounded
<1>3. \A x, y \in Nat : x < y => <<x, y>> \in R
  BY DEF OpToRel
<1> HIDE DEF R
<1>4. PICK a \in ages : \A y \in ages : ~(<<y, a>> \in R)
  <2> HIDE DEF ages
  <2> QED BY <1>1, <1>2, WFMin
<1>5. PICK x \in S : a = b - x.ts
  OBVIOUS
<1>6. \A y \in S : y.ts <= x.ts
  <2>1. ASSUME NEW y \in S PROVE y.ts <= x.ts
    <3>1. b - y.ts \in ages /\ b - y.ts \in Nat /\ a \in Nat
      BY <1>1
    <3>2. ~(b - y.ts < a)
      BY <1>3, <1>4, <3>1
    <3> QED BY <1>5, <3>2
  <2> QED BY <2>1
<1> QED BY <1>6 DEF Newest

LEMMA CompareStart == ClockInit /\ CompareInit => CompareIInv
BY DEF ClockInit, CompareInit, CompareIInv, CompareTypes, ReadsHold, ComparisonsHold, BoardAnswered,
       SameInstant, AnswerKept

\* A new recommendation lands too late to have stood at a T1 that was compared.
LEMMA RecommendHolds ==
    ASSUME CompareIInv, NEW ts \in 1..CompareEnd, NEW box \in BOOLEAN, NEW yt \in CmpTrucks,
           Recommend(ts, box, yt)
    PROVE  CompareIInv'
<1> DEFINE new == [ts |-> ts, landed |-> now, box |-> box, yt |-> yt]
<1>1. /\ recos' = recos \cup {new} /\ ts \in Nat /\ ts <= now /\ \A r \in recos : r.ts < ts
      /\ UNCHANGED <<now, hist, job, updates, cstep, snaps_in, latest_cut, reco_rows,
                     reco_fetch_at, compared>>
  BY DEF Recommend, readVars
<1>2. new.ts = ts /\ new.landed = now /\ new.box = box
  OBVIOUS
<1> HIDE DEF new
<1>3. CompareTypes'
  BY <1>1, <1>2 DEF CompareIInv, CompareTypes
<1>4. ReadsHold'
  BY <1>1, <1>2 DEF CompareIInv, CompareTypes, ReadsHold
<1>5. \A c \in compared : RestsOn(c)'
  BY <1>1 DEF CompareIInv, RestsOn
<1>6. \A c \in compared : Board(c.t1)' = Board(c.t1)
  <2>1. ASSUME NEW c \in compared PROVE Board(c.t1)' = Board(c.t1)
    <3>1. c.t1 \in Nat /\ c.t1 <= now /\ now \in Nat
      BY DEF CompareIInv, CompareTypes, RestsOn
    <3>2. ~(new.landed < c.t1)
      BY <1>2, <3>1
    <3> QED BY <1>1, <3>2 DEF Board
  <2> QED BY <2>1
<1>7. BoardAnswered'
  BY <1>1, <1>6 DEF CompareIInv, ComparisonsHold, BoardAnswered
<1>8. SameInstant' /\ AnswerKept'
  BY <1>1 DEF CompareIInv, ComparisonsHold, SameInstant, AnswerKept
<1> QED BY <1>1, <1>3, <1>4, <1>5, <1>7, <1>8 DEF CompareIInv, ComparisonsHold

\* The writers of the other tables, the reads and the clock.
LEMMA OthersHold ==
    ASSUME CompareIInv, compared' = compared, recos' = recos, CompareTypes',
           hist \subseteq hist', job.upd <= job'.upd, job'.upd \in Nat, job.upd \in Nat,
           now' \in Nat, now <= now', ReadsHold',
           cstep' = "recos" => \/ cstep = "recos" /\ UNCHANGED <<reco_rows, reco_fetch_at>>
                               \/ reco_rows' = {r \in recos : r.ts > reco_fetch_at' - RecoWindow}
    PROVE  CompareIInv'
<1>1. \A c \in compared : RestsOn(c)'
  <2> SUFFICES ASSUME NEW c \in compared PROVE RestsOn(c)'
    OBVIOUS
  <2>1. /\ c.t1 \in Nat /\ c.t1 <= now /\ c.upd \in Nat /\ c.upd <= job.upd /\ now \in Nat
        /\ c.src \in {"cont", "queue"} => c.reco # {}
        /\ c.src \in {"null", "none"} => c.reco = {}
        /\ c.src \in {"null", "none", "cont", "queue"}
    BY DEF CompareIInv, RestsOn, CompareTypes
  <2>2. c.t1 <= now' /\ c.upd <= job'.upd
    BY <2>1
  <2>3. ASSUME NEW x \in c.reco
        PROVE  \E r \in recos' : /\ r.ts = x /\ x <= c.t1 /\ c.t1 - x <= RecoStanding
                                 /\ c.src = "cont" => r.box
                                 /\ cstep' = "recos" /\ x > reco_fetch_at' - RecoWindow
                                        => r \in reco_rows'
    <3>1. PICK r \in recos : /\ r.ts = x /\ x <= c.t1 /\ c.t1 - x <= RecoStanding
                             /\ c.src = "cont" => r.box
                             /\ cstep = "recos" /\ x > reco_fetch_at - RecoWindow => r \in reco_rows
      BY <2>3 DEF CompareIInv, RestsOn
    <3>2. cstep' = "recos" /\ x > reco_fetch_at' - RecoWindow => r \in reco_rows'
      BY <3>1
    <3> QED BY <3>1, <3>2
  <2> QED BY <2>1, <2>2, <2>3 DEF RestsOn
<1>2. BoardAnswered' /\ SameInstant' /\ AnswerKept'
  BY DEF CompareIInv, ComparisonsHold, BoardAnswered, SameInstant, AnswerKept, Board
<1> QED BY <1>1, <1>2 DEF CompareIInv, ComparisonsHold

LEMMA WritersHold ==
    ASSUME CompareIInv,
           \/ \E fleet \in Fleets : TakeSnapshot(fleet)
           \/ \E t1 \in 1..CompareEnd, dis \in BOOLEAN : AssignTruck(t1, dis)
           \/ ReadSnapshots \/ ReadRecos \/ EndCompare \/ CompareTick
           \/ UNCHANGED <<now, compareVars>>
    PROVE  CompareIInv'
<1> USE DEF CompareIInv, CompareTypes, ReadsHold, compareVars, readVars
<1>1. ASSUME NEW fleet \in Fleets, TakeSnapshot(fleet) PROVE CompareIInv'
  BY <1>1, OthersHold DEF TakeSnapshot
<1>2. ASSUME NEW t1 \in 1..CompareEnd, NEW dis \in BOOLEAN, AssignTruck(t1, dis) PROVE CompareIInv'
  BY <1>2, OthersHold DEF AssignTruck
<1>3. CASE ReadSnapshots
  BY <1>3, OthersHold DEF ReadSnapshots
<1>4. CASE ReadRecos
  BY <1>4, OthersHold DEF ReadRecos
<1>5. CASE EndCompare
  BY <1>5, OthersHold DEF EndCompare
<1>6. CASE CompareTick
  BY <1>6, OthersHold DEF CompareTick, Advance
<1>7. CASE UNCHANGED <<now, compareVars>>
  BY <1>7, OthersHold
<1> QED BY <1>1, <1>2, <1>3, <1>4, <1>5, <1>6, <1>7

\* The answer for an instant, in terms of the rows that were read.
LEMMA RecoAnswers ==
    ASSUME CompareIInv, cstep = "recos", NEW t1 \in Nat, t1 <= now
    PROVE  /\ Reco(t1).src \in {"null", "none", "cont", "queue"}
           /\ Reco(t1).src \in {"cont", "queue"} => Reco(t1).rows # {}
           /\ Reco(t1).src \in {"null", "none"} => Reco(t1).rows = {}
           /\ \A y \in Reco(t1).rows :
                /\ y \in reco_rows /\ y.ts <= t1 /\ t1 - y.ts <= RecoStanding
                /\ Reco(t1).src = "cont" => y.box
           /\ Reco(t1).src # "null" => Evaluable(t1)
           /\ Reco(t1).src # "null" =>
                \A r \in reco_rows : r.ts <= t1 /\ t1 - r.ts <= RecoStanding =>
                    /\ Reco(t1).src # "none"
                    /\ r.box => Reco(t1).src = "cont"
                    /\ r.box \/ Reco(t1).src = "queue" =>
                        \A y \in Reco(t1).rows : r.ts <= y.ts
<1> DEFINE near == {r \in reco_rows : r.ts <= t1 /\ t1 - r.ts <= RecoStanding}
           boxed == {r \in {q \in reco_rows : q.box} : r.ts <= t1 /\ t1 - r.ts <= RecoStanding}
<1>1. \A r \in reco_rows : r.ts \in Nat /\ r.box \in BOOLEAN
  BY DEF CompareIInv, ReadsHold, CompareTypes
<1>2. near # {} => Newest(near) # {}
  BY <1>1, NewestExists
<1>3. boxed # {} => Newest(boxed) # {}
  BY <1>1, NewestExists
<1>4. /\ \A r \in reco_rows : r \in near <=> r.ts <= t1 /\ t1 - r.ts <= RecoStanding
      /\ \A r \in reco_rows : r \in boxed <=> r \in near /\ r.box
      /\ near \subseteq reco_rows /\ boxed \subseteq near /\ \A r \in boxed : r.box
  BY <1>1
<1>5. Standing(reco_rows, t1) = Newest(near)
      /\ Standing({r \in reco_rows : r.box}, t1) = Newest(boxed)
  BY DEF Standing
<1>6. Reco(t1) = IF ~Evaluable(t1) THEN [src |-> "null", rows |-> {}]
                 ELSE IF Newest(boxed) # {} THEN [src |-> "cont", rows |-> Newest(boxed)]
                 ELSE IF Newest(near) # {} THEN [src |-> "queue", rows |-> Newest(near)]
                 ELSE [src |-> "none", rows |-> {}]
  BY <1>5 DEF Reco
<1>7. \A set : \A y \in Newest(set) : y \in set /\ \A r \in set : r.ts <= y.ts
  BY DEF Newest
<1> HIDE DEF near, boxed
<1>8. CASE ~Evaluable(t1)
  BY <1>6, <1>8
<1>9. CASE Evaluable(t1) /\ Newest(boxed) # {}
  <2>1. Reco(t1).src = "cont" /\ Reco(t1).rows = Newest(boxed)
    BY <1>6, <1>9
  <2> QED BY <2>1, <1>9, <1>4, <1>7
<1>10. CASE Evaluable(t1) /\ Newest(boxed) = {} /\ Newest(near) # {}
  <2>1. Reco(t1).src = "queue" /\ Reco(t1).rows = Newest(near)
    BY <1>6, <1>10
  <2> QED BY <2>1, <1>10, <1>3, <1>4, <1>7
<1>11. CASE Evaluable(t1) /\ Newest(boxed) = {} /\ Newest(near) = {}
  <2>1. Reco(t1).src = "none" /\ Reco(t1).rows = {}
    BY <1>6, <1>11
  <2> QED BY <2>1, <1>11, <1>2, <1>3, <1>4
<1> QED BY <1>8, <1>9, <1>10, <1>11

\* A tick that can judge an instant has read all that could have stood then.
LEMMA BoardWasRead ==
    ASSUME CompareIInv, cstep = "recos", NEW t1 \in Nat, Evaluable(t1)
    PROVE  /\ \A r \in Board(t1) : r \in reco_rows /\ r.ts <= t1 /\ t1 - r.ts <= RecoStanding
           /\ \A x \in Nat : t1 - x <= RecoStanding => x > reco_fetch_at - RecoWindow
<1>1. /\ reco_fetch_at \in Nat /\ RecoStanding \in Nat /\ RecoWindow \in Nat /\ RecoMargin \in Nat
      /\ RecoMargin > 0
      /\ t1 - RecoStanding >= reco_fetch_at - RecoWindow + RecoMargin /\ t1 <= reco_fetch_at
  BY CompareConstants DEF CompareIInv, ReadsHold, Evaluable
<1>2. ASSUME NEW x \in Nat, t1 - x <= RecoStanding PROVE x > reco_fetch_at - RecoWindow
  BY <1>1, <1>2
<1>3. ASSUME NEW r \in Board(t1)
      PROVE  r \in reco_rows /\ r.ts <= t1 /\ t1 - r.ts <= RecoStanding
  <2>1. r \in recos /\ r.landed < t1 /\ t1 - r.ts <= RecoStanding
    BY <1>3 DEF Board
  <2>2. r.ts \in Nat /\ r.landed \in Nat /\ r.ts <= r.landed
    BY <2>1 DEF CompareIInv, CompareTypes
  <2>3. r.landed < reco_fetch_at /\ r.ts <= t1
    BY <1>1, <2>1, <2>2
  <2>4. r.ts > reco_fetch_at - RecoWindow
    BY <1>2, <2>1, <2>2
  <2> QED BY <2>1, <2>3, <2>4 DEF CompareIInv, ReadsHold
<1> QED BY <1>2, <1>3

\* A verdict takes both trucks from one snapshot, or it is "now".
LEMMA OneSnapshot ==
    ASSUME CompareIInv, NEW t1 \in Nat,
           NEW our \in CmpTrucks, NEW s \in AtT1(t1), Holds(s, TosTruck),
           NEW of, of = {q \in AtT1(t1) : Holds(q, our)}, \E q \in of : q.fleet[our].free
    PROVE  /\ s \in hist /\ s.ts <= t1 /\ t1 - s.ts <= SnapSkew
           /\ s.fleet[our] = [d |-> Arrival(our, of), free |-> TRUE]
           /\ s.fleet[TosTruck].d = Arrival(TosTruck, Where(TosTruck, t1))
<1>1. AtT1(t1) \subseteq hist /\ s.ts <= t1 /\ t1 - s.ts <= SnapSkew
      /\ \A q \in AtT1(t1) : q.ts <= s.ts /\ s.ts <= q.ts
  BY DEF CompareIInv, ReadsHold, AtT1, Newest
<1>2. \A q \in AtT1(t1) : q = s
  BY <1>1 DEF CompareIInv, CompareTypes
<1>3. of = {s} /\ s.fleet[our].free
  BY <1>2
<1>4. {q \in AtT1(t1) : Holds(q, TosTruck)} = {s}
  BY <1>2
<1>5. Where(TosTruck, t1) = {s}
  BY <1>4 DEF Where
<1>6. \A yt : Arrival(yt, {s}) = s.fleet[yt].d
  BY DEF Arrival
<1>7. s.fleet[our] \in [d : 0..Nowhere, free : BOOLEAN]
  BY <1>1, CompareConstants DEF CompareIInv, CompareTypes
<1>8. \A q \in [d : 0..Nowhere, free : BOOLEAN] : q.free => q = [d |-> q.d, free |-> TRUE]
  OBVIOUS
<1> QED BY <1>1, <1>3, <1>5, <1>6, <1>7, <1>8

\* A comparison of an assignment.
LEMMA CompareHolds ==
    ASSUME CompareIInv, NEW our \in CmpTrucks, Compare(our)
    PROVE  CompareIInv'
<1> DEFINE t1 == job.t1
           precise == \E s \in AtT1(t1) : Holds(s, TosTruck)
           of(yt) == IF precise THEN {s \in AtT1(t1) : Holds(s, yt)} ELSE Latest(yt)
           ours == Arrival(our, of(our))
           toss == Arrival(TosTruck, Where(TosTruck, t1))
           e == [upd |-> job.upd, t1 |-> t1, ver |-> job.dis, our |-> our, our_s |-> ours,
                 tos_s |-> toss, reason |-> Reason(precise, our, ours, toss), src |-> Reco(t1).src,
                 reco |-> {r.ts : r \in Reco(t1).rows},
                 reco_s |-> {Arrival(r.yt, Where(r.yt, t1)) : r \in Reco(t1).rows}]
<1>1. /\ cstep = "recos" /\ compared' = compared \cup {e} /\ \A c \in compared : c.upd # job.upd
      /\ \E s \in of(our) : s.fleet[our].free
      /\ UNCHANGED <<now, hist, recos, job, updates, cstep, snaps_in, latest_cut, reco_rows,
                     reco_fetch_at>>
  BY DEF Compare, readVars
<1>2. t1 \in Nat /\ t1 <= now /\ now \in Nat /\ job.upd \in Nat
  BY DEF CompareIInv, CompareTypes
<1>3. /\ e.upd = job.upd /\ e.t1 = t1 /\ e.our = our /\ e.our_s = ours /\ e.tos_s = toss
      /\ e.reason = Reason(precise, our, ours, toss)
      /\ e.src = Reco(t1).src /\ e.reco = {r.ts : r \in Reco(t1).rows}
  OBVIOUS
<1>4. e.reason # "now" =>
        \E s \in hist :
            /\ s.ts <= e.t1 /\ e.t1 - s.ts <= SnapSkew
            /\ s.fleet[e.our] = [d |-> e.our_s, free |-> TRUE]
            /\ s.fleet[TosTruck].d = e.tos_s
            /\ e.reason = "ours_closer" <=> e.our_s < e.tos_s
  <2> SUFFICES ASSUME e.reason # "now"
               PROVE  \E s \in hist :
                        /\ s.ts <= t1 /\ t1 - s.ts <= SnapSkew
                        /\ s.fleet[our] = [d |-> ours, free |-> TRUE]
                        /\ s.fleet[TosTruck].d = toss
                        /\ e.reason = "ours_closer" <=> ours < toss
    BY <1>3
  <2>1. precise
    BY <1>3 DEF Reason
  <2>2. PICK s \in AtT1(t1) : Holds(s, TosTruck)
    BY <2>1
  <2>3. of(our) = {q \in AtT1(t1) : Holds(q, our)}
    BY <2>1
  <2>4. /\ s \in hist /\ s.ts <= t1 /\ t1 - s.ts <= SnapSkew
        /\ s.fleet[our] = [d |-> ours, free |-> TRUE] /\ s.fleet[TosTruck].d = toss
    <3> HIDE DEF t1, precise, of
    <3> QED BY <1>1, <1>2, <2>2, <2>3, OneSnapshot
  <2>5. ours \in Nat /\ (our = TosTruck => ours = toss)
    <3>1. s.fleet[our] \in [d : 0..Nowhere, free : BOOLEAN] /\ Nowhere \in Nat
      BY <2>4, CompareConstants DEF CompareIInv, CompareTypes
    <3> HIDE DEF t1, ours, toss
    <3>2. s.fleet[our].d = ours
      BY <2>4
    <3> QED BY <2>4, <3>1, <3>2
  <2>6. e.reason = "ours_closer" <=> ours < toss
    <3> HIDE DEF ours, toss
    <3> QED BY <1>3, <2>1, <2>5 DEF Reason
  <2> QED BY <2>4, <2>6
<1> HIDE DEF e, t1, precise, of, ours, toss
<1>5. Reco(t1).rows \subseteq recos /\ \A r \in recos : r.ts \in Nat /\ r.ts <= now
  BY <1>1, <1>2, RecoAnswers DEF CompareIInv, ReadsHold, CompareTypes
<1>6. ASSUME NEW c, c = e PROVE RestsOn(c)'
  <2>1. \A x \in e.reco : \E r \in recos :
            /\ r.ts = x /\ x <= e.t1 /\ e.t1 - x <= RecoStanding
            /\ e.src = "cont" => r.box
            /\ r \in reco_rows
    BY <1>1, <1>2, <1>3, <1>5, RecoAnswers
  <2>2. /\ e.src \in {"cont", "queue"} => e.reco # {}
        /\ e.src \in {"null", "none"} => e.reco = {}
        /\ e.src \in {"null", "none", "cont", "queue"}
    BY <1>1, <1>2, <1>3, RecoAnswers
  <2>3. e.t1 \in Nat /\ e.t1 <= now /\ e.upd \in Nat /\ e.upd <= job.upd
    BY <1>2, <1>3
  <2> QED BY <1>1, <1>6, <2>1, <2>2, <2>3 DEF RestsOn
<1>7. \A c \in compared : RestsOn(c)'
  BY <1>1 DEF CompareIInv, RestsOn
<1>8. BoardAnswered'
  <2>1. ASSUME e.src # "null"
        PROVE  LET boxes == {r \in Board(e.t1) : r.box} IN
               /\ Board(e.t1) # {} => e.src # "none"
               /\ boxes # {} => e.src = "cont" /\ \A r \in boxes, ts \in e.reco : r.ts <= ts
               /\ e.src = "queue" => \A r \in Board(e.t1), ts \in e.reco : r.ts <= ts
    <3>1. \A r \in Board(t1) : r \in reco_rows /\ r.ts <= t1 /\ t1 - r.ts <= RecoStanding
      BY <1>1, <1>2, <1>3, <2>1, RecoAnswers, BoardWasRead
    <3>2. \A r \in Board(t1) : /\ Reco(t1).src # "none"
                               /\ r.box => Reco(t1).src = "cont"
                               /\ r.box \/ Reco(t1).src = "queue" =>
                                    \A y \in Reco(t1).rows : r.ts <= y.ts
      BY <1>1, <1>2, <1>3, <2>1, <3>1, RecoAnswers
    <3> QED BY <1>3, <3>2
  <2>2. \A c \in compared \cup {e} : Board(c.t1)' = Board(c.t1)
    BY <1>1 DEF Board
  <2> QED BY <1>1, <2>1, <2>2 DEF CompareIInv, ComparisonsHold, BoardAnswered
<1>9. SameInstant'
  BY <1>1, <1>4 DEF CompareIInv, ComparisonsHold, SameInstant
<1>10. AnswerKept'
  <2>1. ASSUME NEW c \in compared, c.t1 = e.t1, "null" \notin {c.src, e.src}
        PROVE  /\ c.src # "none" => e.src # "none"
               /\ c.src = "cont" => e.src = "cont"
               /\ c.src = e.src => \A x \in c.reco, y \in e.reco : x <= y
    <3>1. /\ c.src \in {"null", "none", "cont", "queue"}
          /\ c.src \in {"cont", "queue"} => c.reco # {}
          /\ c.src \in {"null", "none"} => c.reco = {}
      BY DEF CompareIInv, RestsOn
    <3>2. Evaluable(t1)
      BY <1>1, <1>2, <1>3, <2>1, RecoAnswers
    <3>3. ASSUME NEW x \in c.reco
          PROVE  \E r \in reco_rows : /\ r.ts = x /\ r.ts <= t1 /\ t1 - r.ts <= RecoStanding
                                      /\ c.src = "cont" => r.box
      <4>1. PICK r \in recos : /\ r.ts = x /\ x <= t1 /\ t1 - x <= RecoStanding
                               /\ c.src = "cont" => r.box
                               /\ x > reco_fetch_at - RecoWindow => r \in reco_rows
        BY <1>1, <1>3, <2>1, <3>3 DEF CompareIInv, RestsOn
      <4>2. x > reco_fetch_at - RecoWindow
        BY <1>1, <1>2, <1>5, <3>2, <4>1, BoardWasRead
      <4> QED BY <4>1, <4>2
    <3>4. ASSUME NEW x \in c.reco
          PROVE  /\ e.src # "none"
                 /\ c.src = "cont" => e.src = "cont"
                 /\ c.src = e.src => \A y \in e.reco : x <= y
      <4>1. PICK r \in reco_rows : /\ r.ts = x /\ r.ts <= t1 /\ t1 - r.ts <= RecoStanding
                                   /\ c.src = "cont" => r.box
        BY <3>3, <3>4
      <4>2. /\ e.src # "none"
            /\ r.box => e.src = "cont"
            /\ r.box \/ e.src = "queue" => \A y \in Reco(t1).rows : r.ts <= y.ts
        BY <1>1, <1>2, <1>3, <2>1, <4>1, RecoAnswers
      <4>3. c.src # "none" /\ c.src # "null" 
        BY <2>1, <3>1, <3>4
      <4> QED BY <1>3, <3>1, <4>1, <4>2, <4>3
    <3> QED BY <2>1, <3>1, <3>4
  <2>2. \A c \in compared : c.upd \in Nat /\ c.upd <= job.upd
    BY DEF CompareIInv, RestsOn
  <2>3. \A c \in compared \cup {e} : ~(e.upd < c.upd)
    BY <1>2, <1>3, <2>2
  <2>4. compared' = compared \cup {e} /\ AnswerKept
    BY <1>1 DEF CompareIInv, ComparisonsHold
  <2> QED BY <2>1, <2>3, <2>4 DEF AnswerKept
<1>11. CompareTypes' /\ ReadsHold'
  BY <1>1 DEF CompareIInv, CompareTypes, ReadsHold
<1>12. \A c \in compared' : RestsOn(c)'
  BY <1>1, <1>6, <1>7
<1> QED BY <1>8, <1>9, <1>10, <1>11, <1>12 DEF CompareIInv, ComparisonsHold

\* What the comparison says of a moment is what was there at that moment
\* (spawn_dispatch_compare).
THEOREM ComparisonsTrue == CompareSpec => []ComparisonsHold
<1>1. CompareIInv /\ [CompareNext]_<<now, compareVars>> => CompareIInv'
  BY RecommendHolds, WritersHold, CompareHolds DEF CompareNext
<1>2. CompareIInv => ComparisonsHold
  BY DEF CompareIInv
<1> QED BY CompareStart, <1>1, <1>2, PTL DEF CompareSpec

--------------------------------------------------------------------------------
(* CycleTables.  A truck's cycles are pushed, drained and written in the order *)
(* of their drops, so nothing written later lies between two written ones; and *)
(* a cycle is on its way to tt_cycle_v2 before it is on its way to the log.    *)

\* The cycles of each truck in a queue, and in two sets.
InTurn(q) == \A i, j \in 1..Len(q) : i < j /\ q[i].yt = q[j].yt => q[i].at < q[j].at
Precede(A, B) == \A a \in A, b \in B : a.yt = b.yt => a.at < b.at

\* What is in a table or on its way to it.
ForLog == log \cup ToSet(buf1) \cup ToSet(batch1) \cup ToSet(pushing)
ForV2 == v2 \cup ToSet(buf2) \cup ToSet(batch2)

Queues ==
    /\ \A q \in {buf1, buf2, batch1, batch2} : q \in Seq(cycles) /\ Len(q) <= BufMax /\ InTurn(q)
    /\ pushing \in {<<>>} \cup {<<c>> : c \in cycles}
    /\ flusher = "idle" => batch1 = <<>> /\ batch2 = <<>>
    /\ flusher = "log" => batch2 = <<>>
    /\ flusher = "v2" => batch1 = <<>> /\ batch2 # <<>>

\* First in, first out, from the buffer through the batch to the table.
InOrder ==
    /\ log \subseteq cycles
    /\ \A r \in v2 : \E c \in cycles : Key(c) = Key(r)
    /\ Precede(log, ToSet(batch1) \cup ToSet(buf1) \cup ToSet(pushing))
    /\ Precede(ToSet(batch1), ToSet(buf1) \cup ToSet(pushing))
    /\ Precede(ToSet(buf1), ToSet(pushing))
    /\ Precede(v2, ToSet(batch2) \cup ToSet(buf2))
    /\ Precede(ToSet(batch2), ToSet(buf2))

Has2(c) == \E r \in v2 : Key(r) = Key(c)

\* Without a fault, a cycle with legs on its way to the log has its row, or is
\* before it on the way to tt_cycle_v2.
Paired ==
    faults = 0 /\ ~overflow =>
        /\ \A c \in ForLog : c.has2 => Has2(c) \/ c \in ToSet(batch2) \/ c \in ToSet(buf2)
        /\ \A c \in log : c.has2 => \/ Has2(c)
                                    \/ flusher = "v2" /\ c \in ToSet(batch2)
                                    \/ flusher = "log" /\ c \in ToSet(buf2)

\* What is learned is about cycles that were delivered.
Learned ==
    /\ \A t \in trips : t.ord = 0 => \E c \in cycles : Key(c) = <<t.yt, t.at>>
    /\ \A s \in snaps : s.free > 0 => \E c \in cycles : Key(c) = <<s.yt, s.free>>
    /\ LabelIsNextDrop /\ OriginIsPreviousDrop

TableTypes ==
    /\ now \in Nat /\ faults \in 0..MaxFaults /\ overflow \in BOOLEAN
    /\ cycles \subseteq Cycle /\ flusher \in {"idle", "log", "v2"}
    /\ v2 \subseteq [yt : Yts, at : Nat, pick : Points, drop : Points, done : Nat]
    /\ trips \subseteq [yt : Yts, at : Nat, ord : {0, 1}, origin : Points, dest : Points,
                        prev : Nat, captured : Nat]
    /\ snaps \subseteq [yt : Yts, ts : Nat, free : Nat]
    /\ crane \subseteq [yt : Yts, at : Nat]

TablesIInv == TableTypes /\ Queues /\ InOrder /\ Paired /\ Learned

LEMMA QueueEmpty == ToSet(<<>>) = {} /\ InTurn(<<>>) /\ Len(<<>>) = 0
  /\ \A S : <<>> \in Seq(S)
BY DEF ToSet, InTurn

LEMMA QueueOne == \A c : ToSet(<<c>>) = {c} /\ Head(<<c>>) = c
BY DEF ToSet

LEMMA QueueAppend ==
    ASSUME NEW S, NEW q \in Seq(S), NEW c \in S
    PROVE  /\ ToSet(Append(q, c)) = ToSet(q) \cup {c}
           /\ Append(q, c) \in Seq(S) /\ Append(q, c) # <<>> /\ Len(Append(q, c)) = Len(q) + 1
           /\ InTurn(q) /\ Precede(ToSet(q), {c}) => InTurn(Append(q, c))
<1> DEFINE longer == Append(q, c)
           n == Len(q)
<1>1. /\ n \in Nat /\ DOMAIN q = 1..n /\ DOMAIN longer = 1..(n + 1) /\ Len(longer) = n + 1
      /\ longer \in Seq(S) /\ longer # <<>>
      /\ longer[n + 1] = c /\ \A i \in 1..n : longer[i] = q[i]
  BY AppendProperties, LenProperties
<1> HIDE DEF longer, n
<1>2. \A i \in 1..(n + 1) : i \in 1..n \/ i = n + 1
  BY <1>1
<1>3. 1..n \subseteq 1..(n + 1) /\ n + 1 \in 1..(n + 1)
  BY <1>1
<1>4. ToSet(longer) = ToSet(q) \cup {c}
  BY <1>1, <1>2, <1>3 DEF ToSet
<1>5. ASSUME InTurn(q), Precede(ToSet(q), {c}) PROVE InTurn(longer)
  <2> SUFFICES ASSUME NEW i \in 1..(n + 1), NEW j \in 1..(n + 1), i < j, longer[i].yt = longer[j].yt
               PROVE  longer[i].at < longer[j].at
    BY <1>1 DEF InTurn
  <2>1. i \in 1..n
    BY <1>1
  <2>2. CASE j \in 1..n
    BY <1>1, <1>5, <2>1, <2>2 DEF InTurn, n
  <2>3. CASE j = n + 1
    <3>1. q[i] \in ToSet(q)
      BY <1>1, <2>1 DEF ToSet
    <3> QED BY <1>1, <1>5, <2>1, <2>3, <3>1 DEF Precede
  <2> QED BY <1>2, <2>2, <2>3
<1> QED BY <1>1, <1>4, <1>5 DEF longer, n

LEMMA QueueTail ==
    ASSUME NEW S, NEW q \in Seq(S), q # <<>>
    PROVE  /\ ToSet(q) = {Head(q)} \cup ToSet(Tail(q)) /\ Head(q) \in S
           /\ Tail(q) \in Seq(S) /\ Len(Tail(q)) = Len(q) - 1 /\ Len(q) \in Nat /\ Len(q) > 0
           /\ Len(q) # 1 => Tail(q) # <<>>
           /\ Len(q) = 1 => Tail(q) = <<>>
           /\ InTurn(q) => InTurn(Tail(q)) /\ Precede({Head(q)}, ToSet(Tail(q)))
<1> DEFINE rest == Tail(q)
           n == Len(q)
<1>1. /\ n \in Nat /\ n > 0 /\ DOMAIN q = 1..n /\ DOMAIN rest = 1..(n - 1) /\ Len(rest) = n - 1
      /\ rest \in Seq(S) /\ Head(q) = q[1] /\ Head(q) \in S
      /\ \A i \in 1..(n - 1) : rest[i] = q[i + 1]
  BY HeadTailProperties, LenProperties, EmptySeq
<1>2. (n # 1 => rest # <<>>) /\ (n = 1 => rest = <<>>)
  <2>1. Len(<<>>) = 0 /\ (rest # <<>> => Len(rest) \in Nat \ {0})
    BY <1>1, EmptySeq
  <2>2. n \in Nat /\ Len(rest) = n - 1
    BY <1>1
  <2> HIDE DEF rest, n
  <2>3. CASE n = 1
    BY <2>1, <2>2, <2>3
  <2>4. CASE n # 1
    BY <2>1, <2>2, <2>4
  <2> QED BY <2>3, <2>4
<1> HIDE DEF rest, n
<1>0. n \in Nat /\ n > 0
  BY <1>1
<1>4. \A i \in 1..(n - 1) : i + 1 \in 1..n
  BY <1>0
<1>5. \A i \in 1..n : i = 1 \/ (i - 1 \in 1..(n - 1) /\ (i - 1) + 1 = i)
  BY <1>0
<1>6. 1 \in 1..n
  BY <1>0
<1>7. ToSet(q) = {Head(q)} \cup ToSet(rest)
  <2>1. ASSUME NEW i \in 1..n PROVE q[i] = Head(q) \/ q[i] \in ToSet(rest)
    <3>1. CASE i = 1
      BY <1>1, <3>1
    <3>2. CASE i - 1 \in 1..(n - 1) /\ (i - 1) + 1 = i
      <4>1. rest[i - 1] = q[i]
        BY <1>1, <3>2
      <4> QED BY <1>1, <3>2, <4>1 DEF ToSet
    <3> QED BY <1>5, <3>1, <3>2
  <2>2. \A i \in 1..(n - 1) : rest[i] \in ToSet(q)
    BY <1>1, <1>4 DEF ToSet
  <2>3. Head(q) \in ToSet(q)
    BY <1>1, <1>6 DEF ToSet
  <2> QED BY <1>1, <2>1, <2>2, <2>3 DEF ToSet
<1>8. ASSUME InTurn(q) PROVE InTurn(rest) /\ Precede({Head(q)}, ToSet(rest))
  <2>1. \A i, j \in 1..n : i < j /\ q[i].yt = q[j].yt => q[i].at < q[j].at
    BY <1>8 DEF InTurn, n
  <2>2. ASSUME NEW i \in 1..(n - 1), NEW j \in 1..(n - 1), i < j, rest[i].yt = rest[j].yt
        PROVE  rest[i].at < rest[j].at
    <3>1. i + 1 \in 1..n /\ j + 1 \in 1..n /\ i + 1 < j + 1
      BY <1>4, <2>2
    <3> QED BY <1>1, <2>1, <2>2, <3>1
  <2>3. ASSUME NEW j \in 1..(n - 1), Head(q).yt = rest[j].yt PROVE Head(q).at < rest[j].at
    <3>1. j + 1 \in 1..n /\ 1 < j + 1
      BY <1>4
    <3> QED BY <1>1, <1>6, <2>1, <2>3, <3>1
  <2> QED BY <1>1, <2>2, <2>3 DEF InTurn, Precede, ToSet
<1> QED BY <1>1, <1>2, <1>7, <1>8 DEF rest, n

\* A push keeps the order; only an overflow loses a cycle.
LEMMA Pushed ==
    ASSUME NEW S, NEW buf \in Seq(S), NEW c \in S, Len(buf) <= BufMax
    PROVE  /\ Push(buf, c) \in Seq(S) /\ Len(Push(buf, c)) <= BufMax
           /\ ToSet(Push(buf, c)) \subseteq ToSet(buf) \cup {c}
           /\ Len(buf) # BufMax => ToSet(Push(buf, c)) = ToSet(buf) \cup {c}
           /\ InTurn(buf) /\ Precede(ToSet(buf), {c}) => InTurn(Push(buf, c))
<1>1. BufMax \in Nat /\ Len(buf) \in Nat
  BY TablesAssumption, LenProperties
<1> DEFINE b == Append(buf, c)
<1>2. /\ ToSet(b) = ToSet(buf) \cup {c} /\ b \in Seq(S) /\ b # <<>> /\ Len(b) = Len(buf) + 1
      /\ InTurn(buf) /\ Precede(ToSet(buf), {c}) => InTurn(b)
  BY QueueAppend
<1>3. Push(buf, c) = IF Len(b) > BufMax THEN Tail(b) ELSE b
  BY DEF Push
<1> HIDE DEF b
<1>4. /\ ToSet(Tail(b)) \subseteq ToSet(b) /\ Tail(b) \in Seq(S) /\ Len(Tail(b)) = Len(b) - 1
      /\ InTurn(b) => InTurn(Tail(b))
  BY <1>2, QueueTail
<1>5. CASE Len(b) > BufMax
  BY <1>1, <1>2, <1>3, <1>4, <1>5
<1>6. CASE ~(Len(b) > BufMax)
  BY <1>1, <1>2, <1>3, <1>6
<1> QED BY <1>5, <1>6

LEMMA TablesStart == ClockInit /\ TablesInit => TablesIInv
<1> SUFFICES ASSUME ClockInit, TablesInit PROVE TablesIInv
  OBVIOUS
<1>1. MaxFaults \in Nat /\ BufMax \in Nat /\ BufMax > 0
  BY TablesAssumption
<1>2. TableTypes
  <2>1. now \in Nat /\ faults \in 0..MaxFaults
    BY <1>1 DEF ClockInit, TablesInit
  <2> QED BY <2>1 DEF TablesInit, TableTypes
<1>3. Queues /\ InOrder /\ Paired /\ Learned
  BY <1>1, QueueEmpty DEF TablesInit, Queues, InOrder, Paired, Learned, LabelIsNextDrop,
                          OriginIsPreviousDrop, Precede, ForLog
<1> QED BY <1>2, <1>3 DEF TablesIInv

\* What was learned stays true when only what was on its way arrives, or cycles later
\* than all others are delivered.
LEMMA LearnedKept ==
    ASSUME TableTypes, Learned, cycles \subseteq cycles', trips' \subseteq trips,
           \A s \in snaps' : s \in snaps \/ s.free = 0,
           \A c \in ForLog' : \/ \E d \in ForLog : Key(d) = Key(c)
                              \/ c.at \in Nat /\ \A d \in cycles : d.yt = c.yt => d.at < c.at,
           \A c \in ForV2' : \/ \E d \in ForV2 : Key(d) = Key(c)
                             \/ c.at \in Nat /\ \A d \in cycles : d.yt = c.yt => d.at < c.at
    PROVE  Learned'
<1>1. /\ \A t \in trips' : t.ord = 0 => \E c \in cycles' : Key(c) = <<t.yt, t.at>>
      /\ \A s \in snaps' : s.free > 0 => \E c \in cycles' : Key(c) = <<s.yt, s.free>>
  BY DEF Learned
<1>2. LabelIsNextDrop'
  <2> SUFFICES ASSUME NEW s \in snaps', s.free > 0, NEW c \in ForLog', c.yt = s.yt, c.at > s.ts,
                      c.at < s.free
               PROVE  FALSE
    BY DEF LabelIsNextDrop, Between, ForLog
  <2>1. s \in snaps /\ s.free \in Nat
    BY DEF TableTypes
  <2>2. ASSUME NEW d \in ForLog, Key(d) = Key(c) PROVE FALSE
    <3>1. d.yt = s.yt /\ d.at > s.ts /\ d.at < s.free
      BY <2>2 DEF Key
    <3> QED BY <2>1, <3>1 DEF Learned, LabelIsNextDrop, Between, ForLog
  <2>3. ASSUME c.at \in Nat, \A d \in cycles : d.yt = c.yt => d.at < c.at PROVE FALSE
    <3>1. PICK d \in cycles : d.yt = s.yt /\ d.at = s.free
      BY <2>1 DEF Learned, Key
    <3> QED BY <2>1, <2>3, <3>1
  <2> QED BY <2>2, <2>3
<1>3. OriginIsPreviousDrop'
  <2> SUFFICES ASSUME NEW t \in trips', t.ord = 0, NEW c \in ForV2', c.yt = t.yt, c.at > t.prev,
                      c.at < t.at
               PROVE  FALSE
    BY DEF OriginIsPreviousDrop, Between, ForV2
  <2>1. t \in trips /\ t.at \in Nat
    BY DEF TableTypes
  <2>2. ASSUME NEW d \in ForV2, Key(d) = Key(c) PROVE FALSE
    <3>1. d.yt = t.yt /\ d.at > t.prev /\ d.at < t.at
      BY <2>2 DEF Key
    <3> QED BY <2>1, <3>1 DEF Learned, OriginIsPreviousDrop, Between, ForV2
  <2>3. ASSUME c.at \in Nat, \A d \in cycles : d.yt = c.yt => d.at < c.at PROVE FALSE
    <3>1. PICK d \in cycles : d.yt = t.yt /\ d.at = t.at
      BY <2>1 DEF Learned, Key
    <3> QED BY <2>1, <2>3, <3>1
  <2> QED BY <2>2, <2>3
<1> QED BY <1>1, <1>2, <1>3 DEF Learned

\* A delivery: the new cycle is later than all others of its truck.
LEMMA DeliverOK ==
    ASSUME TablesIInv, NEW yt \in Yts, NEW route \in Routes, NEW has2 \in BOOLEAN,
           Deliver(yt, route, has2)
    PROVE  TablesIInv'
<1> USE DEF TablesIInv
<1> DEFINE c == [yt |-> yt, at |-> now, pick |-> route[1], drop |-> route[2], has2 |-> has2]
<1>1. /\ pushing = <<>> /\ cycles' = cycles \cup {c} /\ pushing' = <<c>>
      /\ \A d \in cycles : d.yt = yt => d.at < now
      /\ buf2' = IF has2 THEN Push(buf2, c) ELSE buf2
      /\ overflow' = (overflow \/ (has2 /\ Len(buf2) = BufMax))
      /\ UNCHANGED <<now, buf1, batch1, batch2, flusher, log, v2, trips, snaps, crane, faults>>
  BY DEF Deliver, PushStep
<1>2. c.yt = yt /\ c.at = now /\ c.has2 = has2 /\ c \in Cycle
  BY TablesAssumption DEF Cycle, TableTypes
<1> HIDE DEF c
<1>3. Precede(cycles, {c})
  BY <1>1, <1>2 DEF Precede
<1>4. /\ \A q \in {buf1, buf2, batch1, batch2} : ToSet(q) \subseteq cycles /\ q \in Seq(cycles')
      /\ log \subseteq cycles
      /\ \A r \in v2 : \E d \in cycles : Key(d) = Key(r)
  <2>1. \A q \in Seq(cycles) : ToSet(q) \subseteq cycles /\ q \in Seq(cycles')
    BY <1>1, SeqMonotonic DEF ToSet
  <2> QED BY <2>1 DEF Queues, InOrder
<1>5. /\ buf2' \in Seq(cycles') /\ Len(buf2') <= BufMax /\ InTurn(buf2')
      /\ ToSet(buf2') \subseteq ToSet(buf2) \cup {c}
      /\ ~overflow' => ToSet(buf2) \subseteq ToSet(buf2') /\ (has2 => c \in ToSet(buf2'))
  <2>1. c \in cycles' /\ Len(buf2) <= BufMax /\ InTurn(buf2) /\ Precede(ToSet(buf2), {c})
    BY <1>1, <1>3, <1>4 DEF Queues, Precede
  <2>2. CASE has2
    <3>1. buf2 \in Seq(cycles') /\ buf2' = Push(buf2, c)
      BY <1>1, <1>4, <2>2
    <3>2. ~overflow' => Len(buf2) # BufMax
      BY <1>1, <2>2
    <3> QED BY <2>1, <3>1, <3>2, Pushed
  <2>3. CASE ~has2
    BY <1>1, <1>4, <2>1, <2>3
  <2> QED BY <2>2, <2>3
<1>6. TableTypes'
  BY <1>1, <1>2 DEF TableTypes
<1>7. Queues'
  BY <1>1, <1>4, <1>5 DEF Queues
<1>8. InOrder'
  <2>1. ToSet(pushing') = {c} /\ ToSet(pushing) = {}
    BY <1>1, QueueOne, QueueEmpty
  <2>2. \A A : (\A a \in A : \E d \in cycles : Key(d) = Key(a)) => Precede(A, {c})
    BY <1>3 DEF Precede, Key
  <2>3. Precede(v2, {c}) /\ Precede(log, {c}) /\ Precede(ToSet(buf1), {c})
        /\ Precede(ToSet(batch1), {c}) /\ Precede(ToSet(batch2), {c})
    BY <1>4, <2>2
  <2>4. ToSet(buf2') \cup ToSet(batch2') \subseteq ToSet(batch2) \cup ToSet(buf2) \cup {c}
    BY <1>1, <1>5
  <2>5. Precede(v2, ToSet(batch2') \cup ToSet(buf2')) /\ Precede(ToSet(batch2'), ToSet(buf2'))
    BY <1>1, <1>5, <2>3, <2>4 DEF InOrder, Precede
  <2>6. /\ Precede(log, ToSet(batch1) \cup ToSet(buf1) \cup {c})
        /\ Precede(ToSet(batch1), ToSet(buf1) \cup {c})
    BY <2>3 DEF InOrder, Precede
  <2> QED BY <1>1, <1>4, <2>1, <2>3, <2>5, <2>6 DEF InOrder
<1>9. Paired'
  <2>1. ToSet(pushing') = {c} /\ ToSet(pushing) = {}
    BY <1>1, QueueOne, QueueEmpty
  <2>2. overflow \in BOOLEAN
    BY DEF TableTypes
  <2> SUFFICES ASSUME faults' = 0, ~overflow' PROVE Paired'
    BY DEF Paired
  <2>3. faults = 0 /\ ~overflow
    BY <1>1, <2>2
  <2>4. \A d : Has2(d)' <=> Has2(d)
    BY <1>1 DEF Has2
  <2> QED BY <1>1, <1>2, <1>5, <2>1, <2>3, <2>4 DEF Paired, ForLog
<1>10. Learned'
  <2>1. ToSet(pushing') = {c} /\ ToSet(pushing) = {}
    BY <1>1, QueueOne, QueueEmpty
  <2>2. c.at \in Nat /\ \A d \in cycles : d.yt = c.yt => d.at < c.at
    BY <1>1, <1>2 DEF TableTypes
  <2>3. ForLog' = ForLog \cup {c} /\ ForV2' \subseteq ForV2 \cup {c}
    BY <1>1, <1>5, <2>1 DEF ForLog, ForV2
  <2>4. /\ \A d \in ForLog' : \/ \E e \in ForLog : Key(e) = Key(d)
                              \/ d.at \in Nat /\ \A e \in cycles : e.yt = d.yt => e.at < d.at
        /\ \A d \in ForV2' : \/ \E e \in ForV2 : Key(e) = Key(d)
                             \/ d.at \in Nat /\ \A e \in cycles : e.yt = d.yt => e.at < d.at
    BY <2>2, <2>3
  <2>5. cycles \subseteq cycles' /\ trips' \subseteq trips /\ snaps' = snaps
    BY <1>1
  <2> QED BY <2>4, <2>5, LearnedKept
<1> QED BY <1>6, <1>7, <1>8, <1>9, <1>10

\* The second push.
LEMMA PushRestOK ==
    ASSUME TablesIInv, PushRest
    PROVE  TablesIInv'
<1> USE DEF TablesIInv
<1>1. PICK c \in cycles : pushing = <<c>>
  BY DEF Queues, PushRest
<1>2. /\ pushing' = <<>> /\ buf1' = Push(buf1, c) /\ overflow' = (overflow \/ Len(buf1) = BufMax)
      /\ UNCHANGED <<now, cycles, buf2, batch1, batch2, flusher, log, v2, trips, snaps, crane,
                     faults>>
  BY <1>1, QueueOne DEF PushRest, PushStep
<1>3. ToSet(pushing) = {c} /\ ToSet(pushing') = {}
  BY <1>1, <1>2, QueueOne, QueueEmpty
<1>4. /\ buf1' \in Seq(cycles) /\ Len(buf1') <= BufMax /\ InTurn(buf1')
      /\ ToSet(buf1') \subseteq ToSet(buf1) \cup {c}
  <2>1. buf1 \in Seq(cycles) /\ Len(buf1) <= BufMax /\ InTurn(buf1) /\ Precede(ToSet(buf1), {c})
    BY <1>3 DEF Queues, InOrder
  <2> QED BY <1>2, <2>1, Pushed
<1>5. TableTypes'
  BY <1>2 DEF TableTypes
<1>6. Queues'
  BY <1>2, <1>4 DEF Queues
<1>7. InOrder'
  BY <1>2, <1>3, <1>4 DEF InOrder, Precede
<1>8. ForLog' \subseteq ForLog /\ ForV2' = ForV2
  BY <1>2, <1>3, <1>4 DEF ForLog, ForV2
<1>9. Paired'
  <2>1. overflow \in BOOLEAN
    BY DEF TableTypes
  <2>2. \A d : Has2(d)' <=> Has2(d)
    BY <1>2 DEF Has2
  <2> QED BY <1>2, <1>8, <2>1, <2>2 DEF Paired
<1>10. Learned'
  BY <1>2, <1>8, LearnedKept
<1> QED BY <1>5, <1>6, <1>7, <1>9, <1>10

\* The flusher takes the log's buffer.
LEMMA DrainLogOK ==
    ASSUME TablesIInv, DrainLog
    PROVE  TablesIInv'
<1> USE DEF TablesIInv
<1>1. /\ flusher = "idle" /\ batch1' = buf1 /\ buf1' = <<>> /\ flusher' = "log"
      /\ UNCHANGED <<now, cycles, pushing, buf2, batch2, log, v2, trips, snaps, crane, faults,
                     overflow>>
  BY DEF DrainLog
<1>2. /\ batch1 = <<>> /\ batch2 = <<>> /\ ToSet(batch1) = {} /\ ToSet(buf1') = {}
      /\ <<>> \in Seq(cycles) /\ Len(<<>>) <= BufMax /\ InTurn(<<>>)
  BY <1>1, TablesAssumption, QueueEmpty DEF Queues
<1>3. TableTypes'
  BY <1>1 DEF TableTypes
<1>4. Queues'
  BY <1>1, <1>2 DEF Queues
<1>5. InOrder'
  BY <1>1, <1>2 DEF InOrder, Precede
<1>6. ForLog' = ForLog /\ ForV2' = ForV2
  BY <1>1, <1>2 DEF ForLog, ForV2
<1>7. Paired'
  <2>1. \A d : Has2(d)' <=> Has2(d)
    BY <1>1 DEF Has2
  <2> QED BY <1>1, <1>6, <2>1 DEF Paired
<1>8. Learned'
  BY <1>1, <1>6, LearnedKept
<1> QED BY <1>3, <1>4, <1>5, <1>7, <1>8

\* A row of tt_cycle_log is written, or its insert fails.
LEMMA WriteLogOK ==
    ASSUME TablesIInv, NEW ok \in BOOLEAN, WriteLog(ok)
    PROVE  TablesIInv'
<1> USE DEF TablesIInv
<1> DEFINE c == Head(batch1)
<1>1. /\ flusher = "log" /\ batch1 # <<>> /\ batch1' = Tail(batch1)
      /\ log' \subseteq log \cup {c} /\ log \subseteq log'
      /\ UNCHANGED <<now, cycles, pushing, buf1, buf2, batch2, flusher, v2, trips, snaps, crane,
                     overflow>>
  BY DEF WriteLog, Insert
<1>2. faults' \in 0..MaxFaults /\ (faults' = 0 => faults = 0)
  <2>1. faults \in Nat /\ faults <= MaxFaults /\ MaxFaults \in Nat
        /\ (ok \/ faults < MaxFaults) /\ faults' = IF ok THEN faults ELSE faults + 1
    BY TablesAssumption DEF WriteLog, MayFail, Failed, TableTypes
  <2> QED BY <2>1
<1>3. /\ ToSet(batch1) = {c} \cup ToSet(batch1') /\ c \in cycles
      /\ batch1' \in Seq(cycles) /\ Len(batch1') <= BufMax /\ InTurn(batch1')
      /\ Precede({c}, ToSet(batch1'))
  <2>1. batch1 \in Seq(cycles) /\ Len(batch1) <= BufMax /\ InTurn(batch1) /\ BufMax \in Nat
    BY TablesAssumption DEF Queues
  <2>2. /\ ToSet(batch1) = {c} \cup ToSet(Tail(batch1)) /\ c \in cycles
        /\ Tail(batch1) \in Seq(cycles) /\ Len(Tail(batch1)) = Len(batch1) - 1 /\ Len(batch1) \in Nat
        /\ Len(batch1) # 1 => Tail(batch1) # <<>>
        /\ Len(batch1) = 1 => Tail(batch1) = <<>>
        /\ InTurn(Tail(batch1)) /\ Precede({c}, ToSet(Tail(batch1)))
    BY <1>1, <2>1, QueueTail
  <2>3. Len(Tail(batch1)) <= BufMax
    BY <2>1, <2>2
  <2> HIDE DEF c
  <2> QED BY <1>1, <2>2, <2>3
<1> HIDE DEF c
<1>4. TableTypes'
  BY <1>1, <1>2 DEF TableTypes
<1>5. Queues'
  BY <1>1, <1>3 DEF Queues
<1>6. InOrder'
  BY <1>1, <1>3 DEF InOrder, Precede
<1>7. ForLog' \subseteq ForLog /\ ForV2' = ForV2
  BY <1>1, <1>3 DEF ForLog, ForV2
<1>8. Paired'
  <2>1. \A d : Has2(d)' <=> Has2(d)
    BY <1>1 DEF Has2
  <2>2. c \in ForLog /\ batch2 = <<>> /\ ToSet(batch2) = {}
    BY <1>1, <1>3, QueueEmpty DEF ForLog, Queues
  <2> QED BY <1>1, <1>2, <1>7, <2>1, <2>2 DEF Paired
<1>9. Learned'
  BY <1>1, <1>7, LearnedKept
<1> QED BY <1>4, <1>5, <1>6, <1>8, <1>9

\* The flusher takes the buffer of tt_cycle_v2.
LEMMA DrainV2OK ==
    ASSUME TablesIInv, DrainV2
    PROVE  TablesIInv'
<1> USE DEF TablesIInv
<1>1. /\ flusher = "log" /\ batch1 = <<>> /\ batch2' = buf2 /\ buf2' = <<>>
      /\ flusher' = IF buf2 = <<>> THEN "idle" ELSE "v2"
      /\ UNCHANGED <<now, cycles, pushing, buf1, batch1, log, v2, trips, snaps, crane, faults,
                     overflow>>
  BY DEF DrainV2
<1>2. /\ batch2 = <<>> /\ ToSet(batch2) = {} /\ ToSet(buf2') = {} /\ (buf2 = <<>> => ToSet(buf2) = {})
      /\ <<>> \in Seq(cycles) /\ Len(<<>>) <= BufMax /\ InTurn(<<>>)
  BY <1>1, TablesAssumption, QueueEmpty DEF Queues
<1>3. TableTypes'
  BY <1>1 DEF TableTypes
<1>4. Queues'
  BY <1>1, <1>2 DEF Queues
<1>5. InOrder'
  BY <1>1, <1>2 DEF InOrder, Precede
<1>6. ForLog' = ForLog /\ ForV2' = ForV2
  BY <1>1, <1>2 DEF ForLog, ForV2
<1>7. Paired'
  <2>1. \A d : Has2(d)' <=> Has2(d)
    BY <1>1 DEF Has2
  <2> QED BY <1>1, <1>2, <1>6, <2>1 DEF Paired
<1>8. Learned'
  BY <1>1, <1>6, LearnedKept
<1> QED BY <1>3, <1>4, <1>5, <1>7, <1>8

\* A row of tt_cycle_v2 is written, or its insert fails.
LEMMA WriteV2OK ==
    ASSUME TablesIInv, NEW ok \in BOOLEAN, WriteV2(ok)
    PROVE  TablesIInv'
<1> USE DEF TablesIInv
<1> DEFINE c == Head(batch2)
           row == Row2(c)
<1>1. /\ flusher = "v2" /\ batch2' = Tail(batch2) /\ batch2 # <<>>
      /\ flusher' = IF Len(batch2) = 1 THEN "idle" ELSE "v2"
      /\ v2' \subseteq v2 \cup {row} /\ v2 \subseteq v2'
      /\ ok => \E r \in v2' : Key(r) = Key(row)
      /\ UNCHANGED <<now, cycles, pushing, buf1, buf2, batch1, log, trips, snaps, crane, overflow>>
  <2>1. /\ flusher = "v2" /\ batch2' = Tail(batch2)
        /\ flusher' = IF Len(batch2) = 1 THEN "idle" ELSE "v2"
        /\ v2' = IF ok THEN Insert(v2, row) ELSE v2
        /\ UNCHANGED <<now, cycles, pushing, buf1, buf2, batch1, log, trips, snaps, crane, overflow>>
    BY DEF WriteV2
  <2> HIDE DEF row
  <2>2. /\ Insert(v2, row) \subseteq v2 \cup {row} /\ v2 \subseteq Insert(v2, row)
        /\ \E r \in Insert(v2, row) : Key(r) = Key(row)
    BY DEF Insert
  <2>3. batch2 # <<>>
    BY <2>1 DEF Queues
  <2> QED BY <2>1, <2>2, <2>3
<1>2. faults' \in 0..MaxFaults /\ (faults' = 0 => faults = 0 /\ ok)
  <2>1. faults \in Nat /\ faults <= MaxFaults /\ MaxFaults \in Nat
        /\ (ok \/ faults < MaxFaults) /\ faults' = IF ok THEN faults ELSE faults + 1
    BY TablesAssumption DEF WriteV2, MayFail, Failed, TableTypes
  <2> QED BY <2>1
<1>3. /\ ToSet(batch2) = {c} \cup ToSet(batch2') /\ c \in cycles
      /\ batch2' \in Seq(cycles) /\ Len(batch2') <= BufMax /\ InTurn(batch2')
      /\ Precede({c}, ToSet(batch2'))
      /\ flusher' = "v2" => batch2' # <<>>
      /\ flusher' = "idle" => batch2' = <<>>
  <2>1. batch2 \in Seq(cycles) /\ Len(batch2) <= BufMax /\ InTurn(batch2) /\ BufMax \in Nat
    BY TablesAssumption DEF Queues
  <2>2. /\ ToSet(batch2) = {c} \cup ToSet(Tail(batch2)) /\ c \in cycles
        /\ Tail(batch2) \in Seq(cycles) /\ Len(Tail(batch2)) = Len(batch2) - 1 /\ Len(batch2) \in Nat
        /\ Len(batch2) # 1 => Tail(batch2) # <<>>
        /\ Len(batch2) = 1 => Tail(batch2) = <<>>
        /\ InTurn(Tail(batch2)) /\ Precede({c}, ToSet(Tail(batch2)))
    BY <1>1, <2>1, QueueTail
  <2>3. Len(Tail(batch2)) <= BufMax
    BY <2>1, <2>2
  <2> HIDE DEF c
  <2> QED BY <1>1, <2>2, <2>3
<1>4. /\ row.yt = c.yt /\ row.at = c.at /\ Key(row) = Key(c)
      /\ row \in [yt : Yts, at : Nat, pick : Points, drop : Points, done : Nat]
  BY <1>3 DEF Row2, Key, TableTypes, Cycle
<1> HIDE DEF c, row
<1>5. TableTypes'
  BY <1>1, <1>2, <1>4 DEF TableTypes
<1>6. Queues'
  BY <1>1, <1>3 DEF Queues
<1>7. InOrder'
  <2>1. Precede({row}, ToSet(batch2') \cup ToSet(buf2))
    BY <1>3, <1>4 DEF InOrder, Precede
  <2>2. \A r \in v2' : \E d \in cycles : Key(d) = Key(r)
    BY <1>1, <1>3, <1>4 DEF InOrder
  <2> QED BY <1>1, <1>3, <2>1, <2>2 DEF InOrder, Precede
<1>8. /\ ForLog' = ForLog
      /\ \A d \in ForV2' : \E e \in ForV2 : Key(e) = Key(d)
  BY <1>1, <1>3, <1>4 DEF ForLog, ForV2
<1>9. Paired'
  <2> SUFFICES ASSUME faults' = 0, ~overflow' PROVE Paired'
    BY DEF Paired
  <2>1. \A d : Has2(d) => Has2(d)'
    BY <1>1 DEF Has2
  <2>2. faults = 0 /\ ~overflow /\ ok
    BY <1>1, <1>2
  <2>3. \A d : d = c => Has2(d)'
    BY <1>1, <1>4, <2>2 DEF Has2
  <2>4. \A d \in ToSet(batch2) : Has2(d)' \/ d \in ToSet(batch2')
    BY <1>3, <2>3
  <2>5. flusher' = "idle" => ToSet(batch2') = {}
    BY <1>3, QueueEmpty
  <2> QED BY <1>1, <1>8, <2>1, <2>2, <2>4, <2>5 DEF Paired
<1>10. Learned'
  BY <1>1, <1>8, LearnedKept
<1> QED BY <1>5, <1>6, <1>7, <1>9, <1>10

\* The process dies.
LEMMA CrashTablesOK ==
    ASSUME TablesIInv, CrashTables
    PROVE  TablesIInv'
<1> USE DEF TablesIInv
<1>1. /\ faults' = faults + 1 /\ faults < MaxFaults
      /\ pushing' = <<>> /\ buf1' = <<>> /\ buf2' = <<>> /\ batch1' = <<>> /\ batch2' = <<>>
      /\ flusher' = "idle"
      /\ UNCHANGED <<now, cycles, log, v2, trips, snaps, crane, overflow>>
  BY DEF CrashTables
<1>2. faults' \in 0..MaxFaults /\ faults' # 0
  BY <1>1, TablesAssumption DEF TableTypes
<1>3. TableTypes'
  BY <1>1, <1>2 DEF TableTypes
<1>4. <<>> \in Seq(cycles) /\ Len(<<>>) <= BufMax /\ InTurn(<<>>) /\ ToSet(<<>>) = {}
  BY TablesAssumption, QueueEmpty
<1>5. Queues' /\ InOrder' /\ Paired'
  BY <1>1, <1>2, <1>4 DEF Queues, InOrder, Precede, Paired
<1>6. ForLog' \subseteq ForLog /\ ForV2' \subseteq ForV2
  BY <1>1, <1>4 DEF ForLog, ForV2
<1>7. Learned'
  BY <1>1, <1>6, LearnedKept
<1> QED BY <1>3, <1>5, <1>7

\* The readers change neither the queues nor the log.
LEMMA ReadersKeep ==
    ASSUME TablesIInv, UNCHANGED <<cycles, memory, log, faults, overflow>>,
           {Key(r) : r \in v2'} = {Key(r) : r \in v2}
    PROVE  /\ Queues' /\ InOrder' /\ Paired' /\ ForLog' = ForLog
           /\ \A c \in ForV2' : \E d \in ForV2 : Key(d) = Key(c)
<1> USE DEF TablesIInv, memory
<1>1. Queues'
  BY DEF Queues
<1>2. \A r \in v2' : \E q \in v2 : Key(r) = Key(q)
  OBVIOUS
<1>3. \A q \in v2 : \E r \in v2' : Key(r) = Key(q)
  OBVIOUS
<1>4. \A B : Precede(v2, B) => Precede(v2', B)
  BY <1>2 DEF Precede, Key
<1>5. InOrder'
  BY <1>2, <1>4 DEF InOrder
<1>6. ForLog' = ForLog
  BY DEF ForLog
<1>7. \A d : Has2(d)' <=> Has2(d)
  BY <1>2, <1>3 DEF Has2
<1>8. Paired'
  BY <1>6, <1>7 DEF Paired
<1>9. \A c \in ForV2' : \E d \in ForV2 : Key(d) = Key(c)
  BY <1>2 DEF ForV2
<1> QED BY <1>1, <1>5, <1>6, <1>8, <1>9

\* The trips: what lag() sees before a row is the truck's cycle before it.
LEMMA TripsOK ==
    ASSUME TablesIInv, LadenTrips \/ EmptyTrips \/ PruneTrips
    PROVE  TablesIInv'
<1> USE DEF TablesIInv
<1>1. UNCHANGED <<now, cycles, memory, log, v2, snaps, crane, faults, overflow>>
  BY DEF LadenTrips, EmptyTrips, PruneTrips
<1>2. Queues' /\ InOrder' /\ Paired' /\ ForLog' = ForLog /\ ForV2' = ForV2
  BY <1>1, ReadersKeep DEF ForV2, memory
<1> DEFINE Row == [yt : Yts, at : Nat, ord : {0, 1}, origin : Points, dest : Points,
                   prev : Nat, captured : Nat]
<1>3. \A t \in trips' \ trips :
        /\ t \in Row
        /\ t.ord = 0 => \E r \in v2 : /\ r.yt = t.yt /\ r.at = t.at
                                      /\ Between(v2, t.yt, t.prev, t.at) = {}
                                      /\ \E o \in v2 : o.yt = t.yt /\ o.at = t.prev /\ o.at < r.at
  <2>1. CASE LadenTrips
    <3>1. SUFFICES ASSUME NEW t \in trips' \ trips PROVE t \in Row /\ t.ord = 1
      OBVIOUS
    <3>2. PICK r \in v2 : t = [yt |-> r.yt, at |-> r.at, ord |-> 1, origin |-> r.pick,
                               dest |-> r.drop, prev |-> r.at, captured |-> now]
      BY <2>1 DEF LadenTrips, NewTrips
    <3> QED BY <3>2 DEF TableTypes
  <2>2. CASE EmptyTrips
    <3>1. SUFFICES ASSUME NEW t \in trips' \ trips
                   PROVE  /\ t \in Row
                          /\ \E r \in v2 : /\ r.yt = t.yt /\ r.at = t.at
                                           /\ Between(v2, t.yt, t.prev, t.at) = {}
                                           /\ \E o \in v2 : o.yt = t.yt /\ o.at = t.prev /\ o.at < r.at
      OBVIOUS
    <3>2. PICK r \in v2 : t \in EmptyTripOf(r)
      BY <2>2 DEF EmptyTrips, NewTrips
    <3>3. PICK o \in Lag(r) : t = [yt |-> r.yt, at |-> r.at, ord |-> 0, origin |-> o.drop,
                                   dest |-> r.pick, prev |-> o.at, captured |-> now]
      BY <3>2 DEF EmptyTripOf
    <3>4. /\ o \in v2 /\ o.yt = r.yt /\ o.at < r.at /\ o.at > now - TripWindow
          /\ \A q \in v2 : q.yt = r.yt /\ q.at < r.at /\ q.at > now - TripWindow => q.at <= o.at
      BY DEF Lag
    <3>5. t \in Row /\ t.yt = r.yt /\ t.at = r.at /\ t.prev = o.at
      BY <3>3, <3>4 DEF TableTypes
    <3>6. ASSUME NEW q \in v2, q.yt = r.yt, q.at > o.at, q.at < r.at PROVE FALSE
      <4>1. q.at \in Nat /\ o.at \in Nat /\ now \in Nat /\ TripWindow \in Nat
        BY <3>4, TablesAssumption DEF TableTypes
      <4>2. q.at > now - TripWindow
        BY <3>4, <3>6, <4>1
      <4> QED BY <3>4, <3>6, <4>1, <4>2
    <3> QED BY <3>4, <3>5, <3>6 DEF Between
  <2>3. CASE PruneTrips
    BY <2>3 DEF PruneTrips
  <2> QED BY <2>1, <2>2, <2>3
<1>4. TableTypes'
  <2>1. trips' \subseteq Row
    BY <1>3 DEF TableTypes
  <2> QED BY <1>1, <2>1 DEF TableTypes, memory
<1>5. \A t \in trips' : t.ord = 0 => \E c \in cycles : Key(c) = <<t.yt, t.at>>
  BY <1>3 DEF Learned, InOrder, Key
<1>6. OriginIsPreviousDrop'
  <2> SUFFICES ASSUME NEW t \in trips', t.ord = 0
               PROVE  Between(ForV2, t.yt, t.prev, t.at) = {}
    BY <1>1, <1>2 DEF OriginIsPreviousDrop, ForV2, Between
  <2>1. CASE t \in trips
    BY <2>1 DEF Learned, OriginIsPreviousDrop, ForV2
  <2>2. CASE t \notin trips
    <3>1. PICK r \in v2 : r.yt = t.yt /\ r.at = t.at /\ Between(v2, t.yt, t.prev, t.at) = {}
      BY <1>3, <2>2
    <3>2. ASSUME NEW c \in ToSet(buf2) \cup ToSet(batch2), c.yt = t.yt, c.at < t.at PROVE FALSE
      <4>1. r.at < c.at /\ c \in cycles
        <5>1. \A q \in Seq(cycles) : ToSet(q) \subseteq cycles
          BY DEF ToSet
        <5> QED BY <3>1, <3>2, <5>1 DEF InOrder, Precede, Queues
      <4>2. r.at \in Nat /\ c.at \in Nat
        BY <4>1 DEF TableTypes, Cycle
      <4> QED BY <3>1, <3>2, <4>1, <4>2
    <3> QED BY <3>1, <3>2 DEF Between, ForV2
  <2> QED BY <2>1, <2>2
<1>7. Learned'
  BY <1>1, <1>2, <1>5, <1>6 DEF Learned, LabelIsNextDrop, memory
<1> QED BY <1>2, <1>4, <1>7

\* The labels: nothing that is still on its way to the log can lie before a drop that is
\* in it.
LEMMA BackfillOK ==
    ASSUME TablesIInv, Backfill
    PROVE  TablesIInv'
<1> USE DEF TablesIInv
<1>1. /\ snaps' = {Label(s) : s \in snaps}
      /\ UNCHANGED <<now, cycles, memory, log, v2, trips, crane, faults, overflow>>
  BY DEF Backfill
<1>2. Queues' /\ InOrder' /\ Paired' /\ ForLog' = ForLog /\ ForV2' = ForV2
  BY <1>1, ReadersKeep DEF ForV2, memory
<1>3. ASSUME NEW s \in snaps
      PROVE  /\ Label(s) \in [yt : Yts, ts : Nat, free : Nat]
             /\ Label(s).free > 0 => /\ \E c \in cycles : Key(c) = <<Label(s).yt, Label(s).free>>
                                     /\ Between(ForLog, Label(s).yt, Label(s).ts, Label(s).free) = {}
  <2>0. s \in [yt : Yts, ts : Nat, free : Nat]
    BY DEF TableTypes
  <2>1. CASE Label(s) = s
    BY <2>0, <2>1 DEF Learned, LabelIsNextDrop, ForLog
  <2>2. CASE Label(s) # s
    <3>1. /\ NextDrops(s) # {} /\ Label(s) = [s EXCEPT !.free = Min(NextDrops(s))]
      BY <2>2 DEF Label
    <3>2. NextDrops(s) \in SUBSET Nat
      BY DEF NextDrops, TableTypes, InOrder, Cycle
    <3>3. Min(NextDrops(s)) \in NextDrops(s) /\ \A y \in NextDrops(s) : Min(NextDrops(s)) <= y
      BY <3>1, <3>2, LeastOf
    <3> DEFINE free == Min(NextDrops(s))
    <3>4. PICK r \in log : r.yt = s.yt /\ r.at = free /\ r.at > s.ts /\ r.at < s.ts + LabelWindow
      BY <3>3 DEF NextDrops
    <3>5. /\ Label(s) \in [yt : Yts, ts : Nat, free : Nat] /\ Label(s).yt = s.yt
          /\ Label(s).ts = s.ts /\ Label(s).free = free
      BY <2>0, <3>1, <3>2, <3>3
    <3>6. r \in cycles /\ r.at \in Nat /\ s.ts \in Nat /\ LabelWindow \in Nat
      BY <2>0, TablesAssumption DEF InOrder, TableTypes, Cycle
    <3>7. \A y \in NextDrops(s) : free <= y
      BY <3>3
    <3> HIDE DEF free
    <3>8. ASSUME NEW c \in ForLog, c.yt = s.yt, c.at > s.ts, c.at < free PROVE FALSE
      <4>1. c \in cycles
        <5>1. \A q \in Seq(cycles) : ToSet(q) \subseteq cycles
          BY DEF ToSet
        <5>2. ToSet(pushing) \subseteq cycles
          BY QueueEmpty, QueueOne DEF Queues
        <5> QED BY <5>1, <5>2 DEF ForLog, InOrder, Queues
      <4>2. c.at \in Nat
        BY <4>1 DEF TableTypes, Cycle
      <4>3. CASE c \in log
        <5>1. c.at < s.ts + LabelWindow
          BY <3>4, <3>6, <3>8, <4>2
        <5>2. c.at \in NextDrops(s)
          BY <3>8, <4>3, <5>1 DEF NextDrops
        <5> QED BY <3>4, <3>6, <3>7, <3>8, <4>2, <5>2
      <4>4. CASE c \notin log
        <5>1. r.at < c.at
          BY <3>4, <3>8, <4>4 DEF ForLog, InOrder, Precede
        <5> QED BY <3>4, <3>6, <3>8, <4>2, <5>1
      <4> QED BY <4>3, <4>4
    <3>9. Key(r) = <<s.yt, free>>
      BY <3>4 DEF Key
    <3> QED BY <3>5, <3>6, <3>8, <3>9 DEF Between
  <2> QED BY <2>1, <2>2
<1>4. TableTypes'
  BY <1>1, <1>3 DEF TableTypes, memory
<1>5. LabelIsNextDrop'
  <2>1. \A s \in snaps' : s.free > 0 => Between(ForLog, s.yt, s.ts, s.free) = {}
    BY <1>1, <1>3
  <2> QED BY <1>2, <2>1 DEF LabelIsNextDrop, ForLog, Between
<1>6. Learned'
  <2>1. OriginIsPreviousDrop'
    BY <1>1 DEF Learned, OriginIsPreviousDrop, memory, Between
  <2>2. \A s \in snaps' : s.free > 0 => \E c \in cycles : Key(c) = <<s.yt, s.free>>
    BY <1>1, <1>3
  <2> QED BY <1>1, <1>5, <2>1, <2>2 DEF Learned
<1> QED BY <1>2, <1>4, <1>6

\* The crane's completions change no key of tt_cycle_v2; snapshots begin unlabelled.
LEMMA ObserversOK ==
    ASSUME TablesIInv,
           \/ \E yt \in Yts : Snapshot(yt)
           \/ \E yt \in Yts, at \in 1..TablesEnd : LandMove(yt, at)
           \/ Correct \/ TablesTick \/ UNCHANGED <<now, tablesVars>>
    PROVE  TablesIInv'
<1> USE DEF TablesIInv
<1>1. /\ UNCHANGED <<cycles, memory, log, trips, faults, overflow>>
      /\ \A s \in snaps' : s \in snaps \/ s.free = 0
  BY DEF Snapshot, LandMove, Correct, TablesTick, tablesVars, memory
<1>2. /\ \A r \in v2 : /\ Corrected(r) \in [yt : Yts, at : Nat, pick : Points, drop : Points,
                                            done : Nat]
                       /\ Key(Corrected(r)) = Key(r)
  <2> SUFFICES ASSUME NEW r \in v2
               PROVE  /\ Corrected(r) \in [yt : Yts, at : Nat, pick : Points, drop : Points,
                                           done : Nat]
                      /\ Key(Corrected(r)) = Key(r)
    OBVIOUS
  <2>0. r \in [yt : Yts, at : Nat, pick : Points, drop : Points, done : Nat]
    BY DEF TableTypes
  <2>1. CASE Corrected(r) = r
    BY <2>0, <2>1
  <2>2. CASE Corrected(r) # r
    <3>1. /\ Matches(r) # {}
          /\ Corrected(r) = [r EXCEPT !.done = (CHOOSE c \in Matches(r) : TRUE).at]
      BY <2>2 DEF Corrected
    <3>2. (CHOOSE c \in Matches(r) : TRUE) \in crane
      BY <3>1 DEF Matches
    <3>3. (CHOOSE c \in Matches(r) : TRUE).at \in Nat
      BY <3>2 DEF TableTypes
    <3> DEFINE at == (CHOOSE c \in Matches(r) : TRUE).at
    <3> HIDE DEF at
    <3>4. Corrected(r) = [r EXCEPT !.done = at] /\ at \in Nat
      BY <3>1, <3>3 DEF at
    <3> QED BY <2>0, <3>4 DEF Key
  <2> QED BY <2>1, <2>2
<1>3. /\ {Key(r) : r \in v2'} = {Key(r) : r \in v2}
      /\ v2' \subseteq [yt : Yts, at : Nat, pick : Points, drop : Points, done : Nat]
  <2>1. CASE v2' = v2
    BY <2>1 DEF TableTypes
  <2>2. CASE v2' = {Corrected(r) : r \in v2}
    BY <1>2, <2>2
  <2> QED BY <2>1, <2>2 DEF Snapshot, LandMove, Correct, TablesTick, tablesVars
<1>4. /\ Queues' /\ InOrder' /\ Paired' /\ ForLog' = ForLog
      /\ \A c \in ForV2' : \E d \in ForV2 : Key(d) = Key(c)
  BY <1>1, <1>3, ReadersKeep
<1>5. now' \in Nat
  BY DEF TableTypes, Snapshot, LandMove, Correct, TablesTick, tablesVars, Advance
<1>6. snaps' \subseteq [yt : Yts, ts : Nat, free : Nat]
  BY DEF TableTypes, Snapshot, LandMove, Correct, TablesTick, tablesVars
<1>7. crane' \subseteq [yt : Yts, at : Nat]
  BY DEF TableTypes, Snapshot, LandMove, Correct, TablesTick, tablesVars
<1>8. TableTypes'
  BY <1>1, <1>3, <1>5, <1>6, <1>7 DEF TableTypes, memory
<1>9. Learned'
  BY <1>1, <1>4, LearnedKept
<1> QED BY <1>4, <1>8, <1>9

LEMMA TablesTold == TablesIInv => TablesInv
<1> SUFFICES ASSUME TablesIInv PROVE TablesInv
  OBVIOUS
<1>1. \A q \in Seq(cycles) : ToSet(q) \subseteq cycles
  BY DEF ToSet
<1>2. TablesTypeOK
  BY <1>1 DEF TablesIInv, TableTypes, Queues, InOrder, TablesTypeOK
<1>3. RowsPaired
  BY DEF TablesIInv, Paired, Has2, RowsPaired
<1> QED BY <1>2, <1>3 DEF TablesIInv, Learned, TablesInv

\* Whatever fails, overflows or crashes: a label is the truck's next drop, the origin of
\* an empty trip its previous one, and without a fault every complete cycle of the log
\* has its row in tt_cycle_v2 whenever the flusher rests.
THEOREM TablesTrue == TablesSpec => []TablesInv
<1>1. TablesIInv /\ [TablesNext]_<<now, tablesVars>> => TablesIInv'
  BY DeliverOK, PushRestOK, DrainLogOK, WriteLogOK, DrainV2OK, WriteV2OK, CrashTablesOK, TripsOK,
     BackfillOK, ObserversOK DEF TablesNext
<1> QED BY TablesStart, <1>1, TablesTold, PTL DEF TablesSpec
(***************************************************************************)
(* The rows of the waiting cranes: what an aggregation has read of a date   *)
(* none of whose samples is pruned is all there was of it before it read.   *)
(***************************************************************************)

KpiTypes ==
    /\ now \in Nat /\ wtick \in 0..(PruneEvery - 1) /\ ran \in 0..now
    /\ scene \in Scenes \cup {NoScene}
    /\ smooth \in Seq(Nat) /\ Len(smooth) <= SmoothLen /\ Len(live) <= 1
    /\ IsFiniteSet(samples) /\ IsFiniteSet(pruned) /\ fetched \subseteq samples \cup pruned
    /\ samples \cup pruned \subseteq [ts : 1..now, sr : 0..Cardinality(Qcs)]
    /\ fetchedAt \in 0..now /\ settled \in 0..now
    /\ daily \in [Days -> [sum : Nat, n : Nat, prov : BOOLEAN]]
    /\ shiftly \in [Shifts -> [sum : Nat, n : Nat]]

\* A sample that is older than the reading was read, or it was pruned before.
ReadAll == fetchedAt > 0 => \A x \in samples \cup pruned : x.ts < fetchedAt => x \in fetched \cup pruned

\* A shift with a row has samples, and a reading of them if one is under way.
RowHasSamples ==
    \A s \in Shifts : Intact(s \div 2) /\ shiftly[s] # [sum |-> 0, n |-> 0] =>
        /\ OfShift(samples, s) # {}
        /\ fetchedAt > 0 => OfShift(fetched, s) # {}

KpiIInv == KpiTypes /\ ReadAll /\ RowHasSamples /\ ClosedDayComplete /\ DaySumsShifts

LEMMA KpiConstants ==
    /\ ShiftLen \in Nat /\ ShiftLen > 0 /\ SampleKeep \in Nat /\ PruneEvery \in Nat /\ PruneEvery > 0
    /\ SmoothLen \in Nat /\ SmoothLen > 0 /\ KpiEnd \in Nat
    /\ IsFiniteSet(Qcs) /\ Cardinality(Qcs) \in Nat /\ \A s \in Scenes : DOMAIN s = Qcs
BY KpiAssumption, FS_CardinalityType

\* The total of a set is a number, and that of a set in two parts is their sum.
LEMMA TotalNat ==
    ASSUME NEW ss, IsFiniteSet(ss)
    PROVE  Total(ss) \in Nat /\ Cardinality(ss) \in Nat /\ Total({}) = 0 /\ Cardinality({}) = 0
<1> DEFINE N == 1..Cardinality(Qcs)
           units == {unit \in ss \X N : unit[2] <= unit[1].sr}
<1>1. IsFiniteSet(N)
  BY KpiConstants, FS_Interval
<1>2. IsFiniteSet(units)
  BY <1>1, FS_Product, FS_Subset
<1>3. {unit \in {} \X N : unit[2] <= unit[1].sr} = {}
  OBVIOUS
<1> QED BY <1>2, <1>3, FS_CardinalityType, FS_EmptySet DEF Total

LEMMA TotalParts ==
    ASSUME NEW A, NEW B, IsFiniteSet(A), IsFiniteSet(B), A \cap B = {}
    PROVE  /\ Total(A \cup B) = Total(A) + Total(B)
           /\ Cardinality(A \cup B) = Cardinality(A) + Cardinality(B)
<1> DEFINE N == 1..Cardinality(Qcs)
           Units(ss) == {unit \in ss \X N : unit[2] <= unit[1].sr}
<1>1. \A ss : IsFiniteSet(ss) => IsFiniteSet(Units(ss))
  <2> SUFFICES ASSUME NEW ss, IsFiniteSet(ss) PROVE IsFiniteSet(Units(ss))
    OBVIOUS
  <2>0. IsFiniteSet(N)
    BY KpiConstants, FS_Interval
  <2> HIDE DEF N
  <2>1. IsFiniteSet(ss \X N)
    BY <2>0, FS_Product
  <2>2. Units(ss) \in SUBSET (ss \X N)
    OBVIOUS
  <2> HIDE DEF Units, N
  <2> QED BY <2>1, <2>2, FS_Subset
<1>2. Units(A \cup B) = Units(A) \cup Units(B) /\ Units(A) \cap Units(B) = {}
  OBVIOUS
<1>3. IsFiniteSet(Units(A)) /\ IsFiniteSet(Units(B))
  BY <1>1
<1>4. \A ss : Total(ss) = Cardinality(Units(ss))
  BY DEF Total
<1> HIDE DEF Units
<1>5. Cardinality(Units(A \cup B)) = Cardinality(Units(A)) + Cardinality(Units(B))
  <2>1. /\ Cardinality(Units(A) \cup Units(B))
             = Cardinality(Units(A)) + Cardinality(Units(B)) - Cardinality(Units(A) \cap Units(B))
        /\ Cardinality(Units(A)) \in Nat /\ Cardinality(Units(B)) \in Nat
    BY <1>3, FS_Union, FS_CardinalityType
  <2>2. Cardinality({}) = 0
    BY FS_EmptySet
  <2>3. Cardinality(Units(A) \cap Units(B)) = 0
    BY <1>2, <2>2
  <2>4. Cardinality(Units(A \cup B)) = Cardinality(Units(A) \cup Units(B))
    BY <1>2
  <2> DEFINE a == Cardinality(Units(A))
             b == Cardinality(Units(B))
             both == Cardinality(Units(A) \cap Units(B))
             u == Cardinality(Units(A) \cup Units(B))
  <2>5. u = a + b - both /\ a \in Nat /\ b \in Nat /\ both = 0
    BY <2>1, <2>3
  <2>6. u = a + b
    <3> HIDE DEF a, b, both, u
    <3> QED BY <2>5
  <2> QED BY <2>4, <2>6
<1>6. Cardinality(A \cup B) = Cardinality(A) + Cardinality(B)
  <2>1. /\ Cardinality(A \cup B) = Cardinality(A) + Cardinality(B) - Cardinality(A \cap B)
        /\ Cardinality(A) \in Nat /\ Cardinality(B) \in Nat
    BY FS_Union, FS_CardinalityType
  <2>2. Cardinality(A \cap B) = 0
    BY FS_EmptySet
  <2> QED BY <2>1, <2>2
<1> QED BY <1>4, <1>5, <1>6

\* The two shifts of a date.
LEMMA ShiftsOfDay ==
    ASSUME NEW t \in Nat, NEW d \in Int
    PROVE  /\ ShiftOf(t) \in Nat /\ DayOf(t) \in Nat
           /\ DayOf(t) = d <=> ShiftOf(t) = 2 * d \/ ShiftOf(t) = 2 * d + 1
<1>1. ShiftOf(t) \in Nat
  BY KpiConstants DEF ShiftOf
<1> DEFINE s == ShiftOf(t)
<1> HIDE DEF s
<1>2. s \in Nat /\ DayOf(t) = s \div 2
  BY <1>1 DEF s, DayOf
<1> QED BY <1>2 DEF s

\* An instant of a later date is later.
LEMMA DaysGrow ==
    ASSUME NEW t \in Nat, NEW r \in Nat, t <= r
    PROVE  DayOf(t) <= DayOf(r)
<1>1. ShiftOf(t) <= ShiftOf(r) /\ ShiftOf(t) \in Nat /\ ShiftOf(r) \in Nat
  BY KpiConstants DEF ShiftOf
<1> QED BY <1>1 DEF DayOf

LEMMA KpiStart == ClockInit /\ KpiInit => KpiIInv
<1> SUFFICES ASSUME ClockInit, KpiInit PROVE KpiIInv
  OBVIOUS
<1>1. KpiTypes
  <2>1. Len(<<>>) = 0 /\ <<>> \in Seq(Nat)
    OBVIOUS
  <2> QED BY <2>1, KpiConstants, FS_EmptySet DEF ClockInit, KpiInit, KpiTypes
<1>2. ReadAll /\ RowHasSamples /\ ClosedDayComplete
  BY DEF KpiInit, ReadAll, RowHasSamples, ClosedDayComplete
<1>3. DaySumsShifts
  BY DEF KpiInit, DaySumsShifts
<1> QED BY <1>1, <1>2, <1>3 DEF KpiIInv

LEMMA StarvingCount ==
    ASSUME NEW s \in Scenes
    PROVE  Cardinality(StarvingReal(s)) \in 0..Cardinality(Qcs)
<1>1. StarvingReal(s) \in SUBSET Qcs
  BY DEF StarvingReal, StarvingGps, Scored, Working
<1> QED BY <1>1, KpiConstants, FS_Subset, FS_CardinalityType

LEMMA WaitTickStep ==
    ASSUME KpiIInv, NEW s \in Scenes, WaitTick(s)
    PROVE  KpiIInv'
<1> DEFINE x == [ts |-> now, sr |-> Cardinality(StarvingReal(s))]
           all == samples \cup {x}
           sm == Last6(Append(smooth, x.sr))
<1>1. /\ ran < now /\ ran' = now /\ wtick' = (wtick + 1) % PruneEvery /\ scene' = s
      /\ smooth' = sm /\ Len(live') = 1 /\ samples' \in SUBSET all
      /\ pruned' = pruned \cup (all \ samples')
      /\ now' = now /\ fetched' = fetched /\ fetchedAt' = fetchedAt /\ settled' = settled
      /\ daily' = daily /\ shiftly' = shiftly
  BY DEF WaitTick, Kept
<1>2. KpiTypes
  BY DEF KpiIInv
<1>3. x \in [ts : 1..now, sr : 0..Cardinality(Qcs)] /\ x.ts = now /\ now > 0
  BY <1>1, <1>2, StarvingCount DEF KpiTypes
<1>4. sm \in Seq(Nat) /\ Len(sm) <= SmoothLen
  <2>1. smooth \in Seq(Nat) /\ x.sr \in Nat /\ Len(smooth) \in Nat /\ Len(smooth) <= SmoothLen
    BY <1>2, <1>3, KpiConstants DEF KpiTypes
  <2> DEFINE more == Append(smooth, x.sr)
  <2>2. more \in Seq(Nat) /\ Len(more) = Len(smooth) + 1
    BY <2>1, AppendProperties
  <2> HIDE DEF more, x
  <2>3. more # <<>>
    BY <2>1, <2>2
  <2>4. Tail(more) \in Seq(Nat) /\ Len(Tail(more)) = Len(more) - 1
    BY <2>2, <2>3, HeadTailProperties
  <2> QED BY <2>1, <2>2, <2>4, KpiConstants DEF Last6, more
<1> HIDE DEF x, sm
<1>5. samples' \cup pruned' = samples \cup pruned \cup {x}
  BY <1>1
<1>6. KpiTypes'
  <2>1. wtick' \in 0..(PruneEvery - 1)
    BY <1>1, <1>2, KpiConstants DEF KpiTypes
  <2>2. IsFiniteSet(samples') /\ IsFiniteSet(pruned')
    <3>1. IsFiniteSet(all)
      BY <1>2, FS_AddElement DEF KpiTypes
    <3>2. IsFiniteSet(samples') /\ IsFiniteSet(all \ samples')
      BY <1>1, <3>1, FS_Subset
    <3> HIDE DEF all
    <3> QED BY <1>1, <1>2, <3>2, FS_Union DEF KpiTypes
  <2>3. fetched' \subseteq samples' \cup pruned'
    BY <1>1, <1>2, <1>5 DEF KpiTypes
  <2>4. samples' \cup pruned' \subseteq [ts : 1..now', sr : 0..Cardinality(Qcs)]
    BY <1>1, <1>2, <1>3, <1>5 DEF KpiTypes
  <2> HIDE DEF all
  <2> QED BY <1>1, <1>2, <1>4, <2>1, <2>2, <2>3, <2>4 DEF KpiTypes
<1>7. ReadAll'
  BY <1>1, <1>2, <1>3 DEF KpiIInv, ReadAll, KpiTypes
<1>8. \A d : Intact(d)' => Intact(d)
  BY <1>1 DEF Intact
<1>9. \A ss \in Shifts : Intact(ss \div 2)' => OfShift(samples, ss) \subseteq OfShift(samples', ss)
  <2> SUFFICES ASSUME NEW ss \in Shifts, Intact(ss \div 2)', NEW y \in OfShift(samples, ss)
               PROVE  y \in samples'
    BY DEF OfShift
  <2>1. DayOf(y.ts) = ss \div 2
    BY DEF OfShift, DayOf
  <2> QED BY <1>1, <2>1 DEF Intact, OfShift
<1>10. RowHasSamples'
  <2> SUFFICES ASSUME NEW ss \in Shifts, Intact(ss \div 2)', shiftly'[ss] # [sum |-> 0, n |-> 0]
               PROVE  OfShift(samples', ss) # {} /\ (fetchedAt' > 0 => OfShift(fetched', ss) # {})
    BY DEF RowHasSamples
  <2> QED BY <1>1, <1>8, <1>9 DEF KpiIInv, RowHasSamples
<1>11. ClosedDayComplete'
  <2> SUFFICES ASSUME NEW d \in Days, settled' > 0, DayOf(settled') > d, Intact(d)', EverOf(d)' # {}
               PROVE  daily'[d] = [sum |-> Total(EverOf(d)'), n |-> Cardinality(EverOf(d)'), prov |-> FALSE]
    BY DEF ClosedDayComplete
  <2>1. DayOf(now) > d
    <3>1. settled \in Nat /\ now \in Nat /\ settled <= now /\ d \in Int
      BY <1>2 DEF KpiTypes, Days, Shifts
    <3>2. DayOf(settled) <= DayOf(now) /\ DayOf(settled) \in Nat /\ DayOf(now) \in Nat
      BY <3>1, DaysGrow, ShiftsOfDay
    <3> QED BY <1>1, <3>1, <3>2
  <2>2. EverOf(d)' = EverOf(d)
    <3>1. d \in Int /\ now \in Nat
      BY <1>2 DEF KpiTypes, Days, Shifts
    <3>2. DayOf(now) \in Nat
      BY <3>1, ShiftsOfDay
    <3>3. DayOf(x.ts) # d
      BY <1>3, <2>1, <3>1, <3>2
    <3> QED BY <1>5, <3>3 DEF EverOf, OfDay
  <2> QED BY <1>1, <1>8, <2>2 DEF KpiIInv, ClosedDayComplete
<1>12. DaySumsShifts'
  BY <1>1, <1>8 DEF KpiIInv, DaySumsShifts
<1> QED BY <1>6, <1>7, <1>10, <1>11, <1>12 DEF KpiIInv

LEMMA FetchStep ==
    ASSUME KpiIInv, Fetch
    PROVE  KpiIInv'
<1>1. /\ fetched' = samples /\ fetchedAt' = now /\ now' = now /\ wtick' = wtick /\ ran' = ran
      /\ scene' = scene /\ smooth' = smooth /\ live' = live /\ samples' = samples
      /\ pruned' = pruned /\ settled' = settled /\ daily' = daily /\ shiftly' = shiftly
  BY DEF Fetch
<1>2. KpiTypes'
  BY <1>1 DEF KpiIInv, KpiTypes
<1>3. ReadAll' /\ RowHasSamples'
  BY <1>1 DEF KpiIInv, ReadAll, RowHasSamples, Intact
<1>4. ClosedDayComplete' /\ DaySumsShifts'
  BY <1>1 DEF KpiIInv, ClosedDayComplete, DaySumsShifts, Intact, EverOf
<1> QED BY <1>2, <1>3, <1>4 DEF KpiIInv

LEMMA UpsertStep ==
    ASSUME KpiIInv, Upsert
    PROVE  KpiIInv'
<1>1. /\ fetchedAt > 0 /\ daily' = [d \in Days |-> UpsertDay(d)]
      /\ shiftly' = [s \in Shifts |-> UpsertShift(s)] /\ settled' = fetchedAt
      /\ fetched' = {} /\ fetchedAt' = 0 /\ now' = now /\ wtick' = wtick /\ ran' = ran
      /\ scene' = scene /\ smooth' = smooth /\ live' = live /\ samples' = samples
      /\ pruned' = pruned
  BY DEF Upsert
<1>2. KpiTypes
  BY DEF KpiIInv
<1>3. IsFiniteSet(fetched) /\ fetched \subseteq [ts : 1..now, sr : 0..Cardinality(Qcs)]
  <2>1. IsFiniteSet(samples \cup pruned)
    BY <1>2, FS_Union DEF KpiTypes
  <2> QED BY <1>2, <2>1, FS_Subset DEF KpiTypes
<1>4. \A k : IsFiniteSet(OfDay(fetched, k)) /\ IsFiniteSet(OfShift(fetched, k))
  BY <1>3, FS_Subset DEF OfDay, OfShift
<1>5. KpiTypes'
  <2>1. ASSUME NEW d \in Days PROVE UpsertDay(d) \in [sum : Nat, n : Nat, prov : BOOLEAN]
    <3>1. Total(OfDay(fetched, d)) \in Nat /\ Cardinality(OfDay(fetched, d)) \in Nat
      BY <1>4, TotalNat
    <3> QED BY <1>2, <3>1 DEF UpsertDay, KpiTypes
  <2>2. ASSUME NEW s \in Shifts PROVE UpsertShift(s) \in [sum : Nat, n : Nat]
    <3>1. Total(OfShift(fetched, s)) \in Nat /\ Cardinality(OfShift(fetched, s)) \in Nat
      BY <1>4, TotalNat
    <3> QED BY <1>2, <3>1 DEF UpsertShift, KpiTypes
  <2>3. /\ daily' \in [Days -> [sum : Nat, n : Nat, prov : BOOLEAN]]
        /\ shiftly' \in [Shifts -> [sum : Nat, n : Nat]]
    BY <1>1, <2>1, <2>2
  <2> QED BY <1>1, <1>2, <2>3 DEF KpiTypes
<1>6. ReadAll'
  BY <1>1 DEF ReadAll
<1>7. \A d : Intact(d)' <=> Intact(d)
  BY <1>1 DEF Intact
<1>8. ASSUME NEW s \in Shifts, Intact(s \div 2), NEW y \in OfShift(fetched, s)
      PROVE  y \in OfShift(samples, s)
  <2>1. DayOf(y.ts) = s \div 2
    BY <1>8 DEF OfShift, DayOf
  <2> QED BY <1>2, <1>8, <2>1 DEF Intact, OfShift, KpiTypes
<1>9. RowHasSamples'
  <2> SUFFICES ASSUME NEW s \in Shifts, Intact(s \div 2), shiftly'[s] # [sum |-> 0, n |-> 0]
               PROVE  OfShift(samples, s) # {}
    BY <1>1, <1>7 DEF RowHasSamples
  <2>1. CASE OfShift(fetched, s) = {}
    BY <1>1, <2>1 DEF UpsertShift, KpiIInv, RowHasSamples
  <2>2. CASE OfShift(fetched, s) # {}
    BY <1>8, <2>2
  <2> QED BY <2>1, <2>2
<1>10. ClosedDayComplete'
  <2> SUFFICES ASSUME NEW d \in Days, DayOf(fetchedAt) > d, Intact(d), EverOf(d) # {}
               PROVE  daily'[d] = [sum |-> Total(EverOf(d)), n |-> Cardinality(EverOf(d)), prov |-> FALSE]
    BY <1>1, <1>7 DEF ClosedDayComplete, EverOf
  <2>0. d \in Int /\ fetchedAt \in Nat /\ now \in Nat /\ fetchedAt <= now
    BY <1>2 DEF KpiTypes, Days, Shifts
  <2>1. EverOf(d) = OfDay(fetched, d)
    <3>1. ASSUME NEW y \in EverOf(d) PROVE y \in fetched
      <4>1. y \in samples \cup pruned /\ DayOf(y.ts) = d /\ y.ts \in Nat
        BY <1>2 DEF EverOf, OfDay, KpiTypes
      <4>2. y.ts < fetchedAt
        <5>1. fetchedAt <= y.ts => DayOf(fetchedAt) <= DayOf(y.ts)
          BY <2>0, <4>1, DaysGrow
        <5>2. DayOf(fetchedAt) \in Nat
          BY <2>0, ShiftsOfDay
        <5> QED BY <2>0, <4>1, <5>1, <5>2
      <4>3. y \notin pruned
        BY <4>1 DEF Intact
      <4> QED BY <1>1, <4>1, <4>2, <4>3 DEF KpiIInv, ReadAll
    <3> QED BY <1>2, <3>1 DEF EverOf, OfDay, KpiTypes
  <2>2. ~(d >= DayOf(now))
    <3>1. DayOf(fetchedAt) <= DayOf(now) /\ DayOf(fetchedAt) \in Nat /\ DayOf(now) \in Nat
      BY <2>0, DaysGrow, ShiftsOfDay
    <3> QED BY <2>0, <3>1
  <2>3. daily'[d] = UpsertDay(d) /\ OfDay(fetched, d) # {}
    BY <1>1, <2>1
  <2>4. (d >= DayOf(now)) = FALSE
    BY <2>2
  <2> QED BY <2>1, <2>3, <2>4 DEF UpsertDay
<1>11. DaySumsShifts'
  <2> SUFFICES ASSUME NEW d \in Days, Intact(d), {2 * d, 2 * d + 1} \subseteq Shifts
               PROVE  /\ daily'[d].sum = shiftly'[2 * d].sum + shiftly'[2 * d + 1].sum
                      /\ daily'[d].n = shiftly'[2 * d].n + shiftly'[2 * d + 1].n
    BY <1>7 DEF DaySumsShifts
  <2> DEFINE A == OfShift(fetched, 2 * d)
             B == OfShift(fetched, 2 * d + 1)
             D == OfDay(fetched, d)
  <2>0. d \in Int /\ (2 * d) \div 2 = d /\ (2 * d + 1) \div 2 = d
    BY DEF Days, Shifts
  <2>1. D = A \cup B /\ A \cap B = {}
    <3>1. \A y \in fetched : /\ DayOf(y.ts) = d <=> ShiftOf(y.ts) = 2 * d \/ ShiftOf(y.ts) = 2 * d + 1
                             /\ ~(ShiftOf(y.ts) = 2 * d /\ ShiftOf(y.ts) = 2 * d + 1)
      <4>1. \A y \in fetched : y.ts \in Nat
        BY <1>3
      <4> SUFFICES ASSUME NEW t \in Nat
                   PROVE  /\ DayOf(t) = d <=> ShiftOf(t) = 2 * d \/ ShiftOf(t) = 2 * d + 1
                          /\ ~(ShiftOf(t) = 2 * d /\ ShiftOf(t) = 2 * d + 1)
        BY <4>1
      <4>2. DayOf(t) = d <=> ShiftOf(t) = 2 * d \/ ShiftOf(t) = 2 * d + 1
        BY <2>0, ShiftsOfDay
      <4> QED BY <2>0, <4>2
    <3> QED BY <3>1 DEF OfDay, OfShift
  <2>2. /\ Total(D) = Total(A) + Total(B) /\ Cardinality(D) = Cardinality(A) + Cardinality(B)
        /\ Total(A) \in Nat /\ Total(B) \in Nat /\ Cardinality(A) \in Nat /\ Cardinality(B) \in Nat
    BY <1>4, <2>1, TotalParts, TotalNat
  <2>3. Total({}) = 0 /\ Cardinality({}) = 0
    BY FS_EmptySet, TotalNat
  <2>4. \A s \in {2 * d, 2 * d + 1} :
           /\ OfShift(fetched, s) = {} => shiftly[s].sum = 0 /\ shiftly[s].n = 0
           /\ shiftly'[s] = UpsertShift(s)
    BY <1>1, <2>0 DEF KpiIInv, RowHasSamples
  <2>5. /\ shiftly'[2 * d].sum = Total(A) /\ shiftly'[2 * d].n = Cardinality(A)
    BY <2>3, <2>4 DEF UpsertShift
  <2>6. /\ shiftly'[2 * d + 1].sum = Total(B) /\ shiftly'[2 * d + 1].n = Cardinality(B)
    BY <2>3, <2>4 DEF UpsertShift
  <2>7. daily'[d].sum = Total(D) /\ daily'[d].n = Cardinality(D)
    <3>1. CASE D # {}
      BY <1>1, <3>1 DEF UpsertDay
    <3>2. CASE D = {}
      <4>1. A = {} /\ B = {}
        BY <2>1, <3>2
      <4>2. daily'[d] = daily[d]
        BY <1>1, <3>2 DEF UpsertDay
      <4>3. daily[d].sum = shiftly[2 * d].sum + shiftly[2 * d + 1].sum
            /\ daily[d].n = shiftly[2 * d].n + shiftly[2 * d + 1].n
        BY DEF KpiIInv, DaySumsShifts
      <4> HIDE DEF A, B, D
      <4>4. shiftly[2 * d].sum = 0 /\ shiftly[2 * d].n = 0
            /\ shiftly[2 * d + 1].sum = 0 /\ shiftly[2 * d + 1].n = 0
        BY <2>4, <4>1 DEF A, B
      <4> QED BY <2>3, <3>2, <4>2, <4>3, <4>4
    <3> QED BY <3>1, <3>2
  <2> HIDE DEF A, B, D
  <2> QED BY <2>2, <2>5, <2>6, <2>7
<1> QED BY <1>5, <1>6, <1>9, <1>10, <1>11 DEF KpiIInv

LEMMA KpiStepInv == KpiIInv /\ [KpiNext]_<<now, kpiVars>> => KpiIInv'
<1> SUFFICES ASSUME KpiIInv, [KpiNext]_<<now, kpiVars>> PROVE KpiIInv'
  OBVIOUS
<1>1. CASE \/ WaitSkip \/ KpiTick \/ UNCHANGED <<now, kpiVars>>
  <2>1. /\ now' \in Nat /\ now <= now' /\ wtick' \in 0..(PruneEvery - 1) /\ ran' \in 0..now'
        /\ UNCHANGED <<scene, smooth, live, samples, pruned, fetched, fetchedAt, settled,
                       daily, shiftly>>
    <3>1. now \in Nat /\ wtick \in 0..(PruneEvery - 1) /\ ran \in 0..now
      BY DEF KpiIInv, KpiTypes
    <3>2. (wtick + 1) % PruneEvery \in 0..(PruneEvery - 1)
      BY <3>1, KpiConstants
    <3>3. CASE WaitSkip
      BY <3>1, <3>2, <3>3 DEF WaitSkip
    <3>4. CASE KpiTick
      BY <3>1, <3>4 DEF KpiTick, Advance, kpiVars
    <3>5. CASE UNCHANGED <<now, kpiVars>>
      BY <3>1, <3>5 DEF kpiVars
    <3> QED BY <1>1, <3>3, <3>4, <3>5
  <2>2. KpiTypes'
    <3>1. KpiTypes
      BY DEF KpiIInv
    <3>2. now \in Nat /\ now' \in Nat /\ now <= now'
      BY <2>1, <3>1 DEF KpiTypes
    <3>3. 1..now \subseteq 1..now' /\ 0..now \subseteq 0..now'
      BY <3>2
    <3>4. [ts : 1..now, sr : 0..Cardinality(Qcs)] \subseteq [ts : 1..now', sr : 0..Cardinality(Qcs)]
      BY <3>3
    <3> QED BY <2>1, <3>1, <3>3, <3>4 DEF KpiTypes
  <2>3. ReadAll' /\ RowHasSamples' /\ ClosedDayComplete' /\ DaySumsShifts'
    BY <2>1 DEF KpiIInv, ReadAll, RowHasSamples, ClosedDayComplete, DaySumsShifts, Intact, EverOf
  <2> QED BY <2>2, <2>3 DEF KpiIInv
<1> QED BY <1>1, WaitTickStep, FetchStep, UpsertStep DEF KpiNext

\* What the invariant says in the words of the property.
LEMMA KpiTold == KpiIInv => KpiInv
<1> SUFFICES ASSUME KpiIInv PROVE KpiInv
  OBVIOUS
<1>1. KpiTypeOK
  BY DEF KpiIInv, KpiTypes, KpiTypeOK
<1>2. CountsNested
  BY DEF CountsNested, RowGenuine, RowStarving, StarvingReal, StarvingGps, StarvingBoth, Scored, Working
<1> QED BY <1>1, <1>2 DEF KpiInv, KpiIInv

\* For any cranes, samples and lengths of a shift, whatever is sampled or pruned while an
\* aggregation is between its reading and its writing: the row of a closed date whose
\* samples are all there is final and complete, and a date and its two shifts agree.
THEOREM WaitingTrue == KpiSpec => []KpiInv
BY KpiStart, KpiStepInv, KpiTold, PTL DEF KpiSpec
================================================================================
