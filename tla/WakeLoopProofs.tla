---------------------------- MODULE WakeLoopProofs ----------------------------
(***************************************************************************)
(* For every waiting time, age limit and number of landings: the loop does  *)
(* not run hot, and a list is used by a second tick before the freshness    *)
(* gate closes on it, provided the gate leaves room for the fallback wait   *)
(* and two ticks.                                                           *)
(*                                                                          *)
(* NoSpin rests on Settled: after a wake that had an answer the baselines   *)
(* are level with the database, so only a landing or time can wake again.   *)
(* HeartbeatBeforeGate rests on how old the list is at each point of the    *)
(* loop, before the first tick that uses it and before the second.          *)
(***************************************************************************)
EXTENDS WakeLoop, WellFoundedInduction, TLAPS

\* The baselines are level with what a poll would read now.
Settled == /\ seen = wp
           /\ WakeOnFree => \A s \in Sources : \A n \in free_rows[s] :
                                free_seen[s] # None => n <= free_seen[s]

\* What has been consumed since the last wake, and for how long the loop has waited.
Consumed ==
    /\ seen <= wp
    /\ pc = "sleep" => waited < MaxWait
    /\ pc = "body" => waited = 0
    /\ (idle_wakes >= 1 /\ pc = "poll") => waited = 0
    /\ idle_wakes >= 2 \/ (idle_wakes = 1 /\ calm) => Settled
    /\ idle_wakes <= 2

SpinInv == TypeOK /\ NoSpin /\ Consumed

\* The age of the list when the loop comes to its first tick.
Late == IF MaxBody = 0 THEN 1 ELSE MaxBody

\* The age of the list at each point of the loop while it has been used by no
\* tick, and by one.
Aging ==
    calm =>
      /\ connected
      /\ runs < 2 => wp # None
      /\ runs = 0 =>
           /\ pc = "body" => wp_age <= body /\ seen < wp
           /\ pc = "poll" => wp_age <= Late /\ seen < wp
           /\ pc = "sleep" => wp_age = 0 /\ seen < wp
           /\ pc = "gate" => wp_age <= Late /\ (fresh \/ seen < wp)
      /\ runs = 1 =>
           /\ pc = "body" => wp_age <= Late + body
           /\ pc \in {"poll", "sleep"} => wp_age <= Late + MaxBody + waited
           /\ pc = "gate" => wp_age <= MaxAge /\ fresh

WakeIInv == SpinInv /\ Aging

--------------------------------------------------------------------------------
\* The newest record of a window is one of its records and none is newer.
LEMMA NewestRecord ==
    ASSUME NEW rows \in SUBSET (1 .. MaxFrees), rows # {}
    PROVE  Newest(rows) \in rows /\ \A n \in rows : n <= Newest(rows)
<1> USE WakeAssumption
<1> DEFINE below == {MaxFrees - n : n \in rows}
           R == OpToRel(<, Nat)
<1>0. MaxFrees \in Nat /\ \A n \in rows : n \in Nat /\ MaxFrees - n \in Nat
  OBVIOUS
<1>1. below \subseteq Nat /\ below # {}
  BY <1>0
<1>2. IsWellFoundedOn(R, Nat)
  BY NatLessThanWellFounded
<1>3. PICK x \in below : \A y \in below : ~(<<y, x>> \in R)
  <2> HIDE DEF below, R
  <2> QED
    BY <1>1, <1>2, WFMin
<1>4. \A y \in below : ~(y < x)
  BY <1>1, <1>3 DEF OpToRel
<1>5. PICK m \in rows : x = MaxFrees - m
  OBVIOUS
<1>6. \A n \in rows : m >= n
  <2>1. SUFFICES ASSUME NEW n \in rows PROVE m >= n
    OBVIOUS
  <2>2. MaxFrees - n \in below
    OBVIOUS
  <2>3. ~(MaxFrees - n < MaxFrees - m)
    BY <1>4, <1>5, <2>2
  <2> QED
    <3>1. n \in Int /\ m \in Int /\ MaxFrees \in Int
      BY <1>0, <1>5
    <3> QED
      BY <2>3, <3>1
<1>7. Max(rows) \in rows /\ \A n \in rows : Max(rows) >= n
  <2> HIDE DEF below, R
  <2> QED
    BY <1>6 DEF Max
<1> QED
  BY <1>7 DEF Newest

\* One turn of the poll: why it wakes, and what the wake consumes.
LEMMA PollEffect ==
    ASSUME SpinInv, NEW ok \in BOOLEAN, Poll(ok)
    PROVE  /\ pc = "poll" /\ UNCHANGED <<env, waited, body, runs>>
           /\ pc' \in {"gate", "sleep"} /\ fresh' \in BOOLEAN /\ calm' = (calm /\ ok)
           /\ seen' \in {seen, wp} /\ free_seen' \in [Sources -> 0 .. MaxFrees]
           /\ pc' = "sleep" => waited < MaxWait /\ idle_wakes' = idle_wakes
           /\ pc' = "gate" => idle_wakes' = idle_wakes + 1 /\ (waited >= MaxWait \/ (ok /\ ~Settled))
           /\ pc' = "gate" /\ ok => Settled' /\ fresh' = (wp # None /\ wp_age <= MaxAge)
           /\ Settled => Settled'
           /\ ok /\ seen < wp => pc' = "gate"
<1> USE WakeAssumption DEF SpinInv, Consumed, None
<1> DEFINE landed == IF ok THEN wp ELSE None
           free_landed == [s \in Sources |-> IF ok THEN Newest(free_rows[s]) ELSE None]
           free_new == /\ WakeOnFree
                       /\ \E s \in Sources : free_advanced(free_seen[s], free_landed[s])
           step == combine_wake(should_wake(seen, landed, waited), free_new)
           woke == step # "keep_waiting"
<1>1. /\ pc = "poll"
      /\ seen' = IF woke /\ landed # None THEN landed ELSE seen
      /\ free_seen' = advance_free_seen(free_landed, woke)
      /\ fresh' = (woke /\ landed # None /\ wp_age <= MaxAge)
      /\ pc' = IF woke THEN "gate" ELSE "sleep"
      /\ idle_wakes' = IF woke THEN UpTo(idle_wakes + 1, 3) ELSE idle_wakes
      /\ calm' = (calm /\ ok)
      /\ UNCHANGED <<env, waited, body, runs>>
  BY DEF Poll
<1>2. woke <=> (waited >= MaxWait \/ (landed # None /\ (seen = None \/ landed > seen)) \/ free_new)
  <2>1. should_wake(seen, landed, waited) \in {"startup", "landing", "fallback", "keep_waiting"}
    BY DEF should_wake
  <2>2. (should_wake(seen, landed, waited) = "keep_waiting")
          <=> ~(waited >= MaxWait \/ (landed # None /\ (seen = None \/ landed > seen)))
    BY DEF should_wake, TypeOK
  <2> QED
    BY <2>1, <2>2 DEF combine_wake
<1>3. \A s \in Sources : free_landed[s] \in 0 .. MaxFrees
  BY NewestRecord DEF TypeOK, Newest
<1>4. \A s \in Sources : \A n \in free_rows[s] : ok => n <= free_landed[s] /\ free_landed[s] # None
  <2>1. SUFFICES ASSUME NEW s \in Sources, NEW n \in free_rows[s], ok
                 PROVE  n <= free_landed[s] /\ free_landed[s] # None
    OBVIOUS
  <2>2. free_rows[s] \in SUBSET (1 .. MaxFrees) /\ free_rows[s] # {}
    BY DEF TypeOK
  <2> QED
    BY <2>1, <2>2, NewestRecord
<1>5. Settled => ~free_new /\ ~(landed # None /\ (seen = None \/ landed > seen))
  <2>1. SUFFICES ASSUME Settled, WakeOnFree, NEW s \in Sources, free_seen[s] # None,
                        free_landed[s] > free_seen[s]
                 PROVE  FALSE
    BY DEF Settled, free_advanced, TypeOK
  <2>2. ok /\ free_rows[s] # {}
    BY <1>3, <2>1 DEF Newest, TypeOK
  <2>3. Newest(free_rows[s]) \in free_rows[s]
    BY <2>2, NewestRecord DEF TypeOK
  <2>4. free_landed[s] \in free_rows[s]
    BY <2>2, <2>3
  <2> QED
    BY <2>1, <2>4 DEF Settled, TypeOK
<1> HIDE DEF free_landed, free_new, step, woke
<1>6. \A s \in Sources : free_seen'[s] = IF free_landed[s] # None /\ (woke \/ free_seen[s] = None)
                                           THEN free_landed[s] ELSE free_seen[s]
  BY <1>1 DEF advance_free_seen
<1>7. free_seen' \in [Sources -> 0 .. MaxFrees]
  BY <1>1, <1>3 DEF advance_free_seen, TypeOK
<1>8. woke /\ ok => seen' = wp
  BY <1>1, <1>2 DEF TypeOK
<1>9. woke /\ ok => \A s \in Sources : \A n \in free_rows'[s] : n <= free_seen'[s]
  BY <1>1, <1>4, <1>6 DEF env
<1>10. Settled => Settled'
  <2>1. SUFFICES ASSUME Settled PROVE Settled'
    OBVIOUS
  <2>2. seen' = wp'
    BY <1>1, <1>5, <2>1 DEF Settled, TypeOK, env
  <2>3. ASSUME WakeOnFree, NEW s \in Sources, NEW n \in free_rows[s], free_seen'[s] # None
        PROVE  n <= free_seen'[s]
    <3>1. CASE ok
      <4>1. CASE woke
        BY <1>4, <1>6, <3>1, <4>1, <2>3
      <4>2. CASE ~woke
        BY <1>4, <1>6, <3>1, <4>2, <2>1, <2>3 DEF Settled
      <4> QED
        BY <4>1, <4>2
    <3>2. CASE ~ok
      <4>1. free_landed[s] = None
        BY <3>2 DEF free_landed
      <4> QED
        BY <1>6, <2>1, <2>3, <4>1 DEF Settled
    <3> QED
      BY <3>1, <3>2
  <2> QED
    BY <1>1, <2>2, <2>3 DEF Settled, env
<1>11. pc' = "gate" => idle_wakes' = idle_wakes + 1
  BY <1>1 DEF UpTo, TypeOK
<1>12. ok /\ seen < wp => woke
  BY <1>2 DEF TypeOK
<1>13. (waited >= MaxWait \/ ~(waited >= MaxWait)) /\ (~(waited >= MaxWait) => waited < MaxWait)
  BY DEF TypeOK
<1>14. woke => waited >= MaxWait \/ (ok /\ ~Settled)
  <2>1. ~ok => ~free_new
    BY DEF free_new, free_advanced, free_landed, TypeOK
  <2> QED
    BY <1>2, <1>5, <2>1
<1>15. woke /\ ok => Settled'
  BY <1>1, <1>8, <1>9 DEF Settled, env
<1> QED
  BY <1>1, <1>2, <1>7, <1>8, <1>10, <1>11, <1>12, <1>13, <1>14, <1>15

--------------------------------------------------------------------------------
(* No hot loop. *)

LEMMA SpinStart ==
    ASSUME Init
    PROVE  SpinInv
<1> USE WakeAssumption DEF Init, None
<1>1. TypeOK
  <2>1. wp \in 0 .. MaxLists /\ wp_age \in 0 .. MaxAge + 1 /\ seen \in 0 .. MaxLists
        /\ waited \in 0 .. MaxWait /\ body \in 0 .. MaxBody
    OBVIOUS
  <2>2. 0 \in 0 .. MaxFrees /\ {} \in SUBSET (1 .. MaxFrees)
    OBVIOUS
  <2>3. free_n \in [Sources -> 0 .. MaxFrees] /\ free_seen \in [Sources -> 0 .. MaxFrees]
        /\ free_rows \in [Sources -> SUBSET (1 .. MaxFrees)]
    BY <2>2
  <2>4. connected \in BOOLEAN /\ fresh \in BOOLEAN /\ calm \in BOOLEAN
    OBVIOUS
  <2>5. idle_wakes \in 0 .. 3 /\ runs \in 0 .. 2 /\ pc \in {"poll", "sleep", "gate", "body"}
    OBVIOUS
  <2> QED
    BY <2>1, <2>3, <2>4, <2>5 DEF TypeOK
<1>2. NoSpin /\ Consumed
  BY DEF NoSpin, Consumed
<1> QED
  BY <1>1, <1>2 DEF SpinInv

\* A landing or the passing of time makes the next wake legitimate.
LEMMA SpinEnvironment ==
    ASSUME SpinInv, \/ LandWorkpool \/ GpsFeed \/ Pass \/ UNCHANGED vars
                    \/ \E s \in Sources : LandFree(s) \/ AgeOut(s)
    PROVE  SpinInv'
<1> USE WakeAssumption DEF SpinInv, Consumed
<1>1. CASE LandWorkpool
  BY <1>1 DEF LandWorkpool, TypeOK, NoSpin
<1>2. CASE GpsFeed
  BY <1>2 DEF GpsFeed, TypeOK, NoSpin, Settled
<1>3. CASE Pass
  <2> USE <1>3 DEF Pass
  <2>1. TypeOK'
    BY DEF TypeOK, UpTo
  <2> QED
    BY <2>1 DEF NoSpin, TypeOK
<1>4. ASSUME NEW s \in Sources, LandFree(s)
      PROVE  SpinInv'
  <2> USE <1>4 DEF LandFree
  <2>1. free_n["LD"] \in 0 .. MaxFrees /\ free_n["DS"] \in 0 .. MaxFrees /\ s \in {"LD", "DS"}
    BY DEF TypeOK, Sources
  <2>2. free_n[s] + 1 \in 1 .. MaxFrees
    BY <2>1
  <2>3. TypeOK'
    BY <2>2 DEF TypeOK
  <2> QED
    BY <2>3 DEF NoSpin
<1>5. ASSUME NEW s \in Sources, AgeOut(s)
      PROVE  SpinInv'
  <2> USE <1>5 DEF AgeOut
  <2>1. PICK n \in free_rows[s] : free_rows' = [free_rows EXCEPT ![s] = @ \ {n}]
    OBVIOUS
  <2>2. \A o \in Sources : free_rows'[o] \subseteq free_rows[o]
    BY <2>1 DEF TypeOK
  <2>3. TypeOK'
    BY <2>1 DEF TypeOK
  <2>4. Settled => Settled'
    BY <2>2 DEF Settled
  <2> QED
    BY <2>3, <2>4 DEF NoSpin
<1>6. CASE UNCHANGED vars
  BY <1>6 DEF vars, env, TypeOK, NoSpin, Settled
<1> QED
  BY <1>1, <1>2, <1>3, <1>4, <1>5, <1>6

LEMMA SpinLoop ==
    ASSUME SpinInv, PollOk \/ PollFails \/ Gate \/ EndBody
    PROVE  SpinInv'
<1> USE WakeAssumption DEF SpinInv, Consumed
<1>1. ASSUME NEW ok \in BOOLEAN, Poll(ok)
      PROVE  SpinInv'
  <2>1. UNCHANGED <<wp, wp_age, free_n, free_rows, connected, waited, body, runs>>
    BY <1>1, PollEffect DEF env
  <2>2. pc' = "gate" => idle_wakes + 1 <= 2
    BY <1>1, PollEffect DEF TypeOK
  <2>3. TypeOK'
    BY <1>1, <2>1, <2>2, PollEffect DEF TypeOK
  <2>4. seen' <= wp'
    BY <1>1, <2>1, PollEffect DEF TypeOK
  <2>5. CASE pc' = "sleep"
    BY <1>1, <2>1, <2>3, <2>4, <2>5, PollEffect DEF NoSpin
  <2>6. CASE pc' = "gate"
    <3>1. idle_wakes' = idle_wakes + 1 /\ (calm' => calm /\ ok)
      BY <1>1, <2>6, PollEffect
    <3>2. idle_wakes = 1 => ok /\ ~calm /\ Settled'
      BY <1>1, <2>6, PollEffect
    <3>3. idle_wakes = 0 /\ ok => Settled'
      BY <1>1, <2>6, PollEffect
    <3>4. idle_wakes \in {0, 1}
      BY <2>2, <2>6 DEF TypeOK
    <3>5. NoSpin' /\ idle_wakes' <= 2
      <4>1. CASE idle_wakes = 0
        BY <3>1, <4>1 DEF NoSpin
      <4>2. CASE idle_wakes = 1
        <5>1. ~calm' /\ idle_wakes' = 2
          BY <3>1, <3>2, <4>2
        <5> QED
          BY <5>1 DEF NoSpin
      <4> QED
        BY <3>4, <4>1, <4>2
    <3>6. idle_wakes' >= 2 \/ (idle_wakes' = 1 /\ calm') => Settled'
      BY <3>1, <3>2, <3>3, <3>4
    <3> QED
      BY <2>3, <2>4, <2>6, <3>5, <3>6
  <2> QED
    BY <1>1, <2>5, <2>6, PollEffect
<1>2. CASE Gate
  <2> USE <1>2 DEF Gate, env
  <2>1. TypeOK'
    BY DEF TypeOK, UpTo
  <2> QED
    BY <2>1 DEF NoSpin, Settled
<1>3. CASE EndBody
  BY <1>3 DEF EndBody, env, TypeOK, NoSpin, Settled
<1> QED
  BY <1>1, <1>2, <1>3 DEF PollOk, PollFails

--------------------------------------------------------------------------------
(* The second tick on a list. *)

\* The freshness gate leaves room for a tick that runs when the list lands, for
\* the tick that uses it, and for the fallback wait to the next.
GateLeavesRoom == Late + MaxBody + MaxWait <= MaxAge

LEMMA AgingStart ==
    ASSUME Init
    PROVE  Aging
  BY DEF Init, Aging

LEMMA AgingEnvironment ==
    ASSUME WakeIInv, \/ LandWorkpool \/ GpsFeed \/ Pass \/ UNCHANGED vars
                     \/ \E s \in Sources : LandFree(s) \/ AgeOut(s)
    PROVE  Aging'
<1> USE WakeAssumption DEF WakeIInv, SpinInv
<1>0. Late \in Nat /\ Late >= 1 /\ Late >= MaxBody
  BY DEF Late
<1>1. CASE LandWorkpool
  BY <1>0, <1>1 DEF LandWorkpool, Aging, Consumed, TypeOK, None
<1>2. CASE GpsFeed
  BY <1>2 DEF GpsFeed, Aging
<1>3. CASE Pass
  <2> USE <1>3 DEF Pass
  <2>1. wp_age' <= wp_age + 1 /\ wp_age' \in Nat
    BY DEF UpTo, TypeOK
  <2>2. CASE pc = "sleep"
    <3>1. waited' = waited + 1
      BY <2>2 DEF UpTo, TypeOK, Consumed
    <3> QED
      BY <1>0, <2>1, <2>2, <3>1 DEF Aging, TypeOK
  <2>3. CASE pc = "body"
    BY <1>0, <2>1, <2>3 DEF Aging, TypeOK
  <2> QED
    BY <2>2, <2>3
<1>4. CASE \E s \in Sources : LandFree(s) \/ AgeOut(s)
  <2>1. PICK s \in Sources : LandFree(s) \/ AgeOut(s)
    BY <1>4
  <2>2. UNCHANGED <<wp, wp_age, connected, seen, waited, pc, fresh, body, runs, calm>>
    BY <2>1 DEF LandFree, AgeOut
  <2> QED
    BY <2>2 DEF Aging
<1>5. CASE UNCHANGED vars
  BY <1>5 DEF vars, env, Aging
<1> QED
  BY <1>1, <1>2, <1>3, <1>4, <1>5

LEMMA AgingLoop ==
    ASSUME GateLeavesRoom, WakeIInv, PollOk \/ PollFails \/ Gate \/ EndBody
    PROVE  Aging'
<1> USE WakeAssumption DEF WakeIInv, SpinInv
<1>0. Late \in Nat /\ Late >= 1 /\ Late >= MaxBody /\ Late + MaxBody + MaxWait <= MaxAge
  BY DEF Late, GateLeavesRoom
<1>1. CASE PollFails
  <2>1. calm' = FALSE
    BY <1>1, PollEffect DEF PollFails
  <2> QED
    BY <2>1 DEF Aging
<1>2. CASE PollOk
  <2>1. SUFFICES ASSUME calm PROVE Aging'
    BY <1>2, PollEffect DEF PollOk, Aging
  <2>2. /\ pc = "poll" /\ UNCHANGED <<wp, wp_age, connected, waited, body, runs>>
        /\ pc' \in {"gate", "sleep"} /\ seen' \in {seen, wp}
        /\ pc' = "sleep" => waited < MaxWait
        /\ pc' = "gate" /\ wp # None /\ wp_age <= MaxAge => fresh'
        /\ seen < wp => pc' = "gate"
    BY <1>2, PollEffect DEF PollOk, env
  <2>3. connected /\ (runs < 2 => wp # None)
    BY <2>1 DEF Aging
  <2>4. ASSUME runs = 0
        PROVE  pc' = "gate" /\ wp_age <= Late /\ fresh'
    <3>1. wp_age <= Late /\ seen < wp
      BY <2>1, <2>2, <2>4 DEF Aging
    <3>2. wp_age <= MaxAge
      BY <1>0, <3>1 DEF TypeOK
    <3> QED
      BY <2>2, <2>3, <2>4, <3>1, <3>2
  <2>5. ASSUME runs = 1
        PROVE  /\ pc' = "sleep" => wp_age <= Late + MaxBody + waited
               /\ pc' = "gate" => wp_age <= MaxAge /\ fresh'
    <3>1. wp_age <= Late + MaxBody + waited
      BY <2>1, <2>2, <2>5 DEF Aging
    <3>2. wp_age <= MaxAge
      BY <1>0, <3>1 DEF TypeOK
    <3> QED
      BY <2>2, <2>3, <2>5, <3>1, <3>2
  <2> QED
    BY <2>2, <2>3, <2>4, <2>5 DEF Aging
<1>3. CASE Gate
  <2>1. SUFFICES ASSUME calm PROVE Aging'
    BY <1>3 DEF Gate, Aging
  <2>2. connected /\ (runs < 2 => wp # None)
    BY <2>1 DEF Aging
  <2>3. CASE fresh
    BY <1>0, <1>3, <2>1, <2>2, <2>3 DEF Gate, Aging, env, UpTo, TypeOK
  <2>4. CASE ~fresh
    BY <1>0, <1>3, <2>1, <2>2, <2>4 DEF Gate, Aging, env, UpTo, TypeOK
  <2> QED
    BY <2>3, <2>4
<1>4. CASE EndBody
  BY <1>0, <1>4 DEF EndBody, Aging, env, TypeOK
<1> QED
  BY <1>1, <1>2, <1>3, <1>4

--------------------------------------------------------------------------------

\* Every variable has its type, and until something lands or time passes the loop
\* wakes at most once, or twice when a wake had no answer of the database.
THEOREM WakeNoSpin == Spec => []WakeInv
<1>1. Init => SpinInv
  BY SpinStart
<1>2. SpinInv /\ [Next]_vars => SpinInv'
  BY SpinEnvironment, SpinLoop DEF Next
<1>3. SpinInv => WakeInv
  BY DEF SpinInv, WakeInv
<1> QED
  BY <1>1, <1>2, <1>3, PTL DEF Spec

\* When the extraction dies, the last list is used by a second tick before the
\* freshness gate closes on it (WAKE_MAX_WAIT_MS against WORKPOOL_MAX_AGE_S).
THEOREM WakeHeartbeat ==
    ASSUME GateLeavesRoom
    PROVE  Spec => []HeartbeatBeforeGate
<1>1. Init => WakeIInv
  BY SpinStart, AgingStart DEF WakeIInv
<1>2. WakeIInv /\ [Next]_vars => WakeIInv'
  <2>1. SUFFICES ASSUME WakeIInv, [Next]_vars PROVE WakeIInv'
    OBVIOUS
  <2>2. SpinInv'
    BY <2>1, SpinEnvironment, SpinLoop DEF Next, WakeIInv
  <2>3. Aging'
    BY <2>1, AgingEnvironment, AgingLoop DEF Next
  <2> QED
    BY <2>2, <2>3 DEF WakeIInv
<1>3. WakeIInv => HeartbeatBeforeGate
  <2>1. SUFFICES ASSUME WakeIInv, calm, runs # 2 PROVE ~(wp_age > MaxAge)
    BY DEF HeartbeatBeforeGate
  <2>2. runs \in {0, 1}
    BY <2>1 DEF WakeIInv, SpinInv, TypeOK
  <2>3. Late \in Nat /\ Late >= 1 /\ Late >= MaxBody /\ Late + MaxBody + MaxWait <= MaxAge
    BY WakeAssumption DEF Late, GateLeavesRoom
  <2> QED
    BY <2>1, <2>2, <2>3, WakeAssumption DEF WakeIInv, SpinInv, Consumed, Aging, TypeOK
<1> QED
  BY <1>1, <1>2, <1>3, PTL DEF Spec
================================================================================
