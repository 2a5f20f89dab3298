------------------------------- MODULE TosSig -------------------------------
(***************************************************************************)
(* What the dispatcher concludes about one truck from the TOS records that *)
(* have landed in PostgreSQL (crates/api/src/livemap.rs, TosSig and the    *)
(* predicates on it).  A time is an integer; Option::None is NoTime = -1,  *)
(* which is below every time, so the code's is_some_and comparisons become *)
(* plain ones.                                                             *)
(***************************************************************************)
EXTENDS Integers

NoTime == -1

\* An optional time not later than `now`.
OptUpTo(now) == (0 .. now) \cup {NoTime}

\* The fields of TosSig that decide membership of the pool and the release of
\* a hold: last free record, last dispatch time on the work list, last time
\* on the list of dispatched trucks, last pickup, start of the open
\* "available" interval.
TosSigs(Times) ==
    [free : Times, dis : Times, listed_at : Times, picked : Times, avail_since : Times]

\* A truck the signal query returned no row for.
NoSig == [free |-> NoTime, dis |-> NoTime, listed_at |-> NoTime,
          picked |-> NoTime, avail_since |-> NoTime]

dispatched_since_free(s, f) ==
    \/ s.dis > f
    \/ /\ s.listed_at >= f
       /\ ~ (s.avail_since > s.listed_at)

\* A pickup that the last free record does not follow.
loaded(s) == s.picked > s.free

is_free_tos(s) ==
    /\ s.free # NoTime
    /\ ~ (s.picked > s.free)
    /\ ~ dispatched_since_free(s, s.free)

truck_busy_after(s, kind, sent) ==
    \/ loaded(s)
    \/ s.picked > sent
    \/ /\ kind = "assign"
       /\ \/ s.free # NoTime /\ dispatched_since_free(s, s.free)
          \/ s.dis > sent
          \/ s.listed_at > sent

\* A truck may swap once between two frees: the last recorded swap is not
\* followed by a free record.
swap_is_frozen(last_swap, last_free) == last_swap > last_free
=============================================================================
