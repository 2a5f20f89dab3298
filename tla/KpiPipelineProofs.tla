-------------------------- MODULE KpiPipelineProofs --------------------------
(***************************************************************************)
(* For every number and length of shifts, every lateness of the mirrors and *)
(* every number of commands and failures: the shift tables agree and count  *)
(* no move twice, a final value stays, a day's value only grows, and the    *)
(* baseline compares what the day shows.                                    *)
(*                                                                          *)
(* None of these is inductive.  What the tables hold depends on where every *)
(* command stands in its program (Chained: which step comes before which)   *)
(* and on what it has read (Reading); a shift's row is of that shift and    *)
(* not newer than the tick that wrote it (OfItsShift), so that the next     *)
(* reading contains it; and while the nightly run works on an undisturbed   *)
(* day nothing else does (NightAlone), so that what it extracts contains    *)
(* what the shifts had rolled up (NightReading).                            *)
(***************************************************************************)
EXTENDS KpiPipeline, SequenceTheorems, WellFoundedInduction, TLAPS

ShiftTimers == {"t1", "t2"}
ShiftSteps == {"fetch", "shift", "history", "vessel", "rollup"}
DaySteps == {"extract", "upsert", "final", "provisional", "baseline"}
Steps == [op : ShiftSteps \cup DaySteps, k : Kpis \cup {"all"}]
Job == [todo : Seq(Steps), day : Days, sh : Shifts, end : Nat, read : SUBSET Nat,
        src : {"local", "oracle"}]
Daily == [moves : SUBSET Nat, mark : {"none", "provisional", "final"}]
Compared == [today : SUBSET Nat, days : SUBSET Days, on : BOOLEAN]

PipeTypes ==
    /\ now \in 0..PipeEnd /\ now > 0
    /\ landed \in [Kpis -> SUBSET (0..now)]
    /\ kpi_shift \in [Days -> [Shifts -> [Kpis -> SUBSET Nat]]]
    /\ kpi_shift_history \in [Days -> [Shifts -> [Kpis -> SUBSET Nat]]]
    /\ vessel_shift \in [Days -> [Shifts -> SUBSET Nat]]
    /\ raw \in [Days -> [RawKpis -> SUBSET Nat]]
    /\ kpi_daily \in [Days -> [Kpis -> Daily]]
    /\ kpi_baseline \in [Days -> [Kpis -> Compared]]
    /\ cmds \in [Commands -> Job]
    /\ night \in Nat /\ mixed \subseteq Days /\ manual \in Nat /\ pipeFaults \in Nat

\* The timer that writes the rows of a KPI.
TimerOf(k) == IF k = "empty" THEN "t2" ELSE "t1"

\* The step that is always just before a step.
Precursor == [shift |-> "fetch", history |-> "shift", vessel |-> "history", upsert |-> "extract"]

\* What is left of a program, wherever it began: each step after its precursor, no
\* second look at a KPI that was written, nothing extracted after the roll-up of
\* the day, and the baseline last.
Chained(todo) ==
    /\ \A x, y \in 1..Len(todo) :
        y = x + 1 /\ todo[y].op \in DOMAIN Precursor =>
            todo[x] = Step(Precursor[todo[y].op], todo[y].k)
    /\ \A x, y \in 1..Len(todo) :
        x < y => /\ todo[x].op = "shift" /\ todo[y].op = "fetch" => todo[x].k # todo[y].k
                 /\ todo[x].op = "final" => todo[y].op = "baseline"

\* The steps a command may have, and their KPIs.
StepOf(c, s) ==
    /\ c \in ShiftTimers => /\ s.op \in ShiftSteps
                            /\ s.op # "rollup" => s.k \in Kpis /\ TimerOf(s.k) = c
                            /\ s.op = "vessel" => s.k = "mph"
    /\ c \notin ShiftTimers => /\ s.op \in DaySteps
                               /\ s.op \in {"extract", "upsert"} => s.k \in RawKpis
                               /\ s.op = "provisional" => c = "manual"

Programs ==
    \A c \in Commands :
        LET todo == cmds[c].todo
        IN  /\ Chained(todo)
            /\ \A x \in 1..Len(todo) : StepOf(c, todo[x])
            /\ c = "nightly" /\ todo # << >> => todo[Len(todo)].op = "baseline"

\* A tick is of the shift it began in; nothing is of the future.
Windows ==
    \A c \in ShiftTimers :
        /\ cmds[c].end <= now
        /\ Busy(c) => date(cmds[c].end) = cmds[c].day /\ current(cmds[c].end) = cmds[c].sh

\* A row of a shift is about its moves, as they had landed when it was written.
OfItsShift ==
    \A d \in Days, s \in Shifts, k \in Kpis :
        LET tick == cmds[TimerOf(k)]
        IN  \A t \in kpi_shift[d][s][k] :
                /\ date(t) = d /\ current(t) = s /\ t \in landed[k]
                /\ t <= tick.end
                /\ t = tick.end => ~\E x \in 1..Len(tick.todo) : tick.todo[x] = Step("fetch", k)

\* What a command has read, at the step that writes it.
HasRead(c) ==
    LET j == cmds[c]
        k == KpiOf(c)
    IN  /\ \A op \in DOMAIN Precursor : At(c, op) => j.read \subseteq render_day(k, j.day)
        /\ \A op \in {"shift", "history", "vessel"} :
                At(c, op) => \A t \in j.read : current(t) = j.sh /\ t <= j.end
        /\ At(c, "shift") => kpi_shift[j.day][j.sh][k] \subseteq j.read
        /\ At(c, "history") \/ At(c, "vessel") => kpi_shift[j.day][j.sh][k] = j.read

Reading == \A c \in Commands : HasRead(c)

\* The rows of a day are about moves of that day that have landed.
OfItsDay ==
    \A d \in Days, k \in Kpis :
        /\ kpi_daily[d][k].moves \subseteq render_day(k, d)
        /\ k \in RawKpis => raw[d][k] \subseteq render_day(k, d)

\* Without a command of the operator a value that is not final is the roll-up's.
RolledUp ==
    \A d \in Days \ mixed, k \in Kpis :
        kpi_daily[d][k].mark # "final" =>
            kpi_daily[d][k].moves \subseteq (IF k \in RawKpis THEN ShiftMoves(d, k) ELSE {})

\* The operator's days are mixed; the day of the nightly run is over, and nothing
\* else works on it unless it is mixed.
NightAlone ==
    /\ Busy("manual") => cmds["manual"].day \in mixed
    /\ Busy("nightly") =>
        /\ cmds["nightly"].day < date(now)
        /\ cmds["nightly"].day \notin mixed =>
             \A c \in ShiftTimers : Busy(c) => cmds[c].day # cmds["nightly"].day

Pending(k) == \E x \in 1..Len(cmds["nightly"].todo) : cmds["nightly"].todo[x] = Step("upsert", k)

\* On an undisturbed day the nightly run extracts no less than the day shows.
NightReading ==
    LET d == cmds["nightly"].day
    IN  Busy("nightly") /\ d \notin mixed =>
            \A k \in RawKpis :
                /\ Pending(k) \/ kpi_daily[d][k].moves \subseteq raw[d][k]
                /\ At("nightly", "upsert") /\ KpiOf("nightly") = k =>
                     kpi_daily[d][k].moves \subseteq cmds["nightly"].read

\* A final value of an undisturbed day has its baseline, or will have.
Baselines ==
    \A d \in Days \ mixed, k \in Kpis :
        kpi_daily[d][k].mark = "final" =>
            \/ Busy("nightly") /\ cmds["nightly"].day = d
            \/ /\ kpi_baseline[d][k].on
               /\ kpi_baseline[d][k].today = kpi_daily[d][k].moves
               /\ d \notin kpi_baseline[d][k].days

PipeIInv ==
    /\ PipeTypes /\ Programs /\ Windows /\ OfItsShift /\ Reading /\ OfItsDay
    /\ RolledUp /\ NightAlone /\ NightReading /\ Baselines /\ PanelMatches

--------------------------------------------------------------------------------
(* Shifts and days. *)

\* What a quotient and a remainder are.
LEMMA DivMod ==
    ASSUME NEW t \in Nat, NEW b \in Nat \ {0}
    PROVE  /\ t \div b \in Nat /\ t % b \in Nat /\ t % b < b
           /\ t = b * (t \div b) + (t % b)
OBVIOUS

LEMMA Quotient ==
    ASSUME NEW b \in Nat \ {0}, NEW q \in Nat, NEW r \in Nat, r < b
    PROVE  (b * q + r) \div b = q /\ (b * q + r) % b = r
OBVIOUS

LEMMA Ordered ==
    ASSUME NEW b \in Nat, NEW x \in Nat, NEW y \in Nat
    PROVE  /\ b * x \in Nat /\ b * (x + 1) = b * x + b
           /\ x < y => b * (x + 1) <= b * y
<1>1. b * x \in Nat /\ b * (x + 1) = b * x + b
  OBVIOUS
<1>2. ASSUME x < y PROVE b * (x + 1) <= b * y
  <2>1. y - (x + 1) \in Nat /\ b * (y - (x + 1)) \in Nat
    BY <1>2
  <2>2. b * y = b * (x + 1) + b * (y - (x + 1))
    OBVIOUS
  <2> QED
    BY <2>1, <2>2
<1> QED
  BY <1>1, <1>2

\* Every instant has its day and its shift, and days follow one another.
LEMMA Calendar ==
    /\ DayLen \in Nat \ {0} /\ DayLen = ShiftLen * NShifts
    /\ \A t \in Nat : date(t) \in Nat /\ current(t) \in Shifts
    /\ \A t1, t2 \in Nat : t1 <= t2 => date(t1) <= date(t2)
<1> USE PipeAssumption
<1>1. DayLen \in Nat \ {0} /\ DayLen = ShiftLen * NShifts
  <2>1. ShiftLen * NShifts = NShifts * ShiftLen
    OBVIOUS
  <2>2. NShifts - 1 \in Nat /\ ShiftLen * ((NShifts - 1) + 1) = ShiftLen * (NShifts - 1) + ShiftLen
    OBVIOUS
  <2>3. ShiftLen * (NShifts - 1) \in Nat
    BY <2>2
  <2> QED
    BY <2>1, <2>2, <2>3 DEF DayLen
<1>2. ASSUME NEW t \in Nat PROVE date(t) \in Nat /\ current(t) \in Shifts
  <2> DEFINE r == t % DayLen
             x == r \div ShiftLen
  <2>1. date(t) \in Nat /\ r \in Nat /\ r < DayLen
    BY <1>1, DivMod DEF date
  <2>2. x \in Nat /\ r % ShiftLen \in Nat /\ r = ShiftLen * x + (r % ShiftLen)
    BY <2>1, DivMod
  <2>3. x < NShifts
    <3>1. SUFFICES ASSUME NShifts < x \/ NShifts = x PROVE FALSE
      BY <2>2
    <3>2. ShiftLen * NShifts <= ShiftLen * x
      <4>1. NShifts < x => ShiftLen * (NShifts + 1) <= ShiftLen * x
        BY <2>2, Ordered
      <4>2. ShiftLen * (NShifts + 1) = ShiftLen * NShifts + ShiftLen /\ ShiftLen * NShifts \in Nat
        BY Ordered
      <4>3. ShiftLen * x \in Nat
        BY <2>2, Ordered
      <4> QED
        BY <3>1, <4>1, <4>2, <4>3
    <3>3. ShiftLen * x \in Nat
      BY <2>2, Ordered
    <3> HIDE DEF x, r
    <3> QED
      BY <1>1, <2>1, <2>2, <3>2, <3>3
  <2> QED
    BY <2>1, <2>2, <2>3 DEF current, Shifts
<1>3. ASSUME NEW t1 \in Nat, NEW t2 \in Nat, t1 <= t2 PROVE date(t1) <= date(t2)
  <2>1. SUFFICES ASSUME date(t2) < date(t1) PROVE FALSE
    BY <1>2, <1>3
  <2> DEFINE q1 == date(t1)
             q2 == date(t2)
             r1 == t1 % DayLen
             r2 == t2 % DayLen
  <2>2. /\ q1 \in Nat /\ r1 \in Nat /\ t1 = DayLen * q1 + r1
        /\ q2 \in Nat /\ r2 \in Nat /\ t2 = DayLen * q2 + r2 /\ r2 < DayLen
    BY <1>1, DivMod DEF date
  <2>3. q2 < q1 /\ t1 <= t2
    BY <1>3, <2>1
  <2> HIDE DEF q1, q2, r1, r2
  <2>4. DayLen * (q2 + 1) <= DayLen * q1 /\ DayLen * (q2 + 1) = DayLen * q2 + DayLen
        /\ DayLen * q1 \in Nat /\ DayLen * q2 \in Nat
    BY <1>1, <2>2, <2>3, Ordered
  <2> QED
    BY <1>1, <2>2, <2>3, <2>4
<1> QED
  BY <1>1, <1>2, <1>3

\* An instant is in the window of a shift if and only if it has its day and its number.
LEMMA InWindow ==
    ASSUME NEW t \in Nat, NEW d \in Nat, NEW s \in Shifts
    PROVE  /\ start_hour(d, s) \in Nat
           /\ (start_hour(d, s) <= t /\ t < start_hour(d, s) + ShiftLen)
                <=> (date(t) = d /\ current(t) = s)
<1> USE PipeAssumption
<1>1. s \in Nat /\ s < NShifts /\ DayLen \in Nat \ {0} /\ DayLen = ShiftLen * NShifts
  BY Calendar DEF Shifts
<1>2. /\ DayLen * d \in Nat /\ ShiftLen * s \in Nat
      /\ start_hour(d, s) = DayLen * d + ShiftLen * s
  <2>1. d * DayLen = DayLen * d /\ s * ShiftLen = ShiftLen * s
    BY <1>1
  <2> QED
    BY <1>1, <2>1, Ordered DEF start_hour
<1>3. ASSUME date(t) = d, current(t) = s
      PROVE  start_hour(d, s) <= t /\ t < start_hour(d, s) + ShiftLen
  <2> DEFINE r == t % DayLen
             y == r % ShiftLen
  <2>1. r \in Nat /\ t = DayLen * d + r
    BY <1>1, <1>3, DivMod DEF date
  <2>2. y \in Nat /\ y < ShiftLen /\ r = ShiftLen * s + y
    BY <1>3, <2>1, DivMod DEF current
  <2> HIDE DEF r, y
  <2> QED
    BY <1>2, <2>1, <2>2
<1>4. ASSUME start_hour(d, s) <= t, t < start_hour(d, s) + ShiftLen
      PROVE  date(t) = d /\ current(t) = s
  <2> DEFINE y == t - start_hour(d, s)
             r == ShiftLen * s + y
  <2>1. y \in Nat /\ y < ShiftLen /\ r \in Nat /\ t = DayLen * d + r
    BY <1>2, <1>4
  <2>2. r < DayLen
    <3>1. ShiftLen * (s + 1) <= ShiftLen * NShifts /\ ShiftLen * (s + 1) = ShiftLen * s + ShiftLen
      BY <1>1, Ordered
    <3> HIDE DEF y
    <3> QED
      BY <1>1, <1>2, <2>1, <3>1
  <2> HIDE DEF y, r
  <2>3. date(t) = d /\ t % DayLen = r
    BY <1>1, <2>1, <2>2, Quotient DEF date
  <2>4. r \div ShiftLen = s
    BY <1>1, <2>1, Quotient DEF r
  <2> QED
    BY <2>3, <2>4 DEF current
<1> QED
  BY <1>2, <1>3, <1>4

--------------------------------------------------------------------------------
(* Programs. *)

LEMMA Rest ==
    ASSUME NEW s \in Seq(Steps), NEW i \in 1..Len(s)
    PROVE  /\ SubSeq(s, i, Len(s)) \in Seq(Steps)
           /\ Len(SubSeq(s, i, Len(s))) = Len(s) - i + 1
           /\ \A x \in 1..(Len(s) - i + 1) : SubSeq(s, i, Len(s))[x] = s[x + i - 1]
<1>1. i \in Int /\ Len(s) \in Nat /\ i >= 1 /\ i <= Len(s)
  OBVIOUS
<1>2. \A x \in i..Len(s) : s[x] \in Steps
  BY <1>1
<1> QED
  BY <1>1, <1>2, SubSeqProperties

\* What holds of a program holds of the rest of it.
LEMMA RestChained ==
    ASSUME NEW s \in Seq(Steps), Chained(s), NEW i \in 1..Len(s)
    PROVE  Chained(SubSeq(s, i, Len(s)))
<1> DEFINE r == SubSeq(s, i, Len(s))
           at(x) == x + i - 1
<1>1. /\ Len(s) \in Nat /\ Len(r) = Len(s) - i + 1
      /\ \A x \in 1..Len(r) : r[x] = s[at(x)] /\ at(x) \in 1..Len(s)
      /\ \A x, y \in 1..Len(r) : (x < y => at(x) < at(y)) /\ (y = x + 1 => at(y) = at(x) + 1)
  BY Rest
<1> HIDE DEF r, at
<1>2. ASSUME NEW x \in 1..Len(r), NEW y \in 1..Len(r)
      PROVE  /\ y = x + 1 /\ r[y].op \in DOMAIN Precursor =>
                    r[x] = Step(Precursor[r[y].op], r[y].k)
             /\ x < y => /\ r[x].op = "shift" /\ r[y].op = "fetch" => r[x].k # r[y].k
                         /\ r[x].op = "final" => r[y].op = "baseline"
  <2>1. PICK x1 \in 1..Len(s) : x1 = at(x) /\ r[x] = s[x1]
    BY <1>1
  <2>2. PICK y1 \in 1..Len(s) : y1 = at(y) /\ r[y] = s[y1]
    BY <1>1
  <2>3. (y = x + 1 => y1 = x1 + 1) /\ (x < y => x1 < y1)
    BY <1>1, <2>1, <2>2
  <2>4. /\ y1 = x1 + 1 /\ s[y1].op \in DOMAIN Precursor =>
                s[x1] = Step(Precursor[s[y1].op], s[y1].k)
        /\ x1 < y1 => /\ s[x1].op = "shift" /\ s[y1].op = "fetch" => s[x1].k # s[y1].k
                      /\ s[x1].op = "final" => s[y1].op = "baseline"
    BY DEF Chained
  <2> QED
    BY <2>1, <2>2, <2>3, <2>4
<1> QED
  BY <1>2 DEF Chained, r

LEMMA Joined ==
    ASSUME NEW s \in Seq(Steps), NEW t \in Seq(Steps)
    PROVE  /\ s \o t \in Seq(Steps) /\ Len(s \o t) = Len(s) + Len(t)
           /\ \A x \in 1..Len(s) : (s \o t)[x] = s[x]
           /\ \A x \in (Len(s) + 1)..(Len(s) + Len(t)) : (s \o t)[x] = t[x - Len(s)]
BY ConcatProperties

\* A program of command c, and what it is made of.
Fits(c, s) == s \in Seq(Steps) /\ Chained(s) /\ \A x \in 1..Len(s) : StepOf(c, s[x])
Within(s, ops, ks) == \A x \in 1..Len(s) : s[x].op \in ops /\ s[x].k \in ks
Begins(s) == s # << >> /\ s[1].op \notin DOMAIN Precursor

\* One program after the other.
LEMMA JoinedFits ==
    ASSUME NEW c \in Commands, NEW s, NEW t, Fits(c, s), Fits(c, t), Begins(t),
           \A x \in 1..Len(s), y \in 1..Len(t) :
              /\ s[x].op = "shift" /\ t[y].op = "fetch" => s[x].k # t[y].k
              /\ s[x].op = "final" => t[y].op = "baseline"
    PROVE  Fits(c, s \o t)
<1> DEFINE w == s \o t
           a == Len(s)
           b == Len(t)
<1>1. /\ w \in Seq(Steps) /\ Len(w) = a + b /\ a \in Nat /\ b \in Nat
      /\ \A x \in 1..a : w[x] = s[x]
      /\ \A x \in (a + 1)..(a + b) : w[x] = t[x - a] /\ x - a \in 1..b
  BY Joined DEF Fits
<1>2. b >= 1 /\ t[1].op \notin DOMAIN Precursor
  BY DEF Begins, Fits
<1> HIDE DEF w
<1>3. \A x \in 1..Len(w) : StepOf(c, w[x])
  BY <1>1 DEF Fits
<1>4. ASSUME NEW x \in 1..Len(w), NEW y \in 1..Len(w), y = x + 1, w[y].op \in DOMAIN Precursor
      PROVE  w[x] = Step(Precursor[w[y].op], w[y].k)
  <2>1. CASE y <= a
    BY <1>1, <1>4, <2>1, SMTT(30) DEF Fits, Chained
  <2>2. CASE x > a
    <3>1. x \in (a + 1)..(a + b) /\ y \in (a + 1)..(a + b)
      BY <1>1, <2>2, <1>4
    <3>2. PICK x1 \in 1..b : x1 = x - a /\ w[x] = t[x1]
      BY <1>1, <3>1
    <3>3. PICK y1 \in 1..b : y1 = y - a /\ w[y] = t[y1]
      BY <1>1, <3>1
    <3>4. y1 = x1 + 1
      BY <1>1, <1>4, <3>2, <3>3
    <3> QED
      BY <1>4, <3>2, <3>3, <3>4 DEF Fits, Chained
  <2>3. ~(x <= a /\ y > a)
    <3>1. SUFFICES ASSUME x <= a, y > a PROVE FALSE
      OBVIOUS
    <3>2. y = a + 1 /\ w[y] = t[y - a] /\ y - a = 1
      BY <1>1, <1>4, <3>1
    <3> QED
      BY <1>2, <1>4, <3>2
  <2> QED
    BY <1>1, <1>4, <2>1, <2>2, <2>3
<1>5. ASSUME NEW x \in 1..Len(w), NEW y \in 1..Len(w), x < y
      PROVE  /\ w[x].op = "shift" /\ w[y].op = "fetch" => w[x].k # w[y].k
             /\ w[x].op = "final" => w[y].op = "baseline"
  <2>1. CASE y <= a
    <3>1. x \in 1..a /\ y \in 1..a /\ w[x] = s[x] /\ w[y] = s[y]
      BY <1>1, <1>5, <2>1
    <3> QED
      BY <1>5, <3>1 DEF Fits, Chained
  <2>2. CASE x > a
    <3>1. x \in (a + 1)..(a + b) /\ y \in (a + 1)..(a + b)
      BY <1>1, <2>2, <1>5
    <3>2. PICK x1 \in 1..b : x1 = x - a /\ w[x] = t[x1]
      BY <1>1, <3>1
    <3>3. PICK y1 \in 1..b : y1 = y - a /\ w[y] = t[y1]
      BY <1>1, <3>1
    <3>4. x1 < y1
      BY <1>1, <1>5, <3>2, <3>3
    <3>5. Chained(t)
      BY DEF Fits
    <3>6. /\ t[x1].op = "shift" /\ t[y1].op = "fetch" => t[x1].k # t[y1].k
          /\ t[x1].op = "final" => t[y1].op = "baseline"
      BY <3>4, <3>5 DEF Chained
    <3> QED
      BY <3>2, <3>3, <3>6
  <2>3. CASE x <= a /\ y > a
    <3>1. x \in 1..a /\ y - a \in 1..b /\ w[x] = s[x] /\ w[y] = t[y - a]
      BY <1>1, <1>5, <2>3
    <3> QED
      BY <3>1
  <2> QED
    BY <1>1, <1>5, <2>1, <2>2, <2>3
<1> QED
  BY <1>1, <1>3, <1>4, <1>5 DEF Fits, Chained, w

LEMMA JoinedWithin ==
    ASSUME NEW s \in Seq(Steps), NEW t \in Seq(Steps), NEW ops, NEW ks,
           Within(s, ops, ks), Within(t, ops, ks)
    PROVE  Within(s \o t, ops, ks)
<1> DEFINE w == s \o t
<1>1. /\ Len(w) = Len(s) + Len(t)
      /\ \A x \in 1..Len(s) : w[x] = s[x]
      /\ \A x \in (Len(s) + 1)..(Len(s) + Len(t)) : w[x] = t[x - Len(s)] /\ x - Len(s) \in 1..Len(t)
      /\ \A x \in 1..Len(w) : x \in 1..Len(s) \/ x \in (Len(s) + 1)..(Len(s) + Len(t))
  BY Joined
<1> HIDE DEF w
<1> QED
  BY <1>1 DEF Within, w

\* A step of a shift tick, or of the day path.
LEMMA AStep ==
    /\ \A op \in ShiftSteps \cup DaySteps, k \in Kpis \cup {"all"} :
         Step(op, k) \in Steps /\ Step(op, k).op = op /\ Step(op, k).k = k
    /\ RawKpis \subseteq Kpis /\ Kpis = {"mph", "util", "empty"}
    /\ DOMAIN Precursor = {"shift", "history", "vessel", "upsert"}
    /\ Precursor["shift"] = "fetch" /\ Precursor["history"] = "shift"
    /\ Precursor["vessel"] = "history" /\ Precursor["upsert"] = "extract"
BY DEF Step, Steps, RawKpis, Kpis, Precursor

\* A program of one step.
LEMMA OneStepProgram ==
    ASSUME NEW op \in (ShiftSteps \cup DaySteps) \ DOMAIN Precursor, NEW k \in Kpis \cup {"all"},
           NEW s \in Seq(Steps), Len(s) = 1, s[1] = Step(op, k)
    PROVE  Chained(s) /\ Begins(s) /\ Within(s, {op}, {k})
<1>1. \A x \in 1..Len(s) : x = 1
  OBVIOUS
<1>2. s[1].op = op /\ s[1].k = k /\ s # << >>
  <2>1. s # << >>
    OBVIOUS
  <2>2. Step(op, k).op = op /\ Step(op, k).k = k
    BY DEF Step
  <2> QED
    BY <2>1, <2>2
<1>3. \A x, y \in 1..Len(s) : ~(x < y) /\ y # x + 1
  BY <1>1
<1>4. Chained(s)
  BY <1>3 DEF Chained
<1>5. Begins(s) /\ Within(s, {op}, {k})
  BY <1>1, <1>2 DEF Begins, Within
<1> QED
  BY <1>4, <1>5

\* The parts of the programs.
LEMMA ShiftParts ==
    /\ Fits("t1", src_mph_vessels) /\ Begins(src_mph_vessels)
    /\ Within(src_mph_vessels, ShiftSteps, {"mph"})
    /\ Fits("t1", src_util) /\ Begins(src_util) /\ Within(src_util, ShiftSteps, {"util"})
    /\ Fits("t2", src_empty) /\ Begins(src_empty) /\ Within(src_empty, ShiftSteps, {"empty"})
    /\ \A c \in ShiftTimers : Fits(c, Rollup) /\ Begins(Rollup) /\ Within(Rollup, {"rollup"}, {"all"})
<1>1. /\ Step("fetch", "mph") \in Steps /\ Step("shift", "mph") \in Steps
      /\ Step("history", "mph") \in Steps /\ Step("vessel", "mph") \in Steps
      /\ Step("fetch", "util") \in Steps /\ Step("shift", "util") \in Steps
      /\ Step("history", "util") \in Steps
      /\ Step("fetch", "empty") \in Steps /\ Step("shift", "empty") \in Steps
      /\ Step("history", "empty") \in Steps /\ Step("rollup", "all") \in Steps
  BY AStep DEF ShiftSteps
<1>2. /\ src_mph_vessels \in Seq(Steps) /\ Len(src_mph_vessels) = 4
      /\ src_mph_vessels[1] = Step("fetch", "mph") /\ src_mph_vessels[2] = Step("shift", "mph")
      /\ src_mph_vessels[3] = Step("history", "mph") /\ src_mph_vessels[4] = Step("vessel", "mph")
  BY <1>1 DEF src_mph_vessels
<1>3. /\ src_util \in Seq(Steps) /\ Len(src_util) = 3
      /\ src_util[1] = Step("fetch", "util") /\ src_util[2] = Step("shift", "util")
      /\ src_util[3] = Step("history", "util")
  BY <1>1 DEF src_util
<1>4. /\ src_empty \in Seq(Steps) /\ Len(src_empty) = 3
      /\ src_empty[1] = Step("fetch", "empty") /\ src_empty[2] = Step("shift", "empty")
      /\ src_empty[3] = Step("history", "empty")
  BY <1>1 DEF src_empty
<1>5. Rollup \in Seq(Steps) /\ Len(Rollup) = 1 /\ Rollup[1] = Step("rollup", "all")
  BY <1>1 DEF Rollup
<1>6. 1..1 = {1} /\ 1..3 = {1, 2, 3} /\ 1..4 = {1, 2, 3, 4}
  OBVIOUS
<1>7. /\ Chained(src_mph_vessels) /\ Begins(src_mph_vessels)
      /\ Within(src_mph_vessels, ShiftSteps, {"mph"})
      /\ \A x \in 1..4 : StepOf("t1", src_mph_vessels[x])
  BY <1>2, <1>6 DEF Chained, Begins, Within, StepOf, ShiftTimers, ShiftSteps, TimerOf, Kpis, Step,
                    Precursor
<1>8. /\ Chained(src_util) /\ Begins(src_util)
      /\ Within(src_util, ShiftSteps, {"util"})
      /\ \A x \in 1..3 : StepOf("t1", src_util[x])
  BY <1>3, <1>6 DEF Chained, Begins, Within, StepOf, ShiftTimers, ShiftSteps, TimerOf, Kpis, Step,
                    Precursor
<1>9. /\ Chained(src_empty) /\ Begins(src_empty)
      /\ Within(src_empty, ShiftSteps, {"empty"})
      /\ \A x \in 1..3 : StepOf("t2", src_empty[x])
  BY <1>4, <1>6 DEF Chained, Begins, Within, StepOf, ShiftTimers, ShiftSteps, TimerOf, Kpis, Step,
                    Precursor
<1>10. Chained(Rollup) /\ Begins(Rollup) /\ Within(Rollup, {"rollup"}, {"all"})
  BY <1>5, AStep, OneStepProgram DEF ShiftSteps
<1>11. \A c \in ShiftTimers : \A x \in 1..1 : StepOf(c, Rollup[x])
  BY <1>5, <1>6 DEF StepOf, ShiftTimers, ShiftSteps, Step
<1> QED
  BY <1>2, <1>3, <1>4, <1>5, <1>7, <1>8, <1>9, <1>10, <1>11 DEF Fits

DayTimers == {"nightly", "manual"}

LEMMA DayParts ==
    ASSUME NEW c \in DayTimers
    PROVE  /\ \A k \in RawKpis : /\ Fits(c, extract(k)) /\ Begins(extract(k))
                                 /\ Within(extract(k), {"extract", "upsert"}, RawKpis)
                                 /\ Len(extract(k)) = 2 /\ extract(k)[1].op = "extract"
                                 /\ extract(k)[2] = Step("upsert", k)
           /\ \A mark \in {"final", "provisional"} :
                /\ mark = "final" \/ c = "manual" => Fits(c, run_marked(mark))
                /\ Begins(run_marked(mark)) /\ Within(run_marked(mark), {mark}, {"all"})
                /\ run_marked(mark) \in Seq(Steps) /\ Len(run_marked(mark)) = 1
           /\ Fits(c, baseline_run) /\ Begins(baseline_run) /\ Within(baseline_run, {"baseline"}, {"all"})
           /\ Len(baseline_run) = 1
<1>0. c \notin ShiftTimers
  BY DEF DayTimers, ShiftTimers
<1>1. ASSUME NEW k \in RawKpis
      PROVE  /\ Fits(c, extract(k)) /\ Begins(extract(k))
             /\ Within(extract(k), {"extract", "upsert"}, RawKpis)
             /\ Len(extract(k)) = 2 /\ extract(k)[1].op = "extract"
             /\ extract(k)[2] = Step("upsert", k)
  <2>1. Step("extract", k) \in Steps /\ Step("upsert", k) \in Steps
    BY AStep DEF DaySteps
  <2>2. /\ extract(k) \in Seq(Steps) /\ Len(extract(k)) = 2
        /\ extract(k)[1] = Step("extract", k) /\ extract(k)[2] = Step("upsert", k)
    BY <2>1 DEF extract
  <2>3. 1..2 = {1, 2}
    OBVIOUS
  <2>4. /\ Chained(extract(k)) /\ Begins(extract(k))
        /\ Within(extract(k), {"extract", "upsert"}, RawKpis)
    BY <2>2, <2>3 DEF Chained, Begins, Within, Step, Precursor
  <2>5. \A x \in 1..2 : StepOf(c, extract(k)[x])
    BY <1>0, <2>2, <2>3 DEF StepOf, DaySteps, Step
  <2> QED
    BY <2>2, <2>4, <2>5 DEF Fits, Step
<1>2. ASSUME NEW mark \in {"final", "provisional"}
      PROVE  /\ mark = "final" \/ c = "manual" => Fits(c, run_marked(mark))
             /\ Begins(run_marked(mark)) /\ Within(run_marked(mark), {mark}, {"all"})
             /\ run_marked(mark) \in Seq(Steps) /\ Len(run_marked(mark)) = 1
  <2>1. Step(mark, "all") \in Steps
    BY AStep DEF DaySteps
  <2>2. /\ run_marked(mark) \in Seq(Steps) /\ Len(run_marked(mark)) = 1
        /\ run_marked(mark)[1] = Step(mark, "all") /\ 1..1 = {1}
    BY <2>1 DEF run_marked
  <2>3. /\ Chained(run_marked(mark)) /\ Begins(run_marked(mark))
        /\ Within(run_marked(mark), {mark}, {"all"})
    BY <2>2, AStep, OneStepProgram DEF DaySteps
  <2>4. mark = "final" \/ c = "manual" => \A x \in 1..1 : StepOf(c, run_marked(mark)[x])
    BY <1>0, <2>2 DEF StepOf, DaySteps, Step
  <2> QED
    BY <2>2, <2>3, <2>4 DEF Fits
<1>3. Fits(c, baseline_run) /\ Begins(baseline_run) /\ Within(baseline_run, {"baseline"}, {"all"})
      /\ Len(baseline_run) = 1
  <2>1. Step("baseline", "all") \in Steps
    BY AStep DEF DaySteps
  <2>2. /\ baseline_run \in Seq(Steps) /\ Len(baseline_run) = 1
        /\ baseline_run[1] = Step("baseline", "all") /\ 1..1 = {1}
    BY <2>1 DEF baseline_run
  <2>3. /\ Chained(baseline_run) /\ Begins(baseline_run)
        /\ Within(baseline_run, {"baseline"}, {"all"})
    BY <2>2, AStep, OneStepProgram DEF DaySteps
  <2>4. \A x \in 1..1 : StepOf(c, baseline_run[x])
    BY <1>0, <2>2 DEF StepOf, DaySteps, Step
  <2> QED
    BY <2>2, <2>3, <2>4 DEF Fits
<1> QED
  BY <1>1, <1>2, <1>3

\* Where two programs after one another begin and end, and what they contain.
LEMMA JoinedEnds ==
    ASSUME NEW s \in Seq(Steps), NEW t \in Seq(Steps)
    PROVE  /\ Begins(s) => Begins(s \o t)
           /\ t # << >> => (s \o t)[Len(s \o t)] = t[Len(t)]
           /\ \A x \in 1..Len(s) : \E z \in 1..Len(s \o t) : (s \o t)[z] = s[x]
           /\ \A y \in 1..Len(t) : \E z \in 1..Len(s \o t) : (s \o t)[z] = t[y]
<1> DEFINE w == s \o t
<1>1. /\ w \in Seq(Steps) /\ Len(w) = Len(s) + Len(t) /\ Len(s) \in Nat /\ Len(t) \in Nat
      /\ \A x \in 1..Len(s) : w[x] = s[x]
      /\ \A x \in (Len(s) + 1)..(Len(s) + Len(t)) : w[x] = t[x - Len(s)]
  BY Joined
<1> HIDE DEF w
<1>2. Begins(s) => Begins(w)
  <2>1. SUFFICES ASSUME Begins(s) PROVE Begins(w)
    OBVIOUS
  <2>2. Len(s) > 0 /\ s[1].op \notin DOMAIN Precursor
    BY <2>1 DEF Begins
  <2>3. Len(w) > 0 /\ w[1] = s[1]
    BY <1>1, <2>2
  <2>4. w # << >>
    BY <1>1, <2>3
  <2> QED
    BY <2>2, <2>3, <2>4 DEF Begins
<1>3. t # << >> => w[Len(w)] = t[Len(t)]
  <2>1. SUFFICES ASSUME t # << >> PROVE w[Len(w)] = t[Len(t)]
    OBVIOUS
  <2>2. Len(t) > 0
    BY <2>1
  <2>3. Len(w) \in (Len(s) + 1)..(Len(s) + Len(t)) /\ Len(w) - Len(s) = Len(t)
    BY <1>1, <2>2
  <2> QED
    BY <1>1, <2>3
<1>4. ASSUME NEW x \in 1..Len(s) PROVE \E z \in 1..Len(w) : w[z] = s[x]
  BY <1>1
<1>5. ASSUME NEW y \in 1..Len(t) PROVE \E z \in 1..Len(w) : w[z] = t[y]
  <2>1. /\ Len(s) + y \in (Len(s) + 1)..(Len(s) + Len(t)) /\ (Len(s) + y) - Len(s) = y
        /\ Len(s) + y \in 1..Len(w)
    BY <1>1
  <2>2. w[Len(s) + y] = t[y]
    BY <1>1, <2>1
  <2> QED
    BY <2>1, <2>2
<1> QED
  BY <1>2, <1>3, <1>4, <1>5 DEF w

\* The programs of the two shift timers.
LEMMA TierFits ==
    ASSUME NEW c \in ShiftTimers
    PROVE  Fits(c, TierOf(c)) /\ Begins(TierOf(c))
<1>1. "t1" \in Commands /\ "t2" \in Commands
  BY DEF Commands, Timers
<1>2. CASE c = "t1"
  <2> DEFINE both == src_mph_vessels \o src_util
  <2>1. Fits("t1", both) /\ Begins(both)
    <3>1. \A x \in 1..Len(src_mph_vessels), y \in 1..Len(src_util) :
             /\ src_mph_vessels[x].k # src_util[y].k
             /\ src_mph_vessels[x].op # "final"
      BY ShiftParts DEF Within, ShiftSteps
    <3>2. Fits("t1", both)
      BY <1>1, <3>1, ShiftParts, JoinedFits
    <3> QED
      BY <3>2, ShiftParts, JoinedEnds DEF Fits
  <2>2. Within(both, ShiftSteps, {"mph", "util"})
    <3>1. Within(src_mph_vessels, ShiftSteps, {"mph", "util"})
          /\ Within(src_util, ShiftSteps, {"mph", "util"})
      BY ShiftParts DEF Within
    <3> QED
      BY <3>1, ShiftParts, JoinedWithin DEF Fits
  <2> HIDE DEF both
  <2>3. Fits("t1", both \o Rollup) /\ Begins(both \o Rollup)
    <3>1. \A x \in 1..Len(both), y \in 1..Len(Rollup) :
             both[x].op # "final" /\ Rollup[y].op = "rollup"
      BY <2>2, ShiftParts DEF Within, ShiftSteps, ShiftTimers
    <3>2. Fits("t1", Rollup) /\ Begins(Rollup)
      BY ShiftParts DEF ShiftTimers
    <3>3. Fits("t1", both \o Rollup)
      BY <1>1, <2>1, <3>1, <3>2, JoinedFits
    <3> QED
      BY <2>1, <3>2, <3>3, JoinedEnds DEF Fits
  <2> QED
    BY <1>2, <2>3 DEF TierOf, both
<1>3. CASE c = "t2"
  <2>1. \A x \in 1..Len(src_empty), y \in 1..Len(Rollup) :
           src_empty[x].op # "final" /\ Rollup[y].op = "rollup"
    BY ShiftParts DEF Within, ShiftSteps, ShiftTimers
  <2>2. Fits("t2", Rollup) /\ Begins(Rollup)
    BY ShiftParts DEF ShiftTimers
  <2>3. Fits("t2", src_empty \o Rollup)
    BY <1>1, <2>1, <2>2, ShiftParts, JoinedFits
  <2>4. Begins(src_empty \o Rollup)
    BY <2>2, ShiftParts, JoinedEnds DEF Fits
  <2> QED
    BY <1>3, <2>3, <2>4 DEF TierOf
<1> QED
  BY <1>2, <1>3 DEF ShiftTimers

\* The extraction of a day.
LEMMA ExtractionFits ==
    ASSUME NEW c \in DayTimers
    PROVE  /\ Fits(c, run_kpi_all) /\ Begins(run_kpi_all)
           /\ Within(run_kpi_all, {"extract", "upsert"}, RawKpis)
           /\ \A k \in RawKpis : \E x \in 1..Len(run_kpi_all) : run_kpi_all[x] = Step("upsert", k)
<1>1. c \in Commands /\ RawKpis = {"mph", "empty"}
  BY DEF DayTimers, Commands, Timers, RawKpis
<1> DEFINE s == extract("mph")
           t == extract("empty")
<1>2. /\ Fits(c, s) /\ Begins(s) /\ Within(s, {"extract", "upsert"}, RawKpis)
      /\ Fits(c, t) /\ Begins(t) /\ Within(t, {"extract", "upsert"}, RawKpis)
      /\ Len(s) = 2 /\ s[2] = Step("upsert", "mph")
      /\ Len(t) = 2 /\ t[2] = Step("upsert", "empty")
  BY <1>1, DayParts
<1> HIDE DEF s, t
<1>3. s \in Seq(Steps) /\ t \in Seq(Steps)
  BY <1>2 DEF Fits
<1>4. \A x \in 1..Len(s) : s[x].op # "shift" /\ s[x].op # "final"
  BY <1>2 DEF Within
<1>5. Fits(c, s \o t)
  BY <1>1, <1>2, <1>4, JoinedFits
<1>6. Begins(s \o t) /\ Within(s \o t, {"extract", "upsert"}, RawKpis)
  BY <1>2, <1>3, JoinedEnds, JoinedWithin
<1>7. \A k \in RawKpis : \E x \in 1..Len(s \o t) : (s \o t)[x] = Step("upsert", k)
  <2>1. 2 \in 1..Len(s) /\ 2 \in 1..Len(t)
    BY <1>2
  <2>2. \E z \in 1..Len(s \o t) : (s \o t)[z] = s[2]
    BY <1>3, <2>1, JoinedEnds
  <2>3. \E z \in 1..Len(s \o t) : (s \o t)[z] = t[2]
    BY <1>3, <2>1, JoinedEnds
  <2> QED
    BY <1>1, <1>2, <2>2, <2>3
<1> QED
  BY <1>5, <1>6, <1>7 DEF run_kpi_all, s, t

\* The nightly run.
LEMMA RunFits ==
    ASSUME NEW c \in DayTimers
    PROVE  /\ Fits(c, Run) /\ Begins(Run) /\ Run[Len(Run)].op = "baseline"
           /\ \A k \in RawKpis : \E x \in 1..Len(Run) : Run[x] = Step("upsert", k)
           /\ Fits(c, Backfill) /\ Begins(Backfill)
           /\ Fits(c, Transform) /\ Begins(Transform)
<1>1. c \in Commands
  BY DEF DayTimers, Commands, Timers
<1> DEFINE f == run_marked("final")
           b == baseline_run
<1>2. /\ Fits(c, f) /\ Begins(f) /\ Within(f, {"final"}, {"all"}) /\ Len(f) = 1
      /\ Fits(c, b) /\ Begins(b) /\ Within(b, {"baseline"}, {"all"}) /\ Len(b) = 1
  BY DayParts
<1> HIDE DEF f, b
<1>3. /\ f \in Seq(Steps) /\ b \in Seq(Steps) /\ run_kpi_all \in Seq(Steps)
      /\ Fits(c, run_kpi_all) /\ Begins(run_kpi_all)
  BY <1>2, ExtractionFits DEF Fits
<1>4. \A x \in 1..Len(run_kpi_all) : run_kpi_all[x].op # "shift" /\ run_kpi_all[x].op # "final"
  BY ExtractionFits DEF Within
<1>5. Fits(c, run_kpi_all \o f) /\ Begins(run_kpi_all \o f)
  BY <1>1, <1>2, <1>3, <1>4, JoinedFits, JoinedEnds
<1>6. /\ \A x \in 1..Len(run_kpi_all \o f) : (run_kpi_all \o f)[x].op # "shift"
      /\ \A y \in 1..Len(b) : b[y].op = "baseline"
      /\ \A x \in 1..Len(f) : f[x].op # "shift"
  <2>1. /\ Within(run_kpi_all, {"extract", "upsert", "final"}, RawKpis \cup {"all"})
        /\ Within(f, {"extract", "upsert", "final"}, RawKpis \cup {"all"})
    BY <1>2, ExtractionFits DEF Within
  <2>2. Within(run_kpi_all \o f, {"extract", "upsert", "final"}, RawKpis \cup {"all"})
    BY <1>3, <2>1, JoinedWithin
  <2> QED
    BY <1>2, <2>2 DEF Within
<1>7. Fits(c, (run_kpi_all \o f) \o b) /\ Begins((run_kpi_all \o f) \o b)
  <2>1. run_kpi_all \o f \in Seq(Steps)
    BY <1>5 DEF Fits
  <2>2. Fits(c, (run_kpi_all \o f) \o b)
    BY <1>1, <1>2, <1>5, <1>6, JoinedFits
  <2> QED
    BY <1>3, <1>5, <2>1, <2>2, JoinedEnds
<1>8. Fits(c, f \o b) /\ Begins(f \o b)
  BY <1>1, <1>2, <1>3, <1>6, JoinedFits, JoinedEnds
<1>9. Run[Len(Run)].op = "baseline" /\ \A k \in RawKpis : \E x \in 1..Len(Run) : Run[x] = Step("upsert", k)
  <2> DEFINE e == run_kpi_all \o f
  <2>1. e \in Seq(Steps) /\ Run = e \o b
    BY <1>5 DEF Fits, Run, f, b
  <2> HIDE DEF e
  <2>2. b # << >> /\ b[Len(b)].op = "baseline"
    BY <1>2, <1>3 DEF Within, Begins
  <2>3. Run[Len(Run)] = b[Len(b)]
    BY <1>3, <2>1, <2>2, JoinedEnds
  <2>4. ASSUME NEW k \in RawKpis
        PROVE  \E x \in 1..Len(Run) : Run[x] = Step("upsert", k)
    <3>1. PICK x \in 1..Len(run_kpi_all) : run_kpi_all[x] = Step("upsert", k)
      BY ExtractionFits
    <3>2. PICK y \in 1..Len(e) : e[y] = run_kpi_all[x]
      BY <1>3, JoinedEnds DEF e
    <3>3. \E z \in 1..Len(Run) : Run[z] = e[y]
      BY <1>3, <2>1, JoinedEnds
    <3> QED
      BY <3>1, <3>2, <3>3
  <2> QED
    BY <2>2, <2>3, <2>4
<1> QED
  BY <1>5, <1>7, <1>8, <1>9 DEF Run, Backfill, Transform, f, b

\* A tick of the day path.
LEMMA TickFits ==
    ASSUME NEW k \in RawKpis
    PROVE  Fits("manual", Tick(k)) /\ Begins(Tick(k))
<1>1. "manual" \in Commands /\ "manual" \in DayTimers
  BY DEF DayTimers, Commands, Timers
<1> DEFINE e == extract(k)
           f == run_marked("provisional")
           b == baseline_run
<1>2. /\ Fits("manual", e) /\ Begins(e) /\ Within(e, {"extract", "upsert"}, RawKpis)
      /\ Fits("manual", f) /\ Begins(f) /\ Within(f, {"provisional"}, {"all"})
      /\ Fits("manual", b) /\ Begins(b)
  BY <1>1, DayParts
<1> HIDE DEF e, f, b
<1>3. e \in Seq(Steps) /\ f \in Seq(Steps) /\ b \in Seq(Steps)
  BY <1>2 DEF Fits
<1>4. \A x \in 1..Len(e) : e[x].op # "shift" /\ e[x].op # "final"
  BY <1>2 DEF Within
<1>5. Fits("manual", e \o f) /\ Begins(e \o f)
  BY <1>1, <1>2, <1>3, <1>4, JoinedFits, JoinedEnds
<1>6. \A x \in 1..Len(e \o f) : (e \o f)[x].op # "shift" /\ (e \o f)[x].op # "final"
  <2>1. /\ Within(e, {"extract", "upsert", "provisional"}, RawKpis \cup {"all"})
        /\ Within(f, {"extract", "upsert", "provisional"}, RawKpis \cup {"all"})
    BY <1>2 DEF Within
  <2>2. Within(e \o f, {"extract", "upsert", "provisional"}, RawKpis \cup {"all"})
    BY <1>3, <2>1, JoinedWithin
  <2> QED
    BY <2>2 DEF Within
<1>7. Fits("manual", (e \o f) \o b) /\ Begins((e \o f) \o b)
  <2>1. e \o f \in Seq(Steps)
    BY <1>5 DEF Fits
  <2>2. Fits("manual", (e \o f) \o b)
    BY <1>1, <1>2, <1>5, <1>6, JoinedFits
  <2> QED
    BY <1>3, <1>5, <2>1, <2>2, JoinedEnds
<1> QED
  BY <1>7 DEF Tick, e, f, b

--------------------------------------------------------------------------------
(* The steps of a command. *)

LEMMA LeastOf ==
    ASSUME NEW S \in SUBSET Nat, S # {}
    PROVE  LET least == CHOOSE x \in S : \A y \in S : x <= y
           IN  least \in S /\ \A y \in S : least <= y
<1> DEFINE R == OpToRel(<, Nat)
<1>1. PICK x \in S : \A y \in S : ~(<<y, x>> \in R)
  BY NatLessThanWellFounded, WFMin
<1>2. \A y \in S : ~(y < x)
  BY <1>1 DEF OpToRel
<1>3. \A y \in S : x <= y
  BY <1>2
<1> HIDE DEF R
<1> QED
  BY <1>3

LEMMA AtFirst ==
    ASSUME PipeTypes, NEW c \in Commands
    PROVE  /\ cmds[c] \in Job
           /\ Busy(c) => /\ Len(cmds[c].todo) \in Nat \ {0}
                         /\ Head(cmds[c].todo) = cmds[c].todo[1]
                         /\ KpiOf(c) = cmds[c].todo[1].k
                         /\ cmds[c].todo[1] \in Steps
           /\ \A op : At(c, op) <=> Busy(c) /\ cmds[c].todo[1].op = op
<1>1. cmds[c] \in Job /\ cmds[c].todo \in Seq(Steps)
  BY DEF PipeTypes, Job
<1>2. ASSUME Busy(c)
      PROVE  /\ Len(cmds[c].todo) \in Nat \ {0}
             /\ Head(cmds[c].todo) = cmds[c].todo[1]
             /\ cmds[c].todo[1] \in Steps
  BY <1>1, <1>2 DEF Busy
<1> QED
  BY <1>1, <1>2 DEF KpiOf, At

\* A command goes on at the i-th of its steps, or ends.
MovesOn(c, i) ==
    /\ Busy(c) /\ i \in 2..(Len(cmds[c].todo) + 1)
    /\ cmds' \in [Commands -> Job]
    /\ \A e \in Commands \ {c} : cmds'[e] = cmds[e]
    /\ cmds'[c].end = cmds[c].end
    /\ IF i > Len(cmds[c].todo)
         THEN cmds'[c].todo = << >>
         ELSE /\ cmds'[c].todo = SubSeq(cmds[c].todo, i, Len(cmds[c].todo))
              /\ cmds'[c].day = cmds[c].day /\ cmds'[c].sh = cmds[c].sh

LEMMA Idle == NoCommand \in Job /\ NoCommand.todo = << >>
<1>1. 0 \in Days /\ 0 \in Shifts
  <2>1. PipeEnd \div DayLen \in Nat
    BY PipeAssumption, Calendar, DivMod
  <2>2. NShifts - 1 \in Nat
    BY PipeAssumption
  <2> QED
    BY <2>1, <2>2 DEF Days, Shifts
<1> QED
  BY <1>1 DEF NoCommand, Job

LEMMA NothingToDo ==
    ASSUME PipeTypes, NEW c \in Commands
    PROVE  /\ NoCommand \in Job /\ NoCommand.todo = << >>
           /\ Ended(c) \in Job /\ Ended(c).todo = << >> /\ Ended(c).end = cmds[c].end
<1>1. NoCommand \in Job /\ NoCommand.todo = << >>
  BY Idle
<1>2. cmds[c].end \in Nat
  BY DEF PipeTypes, Job
<1> QED
  BY <1>1, <1>2 DEF Ended, Job

LEMMA EndedMovesOn ==
    ASSUME PipeTypes, NEW c \in Commands, Busy(c), cmds' = [cmds EXCEPT ![c] = Ended(c)]
    PROVE  MovesOn(c, Len(cmds[c].todo) + 1)
<1>1. cmds \in [Commands -> Job]
  BY DEF PipeTypes
<1>2. Ended(c) \in Job /\ Ended(c).todo = << >> /\ Ended(c).end = cmds[c].end
  BY NothingToDo
<1>3. Len(cmds[c].todo) \in Nat \ {0}
  BY AtFirst
<1>4. cmds' \in [Commands -> Job] /\ cmds'[c] = Ended(c)
      /\ \A e \in Commands \ {c} : cmds'[e] = cmds[e]
  BY <1>1, <1>2
<1>5. Len(cmds[c].todo) + 1 > Len(cmds[c].todo)
      /\ Len(cmds[c].todo) + 1 \in 2..(Len(cmds[c].todo) + 1)
  BY <1>3
<1> QED
  BY <1>2, <1>4, <1>5 DEF MovesOn

\* Done is one step on; what was read is kept, or is what a step reads now.
LEMMA DoneMovesOn ==
    ASSUME PipeTypes, NEW c \in Commands, Busy(c), NEW got \in SUBSET Nat,
           \/ cmds' = [cmds EXCEPT ![c] = Done(c)] /\ got = cmds[c].read
           \/ cmds' = [cmds EXCEPT ![c] = [Done(c) EXCEPT !.read = got]]
    PROVE  /\ MovesOn(c, 2)
           /\ Len(cmds[c].todo) > 1 => cmds'[c].read = got
<1> DEFINE todo == cmds[c].todo
           next == [Done(c) EXCEPT !.read = got]
<1>1. cmds \in [Commands -> Job] /\ cmds[c] \in Job /\ todo \in Seq(Steps)
      /\ Len(todo) \in Nat \ {0}
  BY AtFirst DEF PipeTypes, Job
<1>2. ASSUME NEW j \in Job, Done(c) = j
      PROVE  /\ next \in Job /\ next.todo = j.todo /\ next.end = j.end
             /\ next.day = j.day /\ next.sh = j.sh /\ next.read = got
  BY <1>2 DEF Job
<1>3. Done(c) \in Job =>
        /\ cmds' \in [Commands -> Job] /\ \A e \in Commands \ {c} : cmds'[e] = cmds[e]
        /\ cmds'[c] = next \/ (cmds'[c] = Done(c) /\ got = cmds[c].read)
  <2>1. SUFFICES ASSUME Done(c) \in Job
                 PROVE  /\ cmds' \in [Commands -> Job] /\ \A e \in Commands \ {c} : cmds'[e] = cmds[e]
                        /\ cmds'[c] = next \/ (cmds'[c] = Done(c) /\ got = cmds[c].read)
    OBVIOUS
  <2>2. next \in Job
    BY <1>2, <2>1
  <2> HIDE DEF next
  <2>3. cmds' = [cmds EXCEPT ![c] = next] \/ (cmds' = [cmds EXCEPT ![c] = Done(c)] /\ got = cmds[c].read)
    BY DEF next
  <2> QED
    BY <1>1, <2>1, <2>2, <2>3
<1> HIDE DEF next
<1>4. CASE Len(todo) = 1
  <2>1. Done(c) = Ended(c)
    BY <1>4 DEF Done
  <2>2. /\ Done(c) \in Job /\ Done(c).todo = << >> /\ Done(c).end = cmds[c].end
        /\ next.todo = << >> /\ next.end = cmds[c].end
    BY <1>2, <2>1, NothingToDo
  <2>3. cmds'[c].todo = << >> /\ cmds'[c].end = cmds[c].end
    BY <1>3, <2>2
  <2>4. 2 \in 2..(Len(todo) + 1) /\ 2 > Len(todo)
    BY <1>4
  <2> QED
    BY <1>3, <1>4, <2>2, <2>3, <2>4 DEF MovesOn
<1>5. CASE Len(todo) > 1
  <2>1. Done(c) = [cmds[c] EXCEPT !.todo = Tail(todo)]
    <3>1. \A len \in Nat : len > 1 => len # 1
      OBVIOUS
    <3>2. Len(cmds[c].todo) # 1
      BY <1>1, <1>5, <3>1
    <3> QED
      BY <3>2 DEF Done
  <2>2. Tail(todo) \in Seq(Steps) /\ Tail(todo) = SubSeq(todo, 2, Len(todo))
    BY <1>1, <1>5
  <2>3. /\ Done(c) \in Job /\ Done(c).todo = Tail(todo) /\ Done(c).end = cmds[c].end
        /\ Done(c).day = cmds[c].day /\ Done(c).sh = cmds[c].sh /\ Done(c).read = cmds[c].read
    <3> HIDE DEF todo
    <3> QED
      BY <1>1, <2>1, <2>2 DEF Job
  <2>4. /\ next.todo = Tail(todo) /\ next.end = cmds[c].end
        /\ next.day = cmds[c].day /\ next.sh = cmds[c].sh /\ next.read = got
    BY <1>2, <2>3
  <2>5. /\ cmds'[c].todo = Tail(todo) /\ cmds'[c].end = cmds[c].end
        /\ cmds'[c].day = cmds[c].day /\ cmds'[c].sh = cmds[c].sh /\ cmds'[c].read = got
    BY <1>3, <2>3, <2>4
  <2>6. 2 \in 2..(Len(todo) + 1) /\ ~(2 > Len(todo))
    BY <1>1, <1>5
  <2> QED
    BY <1>3, <2>2, <2>3, <2>5, <2>6 DEF MovesOn
<1>6. Len(todo) = 1 \/ Len(todo) > 1
  <2>1. \A len \in Nat \ {0} : len = 1 \/ len > 1
    OBVIOUS
  <2> QED
    BY <1>1, <2>1
<1> QED
  BY <1>4, <1>5, <1>6

LEMMA WentMovesOn ==
    ASSUME PipeTypes, NEW c \in Commands, Busy(c), cmds' = [cmds EXCEPT ![c] = Done(c)]
    PROVE  /\ MovesOn(c, 2)
           /\ Len(cmds[c].todo) > 1 => cmds'[c].read = cmds[c].read
<1>1. cmds[c].read \in SUBSET Nat
  BY DEF PipeTypes, Job
<1>2. \A got \in SUBSET Nat : got = cmds[c].read =>
        MovesOn(c, 2) /\ (Len(cmds[c].todo) > 1 => cmds'[c].read = got)
  BY DoneMovesOn
<1> QED
  BY <1>1, <1>2

\* A command that goes on after a failed source goes on at a reading or a roll-up.
LEMMA GivenUpMovesOn ==
    ASSUME PipeTypes, NEW c \in Commands, Busy(c), cmds' = [cmds EXCEPT ![c] = GivenUp(c)]
    PROVE  \E i \in 2..(Len(cmds[c].todo) + 1) :
              /\ MovesOn(c, i)
              /\ i <= Len(cmds[c].todo) => cmds[c].todo[i].op \in Resume
<1> DEFINE todo == cmds[c].todo
           left == Tail(todo)
           at == SelectInSeq(left, LAMBDA s : s.op \in Resume)
<1>1. cmds \in [Commands -> Job] /\ cmds[c] \in Job /\ todo \in Seq(Steps)
      /\ Len(todo) \in Nat \ {0}
  BY AtFirst DEF PipeTypes, Job
<1>2. /\ left \in Seq(Steps) /\ Len(left) = Len(todo) - 1
      /\ \A x \in 1..Len(left) : left[x] = todo[x + 1]
  BY <1>1
<1>3. at = 0 \/ (at \in 1..Len(left) /\ left[at].op \in Resume)
  <2> DEFINE I == {x \in 1..Len(left) : left[x].op \in Resume}
  <2>1. at = IF I # {} THEN Min(I) ELSE 0
    BY DEF SelectInSeq
  <2>2. ASSUME I # {} PROVE Min(I) \in I
    <3>1. I \subseteq Nat
      BY <1>1, <1>2
    <3> QED
      BY <2>2, <3>1, LeastOf DEF Min
  <2> HIDE DEF at
  <2> QED
    BY <2>1, <2>2
<1>4. CASE at = 0
  <2>1. cmds' = [cmds EXCEPT ![c] = Ended(c)]
    BY <1>4 DEF GivenUp
  <2> DEFINE last == Len(todo) + 1
  <2>2. last \in 2..last /\ ~(last <= Len(todo))
    BY <1>1
  <2>3. MovesOn(c, last)
    BY <2>1, EndedMovesOn
  <2> QED
    BY <2>2, <2>3
<1>5. CASE at # 0
  <2> DEFINE r == SubSeq(left, at, Len(left))
  <2>1. cmds' = [cmds EXCEPT ![c] = [cmds[c] EXCEPT !.todo = r]]
    BY <1>5 DEF GivenUp
  <2> HIDE DEF at
  <2>2. at \in 1..Len(left) /\ at + 1 \in 2..Len(todo) /\ todo[at + 1].op \in Resume
    BY <1>1, <1>2, <1>3, <1>5
  <2>3. r \in Seq(Steps) /\ r = SubSeq(todo, at + 1, Len(todo))
    <3>1. r \in Seq(Steps) /\ Len(r) = Len(left) - at + 1
          /\ \A x \in 1..Len(r) : r[x] = left[x + at - 1]
      BY <1>2, <2>2, Rest
    <3>2. SubSeq(todo, at + 1, Len(todo)) \in Seq(Steps)
          /\ Len(SubSeq(todo, at + 1, Len(todo))) = Len(todo) - (at + 1) + 1
          /\ \A x \in 1..(Len(todo) - (at + 1) + 1) :
               SubSeq(todo, at + 1, Len(todo))[x] = todo[x + (at + 1) - 1]
      <4>1. at + 1 \in 1..Len(todo)
        BY <1>1, <2>2
      <4> QED
        BY <1>1, <4>1, Rest
    <3> HIDE DEF r
    <3>3. Len(r) = Len(todo) - (at + 1) + 1
      BY <1>1, <1>2, <2>2, <3>1
    <3>4. ASSUME NEW x \in 1..Len(r) PROVE r[x] = SubSeq(todo, at + 1, Len(todo))[x]
      <4>1. r[x] = left[x + at - 1] /\ x + at - 1 \in 1..Len(left)
        BY <1>1, <1>2, <2>2, <3>1, <3>3
      <4>2. left[x + at - 1] = todo[(x + at - 1) + 1] /\ (x + at - 1) + 1 = x + (at + 1) - 1
        BY <1>2, <2>2, <4>1
      <4> QED
        BY <3>2, <3>3, <4>1, <4>2
    <3> QED
      BY <3>1, <3>2, <3>3, <3>4, SeqEqual
  <2> HIDE DEF r
  <2> DEFINE next == [cmds[c] EXCEPT !.todo = r]
  <2>4. /\ next \in Job /\ next.todo = r /\ next.day = cmds[c].day /\ next.sh = cmds[c].sh
        /\ next.end = cmds[c].end
    BY <1>1, <2>3 DEF Job
  <2> HIDE DEF next
  <2>5. /\ cmds' \in [Commands -> Job] /\ \A e \in Commands \ {c} : cmds'[e] = cmds[e]
        /\ cmds'[c] = next
    BY <1>1, <2>1, <2>4 DEF next
  <2>6. at + 1 \in 2..(Len(todo) + 1) /\ ~(at + 1 > Len(todo))
    BY <1>1, <2>2
  <2>7. MovesOn(c, at + 1)
    BY <2>3, <2>4, <2>5, <2>6 DEF MovesOn
  <2> QED
    BY <2>2, <2>6, <2>7
<1> QED
  BY <1>4, <1>5

--------------------------------------------------------------------------------
(* What a step of a command leaves alone. *)

\* Programs only get shorter; the command stays on its day and in its shift.
LEMMA Moved ==
    ASSUME PipeTypes, Programs, NEW c \in Commands, NEW i \in Nat, MovesOn(c, i)
    PROVE  /\ Programs'
           /\ \A e \in Commands :
                /\ Busy(e)' => Busy(e) /\ cmds'[e].day = cmds[e].day /\ cmds'[e].sh = cmds[e].sh
                /\ cmds'[e].end = cmds[e].end
                /\ \A x \in 1..Len(cmds'[e].todo) :
                     \E y \in 1..Len(cmds[e].todo) : cmds'[e].todo[x] = cmds[e].todo[y]
           /\ Busy(c)' => /\ i <= Len(cmds[c].todo) /\ cmds'[c].todo[1] = cmds[c].todo[i]
                          /\ \A x \in 1..Len(cmds'[c].todo) :
                               /\ x + i - 1 \in i..Len(cmds[c].todo)
                               /\ cmds'[c].todo[x] = cmds[c].todo[x + i - 1]
<1> DEFINE old == cmds[c].todo
           new == cmds'[c].todo
<1>1. cmds[c] \in Job /\ old \in Seq(Steps) /\ Len(old) \in Nat /\ i \in 2..(Len(old) + 1)
  BY DEF PipeTypes, Job, MovesOn
<1>2. Busy(c) /\ cmds'[c].end = cmds[c].end /\ \A e \in Commands \ {c} : cmds'[e] = cmds[e]
  BY DEF MovesOn
<1>3. CASE i > Len(old)
  <2>1. new = << >> /\ Len(new) = 0 /\ 1..0 = {}
    BY <1>3 DEF MovesOn
  <2>2. ~Busy(c)'
    BY <2>1 DEF Busy
  <2>3. Chained(new) /\ \A x \in 1..Len(new) : StepOf(c, new[x])
    BY <2>1 DEF Chained
  <2>4. Programs'
    <3>1. ASSUME NEW e \in Commands, e # c
          PROVE  cmds'[e].todo = cmds[e].todo
      BY <1>2, <3>1
    <3> HIDE DEF new
    <3> QED
      BY <2>1, <2>3, <3>1 DEF Programs, new
  <2> HIDE DEF new
  <2>5. \A e \in Commands :
          /\ Busy(e)' => Busy(e) /\ cmds'[e].day = cmds[e].day /\ cmds'[e].sh = cmds[e].sh
          /\ cmds'[e].end = cmds[e].end
    BY <1>2, <2>2 DEF Busy
  <2>6. \A e \in Commands : \A x \in 1..Len(cmds'[e].todo) :
          \E y \in 1..Len(cmds[e].todo) : cmds'[e].todo[x] = cmds[e].todo[y]
    BY <1>2, <2>1 DEF new
  <2> QED
    BY <2>2, <2>4, <2>5, <2>6
<1>4. CASE ~(i > Len(old))
  <2>1. /\ new = SubSeq(old, i, Len(old)) /\ i \in 1..Len(old) /\ i <= Len(old)
        /\ cmds'[c].day = cmds[c].day /\ cmds'[c].sh = cmds[c].sh
    BY <1>1, <1>4 DEF MovesOn
  <2> HIDE DEF new
  <2>2. /\ new \in Seq(Steps) /\ Len(new) = Len(old) - i + 1
        /\ \A x \in 1..Len(new) : new[x] = old[x + i - 1]
    BY <1>1, <2>1, Rest
  <2>3. \A x \in 1..Len(new) : x + i - 1 \in i..Len(old) /\ x + i - 1 \in 1..Len(old)
    BY <1>1, <2>1, <2>2
  <2>4. Chained(new)
    BY <1>1, <2>1, RestChained DEF Programs
  <2>5. \A x \in 1..Len(new) : StepOf(c, new[x])
    BY <2>2, <2>3 DEF Programs
  <2>6. Len(new) \in 1..Len(new) /\ new[Len(new)] = old[Len(old)] /\ 1 \in 1..Len(new)
        /\ 1 + i - 1 = i /\ new[1] = old[i]
    <3>1. Len(new) >= 1 /\ Len(new) \in Nat
      BY <1>1, <2>1, <2>2
    <3>2. Len(new) + i - 1 = Len(old)
      BY <1>1, <2>1, <2>2
    <3>3. 1 + i - 1 = i
      BY <1>1
    <3>4. Len(new) \in 1..Len(new) /\ 1 \in 1..Len(new)
      BY <3>1
    <3>5. new[Len(new)] = old[Len(new) + i - 1] /\ new[1] = old[1 + i - 1]
      BY <2>2, <3>4
    <3> QED
      BY <3>2, <3>3, <3>4, <3>5
  <2>7. Programs'
    <3>1. ASSUME NEW e \in Commands, e # c
          PROVE  cmds'[e].todo = cmds[e].todo
      BY <1>2, <3>1
    <3>2. old # << >>
      BY <1>2 DEF Busy
    <3>3. c = "nightly" => new[Len(new)].op = "baseline"
      BY <2>6, <3>2 DEF Programs
    <3> QED
      BY <2>4, <2>5, <3>1, <3>3 DEF Programs, new
  <2>8. \A e \in Commands :
          /\ Busy(e)' => Busy(e) /\ cmds'[e].day = cmds[e].day /\ cmds'[e].sh = cmds[e].sh
          /\ cmds'[e].end = cmds[e].end
    BY <1>2, <2>1 DEF Busy
  <2>9. \A e \in Commands : \A x \in 1..Len(cmds'[e].todo) :
          \E y \in 1..Len(cmds[e].todo) : cmds'[e].todo[x] = cmds[e].todo[y]
    BY <1>2, <2>2, <2>3 DEF new
  <2> QED
    BY <2>1, <2>2, <2>3, <2>6, <2>7, <2>8, <2>9 DEF new
<1> QED
  BY <1>3, <1>4

\* The rows of the shifts stay what they are while ticks go on and moves land.
LEMMA ShiftRowsStay ==
    ASSUME OfItsShift, UNCHANGED kpi_shift,
           \A k \in Kpis : landed[k] \subseteq landed'[k],
           \A c \in ShiftTimers :
              /\ cmds'[c].end = cmds[c].end
              /\ \A x \in 1..Len(cmds'[c].todo) :
                   \E y \in 1..Len(cmds[c].todo) : cmds'[c].todo[x] = cmds[c].todo[y]
    PROVE  OfItsShift'
<1>1. ASSUME NEW d \in Days, NEW s \in Shifts, NEW k \in Kpis, NEW t \in kpi_shift[d][s][k]
      PROVE  /\ date(t) = d /\ current(t) = s /\ t \in landed'[k]
             /\ t <= cmds'[TimerOf(k)].end
             /\ t = cmds'[TimerOf(k)].end =>
                  ~\E x \in 1..Len(cmds'[TimerOf(k)].todo) : cmds'[TimerOf(k)].todo[x] = Step("fetch", k)
  <2>1. TimerOf(k) \in ShiftTimers
    BY DEF TimerOf, ShiftTimers
  <2> QED
    BY <2>1 DEF OfItsShift
<1> QED
  BY <1>1 DEF OfItsShift

\* What the next step of a command may be about.
LEMMA Kind ==
    ASSUME PipeTypes, Programs, NEW c \in Commands, NEW op, At(c, op)
    PROVE  /\ Busy(c)
           /\ c \in ShiftTimers => /\ op \in ShiftSteps
                                   /\ op # "rollup" => KpiOf(c) \in Kpis /\ TimerOf(KpiOf(c)) = c
                                   /\ op = "vessel" => KpiOf(c) = "mph"
           /\ c \notin ShiftTimers => /\ op \in DaySteps
                                      /\ op \in {"extract", "upsert"} => KpiOf(c) \in RawKpis
                                      /\ op = "provisional" => c = "manual"
<1>1. /\ Busy(c) /\ cmds[c].todo[1].op = op /\ KpiOf(c) = cmds[c].todo[1].k
      /\ 1 \in 1..Len(cmds[c].todo)
  BY AtFirst
<1>2. StepOf(c, cmds[c].todo[1])
  BY <1>1 DEF Programs
<1> QED
  BY <1>1, <1>2 DEF StepOf

LEMMA WriterKpi ==
    ASSUME PipeTypes, Programs, NEW c \in Commands, NEW op \in DOMAIN Precursor, At(c, op)
    PROVE  KpiOf(c) \in Kpis
BY Kind, AStep DEF ShiftSteps, DaySteps

\* What another command has read stays good.
LEMMA OthersRead ==
    ASSUME PipeTypes, Programs, NEW c \in Commands, HasRead(c), cmds'[c] = cmds[c],
           \A k \in Kpis : landed[k] \subseteq landed'[k],
           \A op \in {"shift", "history", "vessel"} : At(c, op) =>
              kpi_shift'[cmds[c].day][cmds[c].sh][KpiOf(c)]
                = kpi_shift[cmds[c].day][cmds[c].sh][KpiOf(c)]
    PROVE  HasRead(c)'
<1>1. KpiOf(c)' = KpiOf(c) /\ \A op : At(c, op)' = At(c, op)
  BY DEF KpiOf, At, Busy
<1>2. ASSUME NEW op \in DOMAIN Precursor, At(c, op)
      PROVE  render_day(KpiOf(c), cmds[c].day) \subseteq render_day(KpiOf(c), cmds[c].day)'
  <2>1. KpiOf(c) \in Kpis
    BY <1>2, WriterKpi
  <2> QED
    BY <1>1, <2>1 DEF render_day, KpiOf
<1>3. \A op \in DOMAIN Precursor : At(c, op) => cmds[c].read \subseteq render_day(KpiOf(c), cmds[c].day)'
  BY <1>2 DEF HasRead
<1>4. \A op \in {"shift", "history", "vessel"} :
        At(c, op) => \A t \in cmds[c].read : current(t) = cmds[c].sh /\ t <= cmds[c].end
  BY DEF HasRead
<1>5. /\ At(c, "shift") => kpi_shift'[cmds[c].day][cmds[c].sh][KpiOf(c)] \subseteq cmds[c].read
      /\ At(c, "history") \/ At(c, "vessel") =>
            kpi_shift'[cmds[c].day][cmds[c].sh][KpiOf(c)] = cmds[c].read
  BY DEF HasRead
<1> QED
  BY <1>1, <1>3, <1>4, <1>5 DEF HasRead

LEMMA DayRowsStay ==
    ASSUME PipeTypes, OfItsDay, UNCHANGED <<raw, kpi_daily>>,
           \A k \in Kpis : landed[k] \subseteq landed'[k]
    PROVE  OfItsDay'
<1>1. \A d, k : k \in Kpis => render_day(k, d) \subseteq render_day(k, d)'
  BY DEF render_day
<1> QED
  BY <1>1 DEF OfItsDay

\* No command begins; the days that are mixed stay so.
LEMMA NightStaysAlone ==
    ASSUME PipeTypes, NightAlone, mixed \subseteq mixed', now' \in Nat, now <= now',
           \A e \in Commands : Busy(e)' => Busy(e) /\ cmds'[e].day = cmds[e].day
    PROVE  NightAlone'
<1>1. /\ "manual" \in Commands /\ "nightly" \in Commands /\ ShiftTimers \subseteq Commands
      /\ date(now) \in Nat /\ date(now') \in Nat /\ date(now) <= date(now')
      /\ \A e \in Commands : cmds[e].day \in Nat
  <2>1. now \in Nat /\ \A e \in Commands : cmds[e].day \in Days
    BY DEF PipeTypes, Job
  <2>2. Days \subseteq Nat
    BY DEF Days
  <2> QED
    BY <2>1, <2>2, Calendar DEF Commands, Timers, ShiftTimers
<1>2. date(now)' = date(now')
  BY DEF date
<1>3. Busy("manual")' => cmds'["manual"].day \in mixed'
  BY <1>1 DEF NightAlone
<1>4. ASSUME Busy("nightly")'
      PROVE  /\ cmds'["nightly"].day < date(now')
             /\ cmds'["nightly"].day \notin mixed' =>
                  \A c \in ShiftTimers : Busy(c)' => cmds'[c].day # cmds'["nightly"].day
  <2>1. Busy("nightly") /\ cmds'["nightly"].day = cmds["nightly"].day
    BY <1>1, <1>4
  <2>2. cmds["nightly"].day < date(now')
    BY <1>1, <2>1 DEF NightAlone
  <2>3. ASSUME cmds'["nightly"].day \notin mixed', NEW c \in ShiftTimers, Busy(c)'
        PROVE  cmds'[c].day # cmds'["nightly"].day
    BY <1>1, <2>1, <2>3 DEF NightAlone
  <2> QED
    BY <2>1, <2>2, <2>3
<1> QED
  BY <1>2, <1>3, <1>4 DEF NightAlone

\* The tables of the days stay; the nightly run stays, or its day is mixed now.
LEMMA DaysStay ==
    ASSUME PipeTypes, RolledUp, NightReading, Baselines, UNCHANGED <<raw, kpi_daily, kpi_baseline>>,
           mixed \subseteq mixed',
           \A d \in Days, s \in Shifts, k \in Kpis : kpi_shift[d][s][k] \subseteq kpi_shift'[d][s][k],
           \/ cmds'["nightly"] = cmds["nightly"]
           \/ /\ cmds["nightly"].day \in mixed'
              /\ Busy("nightly")' => cmds'["nightly"].day = cmds["nightly"].day
    PROVE  RolledUp' /\ NightReading' /\ Baselines'
<1>1. \A d \in Days, k \in Kpis : ShiftMoves(d, k) \subseteq ShiftMoves(d, k)'
  BY DEF ShiftMoves
<1>2. RolledUp'
  BY <1>1, AStep DEF RolledUp
<1>3. CASE cmds'["nightly"] = cmds["nightly"]
  <2>1. /\ Busy("nightly")' = Busy("nightly") /\ KpiOf("nightly")' = KpiOf("nightly")
        /\ At("nightly", "upsert")' = At("nightly", "upsert")
        /\ \A k : Pending(k)' = Pending(k)
    BY <1>3 DEF Busy, KpiOf, At, Pending
  <2>2. NightReading'
    BY <1>3, <2>1 DEF NightReading
  <2>3. Baselines'
    BY <1>3, <2>1 DEF Baselines
  <2> QED
    BY <1>2, <2>2, <2>3
<1>4. CASE /\ cmds["nightly"].day \in mixed'
           /\ Busy("nightly")' => cmds'["nightly"].day = cmds["nightly"].day
  <2>1. NightReading'
    BY <1>4 DEF NightReading
  <2>2. Baselines'
    <3>1. ASSUME NEW d \in Days, d \notin mixed', NEW k \in Kpis, kpi_daily[d][k].mark = "final"
          PROVE  /\ kpi_baseline[d][k].on
                 /\ kpi_baseline[d][k].today = kpi_daily[d][k].moves
                 /\ d \notin kpi_baseline[d][k].days
      BY <1>4, <3>1 DEF Baselines
    <3> QED
      BY <3>1 DEF Baselines
  <2> QED
    BY <1>2, <2>1, <2>2
<1> QED
  BY <1>3, <1>4

\* A step of a command that writes no row of a shift.
LEMMA ShiftsAside ==
    ASSUME PipeIInv, NEW c \in Commands, NEW i \in Nat, MovesOn(c, i),
           UNCHANGED <<now, landed, kpi_shift>>, mixed \subseteq mixed'
    PROVE  /\ Programs' /\ Windows' /\ OfItsShift' /\ NightAlone'
           /\ \A e \in Commands \ {c} : HasRead(e)'
<1> USE DEF PipeIInv
<1>1. /\ Programs'
      /\ \A e \in Commands :
           /\ Busy(e)' => Busy(e) /\ cmds'[e].day = cmds[e].day /\ cmds'[e].sh = cmds[e].sh
           /\ cmds'[e].end = cmds[e].end
           /\ \A x \in 1..Len(cmds'[e].todo) :
                \E y \in 1..Len(cmds[e].todo) : cmds'[e].todo[x] = cmds[e].todo[y]
  BY Moved
<1>2. ShiftTimers \subseteq Commands
  BY DEF ShiftTimers, Commands, Timers
<1>3. Windows'
  <2>1. ASSUME NEW e \in ShiftTimers
        PROVE  /\ cmds'[e].end <= now
               /\ Busy(e)' => date(cmds'[e].end) = cmds'[e].day /\ current(cmds'[e].end) = cmds'[e].sh
    <3>1. e \in Commands
      BY <1>2
    <3> QED
      BY <1>1, <3>1 DEF Windows
  <2> QED
    BY <2>1 DEF Windows, date, current
<1>4. OfItsShift'
  BY <1>1, <1>2, ShiftRowsStay
<1>5. NightAlone'
  <2>1. now \in Nat
    BY DEF PipeTypes
  <2> QED
    BY <1>1, <2>1, NightStaysAlone
<1>6. ASSUME NEW e \in Commands \ {c} PROVE HasRead(e)'
  <2>1. cmds'[e] = cmds[e] /\ HasRead(e)
    BY DEF MovesOn, Reading
  <2> QED
    BY <2>1, OthersRead
<1> QED
  BY <1>1, <1>3, <1>4, <1>5, <1>6

\* A step of a command that writes no table of the days either.
LEMMA Aside ==
    ASSUME PipeIInv, NEW c \in Commands, NEW i \in Nat, MovesOn(c, i),
           UNCHANGED <<now, landed, kpi_shift, raw, kpi_daily, kpi_baseline>>,
           mixed \subseteq mixed', c = "nightly" => cmds["nightly"].day \in mixed'
    PROVE  /\ Programs' /\ Windows' /\ OfItsShift' /\ OfItsDay' /\ RolledUp'
           /\ NightAlone' /\ NightReading' /\ Baselines'
           /\ \A e \in Commands \ {c} : HasRead(e)'
<1> USE DEF PipeIInv
<1>1. /\ Programs' /\ Windows' /\ OfItsShift' /\ NightAlone'
      /\ \A e \in Commands \ {c} : HasRead(e)'
  BY ShiftsAside
<1>2. OfItsDay'
  BY DayRowsStay
<1>3. RolledUp' /\ NightReading' /\ Baselines'
  <2>1. "nightly" \in Commands /\ (c # "nightly" => cmds'["nightly"] = cmds["nightly"])
    BY DEF MovesOn, Commands, Timers
  <2>2. Busy("nightly")' => cmds'["nightly"].day = cmds["nightly"].day
    BY <2>1, Moved
  <2> QED
    BY <2>1, <2>2, DaysStay
<1> QED
  BY <1>1, <1>2, <1>3

\* After one step, a step that has a precursor comes after it.
LEMMA NextStep ==
    ASSUME PipeTypes, Programs, NEW c \in Commands, MovesOn(c, 2),
           NEW op \in DOMAIN Precursor, At(c, op)'
    PROVE  /\ Len(cmds[c].todo) > 1 /\ Busy(c)'
           /\ At(c, Precursor[op]) /\ KpiOf(c)' = KpiOf(c)
           /\ cmds'[c].day = cmds[c].day /\ cmds'[c].sh = cmds[c].sh /\ cmds'[c].end = cmds[c].end
<1> DEFINE old == cmds[c].todo
           new == cmds'[c].todo
<1>1. Busy(c) /\ Busy(c)' /\ new # << >> /\ Head(new).op = op /\ KpiOf(c)' = Head(new).k
  BY DEF MovesOn, At, Busy, KpiOf
<1>2. /\ 2 <= Len(old) /\ new[1] = old[2]
      /\ cmds'[c].day = cmds[c].day /\ cmds'[c].sh = cmds[c].sh /\ cmds'[c].end = cmds[c].end
  BY <1>1, Moved
<1>3. new \in Seq(Steps) /\ Head(new) = new[1]
  <2>1. cmds'[c] \in Job
    BY DEF MovesOn
  <2> QED
    BY <1>1, <2>1 DEF Job
<1>4. Len(old) \in Nat /\ KpiOf(c) = old[1].k /\ \A o : At(c, o) <=> old[1].op = o
  BY <1>1, AtFirst
<1>5. old[1] = Step(Precursor[op], old[2].k)
  <2>1. 1 \in 1..Len(old) /\ 2 \in 1..Len(old) /\ 2 = 1 + 1
    BY <1>2, <1>4
  <2>2. old[2].op = op /\ Chained(old)
    BY <1>1, <1>2, <1>3 DEF Programs
  <2> QED
    BY <2>1, <2>2 DEF Chained
<1>6. old[1].op = Precursor[op] /\ old[1].k = old[2].k
  BY <1>5 DEF Step
<1> QED
  BY <1>1, <1>2, <1>3, <1>4, <1>6

LEMMA LandStep ==
    ASSUME PipeIInv, NEW k \in Kpis, Land(k)
    PROVE  PipeIInv'
<1> USE DEF PipeIInv
<1>1. /\ UNCHANGED <<now, cmds, night, mixed, manual, pipeFaults>>
      /\ UNCHANGED <<raw, kpi_daily, kpi_baseline>>
      /\ UNCHANGED <<kpi_shift, kpi_shift_history, vessel_shift>>
  BY DEF Land, dayTables, shiftTables
<1>2. PICK t \in 0..now : landed' = [landed EXCEPT ![k] = @ \cup {t}]
  BY DEF Land
<1>3. landed' \in [Kpis -> SUBSET (0..now)] /\ \A j \in Kpis : landed[j] \subseteq landed'[j]
  BY <1>2 DEF PipeTypes
<1>4. PipeTypes'
  BY <1>1, <1>3 DEF PipeTypes
<1>5. Programs' /\ Windows' /\ PanelMatches'
  BY <1>1 DEF Programs, Windows, PanelMatches, Busy, date, current
<1>6. OfItsShift'
  BY <1>1, <1>3, ShiftRowsStay
<1>7. OfItsDay'
  BY <1>1, <1>3, DayRowsStay
<1>8. NightAlone'
  <2>1. now \in Nat
    BY DEF PipeTypes
  <2> QED
    BY <1>1, <2>1, NightStaysAlone DEF Busy
<1>9. RolledUp' /\ NightReading' /\ Baselines'
  BY <1>1, DaysStay
<1>10. Reading'
  BY <1>1, <1>3, OthersRead DEF Reading
<1> QED
  BY <1>4, <1>5, <1>6, <1>7, <1>8, <1>9, <1>10

LEMMA ClockStep ==
    ASSUME PipeIInv, PipeClock
    PROVE  PipeIInv'
<1> USE DEF PipeIInv
<1>1. /\ now' = now + 1 /\ now < PipeEnd /\ UNCHANGED pipeVars
      /\ UNCHANGED <<landed, cmds, night, mixed, manual, pipeFaults>>
      /\ UNCHANGED <<raw, kpi_daily, kpi_baseline>>
      /\ UNCHANGED <<kpi_shift, kpi_shift_history, vessel_shift>>
  BY DEF PipeClock, Advance, pipeVars
<1>2. now \in Nat /\ now' \in Nat /\ now <= now' /\ now' \in 0..PipeEnd /\ now' > 0
  BY <1>1, PipeAssumption DEF PipeTypes
<1>3. PipeTypes'
  <2>1. landed' \in [Kpis -> SUBSET (0..now')]
    <3>1. 0..now \subseteq 0..now'
      BY <1>2
    <3> QED
      BY <1>1, <3>1 DEF PipeTypes
  <2> QED
    BY <1>1, <1>2, <2>1 DEF PipeTypes
<1>4. Programs' /\ PanelMatches'
  BY <1>1 DEF Programs, PanelMatches
<1>5. Windows'
  <2>1. ASSUME NEW c \in ShiftTimers PROVE cmds[c].end <= now'
    <3>1. cmds[c].end \in Nat /\ cmds[c].end <= now
      BY DEF Windows, PipeTypes, Job, ShiftTimers, Commands, Timers
    <3> QED
      BY <1>2, <3>1
  <2> QED
    BY <1>1, <2>1 DEF Windows, Busy, date, current
<1>6. OfItsShift'
  BY <1>1, ShiftRowsStay
<1>7. OfItsDay'
  BY <1>1, DayRowsStay
<1>8. NightAlone'
  BY <1>1, <1>2, NightStaysAlone DEF Busy
<1>9. RolledUp' /\ NightReading' /\ Baselines'
  BY <1>1, DaysStay
<1>10. Reading'
  BY <1>1, OthersRead DEF Reading
<1> QED
  BY <1>3, <1>4, <1>5, <1>6, <1>7, <1>8, <1>9, <1>10

--------------------------------------------------------------------------------
(* The steps of a shift tick. *)

\* A KPI's rows of a shift are written by its own timer.
LEMMA ShiftKind ==
    ASSUME PipeIInv, NEW c \in Commands, NEW op \in {"fetch", "shift", "history", "vessel"}, At(c, op)
    PROVE  /\ c \in ShiftTimers /\ Busy(c) /\ KpiOf(c) \in Kpis /\ TimerOf(KpiOf(c)) = c
           /\ op = "vessel" => KpiOf(c) = "mph"
           /\ c # "nightly" /\ c # "manual"
           /\ cmds[c].day \in Days /\ cmds[c].sh \in Shifts /\ cmds[c].end \in Nat
           /\ cmds[c].read \subseteq Nat
<1>1. op \in ShiftSteps /\ op \notin DaySteps
  BY DEF ShiftSteps, DaySteps
<1>2. Busy(c) /\ c \in ShiftTimers
  BY <1>1, Kind DEF PipeIInv
<1>3. cmds[c] \in Job
  BY DEF PipeIInv, PipeTypes
<1> QED
  BY <1>1, <1>2, <1>3, Kind DEF PipeIInv, ShiftTimers, Job

LEMMA FetchStep ==
    ASSUME PipeIInv, NEW c \in Commands, fetch(c)
    PROVE  PipeIInv'
<1> USE DEF PipeIInv
<1> DEFINE j == cmds[c]
           K == KpiOf(c)
           w == Window(j)
           got == render_shift(K, j.src, w)
<1>1. /\ At(c, "fetch")
      /\ cmds' = [cmds EXCEPT ![c] = [Done(c) EXCEPT !.read = got]]
      /\ UNCHANGED <<now, landed, night, mixed, manual, pipeFaults>>
      /\ UNCHANGED <<raw, kpi_daily, kpi_baseline>>
      /\ UNCHANGED <<kpi_shift, kpi_shift_history, vessel_shift>>
  BY DEF fetch, rest, dayTables, shiftTables
<1>2. /\ c \in ShiftTimers /\ Busy(c) /\ K \in Kpis /\ TimerOf(K) = c /\ c # "nightly"
      /\ j.day \in Days /\ j.sh \in Shifts /\ j.end \in Nat
  BY <1>1, ShiftKind
<1>3. landed[K] \subseteq Nat /\ got \subseteq landed[K]
  <2>1. landed[K] \subseteq Nat
    BY <1>2 DEF PipeTypes
  <2> QED
    BY <2>1 DEF render_shift
<1>4. /\ j.day \in Nat /\ w.start = start_hour(j.day, j.sh) /\ w.end = j.end /\ w.start \in Nat
      /\ j.end < w.start + ShiftLen
  <2>1. j.day \in Nat
    BY <1>2 DEF Days
  <2>2. date(j.end) = j.day /\ current(j.end) = j.sh
    BY <1>2 DEF Windows
  <2>3. /\ start_hour(j.day, j.sh) \in Nat
        /\ start_hour(j.day, j.sh) <= j.end /\ j.end < start_hour(j.day, j.sh) + ShiftLen
    BY <1>2, <2>1, <2>2, InWindow
  <2>4. /\ window(j.day, j.sh).start = start_hour(j.day, j.sh)
        /\ window(j.day, j.sh).end = start_hour(j.day, j.sh) + ShiftLen
    BY DEF window
  <2>5. w.start = start_hour(j.day, j.sh) /\ w.end = j.end
    BY <2>3, <2>4 DEF Window, window
  <2> QED
    BY <2>1, <2>3, <2>5
<1>5. \A t \in got : w.start <= t /\ t <= j.end
  BY <1>2, <1>3, <1>4 DEF render_shift
<1>6. \A t \in got : t \in Nat /\ date(t) = j.day /\ current(t) = j.sh /\ t <= j.end
  <2>1. ASSUME NEW t \in got
        PROVE  t \in Nat /\ date(t) = j.day /\ current(t) = j.sh /\ t <= j.end
    <3>1. t \in Nat /\ w.start <= t /\ t <= j.end
      BY <1>3, <1>5
    <3>2. t < w.start + ShiftLen
      BY <1>2, <1>4, <3>1, PipeAssumption
    <3> HIDE DEF w
    <3> QED
      BY <1>2, <1>4, <3>1, <3>2, InWindow
  <2> QED
    BY <2>1
<1>7. kpi_shift[j.day][j.sh][K] \subseteq got
  <2>1. ASSUME NEW t \in kpi_shift[j.day][j.sh][K]
        PROVE  t \in got
    <3>1. /\ date(t) = j.day /\ current(t) = j.sh /\ t \in landed[K] /\ t <= j.end
          /\ t = j.end => ~\E x \in 1..Len(j.todo) : j.todo[x] = Step("fetch", K)
      BY <1>2 DEF OfItsShift
    <3>2. t # j.end
      <4>1. j.todo[1] \in Steps /\ j.todo[1].op = "fetch" /\ j.todo[1].k = K /\ 1 \in 1..Len(j.todo)
        BY <1>1, <1>2, AtFirst
      <4>2. j.todo[1] = Step("fetch", K)
        BY <4>1 DEF Steps, Step
      <4> QED
        BY <3>1, <4>1, <4>2
    <3>3. t \in Nat /\ start_hour(j.day, j.sh) <= t
      <4>1. t \in Nat
        BY <1>3, <3>1
      <4> QED
        BY <1>2, <1>4, <3>1, <4>1, InWindow
    <3>4. w.start <= t /\ t < w.end
      BY <1>2, <1>4, <3>1, <3>2, <3>3
    <3> QED
      BY <3>1, <3>4 DEF render_shift
  <2> QED
    BY <2>1
<1> HIDE DEF got, w
<1>8. MovesOn(c, 2) /\ (Len(j.todo) > 1 => cmds'[c].read = got)
  BY <1>1, <1>2, <1>3, DoneMovesOn
<1>9. PipeTypes'
  BY <1>1, <1>8 DEF PipeTypes, MovesOn
<1>10. /\ Programs' /\ Windows' /\ OfItsShift' /\ OfItsDay' /\ RolledUp'
       /\ NightAlone' /\ NightReading' /\ Baselines'
       /\ \A e \in Commands \ {c} : HasRead(e)'
  BY <1>1, <1>2, <1>8, Aside
<1>11. PanelMatches'
  BY <1>1 DEF PanelMatches
<1>12. HasRead(c)'
  <2>1. ASSUME NEW op \in DOMAIN Precursor, At(c, op)'
        PROVE  /\ op = "shift" /\ KpiOf(c)' = K /\ cmds'[c].read = got
               /\ cmds'[c].day = j.day /\ cmds'[c].sh = j.sh /\ cmds'[c].end = j.end
    <3>1. /\ Len(j.todo) > 1 /\ At(c, Precursor[op]) /\ KpiOf(c)' = K
          /\ cmds'[c].day = j.day /\ cmds'[c].sh = j.sh /\ cmds'[c].end = j.end
      BY <1>8, <2>1, NextStep
    <3>2. Precursor[op] = "fetch"
      BY <1>1, <3>1 DEF At
    <3>3. op = "shift"
      BY <3>2, AStep
    <3> QED
      BY <1>8, <3>1, <3>3
  <2>2. got \subseteq render_day(K, j.day)
    BY <1>3, <1>6 DEF render_day
  <2>4. \A op \in DOMAIN Precursor :
          At(c, op)' => cmds'[c].read \subseteq {t \in landed'[KpiOf(c)'] : date(t) = cmds'[c].day}
    BY <1>1, <2>1, <2>2 DEF render_day
  <2>5. \A op \in {"shift", "history", "vessel"} : op \in DOMAIN Precursor
    BY AStep
  <2>6. \A op \in {"shift", "history", "vessel"} : At(c, op)' =>
          \A t \in cmds'[c].read : current(t) = cmds'[c].sh /\ t <= cmds'[c].end
    BY <1>6, <2>1, <2>5
  <2>7. At(c, "shift")' => kpi_shift'[cmds'[c].day][cmds'[c].sh][KpiOf(c)'] \subseteq cmds'[c].read
    BY <1>1, <1>7, <2>1, <2>5
  <2>8. ~At(c, "history")' /\ ~At(c, "vessel")'
    BY <2>1, <2>5
  <2> QED
    BY <2>4, <2>6, <2>7, <2>8 DEF HasRead, render_day, date, current
<1> QED
  BY <1>9, <1>10, <1>11, <1>12 DEF Reading

LEMMA ShiftRowStep ==
    ASSUME PipeIInv, NEW c \in Commands, upsert_shift(c)
    PROVE  PipeIInv'
<1> USE DEF PipeIInv
<1> DEFINE j == cmds[c]
           K == KpiOf(c)
<1>1. /\ At(c, "shift")
      /\ kpi_shift' = [kpi_shift EXCEPT ![j.day][j.sh][K] = j.read]
      /\ cmds' = [cmds EXCEPT ![c] = Done(c)]
      /\ UNCHANGED <<now, landed, night, mixed, manual, pipeFaults>>
      /\ UNCHANGED <<raw, kpi_daily, kpi_baseline>>
      /\ UNCHANGED <<kpi_shift_history, vessel_shift>>
  BY DEF upsert_shift, Went, rest, dayTables
<1>2. /\ c \in ShiftTimers /\ Busy(c) /\ K \in Kpis /\ TimerOf(K) = c /\ c # "nightly"
      /\ j.day \in Days /\ j.sh \in Shifts /\ j.end \in Nat /\ j.read \subseteq Nat
  BY <1>1, ShiftKind
<1>3. /\ j.read \subseteq render_day(K, j.day)
      /\ \A t \in j.read : current(t) = j.sh /\ t <= j.end
      /\ kpi_shift[j.day][j.sh][K] \subseteq j.read
  BY <1>1, <1>2, AStep DEF Reading, HasRead
<1>4. MovesOn(c, 2) /\ (Len(j.todo) > 1 => cmds'[c].read = j.read)
  BY <1>1, <1>2, WentMovesOn
<1>5. /\ Programs'
      /\ \A e \in Commands :
           /\ Busy(e)' => Busy(e) /\ cmds'[e].day = cmds[e].day /\ cmds'[e].sh = cmds[e].sh
           /\ cmds'[e].end = cmds[e].end
           /\ \A x \in 1..Len(cmds'[e].todo) :
                \E y \in 1..Len(cmds[e].todo) : cmds'[e].todo[x] = cmds[e].todo[y]
      /\ \A x \in 1..Len(cmds'[c].todo) :
           Busy(c)' => x + 2 - 1 \in 2..Len(j.todo) /\ cmds'[c].todo[x] = j.todo[x + 2 - 1]
  BY <1>4, Moved
<1>6. ShiftTimers \subseteq Commands /\ "nightly" \in Commands
  BY DEF ShiftTimers, Commands, Timers
\* The row that is written, and the ones that are not.
<1>7. /\ kpi_shift' \in [Days -> [Shifts -> [Kpis -> SUBSET Nat]]]
      /\ kpi_shift'[j.day][j.sh][K] = j.read
      /\ \A d \in Days, s \in Shifts, k \in Kpis :
            ~(d = j.day /\ s = j.sh /\ k = K) => kpi_shift'[d][s][k] = kpi_shift[d][s][k]
  <2> HIDE DEF j, K
  <2> QED
    BY <1>1, <1>2 DEF PipeTypes
<1>8. \A d \in Days, s \in Shifts, k \in Kpis : kpi_shift[d][s][k] \subseteq kpi_shift'[d][s][k]
  BY <1>3, <1>7
<1>9. PipeTypes'
  BY <1>1, <1>4, <1>7 DEF PipeTypes, MovesOn
<1>10. Windows'
  <2>1. ASSUME NEW e \in ShiftTimers
        PROVE  /\ cmds'[e].end <= now
               /\ Busy(e)' => date(cmds'[e].end) = cmds'[e].day /\ current(cmds'[e].end) = cmds'[e].sh
    <3>1. e \in Commands
      BY <1>6
    <3> QED
      BY <1>5, <3>1 DEF Windows
  <2> QED
    BY <1>1, <2>1 DEF Windows, date, current
<1>11. OfItsShift'
  <2>1. ASSUME NEW d \in Days, NEW s \in Shifts, NEW k \in Kpis, NEW t \in kpi_shift'[d][s][k]
        PROVE  /\ date(t) = d /\ current(t) = s /\ t \in landed[k]
               /\ t <= cmds'[TimerOf(k)].end
               /\ t = cmds'[TimerOf(k)].end =>
                    ~\E x \in 1..Len(cmds'[TimerOf(k)].todo) :
                        cmds'[TimerOf(k)].todo[x] = Step("fetch", k)
    <3>1. TimerOf(k) \in ShiftTimers /\ TimerOf(k) \in Commands
      BY <1>6 DEF TimerOf, ShiftTimers
    <3>2. CASE ~(d = j.day /\ s = j.sh /\ k = K)
      <4>1. t \in kpi_shift[d][s][k]
        BY <1>7, <3>2
      <4> QED
        BY <1>5, <3>1, <4>1, SMTT(30) DEF OfItsShift
    <3>3. CASE d = j.day /\ s = j.sh /\ k = K
      <4>1. t \in j.read
        BY <1>7, <3>3
      <4>2. date(t) = d /\ current(t) = s /\ t \in landed[k] /\ t <= j.end
        BY <1>3, <3>3, <4>1 DEF render_day
      <4>3. TimerOf(k) = c /\ cmds'[c].end = j.end
        BY <1>2, <1>5, <3>3
      <4>4. ASSUME NEW x \in 1..Len(cmds'[c].todo) PROVE cmds'[c].todo[x] # Step("fetch", k)
        <5>1. Busy(c)' /\ x \in Nat /\ x >= 1
          <6>1. cmds'[c].todo = << >> => 1..Len(cmds'[c].todo) = {}
            OBVIOUS
          <6> QED
            BY <6>1 DEF Busy
        <5>2. x + 1 \in 2..Len(j.todo) /\ cmds'[c].todo[x] = j.todo[x + 1]
          <6>1. x + 2 - 1 = x + 1
            BY <5>1
          <6> QED
            BY <1>5, <5>1, <6>1
        <5>3. /\ 1 \in 1..Len(j.todo) /\ x + 1 \in 1..Len(j.todo) /\ 1 < x + 1
              /\ j.todo[1].op = "shift" /\ j.todo[1].k = K
          BY <1>1, <1>2, <5>1, <5>2, AtFirst
        <5>4. j.todo[x + 1].op = "fetch" => j.todo[x + 1].k # K
          BY <5>3 DEF Programs, Chained
        <5> QED
          BY <3>3, <5>2, <5>4 DEF Step
      <4> QED
        BY <4>2, <4>3, <4>4
    <3> QED
      BY <3>2, <3>3
  <2>2. landed' = landed
    BY <1>1
  <2> HIDE DEF j, K
  <2> QED
    BY <2>1, <2>2 DEF OfItsShift, date, current
<1>12. OfItsDay'
  BY <1>1, DayRowsStay
<1>13. NightAlone'
  <2>1. now \in Nat
    BY DEF PipeTypes
  <2> QED
    BY <1>1, <1>5, <2>1, NightStaysAlone
<1>14. RolledUp' /\ NightReading' /\ Baselines'
  <2>1. cmds'["nightly"] = cmds["nightly"]
    BY <1>2, <1>4, <1>6 DEF MovesOn
  <2> QED
    BY <1>1, <1>8, <2>1, DaysStay
<1>15. PanelMatches'
  BY <1>1, <1>8, AStep DEF PanelMatches
<1>16. ASSUME NEW e \in Commands, e # c PROVE HasRead(e)'
  <2>1. cmds'[e] = cmds[e] /\ HasRead(e)
    BY <1>4, <1>16 DEF MovesOn, Reading
  <2>2. ASSUME NEW op \in {"shift", "history", "vessel"}, At(e, op)
        PROVE  kpi_shift'[cmds[e].day][cmds[e].sh][KpiOf(e)]
                 = kpi_shift[cmds[e].day][cmds[e].sh][KpiOf(e)]
    <3>1. KpiOf(e) \in Kpis /\ TimerOf(KpiOf(e)) = e /\ cmds[e].day \in Days /\ cmds[e].sh \in Shifts
      BY <2>2, ShiftKind
    <3>2. KpiOf(e) # K
      BY <1>2, <1>16, <3>1
    <3> QED
      BY <1>7, <3>1, <3>2
  <2> QED
    BY <1>1, <2>1, <2>2, OthersRead
<1>17. HasRead(c)'
  <2>1. ASSUME NEW op \in DOMAIN Precursor, At(c, op)'
        PROVE  /\ op = "history" /\ KpiOf(c)' = K /\ cmds'[c].read = j.read
               /\ cmds'[c].day = j.day /\ cmds'[c].sh = j.sh /\ cmds'[c].end = j.end
    <3>1. /\ Len(j.todo) > 1 /\ At(c, Precursor[op]) /\ KpiOf(c)' = K
          /\ cmds'[c].day = j.day /\ cmds'[c].sh = j.sh /\ cmds'[c].end = j.end
      BY <1>4, <2>1, NextStep
    <3>2. Precursor[op] = "shift"
      BY <1>1, <3>1 DEF At
    <3>3. op = "history"
      BY <3>2, AStep
    <3> QED
      BY <1>4, <3>1, <3>3
  <2>2. \A op \in DOMAIN Precursor :
          At(c, op)' => cmds'[c].read \subseteq {t \in landed'[KpiOf(c)'] : date(t) = cmds'[c].day}
    BY <1>1, <1>3, <2>1 DEF render_day
  <2>3. \A op \in {"shift", "history", "vessel"} : op \in DOMAIN Precursor
    BY AStep
  <2>4. \A op \in {"shift", "history", "vessel"} : At(c, op)' =>
          \A t \in cmds'[c].read : current(t) = cmds'[c].sh /\ t <= cmds'[c].end
    BY <1>3, <2>1, <2>3
  <2>5. At(c, "history")' => kpi_shift'[cmds'[c].day][cmds'[c].sh][KpiOf(c)'] = cmds'[c].read
    BY <1>7, <2>1, <2>3
  <2>6. ~At(c, "shift")' /\ ~At(c, "vessel")'
    BY <2>1, <2>3
  <2> QED
    BY <2>2, <2>4, <2>5, <2>6 DEF HasRead, render_day, date, current
<1> QED
  BY <1>5, <1>9, <1>10, <1>11, <1>12, <1>13, <1>14, <1>15, <1>16, <1>17 DEF Reading

LEMMA HistoryStep ==
    ASSUME PipeIInv, NEW c \in Commands, append_history(c)
    PROVE  PipeIInv'
<1> USE DEF PipeIInv
<1> DEFINE j == cmds[c]
           K == KpiOf(c)
<1>1. /\ At(c, "history")
      /\ kpi_shift_history' = [kpi_shift_history EXCEPT ![j.day][j.sh][K] = j.read]
      /\ cmds' = [cmds EXCEPT ![c] = Done(c)]
      /\ UNCHANGED <<now, landed, night, mixed, manual, pipeFaults>>
      /\ UNCHANGED <<raw, kpi_daily, kpi_baseline>>
      /\ UNCHANGED <<kpi_shift, vessel_shift>>
  BY DEF append_history, Went, rest, dayTables
<1>2. /\ c \in ShiftTimers /\ Busy(c) /\ K \in Kpis /\ TimerOf(K) = c /\ c # "nightly"
      /\ j.day \in Days /\ j.sh \in Shifts /\ j.end \in Nat /\ j.read \subseteq Nat
  BY <1>1, ShiftKind
<1>3. /\ j.read \subseteq render_day(K, j.day)
      /\ \A t \in j.read : current(t) = j.sh /\ t <= j.end
      /\ kpi_shift[j.day][j.sh][K] = j.read
  BY <1>1, <1>2, AStep DEF Reading, HasRead
<1>4. MovesOn(c, 2) /\ (Len(j.todo) > 1 => cmds'[c].read = j.read)
  BY <1>1, <1>2, WentMovesOn
<1>5. /\ kpi_shift_history' \in [Days -> [Shifts -> [Kpis -> SUBSET Nat]]]
      /\ kpi_shift_history'[j.day][j.sh][K] = j.read
      /\ \A d \in Days, s \in Shifts, k \in Kpis :
            ~(d = j.day /\ s = j.sh /\ k = K) => kpi_shift_history'[d][s][k] = kpi_shift_history[d][s][k]
  <2> HIDE DEF j, K
  <2> QED
    BY <1>1, <1>2 DEF PipeTypes
<1>6. PipeTypes'
  BY <1>1, <1>4, <1>5 DEF PipeTypes, MovesOn
<1>7. /\ Programs' /\ Windows' /\ OfItsShift' /\ OfItsDay' /\ RolledUp'
      /\ NightAlone' /\ NightReading' /\ Baselines'
      /\ \A e \in Commands \ {c} : HasRead(e)'
  BY <1>1, <1>2, <1>4, Aside
<1>8. PanelMatches'
  <2>1. ASSUME NEW d \in Days, NEW s \in Shifts, NEW k \in Kpis
        PROVE  kpi_shift_history'[d][s][k] \subseteq kpi_shift[d][s][k]
    <3> HIDE DEF j, K
    <3>1. CASE d = j.day /\ s = j.sh /\ k = K
      BY <1>3, <1>5, <3>1
    <3>2. CASE ~(d = j.day /\ s = j.sh /\ k = K)
      <4>1. kpi_shift_history[d][s][k] \subseteq kpi_shift[d][s][k]
        BY DEF PanelMatches
      <4> QED
        BY <1>5, <3>2, <4>1
    <3> QED
      BY <3>1, <3>2
  <2> QED
    BY <1>1, <2>1 DEF PanelMatches
<1>9. HasRead(c)'
  <2>1. ASSUME NEW op \in DOMAIN Precursor, At(c, op)'
        PROVE  /\ op = "vessel" /\ KpiOf(c)' = K /\ cmds'[c].read = j.read
               /\ cmds'[c].day = j.day /\ cmds'[c].sh = j.sh /\ cmds'[c].end = j.end
    <3>1. /\ Len(j.todo) > 1 /\ At(c, Precursor[op]) /\ KpiOf(c)' = K
          /\ cmds'[c].day = j.day /\ cmds'[c].sh = j.sh /\ cmds'[c].end = j.end
      BY <1>4, <2>1, NextStep
    <3>2. Precursor[op] = "history"
      BY <1>1, <3>1 DEF At
    <3>3. op = "vessel"
      BY <3>2, AStep
    <3> QED
      BY <1>4, <3>1, <3>3
  <2>2. \A op \in DOMAIN Precursor :
          At(c, op)' => cmds'[c].read \subseteq {t \in landed'[KpiOf(c)'] : date(t) = cmds'[c].day}
    BY <1>1, <1>3, <2>1 DEF render_day
  <2>3. \A op \in {"shift", "history", "vessel"} : op \in DOMAIN Precursor
    BY AStep
  <2>4. \A op \in {"shift", "history", "vessel"} : At(c, op)' =>
          \A t \in cmds'[c].read : current(t) = cmds'[c].sh /\ t <= cmds'[c].end
    BY <1>3, <2>1, <2>3
  <2>5. At(c, "vessel")' => kpi_shift'[cmds'[c].day][cmds'[c].sh][KpiOf(c)'] = cmds'[c].read
    BY <1>1, <1>3, <2>1, <2>3
  <2>6. ~At(c, "shift")' /\ ~At(c, "history")'
    BY <2>1, <2>3
  <2> QED
    BY <2>2, <2>4, <2>5, <2>6 DEF HasRead, render_day, date, current
<1> QED
  BY <1>6, <1>7, <1>8, <1>9 DEF Reading

LEMMA VesselStep ==
    ASSUME PipeIInv, NEW c \in Commands, write_vessel_shift(c)
    PROVE  PipeIInv'
<1> USE DEF PipeIInv
<1> DEFINE j == cmds[c]
           K == KpiOf(c)
<1>1. /\ At(c, "vessel")
      /\ vessel_shift' = [vessel_shift EXCEPT ![j.day][j.sh] = j.read]
      /\ cmds' = [cmds EXCEPT ![c] = Done(c)]
      /\ UNCHANGED <<now, landed, night, mixed, manual, pipeFaults>>
      /\ UNCHANGED <<raw, kpi_daily, kpi_baseline>>
      /\ UNCHANGED <<kpi_shift, kpi_shift_history>>
  BY DEF write_vessel_shift, VesselRows, Went, rest, dayTables
<1>2. /\ c \in ShiftTimers /\ Busy(c) /\ K = "mph" /\ c # "nightly"
      /\ j.day \in Days /\ j.sh \in Shifts /\ j.end \in Nat /\ j.read \subseteq Nat
  BY <1>1, ShiftKind
<1>3. kpi_shift[j.day][j.sh]["mph"] = j.read
  BY <1>1, <1>2 DEF Reading, HasRead
<1>4. MovesOn(c, 2)
  BY <1>1, <1>2, WentMovesOn
<1>5. /\ vessel_shift' \in [Days -> [Shifts -> SUBSET Nat]]
      /\ vessel_shift'[j.day][j.sh] = j.read
      /\ \A d \in Days, s \in Shifts :
            ~(d = j.day /\ s = j.sh) => vessel_shift'[d][s] = vessel_shift[d][s]
  <2> HIDE DEF j
  <2> QED
    BY <1>1, <1>2 DEF PipeTypes
<1>6. PipeTypes'
  BY <1>1, <1>4, <1>5 DEF PipeTypes, MovesOn
<1>7. /\ Programs' /\ Windows' /\ OfItsShift' /\ OfItsDay' /\ RolledUp'
      /\ NightAlone' /\ NightReading' /\ Baselines'
      /\ \A e \in Commands \ {c} : HasRead(e)'
  BY <1>1, <1>2, <1>4, Aside
<1>8. PanelMatches'
  <2>1. \A d \in Days, s \in Shifts : vessel_shift'[d][s] \subseteq kpi_shift[d][s]["mph"]
    BY <1>3, <1>5 DEF PanelMatches
  <2> QED
    BY <1>1, <2>1 DEF PanelMatches
<1>9. HasRead(c)'
  <2>1. ASSUME NEW op \in DOMAIN Precursor, At(c, op)' PROVE FALSE
    <3>1. At(c, Precursor[op])
      BY <1>4, <2>1, NextStep
    <3>2. Precursor[op] = "vessel"
      BY <1>1, <3>1 DEF At
    <3> QED
      BY <3>2, AStep
  <2> QED
    BY <2>1, AStep DEF HasRead
<1> QED
  BY <1>6, <1>7, <1>8, <1>9 DEF Reading

\* A step that nothing needs as its precursor leaves nothing to be written.
LEMMA NothingRead ==
    ASSUME PipeTypes, Programs, NEW c \in Commands, MovesOn(c, 2), NEW op, At(c, op),
           op \notin {"fetch", "shift", "history", "extract"}
    PROVE  HasRead(c)' /\ ~At(c, "upsert")'
<1>1. ASSUME NEW next \in DOMAIN Precursor, At(c, next)' PROVE FALSE
  <2>1. At(c, Precursor[next])
    BY <1>1, NextStep
  <2>2. Precursor[next] = op
    BY <2>1 DEF At
  <2>3. Precursor[next] \in {"fetch", "shift", "history", "extract"}
    BY AStep
  <2> QED
    BY <2>2, <2>3
<1> QED
  BY <1>1, AStep DEF HasRead

\* What a step may do to the rows of the days.
KeepsDays ==
    /\ \A d \in Days, k \in Kpis :
         kpi_daily[d][k].mark = "final" =>
            kpi_daily'[d][k].mark = "final" \/ At("manual", "provisional")
    /\ \A d \in Days \ mixed', k \in Kpis : kpi_daily[d][k].moves \subseteq kpi_daily'[d][k].moves

\* The roll-up of the shifts: moves of the day that have landed.
LEMMA RolledMoves ==
    ASSUME PipeTypes, OfItsShift, NEW d \in Days, NEW k \in Kpis
    PROVE  ShiftMoves(d, k) \subseteq render_day(k, d) /\ ShiftMoves(d, k) \subseteq Nat
<1>1. ASSUME NEW s \in Shifts PROVE kpi_shift[d][s][k] \subseteq render_day(k, d)
  BY DEF OfItsShift, render_day
<1>2. landed[k] \subseteq Nat
  BY DEF PipeTypes
<1>3. render_day(k, d) \subseteq Nat
  BY <1>2 DEF render_day
<1> QED
  BY <1>1, <1>3 DEF ShiftMoves

LEMMA RollupStep ==
    ASSUME PipeIInv, NEW c \in Commands, rollup_today_from_shifts(c)
    PROVE  PipeIInv' /\ KeepsDays
<1> USE DEF PipeIInv
<1> DEFINE day == cmds[c].day
<1>1. /\ At(c, "rollup")
      /\ kpi_daily' = [kpi_daily EXCEPT ![day] = [k \in Kpis |-> Rolled(day, k)]]
      /\ cmds' = [cmds EXCEPT ![c] = Done(c)]
      /\ UNCHANGED <<now, landed, night, mixed, manual, pipeFaults>>
      /\ UNCHANGED <<raw, kpi_baseline>>
      /\ UNCHANGED <<kpi_shift, kpi_shift_history, vessel_shift>>
  BY DEF rollup_today_from_shifts, Went, rest, shiftTables
<1>2. Busy(c) /\ c \in ShiftTimers /\ c # "nightly" /\ day \in Days
  <2>1. "rollup" \notin DaySteps
    BY DEF DaySteps
  <2>2. Busy(c) /\ c \in ShiftTimers
    BY <1>1, <2>1, Kind
  <2> QED
    BY <2>2 DEF ShiftTimers, PipeTypes, Job
<1>3. MovesOn(c, 2)
  BY <1>1, <1>2, WentMovesOn
<1> HIDE DEF day
<1>4. \A k \in Kpis : Rolled(day, k) \in Daily
  <2>1. ASSUME NEW k \in Kpis PROVE Rolled(day, k) \in Daily
    <3>1. ShiftMoves(day, k) \in SUBSET Nat /\ kpi_daily[day][k] \in Daily
      BY <1>2, RolledMoves DEF PipeTypes
    <3> QED
      BY <3>1 DEF Rolled, Daily
  <2> QED
    BY <2>1
<1>5. /\ kpi_daily' \in [Days -> [Kpis -> Daily]]
      /\ \A d \in Days : d # day => kpi_daily'[d] = kpi_daily[d]
      /\ kpi_daily'[day] = [k \in Kpis |-> Rolled(day, k)]
  BY <1>1, <1>2, <1>4 DEF PipeTypes
<1>6. \A d \in Days, k \in Kpis :
        \/ kpi_daily'[d][k] = kpi_daily[d][k]
        \/ /\ d = day /\ k \in RawKpis /\ kpi_daily[d][k].mark # "final"
           /\ kpi_daily'[d][k].moves = ShiftMoves(d, k) /\ kpi_daily'[d][k].mark = "provisional"
  <2>1. ASSUME NEW d \in Days, NEW k \in Kpis
        PROVE  \/ kpi_daily'[d][k] = kpi_daily[d][k]
               \/ /\ d = day /\ k \in RawKpis /\ kpi_daily[d][k].mark # "final"
                  /\ kpi_daily'[d][k].moves = ShiftMoves(d, k)
                  /\ kpi_daily'[d][k].mark = "provisional"
    <3>1. CASE d # day
      BY <1>5, <3>1
    <3>2. CASE d = day
      <4>1. kpi_daily'[d][k] = Rolled(d, k)
        BY <1>5, <3>2
      <4> QED
        BY <3>2, <4>1 DEF Rolled
    <3> QED
      BY <3>1, <3>2
  <2> QED
    BY <2>1
<1>7. PipeTypes'
  BY <1>1, <1>3, <1>5 DEF PipeTypes, MovesOn
<1>8. /\ Programs' /\ Windows' /\ OfItsShift' /\ NightAlone'
      /\ \A e \in Commands \ {c} : HasRead(e)'
  BY <1>1, <1>3, ShiftsAside
<1>9. Reading' /\ PanelMatches'
  BY <1>1, <1>3, <1>8, NothingRead DEF Reading, PanelMatches
<1>10. OfItsDay'
  <2>1. ASSUME NEW d \in Days, NEW k \in Kpis
        PROVE  kpi_daily'[d][k].moves \subseteq render_day(k, d)
    BY <1>6, RolledMoves DEF OfItsDay
  <2> QED
    BY <1>1, <2>1 DEF OfItsDay, render_day, date
<1>11. RolledUp'
  <2>1. ASSUME NEW d \in Days, d \notin mixed, NEW k \in Kpis, kpi_daily'[d][k].mark # "final"
        PROVE  kpi_daily'[d][k].moves \subseteq (IF k \in RawKpis THEN ShiftMoves(d, k) ELSE {})
    BY <1>6, <2>1 DEF RolledUp
  <2> QED
    BY <1>1, <2>1 DEF RolledUp, ShiftMoves
<1>12. cmds'["nightly"] = cmds["nightly"] /\ "nightly" \in Commands
  BY <1>2, <1>3 DEF MovesOn, Commands, Timers
<1>13. NightReading'
  <2>0. SUFFICES ASSUME Busy("nightly")', cmds'["nightly"].day \notin mixed' PROVE NightReading'
    BY DEF NightReading
  <2>1. Busy("nightly") /\ cmds["nightly"].day \notin mixed
    BY <1>1, <1>12, <2>0 DEF Busy
  <2>2. cmds["nightly"].day # day /\ cmds["nightly"].day \in Days
    BY <1>2, <1>12, <2>1 DEF NightAlone, day, PipeTypes, Job
  <2>3. kpi_daily'[cmds["nightly"].day] = kpi_daily[cmds["nightly"].day]
    BY <1>5, <2>2
  <2> QED
    BY <1>1, <1>12, <2>3 DEF NightReading, Busy, Pending, At, KpiOf
<1>14. Baselines'
  <2>1. ASSUME NEW d \in Days, d \notin mixed, NEW k \in Kpis, kpi_daily'[d][k].mark = "final"
        PROVE  kpi_daily'[d][k] = kpi_daily[d][k]
    BY <1>6, <2>1
  <2> QED
    BY <1>1, <1>12, <2>1 DEF Baselines, Busy
<1>15. KeepsDays
  BY <1>1, <1>6 DEF KeepsDays, RolledUp
<1> QED
  BY <1>7, <1>8, <1>9, <1>10, <1>11, <1>13, <1>14, <1>15

--------------------------------------------------------------------------------
(* The steps of the day path. *)

LEMMA DayKind ==
    ASSUME PipeIInv, NEW c \in Commands, NEW op \in DaySteps, At(c, op)
    PROVE  /\ c \in DayTimers /\ c \notin ShiftTimers /\ Busy(c)
           /\ cmds[c].day \in Days /\ cmds[c].read \subseteq Nat
           /\ op \in {"extract", "upsert"} => KpiOf(c) \in RawKpis /\ KpiOf(c) \in Kpis
           /\ op = "provisional" => c = "manual"
           /\ c = "manual" => cmds[c].day \in mixed
<1>1. op \notin ShiftSteps
  BY DEF ShiftSteps, DaySteps
<1>2. Busy(c) /\ c \notin ShiftTimers
  BY <1>1, Kind DEF PipeIInv
<1>3. c \in DayTimers
  BY <1>2 DEF DayTimers, ShiftTimers, Commands, Timers
<1>4. cmds[c] \in Job
  BY DEF PipeIInv, PipeTypes
<1>5. /\ op \in {"extract", "upsert"} => KpiOf(c) \in RawKpis /\ KpiOf(c) \in Kpis
      /\ op = "provisional" => c = "manual"
  BY <1>2, Kind, AStep DEF PipeIInv
<1>6. c = "manual" => cmds[c].day \in mixed
  BY <1>2 DEF PipeIInv, NightAlone
<1> QED
  BY <1>2, <1>3, <1>4, <1>5, <1>6 DEF Job

\* The nightly run ends with its baseline.
LEMMA NightGoesOn ==
    ASSUME PipeTypes, Programs, MovesOn("nightly", 2), NEW op, At("nightly", op), op # "baseline"
    PROVE  Busy("nightly")' /\ cmds'["nightly"].day = cmds["nightly"].day
           /\ Len(cmds["nightly"].todo) > 1
<1> DEFINE old == cmds["nightly"].todo
<1>1. "nightly" \in Commands
  BY DEF Commands, Timers
<1>2. /\ old \in Seq(Steps) /\ Len(old) \in Nat \ {0} /\ old[1].op = op /\ old # << >>
  BY <1>1, AtFirst DEF PipeTypes, Job, Busy
<1>3. old[Len(old)].op = "baseline"
  BY <1>1, <1>2 DEF Programs
<1>4. Len(old) # 1
  BY <1>2, <1>3
<1>5. Len(old) > 1
  <2>1. \A len \in Nat \ {0} : len # 1 => len > 1
    OBVIOUS
  <2> HIDE DEF old
  <2> QED
    BY <1>2, <1>4, <2>1
<1>6. cmds'["nightly"].todo = SubSeq(old, 2, Len(old)) /\ cmds'["nightly"].day = cmds["nightly"].day
  BY <1>2, <1>5 DEF MovesOn
<1>7. SubSeq(old, 2, Len(old)) # << >>
  <2>1. 2 \in 1..Len(old)
    BY <1>2, <1>5
  <2>2. Len(SubSeq(old, 2, Len(old))) = Len(old) - 2 + 1
    BY <1>2, <2>1, Rest
  <2>3. Len(SubSeq(old, 2, Len(old))) > 0
    BY <1>2, <1>5, <2>2
  <2> QED
    BY <2>3
<1> QED
  BY <1>5, <1>6, <1>7 DEF Busy

LEMMA StillPending ==
    ASSUME PipeTypes, MovesOn("nightly", 2), NEW k, Pending(k),
           cmds["nightly"].todo[1] # Step("upsert", k)
    PROVE  Pending(k)'
<1> DEFINE old == cmds["nightly"].todo
           new == cmds'["nightly"].todo
<1>1. "nightly" \in Commands
  BY DEF Commands, Timers
<1>2. old \in Seq(Steps) /\ Len(old) \in Nat
  BY <1>1 DEF PipeTypes, Job
<1>3. PICK y \in 1..Len(old) : old[y] = Step("upsert", k)
  BY DEF Pending
<1>4. y # 1
  BY <1>3
<1>5. y \in 2..Len(old) /\ 2 \in 1..Len(old) /\ ~(2 > Len(old))
  BY <1>2, <1>4
<1>6. new = SubSeq(old, 2, Len(old))
  BY <1>5 DEF MovesOn
<1> HIDE DEF new, old
<1>7. Len(new) = Len(old) - 2 + 1 /\ \A x \in 1..(Len(old) - 2 + 1) : new[x] = old[x + 2 - 1]
  BY <1>2, <1>5, <1>6, Rest
<1>8. y - 1 \in 1..Len(new) /\ y - 1 \in 1..(Len(old) - 2 + 1) /\ (y - 1) + 2 - 1 = y
  BY <1>2, <1>5, <1>7
<1>9. new[y - 1] = old[y]
  BY <1>7, <1>8
<1> QED
  BY <1>3, <1>8, <1>9 DEF Pending, new

LEMMA QueryStep ==
    ASSUME PipeIInv, NEW c \in Commands, query_day(c)
    PROVE  PipeIInv'
<1> USE DEF PipeIInv
<1> DEFINE day == cmds[c].day
           K == KpiOf(c)
           got == render_day(K, day)
<1>1. /\ At(c, "extract")
      /\ cmds' = [cmds EXCEPT ![c] = [Done(c) EXCEPT !.read = got]]
      /\ UNCHANGED <<now, landed, night, mixed, manual, pipeFaults>>
      /\ UNCHANGED <<raw, kpi_daily, kpi_baseline>>
      /\ UNCHANGED <<kpi_shift, kpi_shift_history, vessel_shift>>
  BY DEF query_day, rest, dayTables, shiftTables
<1>2. c \in DayTimers /\ Busy(c) /\ day \in Days /\ K \in RawKpis /\ K \in Kpis
      /\ (c = "manual" => day \in mixed)
  <2>1. "extract" \in DaySteps
    BY DEF DaySteps
  <2> QED
    BY <1>1, <2>1, DayKind
<1>3. got \in SUBSET Nat
  <2>1. landed[K] \subseteq Nat
    BY <1>2 DEF PipeTypes
  <2> QED
    BY <2>1 DEF render_day
<1>4. MovesOn(c, 2) /\ (Len(cmds[c].todo) > 1 => cmds'[c].read = got)
  BY <1>1, <1>2, <1>3, DoneMovesOn
<1> HIDE DEF got
<1>5. PipeTypes'
  BY <1>1, <1>4 DEF PipeTypes, MovesOn
<1>6. /\ Programs' /\ Windows' /\ OfItsShift' /\ NightAlone'
      /\ \A e \in Commands \ {c} : HasRead(e)'
  BY <1>1, <1>4, ShiftsAside
<1>7. OfItsDay' /\ PanelMatches'
  BY <1>1, DayRowsStay DEF PanelMatches
<1>8. ASSUME NEW op \in DOMAIN Precursor, At(c, op)'
      PROVE  op = "upsert" /\ KpiOf(c)' = K /\ cmds'[c].read = got /\ cmds'[c].day = day
  <2>1. /\ Len(cmds[c].todo) > 1 /\ At(c, Precursor[op]) /\ KpiOf(c)' = K /\ cmds'[c].day = day
    BY <1>4, <1>8, NextStep
  <2>2. Precursor[op] = "extract"
    BY <1>1, <2>1 DEF At
  <2>3. op = "upsert"
    BY <2>2, AStep
  <2> QED
    BY <1>4, <2>1, <2>3
<1>9. HasRead(c)'
  <2>1. \A op \in DOMAIN Precursor :
          At(c, op)' => cmds'[c].read \subseteq {t \in landed'[KpiOf(c)'] : date(t) = cmds'[c].day}
    BY <1>1, <1>8 DEF render_day, got
  <2>2. ~At(c, "shift")' /\ ~At(c, "history")' /\ ~At(c, "vessel")'
    BY <1>8, AStep
  <2> QED
    BY <2>1, <2>2 DEF HasRead, render_day, date
<1>10. CASE c = "manual"
  <2>1. RolledUp' /\ NightReading' /\ Baselines'
    BY <1>1, <1>4, <1>10, Aside
  <2> QED
    BY <1>5, <1>6, <1>7, <1>9, <2>1 DEF Reading
<1>11. CASE c = "nightly"
  <2>1. Busy("nightly")' /\ cmds'["nightly"].day = day /\ Busy("nightly")
    BY <1>1, <1>2, <1>4, <1>11, NightGoesOn
  <2>2. RolledUp'
    BY <1>1 DEF RolledUp, ShiftMoves
  <2>3. Baselines'
    BY <1>1, <1>11, <2>1 DEF Baselines
  <2>4. NightReading'
    <3>1. SUFFICES ASSUME day \notin mixed, NEW k \in RawKpis
                   PROVE  /\ Pending(k)' \/ kpi_daily[day][k].moves \subseteq raw[day][k]
                          /\ At("nightly", "upsert")' /\ KpiOf("nightly")' = k =>
                               kpi_daily[day][k].moves \subseteq cmds'["nightly"].read
      BY <1>1, <2>1 DEF NightReading
    <3>2. Pending(k) \/ kpi_daily[day][k].moves \subseteq raw[day][k]
      BY <1>11, <2>1, <3>1 DEF NightReading
    <3>3. Pending(k) => Pending(k)'
      <4>1. cmds["nightly"].todo[1] # Step("upsert", k)
        BY <1>1, <1>11, AtFirst DEF Step
      <4> QED
        BY <1>4, <1>11, <4>1, StillPending
    <3>4. At("nightly", "upsert")' /\ KpiOf("nightly")' = k =>
            kpi_daily[day][k].moves \subseteq cmds'["nightly"].read
      <4>1. kpi_daily[day][K].moves \subseteq got
        BY <1>2 DEF OfItsDay, got
      <4>2. "upsert" \in DOMAIN Precursor
        BY AStep
      <4> QED
        BY <1>8, <1>11, <4>1, <4>2
    <3> QED
      BY <3>2, <3>3, <3>4
  <2> QED
    BY <1>5, <1>6, <1>7, <1>9, <2>2, <2>3, <2>4 DEF Reading
<1> QED
  BY <1>2, <1>10, <1>11 DEF DayTimers

LEMMA RawStep ==
    ASSUME PipeIInv, NEW c \in Commands, upsert_raw(c)
    PROVE  PipeIInv'
<1> USE DEF PipeIInv
<1> DEFINE day == cmds[c].day
           K == KpiOf(c)
           read == cmds[c].read
<1>1. /\ At(c, "upsert")
      /\ raw' = [raw EXCEPT ![day][K] = IF read = {} THEN @ ELSE read]
      /\ cmds' = [cmds EXCEPT ![c] = Done(c)]
      /\ UNCHANGED <<now, landed, night, mixed, manual, pipeFaults>>
      /\ UNCHANGED <<kpi_daily, kpi_baseline>>
      /\ UNCHANGED <<kpi_shift, kpi_shift_history, vessel_shift>>
  BY DEF upsert_raw, Went, rest, shiftTables
<1>2. c \in DayTimers /\ Busy(c) /\ day \in Days /\ K \in RawKpis /\ K \in Kpis /\ read \subseteq Nat
      /\ (c = "manual" => day \in mixed)
  <2>1. "upsert" \in DaySteps
    BY DEF DaySteps
  <2> QED
    BY <1>1, <2>1, DayKind
<1>3. read \subseteq render_day(K, day)
  BY <1>1, AStep DEF Reading, HasRead
<1>4. MovesOn(c, 2)
  BY <1>1, <1>2, WentMovesOn
<1>5. /\ raw' \in [Days -> [RawKpis -> SUBSET Nat]]
      /\ raw'[day][K] = (IF read = {} THEN raw[day][K] ELSE read)
      /\ \A d \in Days, k \in RawKpis : ~(d = day /\ k = K) => raw'[d][k] = raw[d][k]
  <2> HIDE DEF day, K, read
  <2> QED
    BY <1>1, <1>2 DEF PipeTypes
<1>6. PipeTypes'
  BY <1>1, <1>4, <1>5 DEF PipeTypes, MovesOn
<1>7. /\ Programs' /\ Windows' /\ OfItsShift' /\ NightAlone'
      /\ \A e \in Commands \ {c} : HasRead(e)'
  BY <1>1, <1>4, ShiftsAside
<1>8. HasRead(c)' /\ ~At(c, "upsert")' /\ PanelMatches'
  BY <1>1, <1>4, NothingRead DEF PanelMatches
<1>9. OfItsDay'
  <2>1. ASSUME NEW d \in Days, NEW k \in RawKpis PROVE raw'[d][k] \subseteq render_day(k, d)
    <3>1. raw[d][k] \subseteq render_day(k, d)
      BY <2>1, AStep DEF OfItsDay
    <3> HIDE DEF day, K, read
    <3> QED
      BY <1>3, <1>5, <3>1
  <2> QED
    BY <1>1, <2>1 DEF OfItsDay, render_day, date
<1>10. RolledUp'
  BY <1>1 DEF RolledUp, ShiftMoves
<1>11. CASE c = "manual"
  <2>1. cmds'["nightly"] = cmds["nightly"] /\ "nightly" \in Commands
    BY <1>4, <1>11 DEF MovesOn, Commands, Timers
  <2>2. Baselines'
    BY <1>1, <2>1 DEF Baselines, Busy
  <2>3. NightReading'
    <3>0. /\ Busy("nightly")' <=> Busy("nightly")
          /\ \A k \in RawKpis : Pending(k)' <=> Pending(k)
          /\ At("nightly", "upsert")' <=> At("nightly", "upsert")
          /\ KpiOf("nightly")' = KpiOf("nightly")
      BY <2>1 DEF Busy, Pending, At, KpiOf
    <3>1. SUFFICES ASSUME Busy("nightly"), cmds["nightly"].day \notin mixed, NEW k \in RawKpis
                   PROVE  /\ Pending(k) \/ kpi_daily[cmds["nightly"].day][k].moves
                                             \subseteq raw'[cmds["nightly"].day][k]
                          /\ At("nightly", "upsert") /\ KpiOf("nightly") = k =>
                               kpi_daily[cmds["nightly"].day][k].moves \subseteq cmds["nightly"].read
      BY <1>1, <2>1, <3>0 DEF NightReading
    <3>2. cmds["nightly"].day # day /\ cmds["nightly"].day \in Days
      BY <1>2, <1>11, <2>1, <3>1 DEF PipeTypes, Job
    <3>3. raw'[cmds["nightly"].day][k] = raw[cmds["nightly"].day][k]
      BY <1>5, <3>2
    <3> QED
      BY <3>1, <3>3 DEF NightReading
  <2> QED
    BY <1>6, <1>7, <1>8, <1>9, <1>10, <2>2, <2>3 DEF Reading
<1>12. CASE c = "nightly"
  <2>1. Busy("nightly")' /\ cmds'["nightly"].day = day /\ Busy("nightly")
    BY <1>1, <1>2, <1>4, <1>12, NightGoesOn
  <2>2. Baselines'
    BY <1>1, <1>12, <2>1 DEF Baselines
  <2>3. NightReading'
    <3>1. SUFFICES ASSUME day \notin mixed, NEW k \in RawKpis
                   PROVE  Pending(k)' \/ kpi_daily[day][k].moves \subseteq raw'[day][k]
      BY <1>1, <1>8, <1>12, <2>1 DEF NightReading
    <3>2. /\ Pending(k) \/ kpi_daily[day][k].moves \subseteq raw[day][k]
          /\ k = K => kpi_daily[day][k].moves \subseteq read
      BY <1>1, <1>12, <2>1, <3>1 DEF NightReading
    <3>3. CASE k = K
      BY <1>5, <3>2, <3>3
    <3>4. CASE k # K
      <4>1. cmds["nightly"].todo[1] # Step("upsert", k)
        BY <1>2, <1>12, <3>4, AtFirst DEF Step
      <4>2. Pending(k) => Pending(k)'
        BY <1>4, <1>12, <4>1, StillPending
      <4> QED
        BY <1>2, <1>5, <3>2, <3>4, <4>2
    <3> QED
      BY <3>3, <3>4
  <2> QED
    BY <1>6, <1>7, <1>8, <1>9, <1>10, <2>2, <2>3 DEF Reading
<1> QED
  BY <1>2, <1>11, <1>12 DEF DayTimers

\* The rows of a day are written from the extraction, or from the mirror.
WrittenFrom(d, mark, ks) ==
    /\ kpi_daily' \in [Days -> [Kpis -> Daily]]
    /\ \A e \in Days : e # d => kpi_daily'[e] = kpi_daily[e]
    /\ \A k \in Kpis :
         /\ Source(d, k) \subseteq render_day(k, d)
         /\ \/ kpi_daily'[d][k] = kpi_daily[d][k] /\ (k \in ks => Source(d, k) = {})
            \/ kpi_daily'[d][k].moves = Source(d, k) /\ kpi_daily'[d][k].mark = mark

LEMMA DailyRows ==
    ASSUME PipeTypes, OfItsDay, NEW c \in Commands, cmds[c].day \in Days,
           NEW mark \in {"final", "provisional"}, NEW ks,
           kpi_daily_rows(c, mark, ks)
    PROVE  WrittenFrom(cmds[c].day, mark, ks)
<1> DEFINE d == cmds[c].day
           row(k) == IF k \in ks /\ Source(d, k) # {}
                       THEN [moves |-> Source(d, k), mark |-> mark] ELSE kpi_daily[d][k]
<1>1. kpi_daily' = [kpi_daily EXCEPT ![d] = [k \in Kpis |-> row(k)]]
  BY DEF kpi_daily_rows
<1>2. \A k \in Kpis : Source(d, k) \subseteq render_day(k, d)
  BY DEF Source, OfItsDay
<1>3. \A k \in Kpis : row(k) \in Daily
  <2>1. ASSUME NEW k \in Kpis PROVE row(k) \in Daily
    <3>1. kpi_daily[d][k] \in Daily /\ landed[k] \subseteq Nat
      BY DEF PipeTypes
    <3>2. render_day(k, d) \subseteq Nat
      BY <3>1 DEF render_day
    <3>3. Source(d, k) \in SUBSET Nat
      BY <1>2, <3>2
    <3> HIDE DEF d
    <3> QED
      BY <3>1, <3>3 DEF Daily
  <2> QED
    BY <2>1
<1> HIDE DEF row, d
<1>4. /\ kpi_daily' \in [Days -> [Kpis -> Daily]]
      /\ \A e \in Days : e # d => kpi_daily'[e] = kpi_daily[e]
      /\ \A k \in Kpis : kpi_daily'[d][k] = row(k)
  <2>1. d \in Days
    BY DEF d
  <2> QED
    BY <1>1, <1>3, <2>1 DEF PipeTypes
<1>5. ASSUME NEW k \in Kpis
      PROVE  \/ kpi_daily'[d][k] = kpi_daily[d][k] /\ (k \in ks => Source(d, k) = {})
             \/ kpi_daily'[d][k].moves = Source(d, k) /\ kpi_daily'[d][k].mark = mark
  <2>1. kpi_daily'[d][k] = row(k)
    BY <1>4
  <2>2. CASE k \in ks /\ Source(d, k) # {}
    <3>1. row(k) = [moves |-> Source(d, k), mark |-> mark]
      BY <2>2 DEF row
    <3> QED
      BY <2>1, <2>2, <3>1
  <2>3. CASE ~(k \in ks /\ Source(d, k) # {})
    <3>1. row(k) = kpi_daily[d][k]
      BY <2>3 DEF row
    <3> QED
      BY <2>1, <2>3, <3>1
  <2> QED
    BY <2>2, <2>3
<1> QED
  BY <1>2, <1>4, <1>5 DEF WrittenFrom, d

\* What happens to the rows of a mixed day is not about the days that are not.
LEMMA MixedDay ==
    ASSUME RolledUp, NightReading, Baselines, mixed \subseteq mixed', UNCHANGED <<raw, kpi_shift>>,
           cmds["nightly"].day \in Days, NEW day \in mixed',
           \A d \in Days : d # day => /\ kpi_daily'[d] = kpi_daily[d]
                                     /\ kpi_baseline'[d] = kpi_baseline[d],
           \/ cmds'["nightly"] = cmds["nightly"]
           \/ /\ cmds["nightly"].day \in mixed'
              /\ Busy("nightly")' => cmds'["nightly"].day = cmds["nightly"].day
    PROVE  /\ RolledUp' /\ NightReading' /\ Baselines'
           /\ \A d \in Days \ mixed' : kpi_daily'[d] = kpi_daily[d]
<1>1. \A d \in Days \ mixed' : /\ d \notin mixed /\ kpi_daily'[d] = kpi_daily[d]
                              /\ kpi_baseline'[d] = kpi_baseline[d]
  OBVIOUS
<1>2. RolledUp'
  BY <1>1 DEF RolledUp, ShiftMoves
<1>3. CASE cmds'["nightly"] = cmds["nightly"]
  <2>1. /\ Busy("nightly")' = Busy("nightly") /\ KpiOf("nightly")' = KpiOf("nightly")
        /\ At("nightly", "upsert")' = At("nightly", "upsert")
        /\ \A k : Pending(k)' = Pending(k)
    BY <1>3 DEF Busy, KpiOf, At, Pending
  <2>2. NightReading'
    BY <1>1, <1>3, <2>1 DEF NightReading
  <2>3. Baselines'
    BY <1>1, <1>3, <2>1 DEF Baselines
  <2> QED
    BY <1>1, <1>2, <2>2, <2>3
<1>4. CASE /\ cmds["nightly"].day \in mixed'
           /\ Busy("nightly")' => cmds'["nightly"].day = cmds["nightly"].day
  <2>1. NightReading'
    BY <1>4 DEF NightReading
  <2>2. Baselines'
    <3>1. ASSUME NEW d \in Days, d \notin mixed', NEW k \in Kpis, kpi_daily'[d][k].mark = "final"
          PROVE  /\ kpi_baseline'[d][k].on
                 /\ kpi_baseline'[d][k].today = kpi_daily'[d][k].moves
                 /\ d \notin kpi_baseline'[d][k].days
      <4>1. /\ d \notin mixed /\ kpi_daily'[d] = kpi_daily[d] /\ kpi_baseline'[d] = kpi_baseline[d]
            /\ cmds["nightly"].day # d
        BY <1>1, <1>4, <3>1
      <4> QED
        BY <3>1, <4>1 DEF Baselines
    <3> QED
      BY <3>1 DEF Baselines
  <2> QED
    BY <1>1, <1>2, <2>1, <2>2
<1> QED
  BY <1>3, <1>4

\* After the roll-up of the day nothing more is extracted.
LEMMA NothingPending ==
    ASSUME PipeTypes, Programs, At("nightly", "final"), NEW k
    PROVE  ~Pending(k)
<1>1. "nightly" \in Commands
  BY DEF Commands, Timers
<1>2. /\ cmds["nightly"].todo[1].op = "final" /\ Chained(cmds["nightly"].todo)
      /\ Len(cmds["nightly"].todo) \in Nat
  BY <1>1, AtFirst DEF Programs
<1>3. ASSUME NEW x \in 1..Len(cmds["nightly"].todo), cmds["nightly"].todo[x] = Step("upsert", k)
      PROVE  FALSE
  <2>1. cmds["nightly"].todo[x].op = "upsert"
    BY <1>3 DEF Step
  <2>2. 1 \in 1..Len(cmds["nightly"].todo) /\ 1 < x
    BY <1>2, <2>1
  <2>3. cmds["nightly"].todo[x].op = "baseline"
    BY <1>2, <2>2 DEF Chained
  <2> QED
    BY <2>1, <2>3
<1> QED
  BY <1>3 DEF Pending

LEMMA DailyStep ==
    ASSUME PipeIInv, NEW c \in Commands, upsert_daily(c)
    PROVE  PipeIInv' /\ KeepsDays
<1> USE DEF PipeIInv
<1> DEFINE day == cmds[c].day
<1>1. PICK mark \in {"final", "provisional"} : At(c, mark) /\ kpi_daily_rows(c, mark, Kpis)
  BY DEF upsert_daily
<1>2. /\ cmds' = [cmds EXCEPT ![c] = Done(c)]
      /\ UNCHANGED <<now, landed, night, mixed, manual, pipeFaults>>
      /\ UNCHANGED <<raw, kpi_baseline>>
      /\ UNCHANGED <<kpi_shift, kpi_shift_history, vessel_shift>>
  BY DEF upsert_daily, Went, rest, shiftTables
<1>3. /\ c \in DayTimers /\ Busy(c) /\ day \in Days /\ (c = "manual" => day \in mixed)
      /\ mark = "provisional" => c = "manual"
  <2>1. mark \in DaySteps
    BY DEF DaySteps
  <2> QED
    BY <1>1, <2>1, DayKind
<1>4. MovesOn(c, 2)
  BY <1>2, <1>3, WentMovesOn
<1>5. /\ kpi_daily' \in [Days -> [Kpis -> Daily]]
      /\ \A d \in Days : d # day => kpi_daily'[d] = kpi_daily[d]
      /\ \A k \in Kpis :
           /\ Source(day, k) \subseteq render_day(k, day)
           /\ \/ kpi_daily'[day][k] = kpi_daily[day][k] /\ Source(day, k) = {}
              \/ kpi_daily'[day][k].moves = Source(day, k) /\ kpi_daily'[day][k].mark = mark
  <2>1. WrittenFrom(day, mark, Kpis)
    BY <1>1, <1>3, DailyRows
  <2> QED
    BY <2>1 DEF WrittenFrom
<1>6. PipeTypes'
  BY <1>2, <1>4, <1>5 DEF PipeTypes, MovesOn
<1>7. /\ Programs' /\ Windows' /\ OfItsShift' /\ NightAlone'
      /\ \A e \in Commands \ {c} : HasRead(e)'
  BY <1>2, <1>4, ShiftsAside
<1>8. HasRead(c)' /\ ~At(c, "upsert")' /\ PanelMatches'
  BY <1>1, <1>2, <1>4, NothingRead DEF PanelMatches
<1> HIDE DEF day
<1>9. OfItsDay'
  <2>1. ASSUME NEW d \in Days, NEW k \in Kpis PROVE kpi_daily'[d][k].moves \subseteq render_day(k, d)
    <3>1. kpi_daily[d][k].moves \subseteq render_day(k, d)
      BY DEF OfItsDay
    <3> QED
      BY <1>5, <3>1
  <2> QED
    BY <1>2, <2>1 DEF OfItsDay, render_day, date
<1>10. \A d \in Days, k \in Kpis :
         kpi_daily[d][k].mark = "final" =>
            kpi_daily'[d][k].mark = "final" \/ At("manual", "provisional")
  BY <1>1, <1>3, <1>5
<1>11. CASE c = "manual"
  <2>1. cmds'["nightly"] = cmds["nightly"] /\ cmds["nightly"].day \in Days
    BY <1>4, <1>11 DEF MovesOn, Commands, Timers, PipeTypes, Job
  <2>2. /\ RolledUp' /\ NightReading' /\ Baselines'
        /\ \A d \in Days \ mixed' : kpi_daily'[d] = kpi_daily[d]
    BY <1>2, <1>3, <1>5, <1>11, <2>1, MixedDay
  <2> QED
    BY <1>6, <1>7, <1>8, <1>9, <1>10, <2>2 DEF Reading, KeepsDays
<1>12. CASE c = "nightly"
  <2>1. mark = "final" /\ At("nightly", "final")
    BY <1>1, <1>3, <1>12
  <2>2. Busy("nightly")' /\ cmds'["nightly"].day = day /\ Busy("nightly") /\ cmds["nightly"].day = day
    BY <1>3, <1>4, <1>12, <2>1, NightGoesOn DEF day
  <2>3. \A d \in Days, k \in Kpis :
          d # day \/ kpi_daily'[d][k].mark # "final" => kpi_daily'[d][k] = kpi_daily[d][k]
    BY <1>5, <2>1
  <2>4. RolledUp'
    BY <1>2, <2>3 DEF RolledUp, ShiftMoves
  <2>5. Baselines'
    BY <1>2, <2>2, <2>3 DEF Baselines
  <2>6. ASSUME day \notin mixed, NEW k \in Kpis
        PROVE  /\ kpi_daily[day][k].moves \subseteq kpi_daily'[day][k].moves
               /\ k \in RawKpis => kpi_daily'[day][k].moves \subseteq raw[day][k]
    <3>1. CASE k \in RawKpis
      <4>1. kpi_daily[day][k].moves \subseteq raw[day][k]
        BY <2>1, <2>2, <2>6, <3>1, NothingPending DEF NightReading
      <4>2. Source(day, k) = raw[day][k]
        BY <3>1 DEF Source
      <4> QED
        BY <1>5, <4>1, <4>2
    <3>2. CASE k \notin RawKpis
      <4>1. kpi_daily[day][k].moves \subseteq Source(day, k)
        BY <1>3, <3>2 DEF Source, OfItsDay
      <4> QED
        BY <1>5, <3>2, <4>1
    <3> QED
      BY <3>1, <3>2
  <2>7. NightReading'
    BY <1>2, <1>8, <1>12, <2>2, <2>6, AStep DEF NightReading
  <2>8. \A d \in Days \ mixed', k \in Kpis : kpi_daily[d][k].moves \subseteq kpi_daily'[d][k].moves
    BY <1>2, <1>5, <2>6
  <2> QED
    BY <1>6, <1>7, <1>8, <1>9, <1>10, <2>4, <2>5, <2>7, <2>8 DEF Reading, KeepsDays
<1> QED
  BY <1>3, <1>11, <1>12 DEF DayTimers

\* The baseline of a day: the value that the day shows, against days before it.
LEMMA BaselineRows ==
    ASSUME PipeTypes, NEW c \in Commands, cmds[c].day \in Days, NEW ks, kpi_baseline_rows(c, ks)
    PROVE  /\ kpi_baseline' \in [Days -> [Kpis -> Compared]]
           /\ \A d \in Days : d # cmds[c].day => kpi_baseline'[d] = kpi_baseline[d]
           /\ \A k \in Kpis :
                LET d == cmds[c].day
                IN  k \in ks /\ kpi_daily[d][k] # NoDaily =>
                      /\ kpi_baseline'[d][k].on
                      /\ kpi_baseline'[d][k].today = kpi_daily[d][k].moves
                      /\ d \notin kpi_baseline'[d][k].days
<1> DEFINE d == cmds[c].day
           row(k) == IF k \in ks /\ kpi_daily[d][k] # NoDaily THEN compute_one(d, k)
                       ELSE kpi_baseline[d][k]
<1>1. kpi_baseline' = [kpi_baseline EXCEPT ![d] = [k \in Kpis |-> row(k)]]
  BY DEF kpi_baseline_rows
<1>2. d \in Days /\ d \in Nat /\ BASELINE_DAYS \in Nat
  BY PipeAssumption DEF Days
<1> HIDE DEF d
<1>3. ASSUME NEW k \in Kpis
      PROVE  /\ compute_one(d, k) \in Compared /\ compute_one(d, k).on
             /\ compute_one(d, k).today = kpi_daily[d][k].moves
             /\ d \notin compute_one(d, k).days
  <2>1. kpi_daily[d][k].moves \in SUBSET Nat
    BY <1>2 DEF PipeTypes, Daily
  <2>2. series(k, d - BASELINE_DAYS, d - 1) \in SUBSET Days
    BY DEF series
  <2>3. d \notin series(k, d - BASELINE_DAYS, d - 1)
    BY <1>2 DEF series
  <2> QED
    BY <2>1, <2>2, <2>3 DEF compute_one, Compared
<1>4. \A k \in Kpis : row(k) \in Compared
  BY <1>2, <1>3 DEF PipeTypes
<1> HIDE DEF row
<1>5. /\ kpi_baseline' \in [Days -> [Kpis -> Compared]]
      /\ \A e \in Days : e # d => kpi_baseline'[e] = kpi_baseline[e]
      /\ \A k \in Kpis : kpi_baseline'[d][k] = row(k)
  BY <1>1, <1>2, <1>4 DEF PipeTypes
<1>6. \A k \in Kpis : k \in ks /\ kpi_daily[d][k] # NoDaily => kpi_baseline'[d][k] = compute_one(d, k)
  BY <1>5 DEF row
<1> QED
  BY <1>3, <1>5, <1>6 DEF d

LEMMA BaselineStep ==
    ASSUME PipeIInv, NEW c \in Commands, upsert_baseline(c)
    PROVE  PipeIInv'
<1> USE DEF PipeIInv
<1> DEFINE day == cmds[c].day
<1>1. /\ At(c, "baseline") /\ kpi_baseline_rows(c, Kpis)
      /\ cmds' = [cmds EXCEPT ![c] = Done(c)]
      /\ UNCHANGED <<now, landed, night, mixed, manual, pipeFaults>>
      /\ UNCHANGED <<raw, kpi_daily>>
      /\ UNCHANGED <<kpi_shift, kpi_shift_history, vessel_shift>>
  BY DEF upsert_baseline, Went, rest, shiftTables
<1>2. c \in DayTimers /\ Busy(c) /\ day \in Days /\ (c = "manual" => day \in mixed)
  <2>1. "baseline" \in DaySteps
    BY DEF DaySteps
  <2> QED
    BY <1>1, <2>1, DayKind
<1>3. MovesOn(c, 2)
  BY <1>1, <1>2, WentMovesOn
<1>4. /\ kpi_baseline' \in [Days -> [Kpis -> Compared]]
      /\ \A d \in Days : d # day => kpi_baseline'[d] = kpi_baseline[d]
      /\ \A k \in Kpis :
           kpi_daily[day][k] # NoDaily =>
                      /\ kpi_baseline'[day][k].on
                      /\ kpi_baseline'[day][k].today = kpi_daily[day][k].moves
                      /\ day \notin kpi_baseline'[day][k].days
  BY <1>1, <1>2, BaselineRows
<1>5. PipeTypes'
  BY <1>1, <1>3, <1>4 DEF PipeTypes, MovesOn
<1>6. /\ Programs' /\ Windows' /\ OfItsShift' /\ NightAlone'
      /\ \A e \in Commands \ {c} : HasRead(e)'
  BY <1>1, <1>3, ShiftsAside
<1>7. HasRead(c)' /\ ~At(c, "upsert")' /\ PanelMatches'
  BY <1>1, <1>3, NothingRead DEF PanelMatches
<1>8. OfItsDay'
  BY <1>1, DayRowsStay
<1> HIDE DEF day
<1>9. CASE c = "manual"
  <2>1. cmds'["nightly"] = cmds["nightly"] /\ cmds["nightly"].day \in Days
    BY <1>3, <1>9 DEF MovesOn, Commands, Timers, PipeTypes, Job
  <2>2. RolledUp' /\ NightReading' /\ Baselines'
    BY <1>1, <1>2, <1>4, <1>9, <2>1, MixedDay
  <2> QED
    BY <1>5, <1>6, <1>7, <1>8, <2>2 DEF Reading
<1>10. CASE c = "nightly"
  <2>1. RolledUp'
    BY <1>1 DEF RolledUp, ShiftMoves
  <2>2. Baselines'
    <3>1. ASSUME NEW d \in Days, d \notin mixed, NEW k \in Kpis, kpi_daily[d][k].mark = "final"
          PROVE  /\ kpi_baseline'[d][k].on
                 /\ kpi_baseline'[d][k].today = kpi_daily[d][k].moves
                 /\ d \notin kpi_baseline'[d][k].days
      <4>1. CASE d = day
        <5>1. kpi_daily[d][k] # NoDaily
          BY <3>1 DEF NoDaily
        <5> QED
          BY <1>4, <4>1, <5>1
      <4>2. CASE d # day
        <5>1. kpi_baseline'[d] = kpi_baseline[d] /\ cmds["nightly"].day # d
          BY <1>4, <1>10, <4>2 DEF day
        <5> QED
          BY <3>1, <5>1 DEF Baselines
      <4> QED
        BY <4>1, <4>2
    <3> QED
      BY <1>1, <3>1 DEF Baselines
  <2>3. NightReading'
    <3>1. SUFFICES ASSUME Busy("nightly")', day \notin mixed, cmds'["nightly"].day = day,
                          NEW k \in RawKpis
                   PROVE  Pending(k)' \/ kpi_daily[day][k].moves \subseteq raw[day][k]
      <4>1. Busy("nightly")' => cmds'["nightly"].day = day
        BY <1>3, <1>10, Moved DEF day
      <4> QED
        BY <1>1, <1>7, <1>10, <4>1 DEF NightReading
    <3>2. Pending(k) \/ kpi_daily[day][k].moves \subseteq raw[day][k]
      BY <1>2, <1>10, <3>1 DEF NightReading, day
    <3>3. cmds["nightly"].todo[1] # Step("upsert", k)
      BY <1>1, <1>10, AtFirst DEF Step
    <3> QED
      BY <1>3, <1>10, <3>2, <3>3, StillPending
  <2> QED
    BY <1>5, <1>6, <1>7, <1>8, <2>1, <2>2, <2>3 DEF Reading
<1> QED
  BY <1>2, <1>9, <1>10 DEF DayTimers

--------------------------------------------------------------------------------
(* Failures. *)

\* A command that ends, or goes on at a reading or a roll-up, has nothing to write.
LEMMA NothingLeft ==
    ASSUME PipeTypes, Programs, NEW c \in Commands, NEW i \in Nat, MovesOn(c, i),
           i <= Len(cmds[c].todo) => cmds[c].todo[i].op \in Resume
    PROVE  HasRead(c)'
<1>1. ASSUME NEW op \in DOMAIN Precursor, At(c, op)' PROVE FALSE
  <2>1. Busy(c)' /\ Head(cmds'[c].todo).op = op
    BY <1>1 DEF At
  <2>2. i <= Len(cmds[c].todo) /\ cmds'[c].todo[1] = cmds[c].todo[i]
    BY <2>1, Moved
  <2>3. cmds'[c] \in Job /\ cmds'[c].todo # << >>
    BY <2>1 DEF MovesOn, Busy
  <2>4. Head(cmds'[c].todo) = cmds'[c].todo[1]
    BY <2>3 DEF Job
  <2> QED
    BY <1>1, <2>1, <2>2, <2>4, AStep DEF Resume
<1> QED
  BY <1>1, AStep DEF HasRead

\* A command ends or goes on after a failure that left the tables alone.
LEMMA GivesUp ==
    ASSUME PipeIInv, NEW c \in Commands, Fails(c), UNCHANGED dayTables,
           NEW i \in Nat, MovesOn(c, i), i <= Len(cmds[c].todo) => cmds[c].todo[i].op \in Resume
    PROVE  PipeIInv'
<1> USE DEF PipeIInv
<1>1. /\ pipeFaults' = pipeFaults + 1
      /\ mixed' = (IF c \in {"nightly", "manual"} THEN mixed \cup {cmds[c].day} ELSE mixed)
      /\ UNCHANGED <<now, landed, night, manual>>
      /\ UNCHANGED <<kpi_shift, kpi_shift_history, vessel_shift>>
      /\ UNCHANGED <<raw, kpi_daily, kpi_baseline>>
  BY DEF Fails, shiftTables, dayTables
<1>2. cmds[c].day \in Days
  BY DEF PipeTypes, Job
<1>3. mixed \subseteq mixed' /\ mixed' \subseteq Days /\ (c = "nightly" => cmds["nightly"].day \in mixed')
  BY <1>1, <1>2 DEF PipeTypes
<1>4. PipeTypes'
  BY <1>1, <1>3 DEF PipeTypes, MovesOn
<1>5. /\ Programs' /\ Windows' /\ OfItsShift' /\ OfItsDay' /\ RolledUp'
      /\ NightAlone' /\ NightReading' /\ Baselines'
      /\ \A e \in Commands \ {c} : HasRead(e)'
  BY <1>1, <1>3, Aside
<1>6. HasRead(c)' /\ PanelMatches'
  BY <1>1, NothingLeft DEF PanelMatches
<1> QED
  BY <1>4, <1>5, <1>6 DEF Reading

LEMMA SourceFailsStep ==
    ASSUME PipeIInv, NEW c \in Commands, SourceFails(c)
    PROVE  PipeIInv'
<1>1. Busy(c) /\ Fails(c) /\ cmds' = [cmds EXCEPT ![c] = GivenUp(c)] /\ UNCHANGED dayTables
  BY DEF SourceFails
<1>2. PICK i \in 2..(Len(cmds[c].todo) + 1) :
        MovesOn(c, i) /\ (i <= Len(cmds[c].todo) => cmds[c].todo[i].op \in Resume)
  BY <1>1, GivenUpMovesOn DEF PipeIInv
<1>3. i \in Nat
  OBVIOUS
<1> QED
  BY <1>1, <1>2, <1>3, GivesUp

LEMMA UnitDiesStep ==
    ASSUME PipeIInv, NEW c \in Commands, UnitDies(c)
    PROVE  PipeIInv'
<1> DEFINE last == Len(cmds[c].todo) + 1
<1>1. Busy(c) /\ Fails(c) /\ cmds' = [cmds EXCEPT ![c] = Ended(c)] /\ UNCHANGED dayTables
  BY DEF UnitDies
<1>2. MovesOn(c, last)
  BY <1>1, EndedMovesOn DEF PipeIInv
<1>3. last \in Nat /\ ~(last <= Len(cmds[c].todo))
  <2>1. Len(cmds[c].todo) \in Nat
    BY <1>1, AtFirst DEF PipeIInv
  <2> QED
    BY <2>1
<1> QED
  BY <1>1, <1>2, <1>3, GivesUp

\* The roll-up of a day or its baseline fails half-way; the day is mixed.
LEMMA DayFailsStep ==
    ASSUME PipeIInv, NEW c \in Commands, DayFails(c)
    PROVE  PipeIInv' /\ KeepsDays
<1> USE DEF PipeIInv
<1> DEFINE day == cmds[c].day
           last == Len(cmds[c].todo) + 1
<1>1. PICK n \in 0..(Len(KpiOrder) - 1) :
        \/ /\ \E mark \in {"final", "provisional"} : At(c, mark) /\ kpi_daily_rows(c, mark, First(n))
           /\ UNCHANGED kpi_baseline
        \/ /\ At(c, "baseline") /\ kpi_baseline_rows(c, First(n))
           /\ UNCHANGED kpi_daily
  BY DEF DayFails
<1>2. /\ pipeFaults' = pipeFaults + 1
      /\ mixed' = (IF c \in {"nightly", "manual"} THEN mixed \cup {day} ELSE mixed)
      /\ UNCHANGED <<now, landed, night, manual, raw>>
      /\ UNCHANGED <<kpi_shift, kpi_shift_history, vessel_shift>>
      /\ cmds' = [cmds EXCEPT ![c] = Ended(c)]
  BY DEF DayFails, Fails, shiftTables
<1>3. PICK op \in {"final", "provisional", "baseline"} : At(c, op)
  BY <1>1
<1>4. /\ c \in DayTimers /\ Busy(c) /\ day \in Days
      /\ At(c, "provisional") => c = "manual"
  <2>1. op \in DaySteps /\ "provisional" \in DaySteps
    BY DEF DaySteps
  <2> QED
    BY <1>3, <2>1, DayKind
<1>5. MovesOn(c, last) /\ last \in Nat /\ ~(last <= Len(cmds[c].todo))
  <2>1. Len(cmds[c].todo) \in Nat
    BY <1>4, AtFirst
  <2>2. MovesOn(c, last)
    BY <1>2, <1>4, EndedMovesOn
  <2> QED
    BY <2>1, <2>2
<1>6. mixed \subseteq mixed' /\ mixed' \subseteq Days /\ day \in mixed'
  BY <1>2, <1>4 DEF PipeTypes, DayTimers
<1>7. /\ Programs' /\ Windows' /\ OfItsShift' /\ NightAlone'
      /\ \A e \in Commands \ {c} : HasRead(e)'
  BY <1>2, <1>5, <1>6, ShiftsAside
<1>8. HasRead(c)' /\ PanelMatches'
  BY <1>2, <1>5, NothingLeft DEF PanelMatches
<1>9. /\ kpi_daily' \in [Days -> [Kpis -> Daily]] /\ kpi_baseline' \in [Days -> [Kpis -> Compared]]
      /\ \A d \in Days : d # day => /\ kpi_daily'[d] = kpi_daily[d]
                                    /\ kpi_baseline'[d] = kpi_baseline[d]
      /\ \A k \in Kpis :
            /\ Source(day, k) \subseteq render_day(k, day)
            /\ \/ kpi_daily'[day][k] = kpi_daily[day][k]
               \/ /\ kpi_daily'[day][k].moves = Source(day, k)
                  /\ kpi_daily'[day][k].mark = "final" \/ At(c, "provisional")
  <2>1. ASSUME NEW mark \in {"final", "provisional"}, At(c, mark), kpi_daily_rows(c, mark, First(n))
        PROVE  /\ kpi_daily' \in [Days -> [Kpis -> Daily]]
               /\ \A d \in Days : d # day => kpi_daily'[d] = kpi_daily[d]
               /\ \A k \in Kpis :
                    /\ Source(day, k) \subseteq render_day(k, day)
                    /\ \/ kpi_daily'[day][k] = kpi_daily[day][k]
                       \/ /\ kpi_daily'[day][k].moves = Source(day, k)
                          /\ kpi_daily'[day][k].mark = "final" \/ At(c, "provisional")
    <3>1. WrittenFrom(day, mark, First(n))
      BY <1>4, <2>1, DailyRows
    <3> QED
      BY <2>1, <3>1 DEF WrittenFrom
  <2>2. ASSUME kpi_baseline_rows(c, First(n))
        PROVE  /\ kpi_baseline' \in [Days -> [Kpis -> Compared]]
               /\ \A d \in Days : d # day => kpi_baseline'[d] = kpi_baseline[d]
    BY <1>4, <2>2, BaselineRows
  <2>3. /\ kpi_daily \in [Days -> [Kpis -> Daily]]
        /\ kpi_baseline \in [Days -> [Kpis -> Compared]]
    BY DEF PipeTypes
  <2>4. \A k \in Kpis : Source(day, k) \subseteq render_day(k, day)
    BY <1>4 DEF Source, OfItsDay
  <2> QED
    BY <1>1, <2>1, <2>2, <2>3, <2>4
<1>10. PipeTypes'
  BY <1>2, <1>5, <1>6, <1>9, SMTT(30) DEF PipeTypes, MovesOn
<1> HIDE DEF day, last
<1>11. OfItsDay'
  <2>1. ASSUME NEW d \in Days, NEW k \in Kpis PROVE kpi_daily'[d][k].moves \subseteq render_day(k, d)
    <3>1. kpi_daily[d][k].moves \subseteq render_day(k, d)
      BY DEF OfItsDay
    <3> QED
      BY <1>9, <3>1
  <2> QED
    BY <1>2, <2>1 DEF OfItsDay, render_day, date
<1>12. /\ RolledUp' /\ NightReading' /\ Baselines'
       /\ \A d \in Days \ mixed' : kpi_daily'[d] = kpi_daily[d]
  <2>1. cmds["nightly"].day \in Days
    BY DEF Commands, Timers, PipeTypes, Job
  <2>2. \/ cmds'["nightly"] = cmds["nightly"]
        \/ /\ cmds["nightly"].day \in mixed'
           /\ Busy("nightly")' => cmds'["nightly"].day = cmds["nightly"].day
    <3>1. CASE c = "nightly"
      <4>1. Busy("nightly")' => cmds'["nightly"].day = cmds["nightly"].day
        BY <1>5, <3>1, Moved
      <4> QED
        BY <1>6, <3>1, <4>1 DEF day
    <3>2. CASE c # "nightly"
      BY <1>5, <3>2 DEF MovesOn, Commands, Timers
    <3> QED
      BY <3>1, <3>2
  <2> QED
    BY <1>2, <1>6, <1>9, <2>1, <2>2, MixedDay
<1>13. KeepsDays
  <2>1. ASSUME NEW d \in Days, NEW k \in Kpis, kpi_daily[d][k].mark = "final"
        PROVE  kpi_daily'[d][k].mark = "final" \/ At("manual", "provisional")
    BY <1>4, <1>9, <2>1
  <2> QED
    BY <1>12, <2>1 DEF KeepsDays
<1> QED
  BY <1>7, <1>8, <1>10, <1>11, <1>12, <1>13 DEF Reading

--------------------------------------------------------------------------------
(* A command begins. *)

LEMMA Today ==
    ASSUME PipeTypes
    PROVE  /\ now \in Nat /\ date(now) \in Nat /\ current(now) \in Shifts
           /\ 0..date(now) \subseteq Days /\ date(now) \in Days
<1>1. now \in Nat /\ PipeEnd \in Nat /\ now <= PipeEnd
  BY PipeAssumption DEF PipeTypes
<1>2. date(now) \in Nat /\ current(now) \in Shifts /\ date(PipeEnd) \in Nat /\ date(now) <= date(PipeEnd)
  BY <1>1, Calendar
<1>3. Days = 0..date(PipeEnd)
  BY DEF Days, date
<1> QED
  BY <1>1, <1>2, <1>3

\* What a command that begins has to do.
LEMMA Begun ==
    ASSUME PipeIInv, NEW c \in Commands, NEW job \in Job, cmds' = [cmds EXCEPT ![c] = job],
           Fits(c, job.todo), Begins(job.todo),
           c = "nightly" => job.todo[Len(job.todo)].op = "baseline",
           UNCHANGED <<now, landed, kpi_shift, kpi_shift_history, vessel_shift>>,
           UNCHANGED <<raw, kpi_daily, kpi_baseline>>
    PROVE  /\ cmds' \in [Commands -> Job] /\ cmds'[c] = job
           /\ \A e \in Commands \ {c} : cmds'[e] = cmds[e]
           /\ Programs' /\ Reading' /\ OfItsDay' /\ PanelMatches'
           /\ Busy(c)' /\ ~At(c, "upsert")'
<1> USE DEF PipeIInv
<1>1. /\ cmds' \in [Commands -> Job] /\ cmds'[c] = job
      /\ \A e \in Commands \ {c} : cmds'[e] = cmds[e]
  BY DEF PipeTypes
<1>2. job.todo \in Seq(Steps) /\ job.todo # << >> /\ Head(job.todo) = job.todo[1]
      /\ Head(job.todo).op \notin DOMAIN Precursor
  BY DEF Fits, Begins
<1>3. Programs'
  <2>1. ASSUME NEW e \in Commands
        PROVE  /\ Chained(cmds'[e].todo)
               /\ \A x \in 1..Len(cmds'[e].todo) : StepOf(e, cmds'[e].todo[x])
               /\ e = "nightly" /\ cmds'[e].todo # << >> =>
                    cmds'[e].todo[Len(cmds'[e].todo)].op = "baseline"
    BY <1>1 DEF Programs, Fits
  <2> QED
    BY <2>1 DEF Programs
<1>4. Busy(c)' /\ \A op \in DOMAIN Precursor : ~At(c, op)'
  BY <1>1, <1>2 DEF Busy, At
<1>5. HasRead(c)' /\ ~At(c, "upsert")'
  BY <1>4, AStep DEF HasRead
<1>6. ASSUME NEW e \in Commands \ {c} PROVE HasRead(e)'
  BY <1>1, OthersRead DEF Reading
<1>7. OfItsDay' /\ PanelMatches'
  BY DayRowsStay DEF PanelMatches
<1> QED
  BY <1>1, <1>3, <1>4, <1>5, <1>6, <1>7 DEF Reading

LEMMA TickStep ==
    ASSUME PipeIInv, NEW c \in ShiftTimers, tick_shift(c)
    PROVE  PipeIInv'
<1> USE DEF PipeIInv
<1>1. /\ ~Busy(c) /\ cmds[c].end < now
      /\ UNCHANGED <<now, landed, night, mixed, manual, pipeFaults>>
      /\ UNCHANGED <<raw, kpi_daily, kpi_baseline>>
      /\ UNCHANGED <<kpi_shift, kpi_shift_history, vessel_shift>>
  BY DEF tick_shift, dayTables, shiftTables
<1>2. PICK src \in KPI_T1_SRC :
        cmds' = [cmds EXCEPT ![c] =
                   [todo |-> TierOf(c), day |-> date(now), sh |-> current(now), end |-> now,
                    read |-> {}, src |-> src]]
  BY DEF tick_shift
<1> DEFINE job == [todo |-> TierOf(c), day |-> date(now), sh |-> current(now), end |-> now,
                   read |-> {}, src |-> src]
<1>3. /\ job \in Job /\ Fits(c, job.todo) /\ Begins(job.todo)
      /\ job.day = date(now) /\ job.sh = current(now) /\ job.end = now
  <2>1. Fits(c, TierOf(c)) /\ Begins(TierOf(c)) /\ TierOf(c) \in Seq(Steps)
    BY TierFits DEF Fits
  <2>2. src \in {"local", "oracle"}
    BY PipeAssumption
  <2> QED
    BY <2>1, <2>2, Today DEF Job
<1>4. /\ c \in Commands /\ c # "nightly" /\ c # "manual"
      /\ "nightly" \in Commands /\ "manual" \in Commands /\ ShiftTimers \subseteq Commands
  BY DEF ShiftTimers, Commands, Timers
<1>5. cmds' = [cmds EXCEPT ![c] = job]
  BY <1>2
<1> HIDE DEF job
<1>6. /\ cmds' \in [Commands -> Job] /\ cmds'[c] = job
      /\ \A e \in Commands \ {c} : cmds'[e] = cmds[e]
      /\ Programs' /\ Reading' /\ OfItsDay' /\ PanelMatches'
  BY <1>1, <1>3, <1>4, <1>5, Begun
<1>7. PipeTypes'
  BY <1>1, <1>6 DEF PipeTypes
<1>8. Windows'
  <2>1. ASSUME NEW e \in ShiftTimers
        PROVE  /\ cmds'[e].end <= now
               /\ cmds'[e].todo # << >> => /\ date(cmds'[e].end) = cmds'[e].day
                                          /\ current(cmds'[e].end) = cmds'[e].sh
    <3>1. CASE e = c
      BY <1>3, <1>6, <3>1, Today
    <3>2. CASE e # c
      BY <1>4, <1>6, <3>2 DEF Windows, Busy
    <3> QED
      BY <3>1, <3>2
  <2> QED
    BY <1>1, <2>1 DEF Windows, Busy, date, current
<1>9. OfItsShift'
  <2>1. ASSUME NEW d \in Days, NEW s \in Shifts, NEW k \in Kpis, NEW t \in kpi_shift[d][s][k]
        PROVE  /\ date(t) = d /\ current(t) = s /\ t \in landed[k]
               /\ t <= cmds'[TimerOf(k)].end
               /\ t = cmds'[TimerOf(k)].end =>
                    ~\E x \in 1..Len(cmds'[TimerOf(k)].todo) :
                        cmds'[TimerOf(k)].todo[x] = Step("fetch", k)
    <3>1. /\ date(t) = d /\ current(t) = s /\ t \in landed[k] /\ t <= cmds[TimerOf(k)].end
          /\ t = cmds[TimerOf(k)].end =>
               ~\E x \in 1..Len(cmds[TimerOf(k)].todo) : cmds[TimerOf(k)].todo[x] = Step("fetch", k)
      BY DEF OfItsShift
    <3>2. TimerOf(k) \in Commands
      BY <1>4 DEF TimerOf, ShiftTimers
    <3>3. CASE TimerOf(k) # c
      BY <1>6, <3>1, <3>2, <3>3
    <3>4. CASE TimerOf(k) = c
      <4>1. t \in Nat /\ cmds[c].end \in Nat /\ now \in Nat
        BY <1>4, Today DEF PipeTypes, Job
      <4>2. t < now
        BY <1>1, <3>1, <3>4, <4>1
      <4> QED
        BY <1>3, <1>6, <3>1, <3>4, <4>1, <4>2
    <3> QED
      BY <3>3, <3>4
  <2> QED
    BY <1>1, <2>1 DEF OfItsShift, date, current
<1>10. NightAlone'
  <2>1. cmds'["manual"] = cmds["manual"] /\ cmds'["nightly"] = cmds["nightly"]
    BY <1>4, <1>6
  <2>2. ASSUME Busy("nightly")
        PROVE  /\ cmds["nightly"].day < date(now)
               /\ cmds["nightly"].day \notin mixed =>
                    \A e \in ShiftTimers : Busy(e)' => cmds'[e].day # cmds["nightly"].day
    <3>1. cmds["nightly"].day < date(now) /\ cmds["nightly"].day \in Nat
      BY <1>4, <2>2 DEF NightAlone, PipeTypes, Job, Days
    <3>2. ASSUME cmds["nightly"].day \notin mixed, NEW e \in ShiftTimers, Busy(e)'
          PROVE  cmds'[e].day # cmds["nightly"].day
      <4>1. CASE e = c
        BY <1>3, <1>6, <3>1, <4>1, Today
      <4>2. CASE e # c
        BY <1>4, <1>6, <2>2, <3>2, <4>2 DEF NightAlone, Busy
      <4> QED
        BY <4>1, <4>2
    <3> QED
      BY <3>1, <3>2
  <2> QED
    BY <1>1, <2>1, <2>2 DEF NightAlone, Busy, date
<1>11. RolledUp' /\ NightReading' /\ Baselines'
  <2>1. cmds'["nightly"] = cmds["nightly"]
    BY <1>4, <1>6
  <2> QED
    BY <1>1, <2>1, DaysStay
<1> QED
  BY <1>6, <1>7, <1>8, <1>9, <1>10, <1>11

\* A run of the day path that begins leaves the shift ticks alone.
LEMMA DayBegins ==
    ASSUME PipeIInv, NEW c \in DayTimers, NEW program, NEW d \in 0..date(now), Begin(c, program, d),
           Fits(c, program), Begins(program),
           c = "nightly" => program[Len(program)].op = "baseline",
           UNCHANGED <<now, landed, kpi_shift, kpi_shift_history, vessel_shift>>,
           UNCHANGED <<raw, kpi_daily, kpi_baseline>>
    PROVE  /\ cmds' \in [Commands -> Job] /\ cmds'[c].todo = program /\ cmds'[c].day = d
           /\ \A e \in Commands \ {c} : cmds'[e] = cmds[e]
           /\ Programs' /\ Windows' /\ OfItsShift' /\ Reading' /\ OfItsDay' /\ PanelMatches'
           /\ ~Busy(c) /\ Busy(c)' /\ ~At(c, "upsert")' /\ d \in Days /\ d \in Nat
<1> USE DEF PipeIInv
<1> DEFINE job == [NoCommand EXCEPT !.todo = program, !.day = d, !.sh = current(now), !.end = now]
<1>1. ~Busy(c) /\ cmds' = [cmds EXCEPT ![c] = job]
  BY DEF Begin
<1>2. c \in Commands /\ ShiftTimers \subseteq Commands \ {c}
  BY DEF DayTimers, ShiftTimers, Commands, Timers
<1>3. d \in Days /\ d \in Nat
  BY Today
<1>4. job \in Job /\ job.todo = program /\ job.day = d
  <2>1. NoCommand \in Job /\ program \in Seq(Steps)
    BY <1>2, NothingToDo DEF Fits
  <2> QED
    BY <1>3, <2>1, Today DEF Job
<1> HIDE DEF job
<1>5. /\ cmds' \in [Commands -> Job] /\ cmds'[c] = job
      /\ \A e \in Commands \ {c} : cmds'[e] = cmds[e]
      /\ Programs' /\ Reading' /\ OfItsDay' /\ PanelMatches'
      /\ Busy(c)' /\ ~At(c, "upsert")'
  BY <1>1, <1>2, <1>4, Begun
<1>6. \A e \in ShiftTimers : cmds'[e] = cmds[e]
  BY <1>2, <1>5
<1>7. Windows'
  BY <1>6 DEF Windows, Busy, date, current
<1>8. OfItsShift'
  BY <1>6, ShiftRowsStay
<1> QED
  BY <1>1, <1>3, <1>4, <1>5, <1>7, <1>8

LEMMA NightlyStep ==
    ASSUME PipeIInv, Nightly
    PROVE  PipeIInv'
<1> USE DEF PipeIInv
<1>1. /\ yesterday >= 0 /\ Begin("nightly", Run, yesterday) /\ night' = date(now)
      /\ mixed' = (IF \E c \in Commands : Busy(c) /\ cmds[c].day = yesterday
                     THEN mixed \cup {yesterday} ELSE mixed)
      /\ UNCHANGED <<now, landed, manual, pipeFaults>>
      /\ UNCHANGED <<raw, kpi_daily, kpi_baseline>>
      /\ UNCHANGED <<kpi_shift, kpi_shift_history, vessel_shift>>
  BY DEF Nightly, dayTables, shiftTables
<1>2. yesterday \in 0..date(now) /\ yesterday < date(now)
  BY <1>1, Today DEF yesterday
<1>3. "nightly" \in DayTimers /\ "nightly" \in Commands /\ "manual" \in Commands \ {"nightly"}
      /\ ShiftTimers \subseteq Commands \ {"nightly"}
  BY DEF DayTimers, ShiftTimers, Commands, Timers
<1>4. /\ Fits("nightly", Run) /\ Begins(Run) /\ Run[Len(Run)].op = "baseline"
      /\ \A k \in RawKpis : \E x \in 1..Len(Run) : Run[x] = Step("upsert", k)
  BY <1>3, RunFits
<1>5. /\ cmds' \in [Commands -> Job] /\ cmds'["nightly"].todo = Run /\ cmds'["nightly"].day = yesterday
      /\ \A e \in Commands \ {"nightly"} : cmds'[e] = cmds[e]
      /\ Programs' /\ Windows' /\ OfItsShift' /\ Reading' /\ OfItsDay' /\ PanelMatches'
      /\ ~Busy("nightly") /\ ~At("nightly", "upsert")' /\ yesterday \in Days
  BY <1>1, <1>2, <1>3, <1>4, DayBegins
<1> HIDE DEF yesterday
<1>6. mixed \subseteq mixed' /\ mixed' \subseteq Days
  BY <1>1, <1>5 DEF PipeTypes
<1>7. PipeTypes'
  BY <1>1, <1>5, <1>6, Today DEF PipeTypes
<1>8. NightAlone'
  <2>1. Busy("manual")' => cmds'["manual"].day \in mixed'
    BY <1>3, <1>5, <1>6 DEF NightAlone, Busy
  <2>2. ASSUME yesterday \notin mixed', NEW c \in ShiftTimers, Busy(c)'
        PROVE  cmds'[c].day # yesterday
    <3>1. c \in Commands /\ cmds'[c] = cmds[c] /\ Busy(c)
      BY <1>3, <1>5, <2>2 DEF Busy
    <3> QED
      BY <1>1, <2>2, <3>1
  <2> QED
    BY <1>1, <1>2, <1>5, <2>1, <2>2 DEF NightAlone, date
<1>9. RolledUp'
  BY <1>1, <1>6 DEF RolledUp, ShiftMoves
<1>10. NightReading'
  <2>1. \A k \in RawKpis : Pending(k)'
    BY <1>4, <1>5 DEF Pending
  <2> QED
    BY <1>5, <2>1 DEF NightReading
<1>11. Baselines'
  BY <1>1, <1>5, <1>6 DEF Baselines
<1> QED
  BY <1>5, <1>7, <1>8, <1>9, <1>10, <1>11

LEMMA ManualStep ==
    ASSUME PipeIInv, Manual
    PROVE  PipeIInv'
<1> USE DEF PipeIInv
<1>1. /\ manual' = manual + 1
      /\ UNCHANGED <<now, landed, night, pipeFaults>>
      /\ UNCHANGED <<raw, kpi_daily, kpi_baseline>>
      /\ UNCHANGED <<kpi_shift, kpi_shift_history, vessel_shift>>
  BY DEF Manual, dayTables, shiftTables
<1>2. PICK d \in 0..date(now) :
        /\ \/ \E program \in {Run, Backfill, Transform} \cup {extract(k) : k \in RawKpis} :
                Begin("manual", program, d)
           \/ \E k \in RawKpis : Begin("manual", Tick(k), d)
        /\ mixed' = mixed \cup {d}
  BY DEF Manual
<1>3. "manual" \in DayTimers /\ "manual" \in Commands /\ "nightly" \in Commands \ {"manual"}
      /\ ShiftTimers \subseteq Commands \ {"manual"}
  BY DEF DayTimers, ShiftTimers, Commands, Timers
<1>4. \A program \in {Run, Backfill, Transform} \cup {extract(k) : k \in RawKpis}
                        \cup {Tick(k) : k \in RawKpis} :
        Fits("manual", program) /\ Begins(program)
  BY <1>3, RunFits, DayParts, TickFits
<1>5. PICK program \in {Run, Backfill, Transform} \cup {extract(k) : k \in RawKpis}
                          \cup {Tick(k) : k \in RawKpis} :
        Begin("manual", program, d)
  BY <1>2
<1>6. /\ cmds' \in [Commands -> Job] /\ cmds'["manual"].day = d
      /\ \A e \in Commands \ {"manual"} : cmds'[e] = cmds[e]
      /\ Programs' /\ Windows' /\ OfItsShift' /\ Reading' /\ OfItsDay' /\ PanelMatches'
      /\ d \in Days
  BY <1>1, <1>3, <1>4, <1>5, DayBegins
<1>7. mixed \subseteq mixed' /\ mixed' \subseteq Days /\ d \in mixed'
  BY <1>2, <1>6 DEF PipeTypes
<1>8. PipeTypes'
  BY <1>1, <1>6, <1>7 DEF PipeTypes
<1>9. cmds'["nightly"] = cmds["nightly"] /\ \A e \in ShiftTimers : cmds'[e] = cmds[e]
  BY <1>3, <1>6
<1>10. NightAlone'
  BY <1>1, <1>6, <1>7, <1>9 DEF NightAlone, Busy, date
<1>11. RolledUp' /\ NightReading' /\ Baselines'
  BY <1>1, <1>7, <1>9, DaysStay
<1> QED
  BY <1>6, <1>8, <1>10, <1>11

--------------------------------------------------------------------------------
(* The theorems. *)

LEMMA PipeStart ==
    ASSUME ClockInit, PipeInit
    PROVE  PipeIInv
<1>1. /\ now = 1 /\ landed = [k \in Kpis |-> {}]
      /\ kpi_shift = [d \in Days |-> [s \in Shifts |-> [k \in Kpis |-> {}]]]
      /\ kpi_shift_history = [d \in Days |-> [s \in Shifts |-> [k \in Kpis |-> {}]]]
      /\ vessel_shift = [d \in Days |-> [s \in Shifts |-> {}]]
      /\ raw = [d \in Days |-> [k \in RawKpis |-> {}]]
      /\ kpi_daily = [d \in Days |-> [k \in Kpis |-> NoDaily]]
      /\ kpi_baseline = [d \in Days |-> [k \in Kpis |-> NoBaseline]]
      /\ cmds = [c \in Commands |-> NoCommand]
      /\ night = 0 /\ mixed = {} /\ manual = 0 /\ pipeFaults = 0
  BY DEF ClockInit, PipeInit
<1>2. /\ NoDaily \in Daily /\ NoDaily.moves = {} /\ NoDaily.mark = "none"
      /\ NoBaseline \in Compared
  BY DEF NoDaily, NoBaseline, Daily, Compared
<1>3. NoCommand \in Job /\ NoCommand.todo = << >> /\ NoCommand.end = 0
  BY Idle DEF NoCommand
<1>4. \A c \in Commands : cmds[c] = NoCommand /\ ~Busy(c) /\ \A op : ~At(c, op)
  BY <1>1, <1>3 DEF Busy, At
<1>5. PipeTypes
  <2>1. now \in 0..PipeEnd /\ now > 0
    BY <1>1, PipeAssumption
  <2>2. cmds \in [Commands -> Job] /\ night \in Nat /\ mixed \subseteq Days /\ manual \in Nat
        /\ pipeFaults \in Nat
    BY <1>1, <1>3
  <2>3. kpi_daily \in [Days -> [Kpis -> Daily]] /\ kpi_baseline \in [Days -> [Kpis -> Compared]]
    BY <1>1, <1>2
  <2>4. /\ landed \in [Kpis -> SUBSET (0..now)]
        /\ kpi_shift \in [Days -> [Shifts -> [Kpis -> SUBSET Nat]]]
        /\ kpi_shift_history \in [Days -> [Shifts -> [Kpis -> SUBSET Nat]]]
        /\ vessel_shift \in [Days -> [Shifts -> SUBSET Nat]]
        /\ raw \in [Days -> [RawKpis -> SUBSET Nat]]
    BY <1>1
  <2> QED
    BY <2>1, <2>2, <2>3, <2>4 DEF PipeTypes
<1>6. Programs
  BY <1>3, <1>4 DEF Programs, Chained
<1>7. Windows
  BY <1>1, <1>3, <1>4 DEF Windows, ShiftTimers, Commands, Timers
<1>8. OfItsShift /\ OfItsDay /\ PanelMatches
  BY <1>1, <1>2, AStep DEF OfItsShift, OfItsDay, PanelMatches
<1>9. Reading
  BY <1>4 DEF Reading, HasRead
<1>10. RolledUp /\ Baselines
  BY <1>1, <1>2 DEF RolledUp, Baselines
<1>11. NightAlone /\ NightReading
  BY <1>4 DEF NightAlone, NightReading, Commands, Timers
<1> QED
  BY <1>5, <1>6, <1>7, <1>8, <1>9, <1>10, <1>11 DEF PipeIInv

LEMMA PipeStep ==
    ASSUME PipeIInv, [PipeNext]_<<now, pipeVars>>
    PROVE  PipeIInv' /\ KeepsDays
<1>1. UNCHANGED kpi_daily => KeepsDays
  BY DEF KeepsDays
<1>2. ASSUME NEW k \in Kpis, Land(k) PROVE PipeIInv' /\ KeepsDays
  BY <1>1, <1>2, LandStep DEF Land, dayTables
<1>3. ASSUME PipeClock PROVE PipeIInv' /\ KeepsDays
  BY <1>1, <1>3, ClockStep DEF PipeClock, pipeVars
<1>4. ASSUME NEW c \in {"t1", "t2"}, tick_shift(c) PROVE PipeIInv' /\ KeepsDays
  BY <1>1, <1>4, TickStep DEF tick_shift, dayTables, ShiftTimers
<1>5. ASSUME Nightly PROVE PipeIInv' /\ KeepsDays
  BY <1>1, <1>5, NightlyStep DEF Nightly, dayTables
<1>6. ASSUME Manual PROVE PipeIInv' /\ KeepsDays
  BY <1>1, <1>6, ManualStep DEF Manual, dayTables
<1>7. ASSUME NEW c \in Commands, OneStep(c) PROVE PipeIInv' /\ KeepsDays
  <2>1. CASE fetch(c)
    BY <1>1, <2>1, FetchStep DEF fetch, dayTables
  <2>2. CASE upsert_shift(c)
    BY <1>1, <2>2, ShiftRowStep DEF upsert_shift, dayTables
  <2>3. CASE append_history(c)
    BY <1>1, <2>3, HistoryStep DEF append_history, dayTables
  <2>4. CASE write_vessel_shift(c)
    BY <1>1, <2>4, VesselStep DEF write_vessel_shift, dayTables
  <2>5. CASE rollup_today_from_shifts(c)
    BY <2>5, RollupStep
  <2>6. CASE query_day(c)
    BY <1>1, <2>6, QueryStep DEF query_day, dayTables
  <2>7. CASE upsert_raw(c)
    BY <1>1, <2>7, RawStep DEF upsert_raw
  <2>8. CASE upsert_daily(c)
    BY <2>8, DailyStep
  <2>9. CASE upsert_baseline(c)
    BY <1>1, <2>9, BaselineStep DEF upsert_baseline
  <2> QED
    BY <1>7, <2>1, <2>2, <2>3, <2>4, <2>5, <2>6, <2>7, <2>8, <2>9 DEF OneStep
<1>8. ASSUME NEW c \in Commands, SourceFails(c) PROVE PipeIInv' /\ KeepsDays
  BY <1>1, <1>8, SourceFailsStep DEF SourceFails, dayTables
<1>9. ASSUME NEW c \in Commands, DayFails(c) PROVE PipeIInv' /\ KeepsDays
  BY <1>9, DayFailsStep
<1>10. ASSUME NEW c \in Commands, UnitDies(c) PROVE PipeIInv' /\ KeepsDays
  BY <1>1, <1>10, UnitDiesStep DEF UnitDies, dayTables
<1>11. ASSUME UNCHANGED <<now, pipeVars>> PROVE PipeIInv' /\ KeepsDays
  <2>1. /\ UNCHANGED <<now, landed, cmds, night, mixed, manual, pipeFaults>>
        /\ UNCHANGED <<raw, kpi_daily, kpi_baseline>>
        /\ UNCHANGED <<kpi_shift, kpi_shift_history, vessel_shift>>
    BY <1>11 DEF pipeVars
  <2>2. PipeTypes' /\ Programs' /\ Windows' /\ OfItsShift'
    BY <2>1 DEF PipeIInv, PipeTypes, Programs, Windows, OfItsShift, Busy, date, current
  <2>3. Reading' /\ OfItsDay' /\ RolledUp' /\ PanelMatches'
    <3>1. Reading'
      BY <2>1 DEF PipeIInv, Reading, HasRead, At, Busy, KpiOf, render_day, ShiftMoves, date, current
    <3>2. OfItsDay' /\ RolledUp'
      BY <2>1 DEF PipeIInv, OfItsDay, RolledUp, render_day, ShiftMoves, date, current
    <3>3. PanelMatches'
      BY <2>1 DEF PipeIInv, PanelMatches
    <3> QED
      BY <3>1, <3>2, <3>3
  <2>4. NightAlone' /\ NightReading' /\ Baselines'
    BY <2>1 DEF PipeIInv, NightAlone, NightReading, Baselines, Pending, At, Busy, KpiOf, date
  <2> QED
    BY <1>1, <2>1, <2>2, <2>3, <2>4 DEF PipeIInv
<1> QED
  BY <1>2, <1>3, <1>4, <1>5, <1>6, <1>7, <1>8, <1>9, <1>10, <1>11 DEF PipeNext

LEMMA AlwaysPipe == PipeSpec => []PipeIInv
<1>1. ClockInit /\ PipeInit => PipeIInv
  BY PipeStart
<1>2. PipeIInv /\ [PipeNext]_<<now, pipeVars>> => PipeIInv'
  BY PipeStep
<1> QED
  BY <1>1, <1>2, PTL DEF PipeSpec

\* The tables of the shifts are of one piece: every row is about moves of its day
\* that have landed, no move is counted in two shifts of a day (the weights of
\* rollup_today_from_shifts may be added), and the vessel panel and the history of
\* a shift never show a move that the headline row of upsert_shift does not count.
THEOREM PipeTables == PipeSpec => []PipeInv
<1>1. PipeIInv => PipeInv
  <2> SUFFICES ASSUME PipeIInv PROVE PipeInv
    OBVIOUS
  <2> USE DEF PipeIInv
  <2>1. PipeTypeOK
    <3>1. \A k \in Kpis : landed[k] \subseteq 0..now
      BY DEF PipeTypes
    <3>2. \A d \in Days, s \in Shifts, k \in Kpis : \A t \in kpi_shift[d][s][k] : date(t) = d
      BY DEF OfItsShift
    <3>3. \A d \in Days, k \in Kpis :
            /\ kpi_daily[d][k].mark \in {"none", "provisional", "final"}
            /\ kpi_baseline[d][k].days \subseteq Days
      BY DEF PipeTypes, Daily, Compared
    <3>4. \A d \in Days, k \in Kpis : \A t \in kpi_daily[d][k].moves : date(t) = d
      BY DEF OfItsDay, render_day
    <3> QED
      BY <3>1, <3>2, <3>3, <3>4 DEF PipeTypeOK
  <2>2. CountedOnce
    BY DEF OfItsShift, CountedOnce
  <2>3. PanelMatches
    OBVIOUS
  <2> QED
    BY <2>1, <2>2, <2>3 DEF PipeInv
<1> QED
  BY <1>1, AlwaysPipe, PTL

\* When no nightly run is under way, the final value of a day that was left to one
\* undisturbed nightly run has its baseline (upsert_baseline), which compares the
\* value that the day shows with a window that does not contain the day.
THEOREM PipeBaseline == PipeSpec => []BaselineTracks
<1>1. PipeIInv => BaselineTracks
  BY DEF PipeIInv, Baselines, BaselineTracks
<1> QED
  BY <1>1, AlwaysPipe, PTL

\* The row of a day keeps its final mark, except where the operator's tick of the
\* day path marks it provisional, and on a day left to one undisturbed nightly run
\* every value replaces one over no more moves, whether rollup_today_from_shifts or
\* upsert_daily writes it.
THEOREM PipeDaysKept == PipeSpec => DayKept
<1> DEFINE Final == \A d \in Days, k \in Kpis :
                       kpi_daily[d][k].mark = "final" =>
                          \/ kpi_daily'[d][k].mark = "final"
                          \/ At("manual", "provisional")
           Grows == \A d \in Days \ mixed', k \in Kpis :
                       kpi_daily[d][k].moves \subseteq kpi_daily'[d][k].moves
<1>1. PipeIInv /\ [PipeNext]_<<now, pipeVars>> => Final /\ Grows
  BY PipeStep DEF KeepsDays
<1>2. PipeIInv /\ [PipeNext]_<<now, pipeVars>> =>
        [Final]_<<now, pipeVars>> /\ [Grows]_<<now, pipeVars>>
  BY <1>1
<1>3. PipeSpec => [][Final]_<<now, pipeVars>> /\ [][Grows]_<<now, pipeVars>>
  BY <1>2, AlwaysPipe, PTL DEF PipeSpec
<1> QED
  BY <1>3 DEF DayKept, FinalKept, RowGrows
=============================================================================
