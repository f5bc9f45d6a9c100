-------------------------- MODULE SchedulerProofs --------------------------
(***************************************************************************)
(* Theorems about the scheduler, for every width of the clock, every       *)
(* number of tasks and every set of periods and of silences that the       *)
(* clock can tell apart.                                                   *)
(***************************************************************************)
EXTENDS Scheduler, SequenceTheorems, TLAPS

Half == ClockMod \div 2
Time == 0 .. ClockMod - 1

\* From b to a, on the circle of the clock.
Dist(a, b) == ToSigned(a - b)

LEMMA HalfIsHalf ==
    /\ Half \in Nat /\ ClockMod = 2 * Half /\ Half > 0
    /\ MaxBoot \in Nat /\ MaxGap \in Nat /\ MaxPass \in Nat
    /\ MaxGap + 2 * MaxPass <= Half
    /\ MaxBoot + MaxGap + MaxPass < Half
    /\ \A p \in TaskPeriods : p \in Nat /\ p + MaxBoot + MaxGap + MaxPass < Half
  BY SchedulerAssumption DEF Half

\* What the two conversions do within one turn of the clock.
LEMMA UnsignedOf ==
    ASSUME NEW x \in 0 .. 2 * ClockMod - 1
    PROVE  ToUnsigned(x) = IF x < ClockMod THEN x ELSE x - ClockMod
  BY SchedulerAssumption DEF ToUnsigned

LEMMA SignedOf ==
    ASSUME NEW x \in -(ClockMod - 1) .. ClockMod - 1
    PROVE  ToSigned(x) = IF x >= Half THEN x - ClockMod
                         ELSE IF x < -Half THEN x + ClockMod ELSE x
<1>1. CASE x >= 0
  <2>1. x % ClockMod = x
    BY <1>1, SchedulerAssumption
  <2> QED
    BY <1>1, <2>1, HalfIsHalf DEF ToSigned, Half
<1>2. CASE x < 0
  <2>1. x % ClockMod = x + ClockMod
    BY <1>2, SchedulerAssumption
  <2> QED
    BY <1>2, <2>1, HalfIsHalf DEF ToSigned, Half
<1> QED
  BY <1>1, <1>2

LEMMA DistOf ==
    ASSUME NEW a \in Time, NEW b \in Time
    PROVE  Dist(a, b) = IF a - b >= Half THEN a - b - ClockMod
                        ELSE IF a - b < -Half THEN a - b + ClockMod ELSE a - b
<1> DEFINE x == a - b
<1>1. x \in -(ClockMod - 1) .. ClockMod - 1 /\ Dist(a, b) = ToSigned(x)
  BY HalfIsHalf DEF Time, Dist
<1> HIDE DEF x
<1>2. ToSigned(x) = IF x >= Half THEN x - ClockMod ELSE IF x < -Half THEN x + ClockMod ELSE x
  BY <1>1, SignedOf
<1>3. /\ x >= Half => Dist(a, b) = x - ClockMod
      /\ x < -Half => Dist(a, b) = x + ClockMod
      /\ x < Half /\ x >= -Half => Dist(a, b) = x
  BY <1>1, <1>2, HalfIsHalf
<1> QED
  BY <1>3, HalfIsHalf DEF x, Time

\* A distance is the difference up to a turn, and it is the only one within half a turn.
LEMMA DistIsNear ==
    ASSUME NEW a \in Time, NEW b \in Time
    PROVE  /\ Dist(a, b) \in -Half .. Half - 1
           /\ \/ Dist(a, b) = a - b
              \/ Dist(a, b) = (a - b) - ClockMod
              \/ Dist(a, b) = (a - b) + ClockMod
  BY DistOf, HalfIsHalf DEF Time

LEMMA NearIsDist ==
    ASSUME NEW a \in Time, NEW b \in Time, NEW d \in -Half .. Half - 1,
           d = a - b \/ d = (a - b) - ClockMod \/ d = (a - b) + ClockMod
    PROVE  Dist(a, b) = d
<1> DEFINE e == Dist(a, b)
           x == a - b
<1>1. /\ e \in -Half .. Half - 1 /\ x \in Int
      /\ e = x \/ e = x - ClockMod \/ e = x + ClockMod
      /\ d = x \/ d = x - ClockMod \/ d = x + ClockMod
  BY DistIsNear DEF Time
<1> HIDE DEF e, x
<1>2. e = d
  BY <1>1, HalfIsHalf
<1> QED
  BY <1>2 DEF e

\* Distances add up as long as the sum is below half a turn.
LEMMA DistAddsUp ==
    ASSUME NEW a \in Time, NEW b \in Time, NEW c \in Time,
           Dist(a, b) - Dist(c, b) \in -Half .. Half - 1
    PROVE  Dist(a, c) = Dist(a, b) - Dist(c, b)
<1> DEFINE x == Dist(a, b)
           y == Dist(c, b)
<1>1. /\ x \in -Half .. Half - 1
      /\ x = a - b \/ x = (a - b) - ClockMod \/ x = (a - b) + ClockMod
  BY DistIsNear
<1>2. /\ y \in -Half .. Half - 1
      /\ y = c - b \/ y = (c - b) - ClockMod \/ y = (c - b) + ClockMod
  BY DistIsNear
<1>3. x - y \in -Half .. Half - 1
  OBVIOUS
<1> HIDE DEF x, y
<1>4. x - y = a - c \/ x - y = (a - c) - ClockMod \/ x - y = (a - c) + ClockMod
  BY <1>1, <1>2, <1>3, HalfIsHalf DEF Time
<1>5. Dist(a, c) = x - y
  BY <1>3, <1>4, NearIsDist
<1> QED
  BY <1>5 DEF x, y

\* A time that is moved on by less than half a turn.
LEMMA Advanced ==
    ASSUME NEW a \in Time, NEW p \in 0 .. Half, NEW b \in Time,
           Dist(a, b) + p \in -Half .. Half - 1
    PROVE  ToUnsigned(a + p) \in Time /\ Dist(ToUnsigned(a + p), b) = Dist(a, b) + p
<1> DEFINE x == a + p
           y == ToUnsigned(x)
<1>1. x \in 0 .. 2 * ClockMod - 1
  BY HalfIsHalf DEF Time
<1> HIDE DEF x
<1>2. y = IF x < ClockMod THEN x ELSE x - ClockMod
  BY <1>1, UnsignedOf
<1> HIDE DEF y
<1>3. y \in Time /\ (y = x \/ y = x - ClockMod)
  BY <1>1, <1>2, HalfIsHalf DEF Time
<1>4. Dist(y, b) = Dist(a, b) + p
  <2> DEFINE d == Dist(a, b) + p
  <2>1. /\ d \in -Half .. Half - 1
        /\ \/ d = (a - b) + p
           \/ d = ((a - b) - ClockMod) + p
           \/ d = ((a - b) + ClockMod) + p
    BY DistIsNear
  <2> HIDE DEF d
  <2>2. d = y - b \/ d = (y - b) - ClockMod \/ d = (y - b) + ClockMod
    BY <1>3, <2>1, HalfIsHalf DEF Time, x
  <2>3. Dist(y, b) = d
    BY <1>3, <2>1, <2>2, NearIsDist
  <2> QED
    BY <2>3 DEF d
<1> QED
  BY <1>3, <1>4 DEF x, y

\* A time is due when it is not ahead.
LEMMA DueIsBehind ==
    ASSUME NEW a \in Time, NEW b \in Time, Dist(a, b) > -Half
    PROVE  IsDue(b, a) <=> Dist(a, b) <= 0
<1>1. IsDue(b, a) <=> Dist(b, a) >= 0
  BY DEF IsDue, Dist
<1> QED
  BY <1>1, DistOf, HalfIsHalf DEF Time
-----------------------------------------------------------------------------
(* The invariant *)

Task == [period_ms : TaskPeriods \ {0}, next_ms : Time]

Ahead(t) == Dist(tasks[t].next_ms, now_ms)
Left(t)  == Dist(tasks[t].next_ms, clock)

\* A task that has had its turn is due within a period of the pass; one that waits for it
\* is late by a boot, or by a pass and a gap, at most.
TaskInv(t) ==
    /\ Ahead(t) <= tasks[t].period_ms
    /\ Ahead(t) >= - MaxBoot \/ Ahead(t) >= 1 - MaxGap - MaxPass
    /\ index = 0 \/ t < index => Ahead(t) >= 1

SchedInv ==
    /\ clock \in Time /\ now_ms \in Time /\ silence \in Nat /\ started \in BOOLEAN
    /\ tasks \in Seq(Task) /\ index \in 0 .. Len(tasks)
    /\ started = FALSE => /\ index = 0 /\ clock = silence /\ silence <= MaxBoot
                          /\ \A t \in 1 .. Len(tasks) : tasks[t].next_ms = 0
    /\ started = TRUE =>
         /\ index = 0 => /\ Dist(clock, now_ms) >= 0 /\ Dist(clock, now_ms) <= silence + MaxPass
                         /\ silence <= MaxGap
         /\ index > 0 => Dist(clock, now_ms) = silence /\ silence <= MaxPass
         /\ \A t \in 1 .. Len(tasks) : TaskInv(t)

LEMMA TaskIsTask ==
    ASSUME SchedInv, NEW t \in 1 .. Len(tasks)
    PROVE  /\ tasks[t] \in Task
           /\ tasks[t].period_ms \in TaskPeriods \ {0} /\ tasks[t].next_ms \in Time
           /\ tasks[t].period_ms \in Nat /\ tasks[t].period_ms > 0
           /\ tasks[t].period_ms + MaxBoot + MaxGap + MaxPass < Half
<1>1. tasks[t] \in Task
  BY ElementOfSeq DEF SchedInv
<1> QED
  BY <1>1, HalfIsHalf DEF Task

\* The time a task has left, from the clock and from the pass.
LeftKnown ==
    \A t \in 1 .. Len(tasks) :
      /\ started = TRUE => Left(t) = Ahead(t) - Dist(clock, now_ms)
      /\ started = FALSE => Left(t) = - clock

LEMMA LeftIsKnown == SchedInv => LeftKnown
<1> SUFFICES ASSUME SchedInv, NEW t \in 1 .. Len(tasks)
             PROVE  /\ started = TRUE => Left(t) = Ahead(t) - Dist(clock, now_ms)
                    /\ started = FALSE => Left(t) = - clock
  BY DEF LeftKnown
<1> DEFINE p == tasks[t].period_ms
           n == tasks[t].next_ms
<1>1. p \in Nat /\ p + MaxBoot + MaxGap + MaxPass < Half /\ n \in Time
  BY TaskIsTask
<1>2. clock \in Time /\ now_ms \in Time
  BY DEF SchedInv
<1>3. ASSUME started = TRUE PROVE Left(t) = Ahead(t) - Dist(clock, now_ms)
  <2> DEFINE a == Dist(n, now_ms)
             d == Dist(clock, now_ms)
  <2>1. a \in -Half .. Half - 1 /\ d \in -Half .. Half - 1
    BY <1>1, <1>2, DistIsNear
  <2>2. /\ a <= p
        /\ a >= - MaxBoot \/ a >= 1 - MaxGap - MaxPass
        /\ index = 0 => a >= 1
    BY <1>3 DEF SchedInv, TaskInv, Ahead
  <2>3. index \in Nat /\ Len(tasks) \in Nat /\ silence \in Nat
    BY LenProperties DEF SchedInv
  <2>4. d >= 0 /\ d <= MaxGap + MaxPass /\ (index > 0 => d <= MaxPass)
    <3>1. CASE index = 0
      BY <1>3, <2>1, <2>3, <3>1, HalfIsHalf DEF SchedInv
    <3>2. CASE index > 0
      BY <1>3, <2>1, <2>3, <3>2, HalfIsHalf DEF SchedInv
    <3> QED
      BY <2>3, <3>1, <3>2
  <2> HIDE DEF a, d, p
  <2>5. a - d \in -Half .. Half - 1
    BY <1>1, <2>1, <2>2, <2>3, <2>4, HalfIsHalf
  <2>6. Dist(n, clock) = Dist(n, now_ms) - Dist(clock, now_ms)
    BY <1>1, <1>2, <2>5, DistAddsUp DEF a, d
  <2> QED
    BY <2>6 DEF Left, Ahead
<1>4. ASSUME started = FALSE PROVE Left(t) = - clock
  <2>1. n = 0 /\ clock <= MaxBoot
    BY <1>4 DEF SchedInv
  <2>2. - clock \in -Half .. Half - 1 /\ - clock = 0 - clock
    BY <1>2, <2>1, HalfIsHalf DEF Time
  <2> QED
    BY <1>1, <1>2, <2>1, <2>2, NearIsDist DEF Left
<1> QED
  BY <1>3, <1>4

\* The same in the next state.
LEMMA LeftIsKnownNext == SchedInv' => LeftKnown'
  BY LeftIsKnown, PTL

\* The mapped tasks are a sequence as long as the tasks.
Job == [period : Int, left : Int]

JobsKnown ==
    /\ Jobs \in Seq(Job) /\ Len(Jobs) = Len(tasks)
    /\ \A t \in 1 .. Len(tasks) : Jobs[t] = [period |-> tasks[t].period_ms, left |-> Left(t)]

LEMMA JobsAreKnown == SchedInv => JobsKnown
<1> SUFFICES ASSUME SchedInv PROVE JobsKnown
  OBVIOUS
<1>1. DOMAIN tasks = 1 .. Len(tasks) /\ Len(tasks) \in Nat
  BY LenProperties DEF SchedInv
<1>2. Jobs = [t \in 1 .. Len(tasks) |-> [period |-> tasks[t].period_ms, left |-> Left(t)]]
  BY <1>1 DEF Jobs, Left, Dist
<1>3. \A t \in 1 .. Len(tasks) : tasks[t].period_ms \in Int /\ Left(t) \in Int
  <2> TAKE t \in 1 .. Len(tasks)
  <2>1. tasks[t].period_ms \in Nat /\ tasks[t].next_ms \in Time /\ clock \in Time
    BY TaskIsTask DEF SchedInv
  <2>2. Left(t) \in -Half .. Half - 1
    BY <2>1, DistIsNear DEF Left
  <2> QED
    BY <2>1, <2>2, HalfIsHalf
<1>4. Jobs \in [1 .. Len(tasks) -> Job]
  BY <1>2, <1>3 DEF Job
<1>5. Jobs \in Seq(Job)
  BY <1>1, <1>4, SeqDef
<1> QED
  BY <1>1, <1>2, <1>4, <1>5, LenProperties DEF JobsKnown

LEMMA JobsAreKnownNext == SchedInv' => JobsKnown'
  BY JobsAreKnown, PTL
-----------------------------------------------------------------------------
(* The steps *)

\* sched_register adds a task that is due at the time zero.
LEMMA RegisterStep ==
    ASSUME SchedInv, NEW p \in TaskPeriods, Register(p)
    PROVE  SchedInv' /\ Mapped!Add
<1>1. /\ started = FALSE /\ p > 0 /\ Len(tasks) < Capacity
      /\ tasks' = Append(tasks, [period_ms |-> p, next_ms |-> 0])
      /\ UNCHANGED <<clock, index, now_ms, executed, started, silence>>
  BY DEF Register, SchedInv
<1>2. /\ index = 0 /\ clock = silence /\ silence <= MaxBoot /\ clock \in Time
      /\ tasks \in Seq(Task) /\ Len(tasks) \in Nat
      /\ \A t \in 1 .. Len(tasks) : tasks[t].next_ms = 0
  BY <1>1, LenProperties DEF SchedInv
<1>3. [period_ms |-> p, next_ms |-> 0] \in Task
  BY <1>1, HalfIsHalf DEF Task, Time
<1>4. /\ tasks' \in Seq(Task) /\ Len(tasks') = Len(tasks) + 1
      /\ \A t \in 1 .. Len(tasks) : tasks'[t] = tasks[t]
      /\ tasks'[Len(tasks) + 1] = [period_ms |-> p, next_ms |-> 0]
  BY <1>1, <1>2, <1>3, AppendProperties
<1>5. SchedInv'
  <2>1. \A t \in 1 .. Len(tasks') : tasks'[t].next_ms = 0
    BY <1>2, <1>4
  <2> QED
    BY <1>1, <1>2, <1>4, <2>1 DEF SchedInv
<1>6. Jobs' = Append(Jobs, [period |-> p, left |-> - clock])
  <2>1. JobsKnown /\ JobsKnown' /\ LeftKnown /\ LeftKnown'
    BY <1>5, JobsAreKnown, JobsAreKnownNext, LeftIsKnown, LeftIsKnownNext
  <2> DEFINE new == [period |-> p, left |-> - clock]
  <2>2. new \in Job
    BY <1>2, HalfIsHalf DEF Job, Time
  <2>3. /\ Append(Jobs, new) \in Seq(Job) /\ Len(Append(Jobs, new)) = Len(tasks) + 1
        /\ \A t \in 1 .. Len(tasks) : Append(Jobs, new)[t] = Jobs[t]
        /\ Append(Jobs, new)[Len(tasks) + 1] = new
    BY <2>1, <2>2, AppendProperties DEF JobsKnown
  <2>4. \A t \in 1 .. Len(tasks) + 1 : Jobs'[t] = Append(Jobs, new)[t]
    <3> SUFFICES ASSUME NEW t \in 1 .. Len(tasks) + 1 PROVE Jobs'[t] = Append(Jobs, new)[t]
      OBVIOUS
    <3>1. Jobs'[t] = [period |-> tasks'[t].period_ms, left |-> - clock]
      BY <1>1, <1>4, <2>1 DEF JobsKnown, LeftKnown
    <3>2. CASE t \in 1 .. Len(tasks)
      <4>1. Jobs[t] = [period |-> tasks[t].period_ms, left |-> - clock]
        BY <1>1, <2>1, <3>2 DEF JobsKnown, LeftKnown
      <4> QED
        BY <1>4, <2>3, <3>1, <3>2, <4>1
    <3>3. CASE t = Len(tasks) + 1
      BY <1>4, <2>3, <3>1, <3>3
    <3>4. t \in 1 .. Len(tasks) \/ t = Len(tasks) + 1
      BY <1>2
    <3> QED
      BY <3>2, <3>3, <3>4, Zenon
  <2>5. Jobs' \in Seq(Job) /\ Len(Jobs') = Len(tasks) + 1
    BY <1>4, <2>1 DEF JobsKnown
  <2> HIDE DEF new
  <2>6. Jobs' = Append(Jobs, new)
    BY <2>3, <2>4, <2>5, SeqEqual
  <2> QED
    BY <2>6 DEF new
<1>7. clock \in 0 .. MaxBoot
  BY <1>2, HalfIsHalf DEF Time
<1>8. index = 0 /\ Len(Jobs) < Capacity /\ Lag' = Lag
  BY <1>1, <1>2, JobsAreKnown DEF JobsKnown, Lag
<1> QED
  BY <1>1, <1>5, <1>6, <1>7, <1>8 DEF Mapped!Add

\* sched_run_once reads the time.
LEMMA RunOnceStep ==
    ASSUME SchedInv, RunOnce
    PROVE  SchedInv' /\ Mapped!Begin
<1>1. /\ index = 0 /\ tasks # <<>> /\ started' = TRUE /\ now_ms' = clock
      /\ index' = 1 /\ executed' = {} /\ silence' = 0 /\ clock' = clock /\ tasks' = tasks
  BY DEF RunOnce
<1>2. clock \in Time /\ tasks \in Seq(Task) /\ Len(tasks) \in Nat /\ Len(tasks) > 0
  BY <1>1, LenProperties, EmptySeq DEF SchedInv
<1>3. Dist(clock, clock) = 0
  BY <1>2, NearIsDist, HalfIsHalf DEF Time
<1>4. \A t \in 1 .. Len(tasks) : /\ Left(t) <= tasks[t].period_ms
                                 /\ Left(t) >= - MaxBoot \/ Left(t) >= 1 - MaxGap - MaxPass
  <2> TAKE t \in 1 .. Len(tasks)
  <2>1. tasks[t].period_ms \in Nat /\ tasks[t].next_ms \in Time /\ now_ms \in Time
    BY TaskIsTask DEF SchedInv
  <2>2. CASE started = TRUE
    <3> DEFINE a == Ahead(t)
               d == Dist(clock, now_ms)
    <3>1. Left(t) = a - d /\ a <= tasks[t].period_ms /\ a >= 1
      BY <1>1, <2>2, LeftIsKnown DEF LeftKnown, SchedInv, TaskInv
    <3>2. a \in Int /\ d \in Int
      BY <1>2, <2>1, DistIsNear, HalfIsHalf DEF Ahead
    <3>3. d >= 0 /\ d <= MaxGap + MaxPass
      BY <1>1, <2>2, <3>2, HalfIsHalf DEF SchedInv
    <3> HIDE DEF a, d
    <3> QED
      BY <2>1, <3>1, <3>2, <3>3, HalfIsHalf
  <2>3. CASE started = FALSE
    <3>1. Left(t) = - clock /\ clock <= MaxBoot
      BY <2>3, LeftIsKnown DEF LeftKnown, SchedInv
    <3> QED
      BY <1>2, <2>1, <3>1, HalfIsHalf DEF Time
  <2> QED
    BY <2>2, <2>3 DEF SchedInv
<1>5. SchedInv'
  <2>1. \A t \in 1 .. Len(tasks) : TaskInv(t)'
    <3> TAKE t \in 1 .. Len(tasks)
    <3>1. Ahead(t)' = Left(t) /\ ~ (index' = 0) /\ ~ (t < index')
      BY <1>1, <1>2 DEF Ahead, Left
    <3> QED
      BY <1>1, <1>4, <3>1 DEF TaskInv
  <2>2. Dist(clock', now_ms') = silence' /\ silence' <= MaxPass /\ silence' \in Nat
    BY <1>1, <1>3, HalfIsHalf
  <2>3. index' \in 0 .. Len(tasks') /\ ~ (index' = 0)
    BY <1>1, <1>2
  <2> QED
    BY <1>1, <1>2, <2>1, <2>2, <2>3 DEF SchedInv
<1>6. Jobs' = Jobs /\ Jobs # <<>> /\ Lag' = 0
  <2>1. Jobs' = Jobs
    BY <1>1 DEF Jobs
  <2>2. Len(Jobs) > 0 /\ Jobs \in Seq(Job)
    BY <1>2, JobsAreKnown DEF JobsKnown
  <2>3. Jobs # <<>>
    BY <2>2, EmptySeq
  <2>4. Lag' = 0
    BY <1>1, <1>3 DEF Lag, Dist
  <2> QED
    BY <2>1, <2>3, <2>4
<1> QED
  BY <1>1, <1>5, <1>6 DEF Mapped!Begin
\* SysTick_Handler moves the clock on, and every task by a millisecond.
LEMMA TickStep ==
    ASSUME SchedInv, Tick
    PROVE  SchedInv' /\ Mapped!Elapse
<1>1. /\ silence < SilenceBound /\ clock' = ToUnsigned(clock + 1) /\ silence' = silence + 1
      /\ tasks' = tasks /\ index' = index /\ now_ms' = now_ms
      /\ executed' = executed /\ started' = started
  BY DEF Tick
<1>2. /\ clock \in Time /\ now_ms \in Time /\ silence \in Nat /\ started \in BOOLEAN
      /\ tasks \in Seq(Task) /\ Len(tasks) \in Nat /\ index \in 0 .. Len(tasks) /\ index \in Nat
  BY LenProperties DEF SchedInv
<1>3. ASSUME started = TRUE
      PROVE  clock' \in Time /\ Dist(clock', now_ms) = Dist(clock, now_ms) + 1
  <2> DEFINE d == Dist(clock, now_ms)
  <2>1. d \in Int
    BY <1>2, DistIsNear, HalfIsHalf
  <2>2. d >= 0 /\ d + 1 <= MaxGap + MaxPass
    <3>1. CASE index = 0
      BY <1>1, <1>2, <1>3, <2>1, <3>1, HalfIsHalf DEF SchedInv, SilenceBound
    <3>2. CASE index > 0
      BY <1>1, <1>2, <1>3, <2>1, <3>2, HalfIsHalf DEF SchedInv, SilenceBound
    <3> QED
      BY <1>2, <3>1, <3>2
  <2>3. d + 1 \in -Half .. Half - 1 /\ 1 \in 0 .. Half
    BY <2>1, <2>2, HalfIsHalf
  <2> QED
    BY <1>1, <1>2, <2>3, Advanced
<1>4. ASSUME started = FALSE
      PROVE  clock' \in Time /\ clock' = clock + 1 /\ clock + 1 = silence' /\ silence' <= MaxBoot
  <2>1. clock = silence /\ clock + 1 <= MaxBoot
    BY <1>1, <1>2, <1>4, HalfIsHalf DEF SchedInv, SilenceBound, Time
  <2> DEFINE x == clock + 1
  <2>2. x \in 0 .. 2 * ClockMod - 1 /\ x < ClockMod
    BY <1>2, <2>1, HalfIsHalf DEF Time
  <2> HIDE DEF x
  <2>3. ToUnsigned(x) = x
    BY <2>2, UnsignedOf
  <2> QED
    BY <1>1, <1>2, <2>1, <2>2, <2>3, HalfIsHalf DEF Time, x
<1>5. SchedInv'
  <2>1. clock' \in Time /\ silence' \in Nat
    <3>1. clock' \in Time
      BY <1>2, <1>3, <1>4, Zenon
    <3>2. silence' \in Nat
      BY <1>1, <1>2
    <3> QED
      BY <3>1, <3>2
  <2>2. CASE started = TRUE
    <3>1. Dist(clock', now_ms') = Dist(clock, now_ms) + 1 /\ Dist(clock, now_ms) \in Int
      BY <1>1, <1>2, <1>3, <2>2, DistIsNear, HalfIsHalf
    <3>2. index' = 0 => /\ Dist(clock', now_ms') >= 0 /\ Dist(clock', now_ms') <= silence' + MaxPass
                        /\ silence' <= MaxGap
      BY <1>1, <1>2, <2>2, <3>1, HalfIsHalf DEF SchedInv, SilenceBound
    <3>3. index' > 0 => Dist(clock', now_ms') = silence' /\ silence' <= MaxPass
      BY <1>1, <1>2, <2>2, <3>1, HalfIsHalf DEF SchedInv, SilenceBound
    <3>4. \A t \in 1 .. Len(tasks') : TaskInv(t)'
      BY <1>1, <2>2 DEF SchedInv, TaskInv, Ahead
    <3> QED
      BY <1>1, <1>2, <2>1, <2>2, <3>2, <3>3, <3>4 DEF SchedInv
  <2>3. CASE started = FALSE
    BY <1>1, <1>2, <1>4, <2>1, <2>3 DEF SchedInv
  <2> QED
    BY <1>2, <2>2, <2>3
<1>6. \A t \in 1 .. Len(tasks) : Left(t)' = Left(t) - 1
  <2> TAKE t \in 1 .. Len(tasks)
  <2>1. LeftKnown /\ LeftKnown' /\ Ahead(t)' = Ahead(t)
    BY <1>1, <1>5, LeftIsKnown, LeftIsKnownNext DEF Ahead
  <2>2. tasks[t].next_ms \in Time
    BY TaskIsTask
  <2>3. Ahead(t) \in Int /\ Dist(clock, now_ms) \in Int
    BY <1>2, <2>2, DistIsNear, HalfIsHalf DEF Ahead
  <2>4. CASE started = TRUE
    <3>1. /\ Left(t) = Ahead(t) - Dist(clock, now_ms)
          /\ Left(t)' = Ahead(t) - Dist(clock', now_ms)
      BY <1>1, <2>1, <2>4 DEF LeftKnown
    <3> QED
      BY <1>3, <2>3, <2>4, <3>1
  <2>5. CASE started = FALSE
    <3>1. Left(t) = - clock /\ Left(t)' = - clock'
      BY <1>1, <2>1, <2>5 DEF LeftKnown
    <3>2. clock' = clock + 1
      BY <1>4, <2>5
    <3>3. clock \in Int
      BY <1>2, HalfIsHalf DEF Time
    <3> QED
      BY <3>1, <3>2, <3>3
  <2> QED
    BY <1>2, <2>4, <2>5
<1>7. Jobs' = [t \in DOMAIN Jobs |-> [Jobs[t] EXCEPT !.left = @ - 1]]
  <2>1. DOMAIN tasks = 1 .. Len(tasks)
    BY <1>2, LenProperties
  <2>2. Jobs = [t \in 1 .. Len(tasks) |-> [period |-> tasks[t].period_ms, left |-> Left(t)]]
    BY <2>1 DEF Jobs, Left, Dist
  <2>3. Jobs' = [t \in 1 .. Len(tasks) |-> [period |-> tasks[t].period_ms, left |-> Left(t)']]
    BY <1>1, <2>1 DEF Jobs, Left, Dist
  <2>4. \A t \in 1 .. Len(tasks) :
          [period |-> tasks[t].period_ms, left |-> Left(t)']
            = [[period |-> tasks[t].period_ms, left |-> Left(t)] EXCEPT !.left = @ - 1]
    BY <1>6
  <2> QED
    BY <2>2, <2>3, <2>4
<1>8. Lag' = IF index = 0 THEN Lag ELSE Lag + 1
  <2>1. CASE index = 0
    BY <1>1, <2>1 DEF Lag
  <2>2. CASE index # 0
    <3>1. started = TRUE /\ Lag = Dist(clock, now_ms) /\ Lag' = Dist(clock', now_ms)
      BY <1>1, <1>2, <2>2 DEF Lag, Dist, SchedInv
    <3> QED
      BY <1>3, <2>2, <3>1
  <2> QED
    BY <2>1, <2>2
<1> QED
  BY <1>1, <1>5, <1>7, <1>8 DEF Mapped!Elapse

\* In a pass the time left and the time the pass has taken are the distance from its
\* beginning, and a task is executed where that is not positive.
LEMMA TurnFacts ==
    ASSUME SchedInv, index > 0
    PROVE  /\ started = TRUE /\ index \in 1 .. Len(tasks) /\ Lag = silence /\ silence <= MaxPass
           /\ Ahead(index) \in -Half + 1 .. Half - 1 /\ Lag \in Nat
           /\ Jobs[index] = [period |-> tasks[index].period_ms, left |-> Ahead(index) - Lag]
           /\ IsDue(now_ms, tasks[index].next_ms) <=> Ahead(index) <= 0
           /\ Mapped!WasDue(index) <=> Ahead(index) <= 0
           /\ TaskInv(index)
<1>1. /\ started = TRUE /\ index \in 1 .. Len(tasks) /\ silence \in Nat
      /\ clock \in Time /\ now_ms \in Time
  BY LenProperties DEF SchedInv
<1>2. /\ tasks[index].next_ms \in Time /\ tasks[index].period_ms \in Nat
      /\ tasks[index].period_ms + MaxBoot + MaxGap + MaxPass < Half
  BY <1>1, TaskIsTask
<1>3. Lag = silence /\ silence <= MaxPass
  BY <1>1 DEF Lag, Dist, SchedInv
<1>4. TaskInv(index)
  BY <1>1 DEF SchedInv
<1>5. Ahead(index) \in -Half + 1 .. Half - 1
  <2>1. Ahead(index) \in -Half .. Half - 1
    BY <1>1, <1>2, DistIsNear DEF Ahead
  <2> QED
    BY <1>2, <1>4, <2>1, HalfIsHalf DEF TaskInv
<1>6. Jobs[index] = [period |-> tasks[index].period_ms, left |-> Ahead(index) - Lag]
  <2>1. Left(index) = Ahead(index) - Lag
    BY <1>1, <1>3, LeftIsKnown DEF LeftKnown, SchedInv
  <2> QED
    BY <1>1, <2>1, JobsAreKnown DEF JobsKnown
<1>7. IsDue(now_ms, tasks[index].next_ms) <=> Ahead(index) <= 0
  BY <1>1, <1>2, <1>5, DueIsBehind, HalfIsHalf DEF Ahead
<1>8. Mapped!WasDue(index) <=> Ahead(index) <= 0
  BY <1>1, <1>3, <1>5, <1>6, HalfIsHalf DEF Mapped!WasDue
<1> QED
  BY <1>1, <1>3, <1>4, <1>5, <1>6, <1>7, <1>8
\* What follows of a turn that leaves the task within its period.
LEMMA TurnKeeps ==
    ASSUME SchedInv, index > 0,
           tasks' \in Seq(Task), Len(tasks') = Len(tasks),
           \A t \in 1 .. Len(tasks) : t # index => tasks'[t] = tasks[t],
           Dist(tasks'[index].next_ms, now_ms') \in 1 .. tasks'[index].period_ms,
           tasks'[index].period_ms \in Nat,
           index' = NextIndex, silence' = IF index' = 0 THEN 0 ELSE silence,
           UNCHANGED <<clock, now_ms, started>>
    PROVE  /\ SchedInv'
           /\ index' = IF index = Len(Jobs) THEN 0 ELSE index + 1
           /\ Lag' = IF index' = 0 THEN 0 ELSE Lag
<1>1. /\ started = TRUE /\ index \in 1 .. Len(tasks) /\ Len(tasks) \in Nat /\ silence \in Nat
      /\ Dist(clock, now_ms) = silence /\ silence <= MaxPass
      /\ \A t \in 1 .. Len(tasks) : TaskInv(t)
  BY LenProperties DEF SchedInv
<1>2. /\ index' = IF index = Len(tasks) THEN 0 ELSE index + 1
      /\ index' \in 0 .. Len(tasks')
  BY <1>1 DEF NextIndex
<1>3. \A t \in 1 .. Len(tasks') : TaskInv(t)'
  <2> TAKE t \in 1 .. Len(tasks')
  <2>1. CASE t = index
    <3>1. Ahead(t)' \in 1 .. tasks'[t].period_ms /\ tasks'[t].period_ms \in Nat
      BY <2>1 DEF Ahead
    <3>2. Ahead(t)' <= tasks'[t].period_ms /\ Ahead(t)' >= 1 /\ Ahead(t)' >= - MaxBoot
      BY <3>1, HalfIsHalf
    <3> QED
      BY <3>2 DEF TaskInv
  <2>2. CASE t # index
    <3>1. tasks'[t] = tasks[t] /\ TaskInv(t) /\ Ahead(t)' = Ahead(t)
      BY <1>1, <2>2 DEF Ahead
    <3>2. index' = 0 \/ t < index' => index = 0 \/ t < index
      BY <1>1, <1>2, <2>2
    <3> QED
      BY <3>1, <3>2 DEF TaskInv
  <2> QED
    BY <2>1, <2>2
<1>4. SchedInv'
  <2>1. Dist(clock', now_ms') = silence /\ silence >= 0
    BY <1>1
  <2>2. index' = 0 => /\ Dist(clock', now_ms') >= 0 /\ Dist(clock', now_ms') <= silence' + MaxPass
                      /\ silence' <= MaxGap
    BY <1>1, <2>1, HalfIsHalf
  <2>3. index' > 0 => Dist(clock', now_ms') = silence' /\ silence' <= MaxPass
    BY <1>1, <2>1
  <2>4. silence' \in Nat /\ started' = TRUE /\ clock' \in Time /\ now_ms' \in Time
    BY <1>1 DEF SchedInv
  <2> QED
    BY <1>2, <1>3, <2>2, <2>3, <2>4 DEF SchedInv
<1>5. Len(Jobs) = Len(tasks)
  BY JobsAreKnown DEF JobsKnown
<1>6. Lag' = IF index' = 0 THEN 0 ELSE Lag
  BY <1>1 DEF Lag
<1> QED
  BY <1>2, <1>4, <1>5, <1>6

\* A task that is not due keeps its time.
LEMMA SkipStep ==
    ASSUME SchedInv, SkipTask
    PROVE  SchedInv' /\ Mapped!Turn
<1>1. /\ index > 0 /\ ~ IsDue(now_ms, tasks[index].next_ms) /\ tasks' = tasks
      /\ index' = NextIndex /\ silence' = IF index' = 0 THEN 0 ELSE silence
      /\ UNCHANGED <<clock, now_ms, started>> /\ executed' = executed
  BY DEF SkipTask
<1>2. /\ index \in 1 .. Len(tasks) /\ ~ (Ahead(index) <= 0) /\ ~ Mapped!WasDue(index)
      /\ TaskInv(index) /\ Ahead(index) \in -Half + 1 .. Half - 1
  BY <1>1, TurnFacts
<1>3. tasks[index].period_ms \in Nat
  BY <1>2, TaskIsTask
<1>4. Dist(tasks'[index].next_ms, now_ms') \in 1 .. tasks'[index].period_ms
  <2>1. Ahead(index) \in 1 .. tasks[index].period_ms
    BY <1>2, <1>3, HalfIsHalf DEF TaskInv
  <2> QED
    BY <1>1, <2>1 DEF Ahead
<1>5. /\ SchedInv'
      /\ index' = IF index = Len(Jobs) THEN 0 ELSE index + 1
      /\ Lag' = IF index' = 0 THEN 0 ELSE Lag
  BY <1>1, <1>3, <1>4, TurnKeeps DEF SchedInv
<1>6. Jobs' = Jobs
  BY <1>1 DEF Jobs
<1> QED
  BY <1>1, <1>2, <1>5, <1>6 DEF Mapped!Turn

\* A task that is due keeps its grid, or begins a new one where it has missed a period.
LEMMA ExecuteStep ==
    ASSUME SchedInv, ExecuteTask
    PROVE  SchedInv' /\ Mapped!Turn
<1> DEFINE p == tasks[index].period_ms
           a == Ahead(index)
           r == Rescheduled(tasks[index])
           planned == ToUnsigned(tasks[index].next_ms + p)
<1>1. /\ index > 0 /\ IsDue(now_ms, tasks[index].next_ms)
      /\ tasks' = [tasks EXCEPT ![index].next_ms = r]
      /\ index' = NextIndex /\ silence' = IF index' = 0 THEN 0 ELSE silence
      /\ UNCHANGED <<clock, now_ms, started>> /\ executed' = executed \cup {index}
  BY DEF ExecuteTask
<1>2. /\ index \in 1 .. Len(tasks) /\ a <= 0 /\ Mapped!WasDue(index)
      /\ TaskInv(index) /\ a \in -Half + 1 .. Half - 1
      /\ Lag = silence /\ silence <= MaxPass /\ Lag \in Nat
      /\ Jobs[index] = [period |-> p, left |-> a - Lag]
  BY <1>1, TurnFacts
<1>3. /\ p \in Nat /\ p > 0 /\ p + MaxBoot + MaxGap + MaxPass < Half
      /\ p \in TaskPeriods \ {0} /\ tasks[index].next_ms \in Time
      /\ now_ms \in Time /\ clock \in Time /\ p \in 0 .. Half
  <2>1. /\ p \in Nat /\ p > 0 /\ p + MaxBoot + MaxGap + MaxPass < Half
        /\ p \in TaskPeriods \ {0} /\ tasks[index].next_ms \in Time
    BY <1>2, TaskIsTask
  <2>2. now_ms \in Time /\ clock \in Time
    BY DEF SchedInv
  <2> HIDE DEF p
  <2>3. p \in 0 .. Half
    BY <2>1, HalfIsHalf
  <2> QED
    BY <2>1, <2>2, <2>3
<1>4. planned \in Time /\ Dist(planned, now_ms) = a + p
  <2>1. a + p \in -Half .. Half - 1
    <3> HIDE DEF a, p
    <3> QED
      BY <1>2, <1>3, HalfIsHalf
  <2> QED
    BY <1>3, <2>1, Advanced DEF Ahead
<1>5. ToUnsigned(now_ms + p) \in Time /\ Dist(ToUnsigned(now_ms + p), now_ms) = p
  <2>1. Dist(now_ms, now_ms) = 0
    BY <1>3, NearIsDist, HalfIsHalf DEF Time
  <2>2. Dist(now_ms, now_ms) + p \in -Half .. Half - 1 /\ 0 + p = p
    BY <1>3, <2>1, HalfIsHalf
  <2> QED
    BY <1>3, <2>1, <2>2, Advanced
<1>6. r = IF IsDue(now_ms, planned) THEN ToUnsigned(now_ms + p) ELSE planned
  BY DEF Rescheduled
<1>7. IsDue(now_ms, planned) <=> a + p <= 0
  <2>1. Dist(planned, now_ms) > -Half
    BY <1>2, <1>3, <1>4, HalfIsHalf
  <2> QED
    BY <1>3, <1>4, <2>1, DueIsBehind
<1> HIDE DEF r, planned, p, a
<1>8. r \in Time /\ Dist(r, now_ms) = IF a + p > 0 THEN a + p ELSE p
  <2>1. CASE a + p > 0
    <3>1. ~(a + p <= 0)
      BY <1>2, <1>3, <2>1, HalfIsHalf
    <3> QED
      BY <1>4, <1>6, <1>7, <2>1, <3>1
  <2>2. CASE ~(a + p > 0)
    <3>1. a + p <= 0
      BY <1>2, <1>3, <2>2, HalfIsHalf
    <3> QED
      BY <1>5, <1>6, <1>7, <2>2, <3>1
  <2> QED
    BY <2>1, <2>2
<1>9. /\ tasks' \in Seq(Task) /\ Len(tasks') = Len(tasks)
      /\ \A t \in 1 .. Len(tasks) : t # index => tasks'[t] = tasks[t]
      /\ tasks'[index] = [period_ms |-> p, next_ms |-> r]
  <2>1. tasks \in Seq(Task) /\ tasks[index] \in Task
    BY <1>2, TaskIsTask DEF SchedInv
  <2>2. tasks[index] = [period_ms |-> p, next_ms |-> tasks[index].next_ms]
    BY <2>1 DEF Task, p
  <2>3. [tasks[index] EXCEPT !.next_ms = r] = [period_ms |-> p, next_ms |-> r]
    BY <2>2
  <2> DEFINE new == [period_ms |-> p, next_ms |-> r]
  <2>4. new \in Task
    BY <1>3, <1>8 DEF Task
  <2>5. tasks' = [tasks EXCEPT ![index] = new]
    BY <1>1, <2>3
  <2> HIDE DEF new
  <2>6. /\ tasks' \in Seq(Task) /\ Len(tasks') = Len(tasks)
        /\ \A t \in 1 .. Len(tasks) : tasks'[t] = IF t = index THEN new ELSE tasks[t]
    BY <1>2, <2>1, <2>4, <2>5, ExceptSeq
  <2> QED
    BY <1>2, <2>6 DEF new
<1>10. tasks'[index].period_ms = p /\ tasks'[index].next_ms = r
  BY <1>9
<1>11. /\ SchedInv'
       /\ index' = IF index = Len(Jobs) THEN 0 ELSE index + 1
       /\ Lag' = IF index' = 0 THEN 0 ELSE Lag
  <2>1. Dist(tasks'[index].next_ms, now_ms') \in 1 .. tasks'[index].period_ms
    <3>1. Dist(r, now_ms) \in 1 .. p
      BY <1>2, <1>3, <1>8, HalfIsHalf
    <3> QED
      BY <1>1, <1>10, <3>1
  <2> QED
    BY <1>1, <1>3, <1>9, <1>10, <2>1, TurnKeeps
<1>12. Jobs' = [Jobs EXCEPT ![index].left = Mapped!Renewed(Jobs[index])]
  <2> DEFINE v == Mapped!Renewed(Jobs[index])
             job == [period |-> p, left |-> v]
  <2>1. v = Dist(r, now_ms) - Lag
    <3>1. v = IF (a - Lag) + p + Lag > 0 THEN (a - Lag) + p ELSE p - Lag
      BY <1>2 DEF Mapped!Renewed
    <3>2. CASE a + p > 0
      BY <1>2, <1>3, <1>8, <3>1, <3>2, HalfIsHalf
    <3>3. CASE ~ (a + p > 0)
      BY <1>2, <1>3, <1>8, <3>1, <3>3, HalfIsHalf
    <3> QED
      BY <3>2, <3>3
  <2>2. v \in Int
    BY <1>2, <1>3, <1>8, <2>1, HalfIsHalf
  <2>3. JobsKnown /\ JobsKnown' /\ LeftKnown' /\ started' = TRUE
    BY <1>1, <1>11, TurnFacts, JobsAreKnown, JobsAreKnownNext, LeftIsKnownNext
  <2>4. [Jobs[index] EXCEPT !.left = v] = job
    BY <1>2
  <2> HIDE DEF v
  <2>5. job \in Job
    BY <1>3, <2>2 DEF Job
  <2> HIDE DEF job
  <2> DEFINE new == [Jobs EXCEPT ![index] = job]
  <2>6. /\ new \in Seq(Job) /\ Len(new) = Len(tasks)
        /\ \A t \in 1 .. Len(tasks) : new[t] = IF t = index THEN job ELSE Jobs[t]
    BY <1>2, <2>3, <2>5, ExceptSeq DEF JobsKnown
  <2>7. \A t \in 1 .. Len(tasks) : Jobs'[t] = new[t]
    <3> SUFFICES ASSUME NEW t \in 1 .. Len(tasks) PROVE Jobs'[t] = new[t]
      OBVIOUS
    <3>1. Jobs'[t] = [period |-> tasks'[t].period_ms, left |-> Left(t)']
      BY <1>9, <2>3 DEF JobsKnown
    <3>2. CASE t = index
      <4>1. Left(t)' = Ahead(t)' - Dist(clock', now_ms')
        BY <1>9, <2>3 DEF LeftKnown
      <4>2. Ahead(t)' = Dist(r, now_ms) /\ Dist(clock', now_ms') = Lag
        BY <1>1, <1>10, <3>2 DEF Ahead, Lag, Dist
      <4>3. Left(t)' = v
        BY <2>1, <4>1, <4>2
      <4> QED
        BY <1>10, <2>6, <3>1, <3>2, <4>3 DEF job
    <3>3. CASE t # index
      <4>1. tasks'[t] = tasks[t] /\ Left(t)' = Left(t)
        BY <1>1, <1>9, <3>3 DEF Left
      <4> QED
        BY <2>3, <2>6, <3>1, <3>3, <4>1 DEF JobsKnown
    <3> QED
      BY <3>2, <3>3
  <2>8. Jobs' \in Seq(Job) /\ Len(Jobs') = Len(tasks)
    BY <1>9, <2>3 DEF JobsKnown
  <2> HIDE DEF new
  <2>9. Jobs' = new
    BY <2>6, <2>7, <2>8, SeqEqual
  <2>10. new = [Jobs EXCEPT ![index].left = v]
    BY <2>4 DEF new
  <2> QED
    BY <2>9, <2>10 DEF v
<1> QED
  BY <1>1, <1>2, <1>11, <1>12 DEF Mapped!Turn
\* The first state.
LEMMA SchedInitially == Init => SchedInv /\ Mapped!CadenceInit
<1> SUFFICES ASSUME Init PROVE SchedInv /\ Mapped!CadenceInit
  OBVIOUS
<1>1. /\ clock = 0 /\ tasks = <<>> /\ index = 0 /\ now_ms = 0
      /\ executed = {} /\ started = FALSE /\ silence = 0
  BY DEF Init
<1>2. 0 \in Time /\ tasks \in Seq(Task) /\ Len(tasks) = 0
  BY <1>1, HalfIsHalf, EmptySeq DEF Time
<1>3. SchedInv
  <2>1. /\ index \in 0 .. Len(tasks) /\ clock = silence /\ silence <= MaxBoot /\ silence \in Nat
        /\ \A t \in 1 .. Len(tasks) : tasks[t].next_ms = 0
    BY <1>1, <1>2, HalfIsHalf
  <2> QED
    BY <1>1, <1>2, <2>1, Zenon DEF SchedInv
<1>4. Jobs = <<>>
  BY <1>2, <1>3, JobsAreKnown, EmptySeq DEF JobsKnown
<1> QED
  BY <1>1, <1>3, <1>4 DEF Mapped!CadenceInit, Lag

\* Every step keeps the invariant and is one of the cadence.
LEMMA SchedStep ==
    SchedInv /\ [Next]_schedVars => SchedInv' /\ [Mapped!CadenceNext]_(Mapped!cadenceVars)
<1> SUFFICES ASSUME SchedInv, [Next]_schedVars
             PROVE  SchedInv' /\ [Mapped!CadenceNext]_(Mapped!cadenceVars)
  OBVIOUS
<1> USE DEF Mapped!CadenceNext
<1>1. ASSUME NEW p \in TaskPeriods, Register(p)
      PROVE  SchedInv' /\ [Mapped!CadenceNext]_(Mapped!cadenceVars)
  BY <1>1, RegisterStep
<1>2. CASE RunOnce
  BY <1>2, RunOnceStep
<1>3. CASE SkipTask
  BY <1>3, SkipStep
<1>4. CASE ExecuteTask
  BY <1>4, ExecuteStep
<1>5. CASE Tick
  BY <1>5, TickStep
<1>6. CASE UNCHANGED schedVars
  BY <1>6 DEF schedVars, SchedInv, TaskInv, Ahead, Mapped!cadenceVars, Jobs, Lag
<1> QED
  BY <1>1, <1>2, <1>3, <1>4, <1>5, <1>6 DEF Next, Pass

\* The scheduler keeps the abstract cadence through any number of wraps of its clock
\* (sched_run_once, sched_is_due).
THEOREM SchedulerKeepsCadence == Spec => ImplementsCadence
  BY SchedInitially, SchedStep, PTL DEF Spec, ImplementsCadence, Mapped!CadenceSpec

\* After a pass every task is due within its period (sched_run_once).
THEOREM TasksAreDueInTime == Spec => []DueWithinOnePeriod
<1>1. SchedInv => DueWithinOnePeriod
  <2> SUFFICES ASSUME SchedInv, started, index = 0, NEW t \in DOMAIN tasks
               PROVE  ToSigned(tasks[t].next_ms - now_ms) \in 1 .. tasks[t].period_ms
    BY DEF DueWithinOnePeriod
  <2>1. t \in 1 .. Len(tasks) /\ started = TRUE
    BY LenProperties DEF SchedInv
  <2>2. TaskInv(t) /\ tasks[t].period_ms \in Nat /\ Ahead(t) \in -Half .. Half - 1
    BY <2>1, TaskIsTask, DistIsNear DEF SchedInv, Ahead
  <2> QED
    BY <2>2, HalfIsHalf DEF TaskInv, Ahead, Dist
<1> QED
  BY <1>1, SchedInitially, SchedStep, PTL DEF Spec
=============================================================================
