----------------------------- MODULE Scheduler -----------------------------
(***************************************************************************)
(* The cooperative scheduler of src/app/scheduler.c on a clock of w bits:  *)
(* sched_register and sched_run_once, one step per task of a pass, with    *)
(* the millisecond interrupt between any two of them.  A pass works with   *)
(* the time read when it began, however long its tasks take.               *)
(***************************************************************************)
EXTENDS Integers, Sequences

CONSTANTS
    ClockMod,     \* 2^32 in the firmware
    TaskPeriods,  \* the periods a task may be registered with
    Capacity,     \* length of the task array
    MaxBoot,      \* bound: ticks before the superloop starts
    MaxGap,       \* bound: ticks between two passes
    MaxPass       \* bound: ticks during one pass

\* Signed comparison is meaningful only while a period plus the longest silence
\* stays below half of the clock's range, and two passes with their gap within it.
ASSUME SchedulerAssumption ==
    /\ ClockMod \in Nat \ {0} /\ ClockMod % 2 = 0
    /\ TaskPeriods \subseteq Nat /\ Capacity \in Nat \ {0}
    /\ MaxBoot \in Nat /\ MaxGap \in Nat /\ MaxPass \in Nat
    /\ \A p \in TaskPeriods \cup {0} : p + MaxBoot + MaxGap + MaxPass < ClockMod \div 2
    /\ MaxGap + 2 * MaxPass <= ClockMod \div 2

VARIABLES
    clock,    \* SystemTicks
    tasks,    \* sequence of [period_ms, next_ms]
    index,    \* the task whose turn it is; 0 between passes
    now_ms,   \* the argument of sched_run_once
    executed, \* the tasks whose function has been called in this pass
    started,  \* the superloop is running
    silence   \* ticks since the last pass began or ended

schedVars == <<clock, tasks, index, now_ms, executed, started, silence>>

ToUnsigned(n) == n % ClockMod
ToSigned(n) ==
    LET u == n % ClockMod IN IF u < ClockMod \div 2 THEN u ELSE u - ClockMod

\* Mutant: the times are compared as unsigned numbers.
IsDueUnsigned(now, next) == now >= next

IsDue(now, next) == ToSigned(now - next) >= 0

\* sched_register: refused for a zero period or a full array.
Register(period) ==
    /\ ~started
    /\ period > 0 /\ Len(tasks) < Capacity
    /\ tasks' = Append(tasks, [period_ms |-> period, next_ms |-> 0])
    /\ UNCHANGED <<clock, index, now_ms, executed, started, silence>>

RunOnce ==
    /\ index = 0 /\ tasks # <<>>
    /\ started' = TRUE
    /\ now_ms' = clock
    /\ index' = 1
    /\ executed' = {}
    /\ silence' = 0
    /\ UNCHANGED <<clock, tasks>>

\* Mutant: the loop stops one task early.
NextIndexShort == IF index + 1 >= Len(tasks) THEN 0 ELSE index + 1

NextIndex == IF index = Len(tasks) THEN 0 ELSE index + 1

SkipTask ==
    /\ index > 0
    /\ ~IsDue(now_ms, tasks[index].next_ms)
    /\ index' = NextIndex
    /\ silence' = IF index' = 0 THEN 0 ELSE silence
    /\ UNCHANGED <<clock, tasks, now_ms, executed, started>>

\* Mutant: every run starts a new grid.
RescheduledFromNow(task) == ToUnsigned(now_ms + task.period_ms)

\* Missed periods are not caught up.
Rescheduled(task) ==
    LET planned == ToUnsigned(task.next_ms + task.period_ms)
    IN  IF IsDue(now_ms, planned) THEN ToUnsigned(now_ms + task.period_ms) ELSE planned

ExecuteTask ==
    /\ index > 0
    /\ IsDue(now_ms, tasks[index].next_ms)
    /\ executed' = executed \cup {index}
    /\ tasks' = [tasks EXCEPT ![index].next_ms = Rescheduled(tasks[index])]
    /\ index' = NextIndex
    /\ silence' = IF index' = 0 THEN 0 ELSE silence
    /\ UNCHANGED <<clock, now_ms, started>>

SilenceBound == IF ~started THEN MaxBoot ELSE IF index = 0 THEN MaxGap ELSE MaxPass

\* SysTick_Handler.
Tick ==
    /\ silence < SilenceBound
    /\ clock' = ToUnsigned(clock + 1)
    /\ silence' = silence + 1
    /\ UNCHANGED <<tasks, index, now_ms, executed, started>>

Init ==
    /\ clock = 0 /\ tasks = <<>> /\ index = 0 /\ now_ms = 0
    /\ executed = {} /\ started = FALSE /\ silence = 0

Pass == RunOnce \/ SkipTask \/ ExecuteTask

Next == (\E p \in TaskPeriods : Register(p)) \/ Pass \/ Tick

Spec == Init /\ [][Next]_schedVars

\* The superloop keeps calling sched_run_once and SysTick keeps coming.
FairSpec == Spec /\ WF_schedVars(Pass) /\ WF_schedVars(Tick)
-----------------------------------------------------------------------------
(* Properties *)

\* When a pass has ended, every task is due in the future of the pass, at most
\* one period ahead: no task is lost behind the wrap, none runs twice for a period.
DueWithinOnePeriod ==
    started /\ index = 0 =>
        \A t \in DOMAIN tasks :
            ToSigned(tasks[t].next_ms - now_ms) \in 1 .. tasks[t].period_ms

\* The tasks with the time they have left, and the time a pass has taken so far.
Jobs == [t \in DOMAIN tasks |->
            [period |-> tasks[t].period_ms, left |-> ToSigned(tasks[t].next_ms - clock)]]
Lag  == IF index = 0 THEN 0 ELSE ToSigned(clock - now_ms)

\* Through any number of clock wraps the scheduler keeps the abstract cadence.
Mapped == INSTANCE Cadence WITH
    Periods <- TaskPeriods, MaxTasks <- Capacity,
    jobs <- Jobs, turn <- index, lag <- Lag, ran <- executed

ImplementsCadence == Mapped!CadenceSpec

\* Every task that has been registered runs again and again.
NoTaskStarves == \A t \in 1 .. Capacity : (started /\ t \in DOMAIN tasks) ~> (t \in executed)
=============================================================================
