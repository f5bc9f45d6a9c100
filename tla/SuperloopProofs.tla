--------------------------- MODULE SuperloopProofs ---------------------------
(***************************************************************************)
(* Theorem about the superloop's watchdog, for every boot period, timeout  *)
(* and set of regimes in which the control ticket comes often enough.      *)
(***************************************************************************)
EXTENDS Superloop, TLAPS

\* A written period lies between two control grid points and a stall skips none.  Either
\* the timeout allows for a grid point without a sample, or there is no such point:
\* because the loop turns in every unit of time, or because the period is never changed.
Feedable(r) ==
    /\ r.written \subseteq 1 .. BootPeriod
    /\ r.stall <= BootPeriod
    /\ BootPeriod + r.stall <= Timeout
    /\ \/ 2 * BootPeriod + r.stall <= Timeout
       \/ r.stall = 1
       \/ r.written \subseteq {BootPeriod}

\* Every control grid point must bring a sample, or the dog bites.
Tight == 2 * BootPeriod + regime.stall > Timeout

LoopTypes ==
    /\ regime \in Regimes
    /\ control_left \in Int /\ sample_left \in Int
    /\ period \in 1 .. BootPeriod
    /\ regime.written \subseteq {BootPeriod} => period = BootPeriod
    /\ ticket_mask \subseteq Tickets
    /\ pc \in {"control", "comm", "feed", "wfi"}
    /\ hung \in BOOLEAN
    /\ wdg_age \in Nat
    /\ silence \in 0 .. regime.stall

\* Where the next control grid point lies, seen from each place of an iteration.
OnGrid ==
    /\ pc = "wfi" => control_left + silence \in 1 .. BootPeriod
    /\ pc = "control" => control_left \in 1 - regime.stall .. BootPeriod
    /\ pc \in {"comm", "feed"} => control_left \in 1 .. BootPeriod
    /\ pc # "wfi" => silence = 0

\* The sample is due at one of the next two control grid points, the very next one if
\* there is no time for another.
SampleDue ==
    /\ sample_left <= control_left + BootPeriod
    /\ Tight => sample_left <= control_left
    /\ Tight /\ regime.stall # 1 => sample_left = control_left

\* The tickets of this iteration, and the time that is left to feed: up to the grid point
\* at which the sample is due, and a stall.
TimeToFeed ==
    /\ pc \in {"control", "wfi"} => ticket_mask = {}
    /\ pc = "feed" => "COMM" \in ticket_mask
    /\ IF "CONTROL" \in ticket_mask
       THEN wdg_age < Timeout /\ sample_left \in 0 .. BootPeriod
       ELSE wdg_age + control_left + regime.stall
              + (IF sample_left <= control_left THEN 0 ELSE BootPeriod) <= Timeout

LoopInv == LoopTypes /\ (~hung => OnGrid /\ SampleDue /\ TimeToFeed)
-----------------------------------------------------------------------------
LEMMA LoopInitially ==
    ASSUME \A r \in Regimes : Feedable(r), LoopInit
    PROVE  LoopInv
<1>1. regime \in Regimes /\ Feedable(regime) /\ regime.stall \in Nat \ {0}
  BY SuperloopAssumption DEF LoopInit
<1>2. LoopTypes
  <2>1. hung \in BOOLEAN /\ regime \in Regimes /\ ticket_mask \subseteq Tickets
    BY DEF LoopInit
  <2>2. /\ control_left \in Int /\ sample_left \in Int /\ wdg_age \in Nat
        /\ period = BootPeriod /\ period \in 1 .. BootPeriod
        /\ pc = "control" /\ silence \in 0 .. regime.stall
    BY <1>1, SuperloopAssumption DEF LoopInit
  <2> QED
    BY <2>1, <2>2 DEF LoopTypes
<1>3. OnGrid /\ SampleDue
  BY <1>1, SuperloopAssumption DEF LoopInit, OnGrid, SampleDue
<1>4. TimeToFeed
  BY <1>1, SuperloopAssumption DEF LoopInit, TimeToFeed, Feedable
<1> QED
  BY <1>2, <1>3, <1>4 DEF LoopInv

\* The control task moves its grid on by a period, and the sampling grid if a sample is due.
LEMMA ControlTaskKeeps ==
    ASSUME Feedable(regime), LoopInv, ControlTask
    PROVE  LoopInv'
<1> DEFINE B == BootPeriod
           s == regime.stall
<1>1. /\ pc = "control" /\ ~hung /\ pc' = "comm" /\ hung' = hung
      /\ UNCHANGED <<regime, period, wdg_age, silence>>
  BY DEF ControlTask
<1>2. LoopTypes /\ OnGrid /\ SampleDue /\ TimeToFeed
  BY <1>1 DEF LoopInv
<1>3. /\ B \in Nat \ {0} /\ s \in Nat \ {0} /\ s <= B /\ B + s <= Timeout /\ Timeout \in Nat
      /\ period \in 1 .. B /\ wdg_age \in Nat /\ control_left \in Int /\ sample_left \in Int
      /\ control_left \in 1 - s .. B /\ ticket_mask = {} /\ silence = 0
  BY <1>1, <1>2, SuperloopAssumption DEF LoopTypes, OnGrid, TimeToFeed, Feedable
<1>4. /\ sample_left <= control_left + B
      /\ 2 * B + s > Timeout => sample_left <= control_left
      /\ 2 * B + s > Timeout /\ s # 1 => sample_left = control_left /\ period = B
      /\ wdg_age + control_left + s + (IF sample_left <= control_left THEN 0 ELSE B) <= Timeout
  <2>1. 2 * B + s > Timeout /\ s # 1 => period = B
    BY <1>2, SuperloopAssumption DEF LoopTypes, Feedable
  <2> QED
    BY <1>2, <1>3, <2>1 DEF SampleDue, Tight, TimeToFeed
<1>5. control_left' = (IF control_left <= 0 THEN control_left + B ELSE control_left)
      /\ control_left' \in 1 .. B
  BY <1>3 DEF ControlTask, SchedRenew
<1> HIDE DEF B, s
<1>6. CASE Processed
  <2>1. control_left <= 0 /\ sample_left <= 0
    BY <1>6 DEF Processed
  <2>2. sample_left' = (IF sample_left + period < 0 THEN period ELSE sample_left + period)
    BY <1>6 DEF ControlTask, SampleRenew
  <2>3. ticket_mask' = {"CONTROL"}
    BY <1>3, <1>6 DEF ControlTask
  <2>4. sample_left' \in 0 .. B
    BY <1>3, <2>1, <2>2
  <2>5. wdg_age < Timeout
    BY <1>3, <1>4, <2>1
  <2>6. LoopTypes'
    <3>1. control_left' \in Int /\ sample_left' \in Int /\ ticket_mask' \subseteq Tickets
      BY <1>5, <2>3, <2>4 DEF Tickets
    <3> QED
      BY <1>1, <1>2, <3>1 DEF LoopTypes
  <2>7. OnGrid'
    BY <1>1, <1>3, <1>5 DEF OnGrid, B
  <2>8. /\ sample_left' <= control_left' + B
        /\ 2 * B + s > Timeout => sample_left' <= control_left'
        /\ 2 * B + s > Timeout /\ s # 1 => sample_left' = control_left'
    BY <1>3, <1>4, <1>5, <2>1, <2>2
  <2>9. SampleDue'
    BY <1>1, <2>8 DEF SampleDue, Tight, B, s
  <2>10. TimeToFeed'
    BY <1>1, <2>3, <2>4, <2>5 DEF TimeToFeed, B
  <2> QED
    BY <1>1, <2>6, <2>7, <2>9, <2>10 DEF LoopInv
<1>7. CASE ~Processed
  <2>1. sample_left' = sample_left /\ ticket_mask' = {}
    BY <1>3, <1>7 DEF ControlTask
  <2>2. control_left > 0 \/ sample_left > 0
    BY <1>3, <1>7 DEF Processed
  <2>3. LoopTypes'
    <3>1. control_left' \in Int /\ sample_left' \in Int /\ ticket_mask' \subseteq Tickets
      BY <1>3, <1>5, <2>1
    <3> QED
      BY <1>1, <1>2, <3>1 DEF LoopTypes
  <2>4. OnGrid'
    BY <1>1, <1>3, <1>5 DEF OnGrid, B
  <2>5. /\ sample_left <= control_left' + B
        /\ 2 * B + s > Timeout => sample_left <= control_left'
        /\ 2 * B + s > Timeout /\ s # 1 => sample_left = control_left'
    BY <1>3, <1>4, <1>5, <2>2
  <2>6. wdg_age + control_left' + s + (IF sample_left <= control_left' THEN 0 ELSE B) <= Timeout
    BY <1>3, <1>4, <1>5, <2>2
  <2>7. SampleDue'
    BY <1>1, <2>1, <2>5 DEF SampleDue, Tight, B, s
  <2>8. TimeToFeed'
    BY <1>1, <2>1, <2>6 DEF TimeToFeed, B, s
  <2> QED
    BY <1>1, <2>3, <2>4, <2>7, <2>8 DEF LoopInv
<1> QED
  BY <1>6, <1>7

\* Every step keeps the time to feed.
LEMMA LoopInductive ==
    ASSUME \A r \in Regimes : Feedable(r), LoopInv, [LoopNext]_loopVars
    PROVE  LoopInv'
<1>1. /\ LoopTypes /\ regime \in Regimes /\ Feedable(regime)
      /\ regime.stall \in Nat \ {0} /\ regime.stall <= BootPeriod
      /\ BootPeriod + regime.stall <= Timeout
      /\ BootPeriod \in Nat \ {0} /\ Timeout \in Nat
      /\ control_left \in Int /\ sample_left \in Int /\ wdg_age \in Nat
      /\ silence \in 0 .. regime.stall
  BY SuperloopAssumption DEF LoopInv, LoopTypes, Feedable
<1>2. CASE ControlTask
  BY <1>1, <1>2, ControlTaskKeeps
<1>3. CASE CommTask
  <2>1. /\ pc = "comm" /\ ~hung /\ pc' = "feed"
        /\ ticket_mask' = ticket_mask \cup {"COMM"}
        /\ UNCHANGED <<regime, control_left, sample_left, hung, wdg_age, silence>>
    BY <1>3 DEF CommTask
  <2>2. period' \in regime.written \cup {period}
    BY <1>3 DEF CommTask
  <2>3. OnGrid /\ SampleDue /\ TimeToFeed
    BY <2>1 DEF LoopInv
  <2>4. LoopTypes'
    <3>1. /\ period' \in 1 .. BootPeriod
          /\ regime.written \subseteq {BootPeriod} => period' = BootPeriod
      BY <1>1, <2>2 DEF LoopTypes, Feedable
    <3> QED
      BY <1>1, <2>1, <3>1 DEF LoopTypes, Tickets
  <2>5. OnGrid' /\ SampleDue'
    BY <2>1, <2>3 DEF OnGrid, SampleDue, Tight
  <2>6. TimeToFeed'
    <3>1. "COMM" \in ticket_mask' /\ ("CONTROL" \in ticket_mask' <=> "CONTROL" \in ticket_mask)
      BY <2>1
    <3> QED
      BY <2>1, <2>3, <3>1 DEF TimeToFeed
  <2> QED
    BY <2>1, <2>4, <2>5, <2>6 DEF LoopInv
<1>4. CASE FeedAndSleep
  <2>1. /\ pc = "feed" /\ ~hung /\ pc' = "wfi" /\ ticket_mask' = {}
        /\ wdg_age' = IF Tickets \subseteq ticket_mask THEN 0 ELSE wdg_age
        /\ UNCHANGED <<regime, control_left, sample_left, period, hung, silence>>
    BY <1>4 DEF FeedAndSleep
  <2>2. OnGrid /\ SampleDue /\ TimeToFeed
    BY <2>1 DEF LoopInv
  <2>3. control_left \in 1 .. BootPeriod /\ silence = 0
    BY <2>1, <2>2 DEF OnGrid
  <2>4. LoopTypes'
    BY <1>1, <2>1 DEF LoopTypes
  <2>5. OnGrid' /\ SampleDue'
    BY <1>1, <2>1, <2>2, <2>3 DEF OnGrid, SampleDue, Tight
  <2>6. TimeToFeed'
    <3>1. CASE "CONTROL" \in ticket_mask
      <4>1. wdg_age' = 0
        BY <2>1, <2>2, <3>1 DEF Tickets, TimeToFeed
      <4>2. sample_left > control_left => 2 * BootPeriod + regime.stall <= Timeout
        BY <1>1, <2>2, <2>3 DEF SampleDue, Tight
      <4>3. wdg_age' + control_left + regime.stall
              + (IF sample_left <= control_left THEN 0 ELSE BootPeriod) <= Timeout
        BY <1>1, <2>3, <4>1, <4>2
      <4> QED
        BY <2>1, <4>3 DEF TimeToFeed
    <3>2. CASE "CONTROL" \notin ticket_mask
      <4>1. wdg_age' = wdg_age
        BY <2>1, <3>2 DEF Tickets
      <4> QED
        BY <2>1, <2>2, <3>2, <4>1 DEF TimeToFeed
    <3> QED
      BY <3>1, <3>2
  <2> QED
    BY <2>1, <2>4, <2>5, <2>6 DEF LoopInv
<1>5. CASE WakeUp
  <2>1. /\ pc = "wfi" /\ ~hung /\ pc' = "control" /\ silence' = 0 /\ silence > 0
        /\ UNCHANGED <<regime, control_left, sample_left, period, ticket_mask, hung, wdg_age>>
    BY <1>5 DEF WakeUp
  <2>2. OnGrid /\ SampleDue /\ TimeToFeed
    BY <2>1 DEF LoopInv
  <2>3. LoopTypes'
    BY <1>1, <2>1 DEF LoopTypes
  <2>4. OnGrid'
    BY <1>1, <2>1, <2>2 DEF OnGrid
  <2>5. SampleDue' /\ TimeToFeed'
    BY <2>1, <2>2 DEF SampleDue, Tight, TimeToFeed
  <2> QED
    BY <2>1, <2>3, <2>4, <2>5 DEF LoopInv
<1>6. CASE Hang
  BY <1>1, <1>6 DEF Hang, LoopInv, LoopTypes
<1>7. CASE Elapse
  <2>1. /\ wdg_age < Timeout /\ wdg_age' = wdg_age + 1
        /\ control_left' = control_left - 1 /\ sample_left' = sample_left - 1
        /\ silence' = IF hung THEN silence ELSE silence + 1
        /\ UNCHANGED <<regime, period, ticket_mask, pc, hung>>
        /\ hung \/ (pc = "wfi" /\ silence < regime.stall)
    BY <1>7 DEF Elapse
  <2>2. LoopTypes'
    <3>1. /\ control_left' \in Int /\ sample_left' \in Int /\ wdg_age' \in Nat
          /\ silence' \in 0 .. regime.stall
      BY <1>1, <2>1
    <3> QED
      BY <1>1, <2>1, <3>1 DEF LoopTypes
  <2>3. CASE hung
    BY <2>1, <2>2, <2>3 DEF LoopInv
  <2>4. CASE ~hung
    <3>1. /\ OnGrid /\ SampleDue /\ TimeToFeed
          /\ pc = "wfi" /\ silence' = silence + 1
      BY <2>1, <2>4 DEF LoopInv
    <3>2. /\ control_left' + silence' = control_left + silence
          /\ wdg_age' + control_left' = wdg_age + control_left
          /\ sample_left' <= control_left' <=> sample_left <= control_left
          /\ sample_left' = control_left' <=> sample_left = control_left
          /\ sample_left' <= control_left' + BootPeriod
               <=> sample_left <= control_left + BootPeriod
      BY <1>1, <2>1, <3>1
    <3>3. OnGrid'
      BY <2>1, <3>1, <3>2 DEF OnGrid
    <3>4. SampleDue'
      BY <2>1, <3>1, <3>2 DEF SampleDue, Tight
    <3>5. TimeToFeed'
      BY <2>1, <3>1, <3>2 DEF TimeToFeed
    <3> QED
      BY <2>1, <2>2, <3>3, <3>4, <3>5 DEF LoopInv
  <2> QED
    BY <2>3, <2>4
<1>8. CASE WatchdogReset
  <2>1. LoopInit'
    BY <1>1, <1>8 DEF WatchdogReset, LoopInit
  <2> QED
    BY <1>1, <2>1, LoopInitially, PTL
<1>9. CASE UNCHANGED loopVars
  BY <1>9 DEF loopVars, LoopInv, LoopTypes, OnGrid, SampleDue, Tight, TimeToFeed
<1> QED
  BY <1>2, <1>3, <1>4, <1>5, <1>6, <1>7, <1>8, <1>9 DEF LoopNext, Iteration

\* In a loop that turns some time is always left.
LEMMA TimeIsLeft ==
    ASSUME \A r \in Regimes : Feedable(r), LoopInv
    PROVE  OnlyHangsAreReset
<1> SUFFICES ASSUME ~hung PROVE wdg_age < Timeout
  BY DEF OnlyHangsAreReset, LoopInv, LoopTypes
<1>1. /\ regime.stall \in Nat \ {0} /\ BootPeriod \in Nat \ {0} /\ Timeout \in Nat
      /\ LoopTypes /\ OnGrid /\ TimeToFeed
  BY SuperloopAssumption DEF LoopInv, LoopTypes
<1>2. control_left >= 1 - regime.stall
  BY <1>1 DEF LoopTypes, OnGrid
<1> QED
  BY <1>1, <1>2 DEF LoopTypes, TimeToFeed

\* The watchdog never reaches its timeout while the loop is turning, if every regime is
\* feedable (the tickets of main_mcu.c's loop, app_task's grid and the scheduler's).
THEOREM TurningLoopsAreFed ==
    ASSUME \A r \in Regimes : Feedable(r)
    PROVE  LoopSpec => []OnlyHangsAreReset
  BY LoopInitially, LoopInductive, TimeIsLeft, PTL DEF LoopSpec
=============================================================================
