------------------------------ MODULE Cadence ------------------------------
(***************************************************************************)
(* What the cooperative scheduler promises, with unbounded time: each task *)
(* has a number of milliseconds left until it is due.  A pass gives every  *)
(* task one turn; a task that was due when the pass began runs and keeps   *)
(* its own grid, unless it has missed a whole period: then it starts a new *)
(* grid at the beginning of the pass.                                      *)
(***************************************************************************)
EXTENDS Integers, Sequences

CONSTANTS Periods, MaxTasks, MaxBoot

VARIABLES
    jobs,   \* sequence of [period, left]
    turn,   \* whose turn it is in the pass; 0 between passes
    lag,    \* milliseconds since the pass began
    ran     \* the tasks that have run in this pass

cadenceVars == <<jobs, turn, lag, ran>>

Add ==
    /\ turn = 0 /\ Len(jobs) < MaxTasks
    /\ \E p \in Periods, overdue \in 0 .. MaxBoot :
         jobs' = Append(jobs, [period |-> p, left |-> -overdue])
    /\ UNCHANGED <<turn, lag, ran>>

Elapse ==
    /\ jobs' = [t \in DOMAIN jobs |-> [jobs[t] EXCEPT !.left = @ - 1]]
    /\ lag' = IF turn = 0 THEN lag ELSE lag + 1
    /\ UNCHANGED <<turn, ran>>

Begin ==
    /\ turn = 0 /\ jobs # <<>>
    /\ turn' = 1 /\ lag' = 0 /\ ran' = {}
    /\ UNCHANGED jobs

WasDue(t) == jobs[t].left + lag <= 0

Renewed(job) ==
    IF job.left + job.period + lag > 0 THEN job.left + job.period ELSE job.period - lag

Turn ==
    /\ turn > 0
    /\ turn' = IF turn = Len(jobs) THEN 0 ELSE turn + 1
    /\ lag' = IF turn' = 0 THEN 0 ELSE lag
    /\ IF WasDue(turn)
       THEN /\ jobs' = [jobs EXCEPT ![turn].left = Renewed(jobs[turn])]
            /\ ran' = ran \cup {turn}
       ELSE UNCHANGED <<jobs, ran>>

CadenceInit == jobs = <<>> /\ turn = 0 /\ lag = 0 /\ ran = {}

CadenceNext == Add \/ Elapse \/ Begin \/ Turn

CadenceSpec == CadenceInit /\ [][CadenceNext]_cadenceVars
=============================================================================
