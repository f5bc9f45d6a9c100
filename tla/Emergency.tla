----------------------------- MODULE Emergency -----------------------------
(***************************************************************************)
(* The brown-out interrupt inside the sampling task: app_task of app.c     *)
(* with ctrl_update of controller.c broken up at every access to what      *)
(* ctrl_force_emergency_shutdown writes.  The fields of controller_t are   *)
(* plain memory without a lock, so the two stores of one path may be made  *)
(* in either order.  Which path a sample takes is a free choice: streaks,  *)
(* filter and margin are in module Controller.  The handler is taken to be *)
(* called and to act on the application's own automaton.                   *)
(***************************************************************************)
EXTENDS Integers

CONSTANT SafeRelay   \* cfg.relay_safe_state

ASSUME EmergencyAssumption == SafeRelay \in BOOLEAN

States == {"INIT", "WARMUP", "RUN", "SENSOR_FAULT", "MATH_FAULT", "SAFE"}

VARIABLES
    state, relay_on, power_is_dying,  \* of the automaton
    relay_prev, relay_pin,            \* app->relay_prev and the output
    pc,        \* where the main program is
    stores,    \* the stores of the chosen path still to be made
    relay,     \* app_task's local copy of relay_on
    warned,    \* runs of the task that began after the brown-out, up to 2
    rewritten  \* a configuration write has begun since the last brown-out, or was under way

automaton     == <<state, relay_on, power_is_dying>>
output        == <<relay_prev, relay_pin>>
emergencyVars == <<automaton, output, pc, stores, relay, warned, rewritten>>

StateIs(s)  == [field |-> "state", value |-> s]
RelayIs(on) == [field |-> "relay_on", value |-> on]
DyingIs(b)  == [field |-> "power_is_dying", value |-> b]
-----------------------------------------------------------------------------
\* Mutant: only the state is looked at.
LockedByState == state = "SAFE"

Locked == state = "SAFE" \/ power_is_dying

\* The test at the top of ctrl_update.
EnterUpdate ==
    /\ pc = "idle"
    /\ warned' = IF power_is_dying /\ warned < 2 THEN warned + 1 ELSE warned
    /\ IF Locked
       THEN pc' = "update stores" /\ stores' = {RelayIs(SafeRelay)}
       ELSE pc' = "update" /\ UNCHANGED stores
    /\ UNCHANGED <<automaton, output, relay, rewritten>>

\* What a sample may come to: nothing to store (a bad sample below the
\* threshold, a good one during recovery), a state with the relay made safe, or
\* a decision on the relay, which has just been read.
Outcomes ==
    {{}} \cup {{StateIs(s), RelayIs(SafeRelay)} : s \in {"SENSOR_FAULT", "WARMUP", "MATH_FAULT"}}
         \cup {{StateIs("RUN")}, {StateIs("RUN"), RelayIs(~relay_on)}}

Decide ==
    /\ pc = "update"
    /\ stores' \in Outcomes
    /\ pc' = "update stores"
    /\ UNCHANGED <<automaton, output, relay, warned, rewritten>>

\* ctrl_init, called for a configuration write between two runs of the task.
EnterInit ==
    /\ pc = "idle"
    /\ stores' = {StateIs("INIT"), RelayIs(SafeRelay), DyingIs(FALSE)}
    /\ pc' = "init stores"
    /\ rewritten' = TRUE
    /\ UNCHANGED <<automaton, output, relay, warned>>

MakeStore ==
    /\ pc \in {"update stores", "init stores"}
    /\ \E st \in stores :
         /\ stores' = stores \ {st}
         /\ state'          = IF st.field = "state" THEN st.value ELSE state
         /\ relay_on'       = IF st.field = "relay_on" THEN st.value ELSE relay_on
         /\ power_is_dying' = IF st.field = "power_is_dying" THEN st.value ELSE power_is_dying
    /\ UNCHANGED <<output, pc, relay, warned, rewritten>>

LeaveInit ==
    /\ pc = "init stores" /\ stores = {}
    /\ pc' = "idle"
    /\ UNCHANGED <<automaton, output, stores, relay, warned, rewritten>>

\* bool relay = ctrl_relay_on(...)
ReadRelay ==
    /\ pc = "update stores" /\ stores = {}
    /\ relay' = relay_on
    /\ pc' = "compare"
    /\ UNCHANGED <<automaton, output, stores, warned, rewritten>>

CompareRelay ==
    /\ pc = "compare"
    /\ pc' = IF relay # relay_prev THEN "drive" ELSE "idle"
    /\ UNCHANGED <<automaton, output, stores, relay, warned, rewritten>>

DriveRelay ==
    /\ pc = "drive"
    /\ relay_pin' = relay
    /\ pc' = "remember"
    /\ UNCHANGED <<automaton, relay_prev, stores, relay, warned, rewritten>>

\* Mutant: relay_on is read again instead of using the copy that was driven.
RememberReread ==
    /\ pc = "remember"
    /\ relay_prev' = relay_on
    /\ pc' = "idle"
    /\ UNCHANGED <<automaton, relay_pin, stores, relay, warned, rewritten>>

RememberRelay ==
    /\ pc = "remember"
    /\ relay_prev' = relay
    /\ pc' = "idle"
    /\ UNCHANGED <<automaton, relay_pin, stores, relay, warned, rewritten>>

\* ctrl_force_emergency_shutdown, from the interrupt: not itself interrupted by
\* the main program.
Shutdown ==
    /\ power_is_dying' = TRUE
    /\ state' = "SAFE"
    /\ relay_on' = SafeRelay
    /\ relay_pin' = SafeRelay
    /\ rewritten' = (pc = "init stores")
    /\ warned' = IF rewritten THEN 0 ELSE warned
    /\ UNCHANGED <<relay_prev, pc, stores, relay>>
-----------------------------------------------------------------------------
EmergencyInit ==
    /\ state = "INIT" /\ relay_on = SafeRelay /\ power_is_dying = FALSE
    /\ relay_prev = SafeRelay /\ relay_pin = SafeRelay
    /\ pc = "idle" /\ stores = {} /\ relay = SafeRelay /\ warned = 0
    /\ rewritten = FALSE

Task == EnterUpdate \/ Decide \/ MakeStore \/ ReadRelay \/ CompareRelay
           \/ DriveRelay \/ RememberRelay

EmergencyNext == Task \/ EnterInit \/ LeaveInit \/ Shutdown

\* The superloop runs the task again and again.
EmergencySpec ==
    EmergencyInit /\ [][EmergencyNext]_emergencyVars /\ WF_emergencyVars(Task)
-----------------------------------------------------------------------------
(* Properties *)

\* Types of the interrupted program's state.
EmergencyTypeOK ==
    /\ state \in States
    /\ {relay_on, power_is_dying, relay_prev, relay_pin, relay} \subseteq BOOLEAN
    /\ pc \in {"idle", "update", "update stores", "init stores", "compare", "drive", "remember"}
    /\ stores = {} \/ pc \in {"update stores", "init stores"}
    /\ warned \in 0 .. 2 /\ rewritten \in BOOLEAN

\* However the interrupt falls into a run of the task, and although that run may
\* overwrite SAFE and switch the heater back on, the first run that begins
\* afterwards leaves the output safe, and no later one touches it.  Only
\* ctrl_init, which clears power_is_dying, can undo that.
SafeFromTheNextRun ==
    ~rewritten /\ (warned = 2 \/ (warned = 1 /\ pc = "idle")) =>
        relay_pin = SafeRelay /\ relay_on = SafeRelay

\* A heater that is on is one the task knows of, so that its next run can switch
\* it off: no interrupt between the decision, the output and the memory of it,
\* and no configuration write, leaves the heater on unnoticed.
HeaterOnIsRemembered ==
    relay_pin # SafeRelay => relay_prev # SafeRelay \/ pc = "remember"

\* The automaton, the application's memory and the pin come to agree on the safe
\* position for good, unless a configuration write re-initialises the automaton.
BrownOutSettles ==
    power_is_dying ~> (rewritten \/ [](relay_pin = SafeRelay /\ relay_on = SafeRelay))
=============================================================================
