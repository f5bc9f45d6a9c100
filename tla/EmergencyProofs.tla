--------------------------- MODULE EmergencyProofs ---------------------------
(***************************************************************************)
(* Theorems about Emergency, for either safe position of the heater and    *)
(* any number of brown-outs and configuration writes: the safety half of   *)
(* what a brown-out inside the sampling task leads to.                     *)
(***************************************************************************)
EXTENDS Emergency, TLAPS

Places ==
    {"idle", "update", "update stores", "init stores", "compare", "drive", "remember"}

\* What a path may store: only ctrl_init writes power_is_dying.
AutomatonStores == {StateIs(s) : s \in States} \cup {RelayIs(on) : on \in BOOLEAN}

StoresFit ==
    /\ stores \subseteq AutomatonStores \cup {DyingIs(FALSE)}
    /\ DyingIs(FALSE) \in stores => pc = "init stores"
    /\ pc \notin {"update stores", "init stores"} => stores = {}

Flags ==
    /\ relay_on \in BOOLEAN
    /\ power_is_dying \in BOOLEAN
    /\ relay_prev \in BOOLEAN
    /\ relay_pin \in BOOLEAN
    /\ relay \in BOOLEAN
    /\ rewritten \in BOOLEAN

Control ==
    /\ state \in States
    /\ pc \in Places
    /\ warned \in 0 .. 2
    /\ pc = "init stores" => rewritten

TypeInv == Flags /\ Control /\ StoresFit

\* Between driving the output and remembering it, the output is the copy that
\* was driven, unless the interrupt has just made it safe.
PinInv ==
    /\ HeaterOnIsRemembered
    /\ pc = "remember" => relay_pin = relay \/ relay_pin = SafeRelay

\* A run that began after the brown-out takes the locked path, and all that it
\* has still to store and all that it has read is the safe position.
LockedRun ==
    /\ power_is_dying
    /\ pc # "update"
    /\ \A st \in stores : st = RelayIs(SafeRelay)
    /\ stores = {} => relay_on = SafeRelay
    /\ pc \in {"compare", "drive", "remember"} => relay = SafeRelay

Counted == ~rewritten /\ warned > 0

AfterBrownOut ==
    /\ Counted => LockedRun
    /\ SafeFromTheNextRun

EmergencyInv == TypeInv /\ PinInv /\ AfterBrownOut
-----------------------------------------------------------------------------
(* Types *)

\* A store names one field and carries its value.
LEMMA StoreFields ==
    /\ \A v : StateIs(v).field = "state" /\ StateIs(v).value = v
    /\ \A v : RelayIs(v).field = "relay_on" /\ RelayIs(v).value = v
    /\ \A v : DyingIs(v).field = "power_is_dying" /\ DyingIs(v).value = v
  BY Zenon DEF StateIs, RelayIs, DyingIs

\* The stores that a path of ctrl_update may leave to be made.
LEMMA OutcomesFit ==
    ASSUME Flags PROVE \A out \in Outcomes : out \subseteq AutomatonStores
<1>1. (~relay_on) \in BOOLEAN
  OBVIOUS
<1>2. {"SENSOR_FAULT", "WARMUP", "MATH_FAULT", "RUN"} \subseteq States
  BY DEF States
<1>3. RelayIs(SafeRelay) \in AutomatonStores /\ RelayIs(~relay_on) \in AutomatonStores
  BY <1>1, EmergencyAssumption, Zenon DEF AutomatonStores
<1>4. \A s \in {"SENSOR_FAULT", "WARMUP", "MATH_FAULT", "RUN"} : StateIs(s) \in AutomatonStores
  BY <1>2, Zenon DEF AutomatonStores
<1> QED
  BY <1>3, <1>4, Z3 DEF Outcomes

LEMMA TypeInitially == EmergencyInit => TypeInv
<1> SUFFICES ASSUME EmergencyInit PROVE TypeInv
  OBVIOUS
<1>1. Flags
  BY EmergencyAssumption, Zenon DEF EmergencyInit, Flags
<1>2. Control
  BY DEF EmergencyInit, Control, States, Places
<1>3. StoresFit
  BY DEF EmergencyInit, StoresFit
<1> QED
  BY <1>1, <1>2, <1>3 DEF TypeInv

\* One store changes one field, and keeps the type of each.
LEMMA StoreMade ==
    ASSUME TypeInv, MakeStore
    PROVE  state' \in States /\ relay_on' \in BOOLEAN /\ power_is_dying' \in BOOLEAN
<1>1. PICK st \in stores :
        /\ state'          = IF st.field = "state" THEN st.value ELSE state
        /\ relay_on'       = IF st.field = "relay_on" THEN st.value ELSE relay_on
        /\ power_is_dying' = IF st.field = "power_is_dying" THEN st.value ELSE power_is_dying
  BY Zenon DEF MakeStore
<1>2. state \in States /\ relay_on \in BOOLEAN /\ power_is_dying \in BOOLEAN
  BY Zenon DEF TypeInv, Control, Flags
<1>3. "state" # "relay_on" /\ "state" # "power_is_dying" /\ "relay_on" # "power_is_dying"
  OBVIOUS
<1>4. CASE \E s \in States : st = StateIs(s)
  BY <1>1, <1>2, <1>3, <1>4, StoreFields, Zenon
<1>5. CASE \E on \in BOOLEAN : st = RelayIs(on)
  <2>1. st.field = "relay_on" /\ st.value \in BOOLEAN
    BY <1>5, StoreFields, Zenon
  <2>2. state' = state /\ relay_on' = st.value /\ power_is_dying' = power_is_dying
    BY <1>1, <1>3, <2>1, Zenon
  <2> QED
    BY <1>2, <2>1, <2>2, Zenon
<1>6. CASE st = DyingIs(FALSE)
  <2>1. FALSE \in BOOLEAN
    OBVIOUS
  <2> QED
    BY <1>1, <1>2, <1>3, <1>6, <2>1, StoreFields, Zenon
<1>7. st \in AutomatonStores \cup {DyingIs(FALSE)}
  BY <1>1, Zenon DEF TypeInv, StoresFit
<1> QED
  BY <1>4, <1>5, <1>6, <1>7, Zenon DEF AutomatonStores

LEMMA FlagsInductive ==
    ASSUME TypeInv, [EmergencyNext]_emergencyVars
    PROVE  Flags'
<1>1. TRUE \in BOOLEAN /\ FALSE \in BOOLEAN /\ (pc = "init stores") \in BOOLEAN
  OBVIOUS
<1>2. CASE MakeStore
  BY <1>2, StoreMade, Zenon DEF MakeStore, TypeInv, Flags, output
<1> USE <1>1, EmergencyAssumption DEF TypeInv, Flags, automaton, output
<1>3. CASE EnterUpdate
  BY <1>3, Zenon DEF EnterUpdate
<1>4. CASE Decide
  BY <1>4, Zenon DEF Decide
<1>5. CASE ReadRelay
  BY <1>5, Zenon DEF ReadRelay
<1>6. CASE CompareRelay
  BY <1>6, Zenon DEF CompareRelay
<1>7. CASE DriveRelay
  BY <1>7, Zenon DEF DriveRelay
<1>8. CASE RememberRelay
  BY <1>8, Zenon DEF RememberRelay
<1>9. CASE EnterInit
  BY <1>9, Zenon DEF EnterInit
<1>10. CASE LeaveInit
  BY <1>10, Zenon DEF LeaveInit
<1>11. CASE Shutdown
  BY <1>11, Zenon DEF Shutdown
<1>12. CASE UNCHANGED emergencyVars
  BY <1>12, Zenon DEF emergencyVars
<1> QED
  BY <1>2, <1>3, <1>4, <1>5, <1>6, <1>7, <1>8, <1>9, <1>10, <1>11, <1>12, Zenon
  DEF EmergencyNext, Task

\* The count of runs since the brown-out stays within its bound.
LEMMA WarnedCounts ==
    ASSUME TypeInv, EnterUpdate \/ Shutdown
    PROVE  warned' \in 0 .. 2
<1>1. warned \in 0 .. 2
  BY Zenon DEF TypeInv, Control
<1>2. (warned' = warned + 1 /\ warned < 2) \/ warned' = warned \/ warned' = 0
  BY Zenon DEF EnterUpdate, Shutdown
<1> QED
  BY <1>1, <1>2

LEMMA ControlInductive ==
    ASSUME TypeInv, [EmergencyNext]_emergencyVars
    PROVE  Control'
<1>1. CASE MakeStore
  <2>1. state' \in States
    BY <1>1, StoreMade, Zenon
  <2>2. UNCHANGED <<pc, warned, rewritten>>
    BY <1>1, Zenon DEF MakeStore
  <2> QED
    BY <2>1, <2>2, Zenon DEF TypeInv, Control
<1> USE DEF TypeInv, Control, Places, States, automaton, output
<1>2. CASE EnterUpdate
  <2>1. warned' \in 0 .. 2
    BY <1>2, WarnedCounts, Zenon
  <2>2. pc' = "update stores" \/ pc' = "update"
    BY <1>2, Zenon DEF EnterUpdate
  <2>3. state' = state
    BY <1>2, Zenon DEF EnterUpdate
  <2> QED
    BY <2>1, <2>2, <2>3
<1>3. CASE Decide
  BY <1>3 DEF Decide
<1>4. CASE ReadRelay
  BY <1>4 DEF ReadRelay
<1>5. CASE CompareRelay
  BY <1>5 DEF CompareRelay
<1>6. CASE DriveRelay
  BY <1>6 DEF DriveRelay
<1>7. CASE RememberRelay
  BY <1>7 DEF RememberRelay
<1>8. CASE EnterInit
  BY <1>8 DEF EnterInit
<1>9. CASE LeaveInit
  BY <1>9 DEF LeaveInit
<1>10. CASE Shutdown
  <2>1. warned' \in 0 .. 2
    BY <1>10, WarnedCounts, Zenon
  <2>2. state' = "SAFE" /\ pc' = pc
    BY <1>10, Zenon DEF Shutdown
  <2>3. pc' = "init stores" => rewritten'
    BY <1>10, Zenon DEF Shutdown
  <2> QED
    BY <2>1, <2>2, <2>3
<1>11. CASE UNCHANGED emergencyVars
  BY <1>11 DEF emergencyVars
<1> QED
  BY <1>1, <1>2, <1>3, <1>4, <1>5, <1>6, <1>7, <1>8, <1>9, <1>10, <1>11, Zenon
  DEF EmergencyNext, Task

LEMMA StoresInductive ==
    ASSUME TypeInv, [EmergencyNext]_emergencyVars
    PROVE  StoresFit'
<1>1. RelayIs(SafeRelay) \in AutomatonStores /\ StateIs("INIT") \in AutomatonStores
  BY EmergencyAssumption, Zenon DEF AutomatonStores, States
<1>2. DyingIs(FALSE) \notin AutomatonStores
  <2>1. \A st \in AutomatonStores : st.field = "state" \/ st.field = "relay_on"
    <3> TAKE st \in AutomatonStores
    <3>1. CASE \E s \in States : st = StateIs(s)
      BY <3>1, StoreFields, Zenon
    <3>2. CASE \E on \in BOOLEAN : st = RelayIs(on)
      BY <3>2, StoreFields, Zenon
    <3> QED
      BY <3>1, <3>2, Zenon DEF AutomatonStores
  <2>2. DyingIs(FALSE).field = "power_is_dying"
    BY StoreFields, Zenon
  <2> QED
    BY <2>1, <2>2
<1>3. \A out \in Outcomes : out \subseteq AutomatonStores
  BY OutcomesFit DEF TypeInv
<1> USE DEF TypeInv, StoresFit, automaton, output
<1>4. CASE EnterUpdate
  BY <1>1, <1>2, <1>4 DEF EnterUpdate
<1>5. CASE Decide
  BY <1>2, <1>3, <1>5 DEF Decide
<1>6. CASE MakeStore
  <2>1. stores' \subseteq stores /\ pc' = pc /\ pc \in {"update stores", "init stores"}
    BY <1>6, Zenon DEF MakeStore
  <2> QED
    BY <2>1
<1>7. CASE ReadRelay
  BY <1>7 DEF ReadRelay
<1>8. CASE CompareRelay
  BY <1>8 DEF CompareRelay
<1>9. CASE DriveRelay
  BY <1>9 DEF DriveRelay
<1>10. CASE RememberRelay
  BY <1>10 DEF RememberRelay
<1>11. CASE EnterInit
  BY <1>1, <1>11 DEF EnterInit
<1>12. CASE LeaveInit
  BY <1>12 DEF LeaveInit
<1>13. CASE Shutdown
  BY <1>13 DEF Shutdown
<1>14. CASE UNCHANGED emergencyVars
  BY <1>14 DEF emergencyVars
<1> QED
  BY <1>4, <1>5, <1>6, <1>7, <1>8, <1>9, <1>10, <1>11, <1>12, <1>13, <1>14, Zenon
  DEF EmergencyNext, Task

LEMMA TypeInductive ==
    ASSUME TypeInv, [EmergencyNext]_emergencyVars
    PROVE  TypeInv'
  BY FlagsInductive, ControlInductive, StoresInductive DEF TypeInv

\* Every value of the interrupted program has its type in every reachable state.
THEOREM EmergencyTypes == EmergencySpec => []EmergencyTypeOK
<1>1. TypeInv => EmergencyTypeOK
  BY Zenon DEF TypeInv, Flags, Control, StoresFit, EmergencyTypeOK, Places
<1> QED
  BY <1>1, TypeInitially, TypeInductive, PTL DEF EmergencySpec
-----------------------------------------------------------------------------
(* The output *)

LEMMA PinInitially == EmergencyInit => PinInv
  BY DEF EmergencyInit, PinInv, HeaterOnIsRemembered

LEMMA PinInductive ==
    ASSUME TypeInv, PinInv, [EmergencyNext]_emergencyVars
    PROVE  PinInv'
<1> USE DEF PinInv, HeaterOnIsRemembered, automaton, output
<1>1. CASE EnterUpdate
  BY <1>1 DEF EnterUpdate
<1>2. CASE Decide
  BY <1>2 DEF Decide
<1>3. CASE MakeStore
  BY <1>3 DEF MakeStore
<1>4. CASE ReadRelay
  BY <1>4 DEF ReadRelay
<1>5. CASE CompareRelay
  BY <1>5 DEF CompareRelay
<1>6. CASE DriveRelay
  BY <1>6 DEF DriveRelay
<1>7. CASE RememberRelay
  BY <1>7 DEF RememberRelay
<1>8. CASE EnterInit
  BY <1>8 DEF EnterInit
<1>9. CASE LeaveInit
  BY <1>9 DEF LeaveInit
<1>10. CASE Shutdown
  BY <1>10 DEF Shutdown
<1>11. CASE UNCHANGED emergencyVars
  BY <1>11 DEF emergencyVars
<1> QED
  BY <1>1, <1>2, <1>3, <1>4, <1>5, <1>6, <1>7, <1>8, <1>9, <1>10, <1>11
  DEF EmergencyNext, Task

\* A heater that is on is one the task knows of, wherever interrupts and
\* configuration writes fall (app_task's relay_prev).
THEOREM HeaterIsRemembered == EmergencySpec => []HeaterOnIsRemembered
<1>1. EmergencyInit => TypeInv /\ PinInv
  BY TypeInitially, PinInitially
<1>2. TypeInv /\ PinInv /\ [EmergencyNext]_emergencyVars => TypeInv' /\ PinInv'
  BY TypeInductive, PinInductive
<1>3. PinInv => HeaterOnIsRemembered
  BY DEF PinInv
<1> QED
  BY <1>1, <1>2, <1>3, PTL DEF EmergencySpec
-----------------------------------------------------------------------------
(* After a brown-out *)

\* What AfterBrownOut' asks of a step, without arithmetic on warned.
LEMMA AfterBrownOutKept ==
    ASSUME TypeInv, TypeInv', AfterBrownOut,
           Counted' => LockedRun',
           Counted' /\ (warned' = 2 \/ pc' = "idle") => relay_pin' = SafeRelay /\ relay_on' = SafeRelay
    PROVE  AfterBrownOut'
  BY DEF AfterBrownOut, SafeFromTheNextRun, Counted

LEMMA AfterBrownOutInductive ==
    ASSUME EmergencyInv, TypeInv', [EmergencyNext]_emergencyVars
    PROVE  AfterBrownOut'
<1>1. TypeInv /\ PinInv /\ AfterBrownOut
  BY Zenon DEF EmergencyInv
<1>2. Counted => LockedRun
  BY <1>1, Zenon DEF AfterBrownOut
<1>3. Counted /\ (warned = 2 \/ pc = "idle") => relay_pin = SafeRelay /\ relay_on = SafeRelay
  <2>1. SafeFromTheNextRun /\ warned \in 0 .. 2
    BY <1>1, Zenon DEF AfterBrownOut, TypeInv, Control
  <2> QED
    BY <2>1 DEF SafeFromTheNextRun, Counted
<1>4. pc \notin {"update stores", "init stores"} => stores = {}
  BY <1>1, Zenon DEF TypeInv, StoresFit
<1>5. pc = "init stores" => rewritten
  BY <1>1, Zenon DEF TypeInv, Control
<1>6. SUFFICES /\ Counted' => LockedRun'
               /\ Counted' /\ (warned' = 2 \/ pc' = "idle") =>
                    relay_pin' = SafeRelay /\ relay_on' = SafeRelay
  BY <1>1, AfterBrownOutKept, Zenon
<1>7. CASE EnterUpdate
  <2> SUFFICES ASSUME Counted'
               PROVE  LockedRun' /\ (warned' = 2 \/ pc' = "idle" =>
                        relay_pin' = SafeRelay /\ relay_on' = SafeRelay)
    OBVIOUS
  <2>1. power_is_dying
    <3>1. power_is_dying \/ (warned' = warned /\ rewritten' = rewritten)
      BY <1>7, Zenon DEF EnterUpdate
    <3>2. CASE warned' = warned /\ rewritten' = rewritten
      BY <1>2, <3>2, Zenon DEF Counted, LockedRun
    <3> QED
      BY <3>1, <3>2, Zenon
  <2>2. pc' = "update stores" /\ stores' = {RelayIs(SafeRelay)} /\ pc = "idle"
    BY <1>7, <2>1, Zenon DEF EnterUpdate, Locked
  <2>3. UNCHANGED <<automaton, output, rewritten>>
    BY <1>7, Zenon DEF EnterUpdate
  <2>4. LockedRun'
    BY <2>1, <2>2, <2>3 DEF LockedRun, automaton
  <2>5. ASSUME warned' = 2 PROVE Counted
    <3>1. warned \in 0 .. 2 /\ ~rewritten
      BY <1>1, <2>3, Zenon DEF TypeInv, Control, Counted
    <3>2. warned' = warned + 1 \/ warned' = warned
      BY <1>7, Zenon DEF EnterUpdate
    <3>3. warned > 0
      BY <2>5, <3>1, <3>2
    <3> QED
      BY <3>1, <3>3, Zenon DEF Counted
  <2> QED
    BY <1>3, <2>2, <2>3, <2>4, <2>5, Zenon DEF automaton, output
<1>8. CASE Decide
  BY <1>2, <1>8, Zenon DEF Decide, Counted, LockedRun
<1>9. CASE MakeStore
  <2>1. PICK st \in stores :
          /\ stores' = stores \ {st}
          /\ relay_on'       = IF st.field = "relay_on" THEN st.value ELSE relay_on
          /\ power_is_dying' = IF st.field = "power_is_dying" THEN st.value ELSE power_is_dying
    BY <1>9, Zenon DEF MakeStore
  <2>2. UNCHANGED <<output, pc, relay, warned, rewritten>> /\ pc \in {"update stores", "init stores"}
    BY <1>9, Zenon DEF MakeStore
  <2> SUFFICES ASSUME Counted
               PROVE  LockedRun' /\ (warned = 2 \/ pc = "idle" =>
                        relay_pin' = SafeRelay /\ relay_on' = SafeRelay)
    BY <2>2, Zenon DEF Counted
  <2>3. LockedRun /\ st = RelayIs(SafeRelay)
    BY <1>2, <2>1, Zenon DEF LockedRun
  <2>4. st.field = "relay_on" /\ st.value = SafeRelay /\ st.field # "power_is_dying"
    BY <2>3, StoreFields
  <2>5. relay_on' = SafeRelay /\ power_is_dying' = power_is_dying /\ stores' \subseteq stores
    BY <2>1, <2>4, Zenon
  <2>6. LockedRun'
    BY <2>2, <2>3, <2>5, Zenon DEF LockedRun
  <2> QED
    BY <1>3, <2>2, <2>5, <2>6, Zenon DEF output
<1>10. CASE ReadRelay
  <2>1. UNCHANGED <<automaton, output, stores, warned, rewritten>> /\ stores = {}
        /\ relay' = relay_on /\ pc' = "compare"
    BY <1>10, Zenon DEF ReadRelay
  <2>2. Counted' => LockedRun'
    BY <1>2, <2>1 DEF LockedRun, Counted, automaton
  <2> QED
    BY <1>3, <2>1, <2>2 DEF Counted, automaton, output
<1>11. CASE CompareRelay
  <2>1. UNCHANGED <<automaton, output, stores, relay, warned, rewritten>> /\ pc = "compare"
        /\ pc' \in {"drive", "idle"} /\ (pc' = "idle" => relay = relay_prev)
    BY <1>11 DEF CompareRelay
  <2> SUFFICES ASSUME Counted
               PROVE  LockedRun' /\ (warned = 2 \/ pc' = "idle" =>
                        relay_pin = SafeRelay /\ relay_on = SafeRelay)
    BY <2>1, Zenon DEF Counted, automaton, output
  <2>2. LockedRun /\ relay = SafeRelay /\ relay_on = SafeRelay
    BY <1>2, <1>4, <2>1 DEF LockedRun
  <2>3. LockedRun'
    BY <2>1, <2>2 DEF LockedRun, automaton
  <2>4. pc' = "idle" => relay_pin = SafeRelay
    BY <1>1, <2>1, <2>2 DEF PinInv, HeaterOnIsRemembered
  <2> QED
    BY <1>3, <2>2, <2>3, <2>4, Zenon
<1>12. CASE DriveRelay
  <2>1. UNCHANGED <<automaton, stores, relay, warned, rewritten>> /\ pc = "drive"
        /\ relay_pin' = relay /\ pc' = "remember"
    BY <1>12, Zenon DEF DriveRelay
  <2> SUFFICES ASSUME Counted
               PROVE  LockedRun' /\ relay_pin' = SafeRelay /\ relay_on' = SafeRelay
    BY <2>1, Zenon DEF Counted
  <2>2. LockedRun /\ relay = SafeRelay /\ relay_on = SafeRelay
    BY <1>2, <1>4, <2>1 DEF LockedRun
  <2>3. LockedRun'
    BY <2>1, <2>2 DEF LockedRun, automaton
  <2> QED
    BY <2>1, <2>2, <2>3, Zenon DEF automaton
<1>13. CASE RememberRelay
  <2>1. UNCHANGED <<automaton, relay_pin, stores, relay, warned, rewritten>> /\ pc = "remember"
        /\ pc' = "idle"
    BY <1>13, Zenon DEF RememberRelay
  <2> SUFFICES ASSUME Counted
               PROVE  LockedRun' /\ relay_pin' = SafeRelay /\ relay_on' = SafeRelay
    BY <2>1, Zenon DEF Counted
  <2>2. LockedRun /\ relay = SafeRelay /\ relay_on = SafeRelay
    BY <1>2, <1>4, <2>1 DEF LockedRun
  <2>3. LockedRun'
    BY <2>1, <2>2 DEF LockedRun, automaton
  <2>4. relay_pin = SafeRelay
    BY <1>1, <2>1, <2>2, Zenon DEF PinInv
  <2> QED
    BY <2>1, <2>2, <2>3, <2>4, Zenon DEF automaton
<1>14. CASE EnterInit
  BY <1>14, Zenon DEF EnterInit, Counted
<1>15. CASE LeaveInit
  BY <1>5, <1>15, Zenon DEF LeaveInit, Counted
<1>16. CASE Shutdown
  <2>1. power_is_dying' = TRUE /\ relay_on' = SafeRelay /\ relay_pin' = SafeRelay
        /\ UNCHANGED <<pc, stores, relay>>
    BY <1>16, Zenon DEF Shutdown
  <2>2. ASSUME Counted' PROVE Counted
    <3>1. warned' > 0 /\ (rewritten => warned' = 0) /\ (~rewritten => warned' = warned)
      BY <1>16, <2>2, Zenon DEF Shutdown, Counted
    <3>2. ~(0 > 0)
      OBVIOUS
    <3> QED
      BY <3>1, <3>2, Zenon DEF Counted
  <2>3. Counted' => LockedRun'
    BY <1>2, <2>1, <2>2, Zenon DEF LockedRun
  <2> QED
    BY <2>1, <2>3, Zenon
<1>17. CASE UNCHANGED emergencyVars
  <2>1. UNCHANGED <<automaton, output, pc, stores, relay, warned, rewritten>>
    BY <1>17 DEF emergencyVars
  <2> QED
    BY <1>2, <1>3, <2>1 DEF Counted, LockedRun, automaton, output
<1> QED
  BY <1>7, <1>8, <1>9, <1>10, <1>11, <1>12, <1>13, <1>14, <1>15, <1>16, <1>17, Zenon
  DEF EmergencyNext, Task

\* However a brown-out falls into a run of the sampling task, from the end of the
\* first run that begins after it the output and the decision are the safe
\* position, until a configuration write clears power_is_dying.
THEOREM SafeAfterBrownOut == EmergencySpec => []SafeFromTheNextRun
<1>1. EmergencyInit => EmergencyInv
  <2>1. EmergencyInit => AfterBrownOut
    BY DEF EmergencyInit, AfterBrownOut, Counted, SafeFromTheNextRun
  <2> QED
    BY <2>1, TypeInitially, PinInitially DEF EmergencyInv
<1>2. EmergencyInv /\ [EmergencyNext]_emergencyVars => EmergencyInv'
  BY TypeInductive, PinInductive, AfterBrownOutInductive DEF EmergencyInv
<1>3. EmergencyInv => SafeFromTheNextRun
  BY DEF EmergencyInv, AfterBrownOut
<1> QED
  BY <1>1, <1>2, <1>3, PTL DEF EmergencySpec
=============================================================================
