-------------------------- MODULE SafetyController --------------------------
(***************************************************************************)
(* The fail-closed safety state machine driven by every caller it has:     *)
(* health evaluations (observe), failing jobs and reconciliations          *)
(* (degrade), stops (emergency_stop) and the operator (pause, resume), in  *)
(* any order and with any evidence.                                        *)
(*                                                                         *)
(* lastSetback is a history variable: the clock reading of the most recent *)
(* call that reported anything other than complete health.  It is kept     *)
(* whatever the controller makes of that call.                             *)
(***************************************************************************)
EXTENDS SafetyState

CONSTANT MaxTime   \* bound on the clock, for TLC

ASSUME MaxTimeAssumption == MaxTime \in Nat

VARIABLES
    safety,        \* SafetyController's private state
    clock,         \* Clock.elapsed_seconds()
    lastSetback    \* history, see above

safetyVars == <<safety, clock, lastSetback>>

SafetyInit ==
    /\ safety = Startup
    /\ clock = 0
    /\ lastSetback = 0

Degrade(target) ==
    /\ safety' = degrade(safety, target)
    /\ lastSetback' = clock
    /\ UNCHANGED clock

EmergencyStop ==
    /\ safety' = emergency_stop(safety)
    /\ lastSetback' = clock
    /\ UNCHANGED clock

PauseEntries ==
    /\ safety' = pause_entries(safety)
    /\ lastSetback' = clock
    /\ UNCHANGED clock

Observe(e, manual) ==
    /\ safety' = observe(safety, e, clock, manual)
    /\ lastSetback' = IF permits_normal(e) /\ ~safety.paused
                      THEN lastSetback ELSE clock
    /\ UNCHANGED clock

ResumeEntries(e, manual) ==
    /\ safety' = resume_entries(safety, e, clock, manual)
    /\ lastSetback' = IF permits_normal(e) THEN lastSetback ELSE clock
    /\ UNCHANGED clock

Tick ==
    /\ clock < MaxTime
    /\ clock' = clock + 1
    /\ UNCHANGED <<safety, lastSetback>>

\* A clock that does not override elapsed_seconds reads wall time, which can be
\* set back.  History is rebased on the new reading.
ClockSetBack ==
    /\ clock > 0
    /\ clock' = clock - 1
    /\ lastSetback' = IF lastSetback <= clock - 1 THEN lastSetback ELSE clock - 1
    /\ UNCHANGED safety

SafetyNext ==
    \/ \E target \in RuntimeSafetyStates \ {"NORMAL"} : Degrade(target)
    \/ EmergencyStop
    \/ PauseEntries
    \/ \E e \in Evidence, manual \in BOOLEAN :
          Observe(e, manual) \/ ResumeEntries(e, manual)
    \/ Tick
    \/ ClockSetBack

SafetySpec == SafetyInit /\ [][SafetyNext]_safetyVars

-----------------------------------------------------------------------------

SafetyType ==
    /\ safety \in Controllers
    /\ clock \in Nat
    /\ lastSetback \in Nat

\* SafetyController.observe promotes to NORMAL only after a whole health window
\* in which no caller reported a setback of any kind, including setbacks the
\* rank comparison of degrade() ignored.
PromotionIsEarned ==
    [][safety.state # "NORMAL" /\ safety'.state = "NORMAL"
        => clock - lastSetback >= Window]_safetyVars

\* pause_entries latches: whatever is observed or degraded afterwards, the
\* runtime is not NORMAL and no health window runs until resume_entries.
PauseHolds ==
    safety.paused =>
        safety.state # "NORMAL" /\ safety.healthySince = NoTime

\* HALTED and EXIT_ONLY never carry a running health window, so leaving them
\* always starts the window from nothing.
SevereStatesHaveNoWindow ==
    safety.state \in {"HALTED", "EXIT_ONLY"} =>
        safety.healthySince = NoTime

\* A running window started no earlier than the last setback.
WindowFollowsSetback ==
    safety.healthySince # NoTime => lastSetback <= safety.healthySince

\* NORMAL is only ever reached through a window.
NormalHasWindow ==
    safety.state = "NORMAL" => safety.healthySince # NoTime

SafetyInv ==
    /\ SafetyType
    /\ PauseHolds
    /\ SevereStatesHaveNoWindow
    /\ WindowFollowsSetback
    /\ NormalHasWindow
    /\ lastSetback <= clock

\* HALTED is left only by an evaluation of complete evidence that carries an
\* explicit manual clearance (observe, resume_entries): no call without it would
\* have had that effect, and the halt gives way to ENTRY_DISABLED with a new window.
HaltNeedsManualClearance ==
    [][safety.state = "HALTED" /\ safety'.state # "HALTED"
        => /\ \E e \in Evidence :
                 /\ permits_normal(e)
                 /\ Observe(e, TRUE) \/ ResumeEntries(e, TRUE)
           /\ \A e \in Evidence : ~Observe(e, FALSE) /\ ~ResumeEntries(e, FALSE)
           /\ safety'.state = "ENTRY_DISABLED"
           /\ safety'.healthySince = clock]_safetyVars

=============================================================================
