----------------------------- MODULE SafetyState -----------------------------
(***************************************************************************)
(* The data and the methods of SafetyController                            *)
(* (app/safety/runtime_state.py) as functions of its private state, a      *)
(* record [state, healthySince, paused].  The reason texts are left out.   *)
(***************************************************************************)
EXTENDS Integers

CONSTANT Window   \* startup_health_window, in clock units

ASSUME WindowAssumption == Window \in Nat

RuntimeSafetyStates == {"NORMAL", "ENTRY_DISABLED", "EXIT_ONLY", "HALTED"}

NoTime == -1      \* _healthy_since is None

Controllers ==
    [state : RuntimeSafetyStates, healthySince : Nat \union {NoTime},
     paused : BOOLEAN]

\* SafetyEvidence: what one health evaluation saw.
Evidence ==
    [database_writable : BOOLEAN, broker_state_known : BOOLEAN,
     reconciled : BOOLEAN, market_data_fresh : BOOLEAN,
     account_data_fresh : BOOLEAN, execution_service_healthy : BOOLEAN,
     kill_switch_clear : BOOLEAN, environment_matches : BOOLEAN,
     unresolved_submission : BOOLEAN]

permits_normal(e) ==
    /\ e.database_writable
    /\ e.broker_state_known
    /\ e.reconciled
    /\ e.market_data_fresh
    /\ e.account_data_fresh
    /\ e.execution_service_healthy
    /\ e.kill_switch_clear
    /\ e.environment_matches
    /\ ~e.unresolved_submission

rank(s) ==
    CASE s = "NORMAL" -> 0
      [] s = "ENTRY_DISABLED" -> 1
      [] s = "EXIT_ONLY" -> 2
      [] s = "HALTED" -> 3

Startup == [state |-> "ENTRY_DISABLED", healthySince |-> NoTime, paused |-> FALSE]

\* Mutant of degrade: a setback equal to the current state is ignored.
MutDegradeIgnoresEqual(c, target) ==
    IF rank(target) > rank(c.state)
    THEN [c EXCEPT !.state = target, !.healthySince = NoTime]
    ELSE c

\* A call with a target milder than the current state changes nothing.
degrade(c, target) ==
    IF rank(target) >= rank(c.state)
    THEN [c EXCEPT !.state = target, !.healthySince = NoTime]
    ELSE c

emergency_stop(c) == [c EXCEPT !.state = "HALTED", !.healthySince = NoTime]

pause_entries(c) == degrade([c EXCEPT !.paused = TRUE], "ENTRY_DISABLED")

\* The part of observe that runs once the evidence permits NORMAL and the
\* operator has not paused entries: the health window.
accumulate(c, now, manual_halt_cleared) ==
    IF c.state = "HALTED" /\ ~manual_halt_cleared THEN c
    ELSE IF c.healthySince = NoTime
         THEN [c EXCEPT !.healthySince = now, !.state = "ENTRY_DISABLED"]
    ELSE IF now < c.healthySince THEN degrade(c, "ENTRY_DISABLED")
    ELSE IF now - c.healthySince >= Window THEN [c EXCEPT !.state = "NORMAL"]
    ELSE c

must_halt(e) ==
    \/ ~e.kill_switch_clear
    \/ e.unresolved_submission
    \/ ~e.database_writable

observe(c, e, now, manual_halt_cleared) ==
    IF must_halt(e) THEN emergency_stop(c)
    ELSE IF ~permits_normal(e) \/ c.paused THEN degrade(c, "ENTRY_DISABLED")
    ELSE accumulate(c, now, manual_halt_cleared)

resume_entries(c, e, now, manual_halt_cleared) ==
    observe([c EXCEPT !.paused = FALSE], e, now, manual_halt_cleared)

=============================================================================
