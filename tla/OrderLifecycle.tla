--------------------------- MODULE OrderLifecycle ---------------------------
(***************************************************************************)
(* The order state machine of app/execution/state_machine.py and the two   *)
(* vocabularies every other module shares: the states of an order and the  *)
(* comparison the execution store makes before it appends a new order row. *)
(***************************************************************************)
EXTENDS Naturals

TerminalStates == {"FILLED", "CANCELED", "REJECTED", "EXPIRED"}

\* States in which the broker may or may not have the order.
AmbiguousStates == {"SUBMITTING", "SUBMISSION_UNKNOWN"}

WorkingStates == {"OPEN", "PARTIAL"}

OrderStates ==
    {"PROPOSED", "REVIEWED", "APPROVED", "INTENT_PERSISTED"}
        \union AmbiguousStates \union WorkingStates \union TerminalStates

\* OrderStateMachine._transitions: the successors of every state.
Successors(s) ==
    CASE s = "PROPOSED"         -> {"REVIEWED", "REJECTED"}
      [] s = "REVIEWED"         -> {"APPROVED", "REJECTED"}
      [] s = "APPROVED"         -> {"INTENT_PERSISTED", "REJECTED"}
      [] s = "INTENT_PERSISTED" -> {"SUBMITTING", "REJECTED"}
      [] s = "SUBMITTING"       -> {"SUBMISSION_UNKNOWN", "OPEN", "PARTIAL",
                                    "FILLED", "CANCELED", "REJECTED"}
      [] s = "SUBMISSION_UNKNOWN" -> WorkingStates \union TerminalStates
      [] s = "OPEN"             -> {"PARTIAL", "FILLED", "CANCELED", "EXPIRED"}
      [] s = "PARTIAL"          -> {"PARTIAL", "FILLED", "CANCELED", "EXPIRED"}
      [] OTHER                  -> {}

\* OrderStateMachine.can_transition; transition() raises when it is FALSE.
CanTransition(previous, current, evidence) ==
    /\ current \in Successors(previous)
    /\ previous = "SUBMISSION_UNKNOWN" => evidence

=============================================================================
