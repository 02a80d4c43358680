---------------------------- MODULE CommandJournal ----------------------------
(***************************************************************************)
(* What ExecutionService.execute and the deny-all firewall of broker shadow *)
(* promise about the tables an auditor reads: a submission writes its order *)
(* intent, then its exact command, and ends in a durable denial or in a     *)
(* local refusal, never both.  It may be cut off after any write.           *)
(***************************************************************************)
EXTENDS Naturals, FiniteSets

CONSTANT Orders     \* submissions, each with its own intent and command id

VARIABLES
    intents, commands,  \* order_intents, broker_command_intents
    denials,            \* external_write_firewall_events: BLOCKED_SHADOW, not transmitted
    refused             \* rejected before the broker was called

journal == <<intents, commands, denials, refused>>

JournalInit == intents = {} /\ commands = {} /\ denials = {} /\ refused = {}

Intend(p) ==
    /\ p \in Orders \ intents
    /\ intents' = intents \union {p}
    /\ UNCHANGED <<commands, denials, refused>>

Command(p) ==
    /\ p \in intents \ commands
    /\ commands' = commands \union {p}
    /\ UNCHANGED <<intents, denials, refused>>

\* The final gate fails, or the broker is called and the firewall denies.
Refuse(p) ==
    /\ p \in commands \ (denials \union refused)
    /\ refused' = refused \union {p}
    /\ UNCHANGED <<intents, commands, denials>>

Deny(p) ==
    /\ p \in commands \ (denials \union refused)
    /\ denials' = denials \union {p}
    /\ UNCHANGED <<intents, commands, refused>>

Submission(p) == Intend(p) \/ Command(p) \/ Refuse(p) \/ Deny(p)
=============================================================================
