----------------------------- MODULE LiveBroker -----------------------------
(***************************************************************************)
(* RobinhoodMcpBroker (src/app/broker/robinhood_mcp.py), the adapter that   *)
(* holds the write transport, with the read-only client it discovers        *)
(* capabilities through and the intent recording it inherits from           *)
(* IntentRecordingBroker (src/app/broker/base.py).                          *)
(*                                                                         *)
(* The execution service calls one write at a time, under its lock, and may *)
(* be interrupted at any await; a command may be handed over again.         *)
(* reconcile() runs beside it.  Nothing here survives the process.          *)
(***************************************************************************)
EXTENDS Integers, FiniteSets

CONSTANTS
    Places,      \* PLACE_OPTION_ORDER commands
    Cancels,     \* CANCEL_OPTION_ORDER commands
    Keys,        \* idempotency keys
    KeyOf,       \* [Commands -> Keys]
    Orders,      \* orders, named by what both sides derive from the intent
    OrderOf,     \* [Commands -> Orders]: the order placed, or the target
    Earlier,     \* orders an earlier process placed; still open at the broker
    Catalogues,  \* the tool listings a server may answer with
    Pinned       \* the write tools' schema in expected_schema_hashes

Commands == Places \union Cancels

\* The execution service derives an order's intent, and the adapter the order, from
\* the key of its placement: placements of one order share their key.
ASSUME CommandsAssumption ==
    /\ Places \intersect Cancels = {}
    /\ KeyOf \in [Commands -> Keys] /\ OrderOf \in [Commands -> Orders]
    /\ \A c \in Places : OrderOf[c] \notin Earlier
    /\ \A c, d \in Places : OrderOf[c] = OrderOf[d] => KeyOf[c] = KeyOf[d]

VARIABLES
    caps,      \* RobinhoodReadOnlyMcpClient._capabilities
    brokerCaps,\* RobinhoodMcpBroker._capabilities
    local,     \* _local_orders
    results,   \* _write_results
    recorded,  \* _recorded_commands and _command_idempotency
    durable,   \* what the command recorder has stored
    call,      \* the write the service is making
    outcome,   \* how the last call of each command ended: "none" if not at all
               \* or with another error than SubmissionUnknownError
    wire,      \* writes that have left and that the broker has not processed
    answer,    \* the broker's answer to a write, until it is received
    sent,      \* how often each command has been transmitted
    remote,    \* the orders at the broker
    rec        \* a reconcile() in progress

adapter == <<caps, brokerCaps, local, results, recorded>>
service == <<durable, call, outcome>>
broker == <<wire, answer, sent, remote>>
vars == <<adapter, service, broker, rec>>

None == [none |-> TRUE]
NoOrder == [st |-> "none", id |-> FALSE]
IdleCall == [pc |-> "idle", cmd |-> None]
IdleRec == [pc |-> "idle", ids |-> {}]

-----------------------------------------------------------------------------
(* Discovery                                                               *)

\* A server's tools by the capability they serve: the account, position and order
\* reads are one, since nothing here tells them apart.
Capabilities == {"reads", "review", "place", "cancel"}
Catalogue == [tools : SUBSET Capabilities, destructive : SUBSET Capabilities, schema : Nat]
ASSUME CataloguesAssumption == Catalogues \subseteq Catalogue /\ Pinned \in Nat

\* discover_capabilities: a missing tool, a read that declares destructive effects
\* and a schema that is not the expected one are issues; only a catalogue without
\* issues is execution ready.
discover_capabilities(catalogue) ==
    LET safe == (catalogue.tools \intersect {"reads", "review"}) \ catalogue.destructive
    IN [tools |-> catalogue.tools, safe |-> safe, schema |-> catalogue.schema,
        ready |-> catalogue.tools = Capabilities
                  /\ catalogue.schema = Pinned
                  /\ {"reads", "review"} \subseteq safe]

\* get_capabilities of the broker keeps the first discovery it was given, though the
\* client's is replaced when two first discoveries overlap.
get_capabilities == IF brokerCaps = None THEN caps ELSE brokerCaps

\* validate_command_for_capability: the command was built from the broker's copy and
\* is validated against the client's.
validate_command(c) ==
    /\ (IF c \in Places THEN "place" ELSE "cancel") \in caps.tools
    /\ brokerCaps.schema = caps.schema

-----------------------------------------------------------------------------
(* Orders                                                                  *)

\* Mutant of parse_order_ack: an acknowledgement is taken for the order's state.
MutAckIsOpen(reply) ==
    [st |-> IF reply.st = "none" THEN "OPEN" ELSE reply.st, id |-> reply.id]

\* _parse_order_ack over what the broker answered: no state keeps SUBMITTING, no id
\* erases the one that was known.
parse_order_ack(reply) ==
    [st |-> IF reply.st = "none" THEN "SUBMITTING" ELSE reply.st, id |-> reply.id]

\* _existing_write_result
Existing(c) == results[KeyOf[c]]
Reused(c) == \E d \in recorded : KeyOf[d] = KeyOf[c] /\ d # c

\* A call ends, and the service knows the outcome.
Return(o) ==
    /\ call' = IdleCall
    /\ outcome' = [outcome EXCEPT ![call.cmd] = o]

\* The orders and the key are written together, before the first await of the write.
Register(c, order) ==
    /\ local' = [local EXCEPT ![OrderOf[c]] = order]
    /\ results' = [results EXCEPT ![KeyOf[c]] = {OrderOf[c]}]
    /\ call' = [call EXCEPT !.pc = "authorize"]
    /\ UNCHANGED outcome

\* What follows the recording: a placement creates its order; a cancellation marks
\* the order it finds in memory, or looks for it at the broker.
Recorded(c) ==
    IF c \in Places
    THEN Register(c, [st |-> "SUBMITTING", id |-> FALSE])
    ELSE IF local[OrderOf[c]] # NoOrder
    THEN Register(c, [local[OrderOf[c]] EXCEPT !.st = "SUBMITTING"])
    ELSE /\ call' = [call EXCEPT !.pc = "find"]
         /\ UNCHANGED <<local, results, outcome>>

-----------------------------------------------------------------------------
(* A write                                                                 *)

\* Whether the service may ask to cancel: its row of the order is not an ended one,
\* and is not unresolved unless the broker shows the order.
Cancellable(o) ==
    \/ remote[o] # "none"
    \/ /\ local[o].st \in {"SUBMITTING", "OPEN"}
       /\ \E c \in Places : OrderOf[c] = o /\ outcome[c] = "returned"

\* The service picks a proposal or an order and asks for the capabilities.
Ask(c) ==
    /\ call = IdleCall
    /\ c \in Cancels => Cancellable(OrderOf[c])
    /\ call' = [pc |-> IF caps = None THEN "list" ELSE "build", cmd |-> c]
    /\ UNCHANGED <<adapter, durable, outcome, broker, rec>>

\* list_tools answers; a malformed listing raises.
Listed ==
    /\ call.pc = "list"
    /\ \/ /\ \E catalogue \in Catalogues : caps' = discover_capabilities(catalogue)
          /\ call' = [call EXCEPT !.pc = "build"]
          /\ UNCHANGED outcome
       \/ Return("none") /\ UNCHANGED caps
    /\ UNCHANGED <<brokerCaps, local, results, recorded, durable, broker, rec>>

\* The service builds the command from the capabilities; a placement needs all of
\* them, a cancellation its own.
Build ==
    LET c == call.cmd
        ok == IF c \in Places THEN get_capabilities.ready ELSE "cancel" \in get_capabilities.tools
    IN /\ call.pc = "build"
       /\ brokerCaps' = get_capabilities
       /\ IF ok THEN call' = [call EXCEPT !.pc = "enter"] /\ UNCHANGED outcome
                ELSE Return("none")
       /\ UNCHANGED <<caps, local, results, recorded, durable, broker, rec>>

\* place_option_order and cancel_option_order up to the recorder: a repeated command
\* is answered from memory and another command under its key is an error; then the
\* command is validated, and recorded unless it already is.
Enter ==
    LET c == call.cmd IN
    /\ call.pc = "enter"
    /\ CASE Existing(c) # {} /\ Reused(c) -> Return("none") /\ UNCHANGED <<local, results>>
         [] Existing(c) # {} /\ ~Reused(c) ->
              /\ \E o \in Existing(c) :
                    Return(IF local[o].st = "SUBMISSION_UNKNOWN" THEN "unknown" ELSE "returned")
              /\ UNCHANGED <<local, results>>
         [] OTHER ->
              IF ~validate_command(c) \/ (c \notin recorded /\ Reused(c))
              THEN Return("none") /\ UNCHANGED <<local, results>>
              ELSE IF c \in recorded
              THEN Recorded(c)
              ELSE /\ call' = [call EXCEPT !.pc = "record"]
                   /\ UNCHANGED <<local, results, outcome>>
    /\ UNCHANGED <<caps, brokerCaps, recorded, durable, broker, rec>>

\* record_broker_command_intent: the command counts as recorded once it is stored.
Record ==
    LET c == call.cmd IN
    /\ call.pc = "record"
    /\ durable' = durable \union {c}
    /\ recorded' = recorded \union {c}
    /\ Recorded(c)
    /\ UNCHANGED <<caps, brokerCaps, broker, rec>>

\* The recorder raises; the row may or may not have been written.
RecordFails ==
    /\ call.pc = "record"
    /\ Return("none")
    /\ durable' \in {durable, durable \union {call.cmd}}
    /\ UNCHANGED <<adapter, broker, rec>>

\* A cancellation of an order that is not in memory reads the broker's orders, where
\* it may be missing; the read may also be refused or fail.
Find ==
    LET c == call.cmd IN
    /\ call.pc = "find"
    /\ \/ /\ "reads" \in caps.safe /\ remote[OrderOf[c]] # "none"
          /\ Register(c, [st |-> "SUBMITTING", id |-> TRUE])
       \/ Return("none") /\ UNCHANGED <<local, results>>
    /\ UNCHANGED <<caps, brokerCaps, recorded, durable, broker, rec>>

\* The authorizer lets the write leave.
Authorized ==
    LET c == call.cmd IN
    /\ call.pc = "authorize"
    /\ wire' = wire \union {c}
    /\ sent' = [sent EXCEPT ![c] = @ + 1]
    /\ call' = [call EXCEPT !.pc = "transport"]
    /\ UNCHANGED <<adapter, durable, outcome, answer, remote, rec>>

\* It does not: a placement is rejected, a cancellation returns the order it found.
Denied ==
    LET c == call.cmd IN
    /\ call.pc = "authorize"
    /\ Return("returned")
    /\ local' = IF c \in Places THEN [local EXCEPT ![OrderOf[c]].st = "REJECTED"] ELSE local
    /\ UNCHANGED <<caps, brokerCaps, results, recorded, durable, broker, rec>>

\* The decision is not one for this command, or none comes: the call raises.
Misauthorized ==
    /\ call.pc = "authorize"
    /\ Return("none")
    /\ UNCHANGED <<adapter, durable, broker, rec>>

\* The broker's answer arrives and can be read.
Answered ==
    LET c == call.cmd IN
    /\ call.pc = "transport"
    /\ \E reply \in answer[c] :
          local' = [local EXCEPT ![OrderOf[c]] = parse_order_ack(reply)]
    /\ answer' = [answer EXCEPT ![c] = {}]
    /\ Return("returned")
    /\ UNCHANGED <<caps, brokerCaps, results, recorded, durable, wire, sent, remote, rec>>

\* It is an error result, or its state is not one the adapter knows: the call raises
\* and the order stays as it was entered.
Unreadable ==
    LET c == call.cmd IN
    /\ call.pc = "transport"
    /\ answer[c] # {}
    /\ answer' = [answer EXCEPT ![c] = {}]
    /\ Return("none")
    /\ UNCHANGED <<adapter, durable, wire, sent, remote, rec>>

\* Mutant of Unanswered: the key is released so that the write can be retried.
MutUnanswered ==
    LET c == call.cmd IN
    /\ call.pc = "transport"
    /\ local' = [local EXCEPT ![OrderOf[c]].st = "SUBMISSION_UNKNOWN"]
    /\ results' = [results EXCEPT ![KeyOf[c]] = {}]
    /\ answer' = [answer EXCEPT ![c] = {}]
    /\ Return("unknown")
    /\ UNCHANGED <<caps, brokerCaps, recorded, durable, wire, sent, remote, rec>>

\* The transport times out or loses the connection, whatever became of the write.
Unanswered ==
    LET c == call.cmd IN
    /\ call.pc = "transport"
    /\ local' = [local EXCEPT ![OrderOf[c]].st = "SUBMISSION_UNKNOWN"]
    /\ answer' = [answer EXCEPT ![c] = {}]
    /\ Return("unknown")
    /\ UNCHANGED <<caps, brokerCaps, results, recorded, durable, wire, sent, remote, rec>>

\* The service's task is cancelled at an await.
Interrupted ==
    LET c == call.cmd IN
    /\ call.pc \in {"list", "record", "find", "authorize", "transport"}
    /\ durable' \in IF call.pc = "record" THEN {durable, durable \union {c}} ELSE {durable}
    /\ answer' = [answer EXCEPT ![c] = {}]
    /\ Return("none")
    /\ UNCHANGED <<adapter, wire, sent, remote, rec>>

-----------------------------------------------------------------------------
(* reconcile                                                               *)

\* The three reads are gathered; each needs a discovered, harmless read tool.
ReconcileBegin ==
    /\ rec.pc = "idle"
    /\ rec' = [IdleRec EXCEPT !.pc = IF caps = None THEN "list" ELSE "read"]
    /\ UNCHANGED <<adapter, service, broker>>

ReconcileListed ==
    /\ rec.pc = "list"
    /\ \E catalogue \in Catalogues : caps' = discover_capabilities(catalogue)
    /\ rec' = [rec EXCEPT !.pc = "read"]
    /\ UNCHANGED <<brokerCaps, local, results, recorded, service, broker>>

ReconcileRead ==
    /\ rec.pc = "read"
    /\ "reads" \in caps.safe
    /\ rec' = [pc |-> "compare", ids |-> {o \in Orders : remote[o] # "none"}]
    /\ UNCHANGED <<adapter, service, broker>>

\* A read is refused, fails or cannot be parsed: reconcile raises.
ReconcileFails ==
    /\ rec.pc \in {"list", "read"}
    /\ rec' = IdleRec
    /\ UNCHANGED <<adapter, service, broker>>

\* Mutant of Discrepancies: an order without a broker id is skipped.
MutDiscrepancies ==
    {o \in Orders : /\ local[o].st = "SUBMISSION_UNKNOWN"
                    /\ local[o].id /\ o \notin rec.ids}

\* The orders in memory are looked at when the last read is back.
Discrepancies ==
    {o \in Orders : /\ local[o].st = "SUBMISSION_UNKNOWN"
                    /\ ~local[o].id \/ o \notin rec.ids}

Reconcile ==
    /\ rec.pc = "compare"
    /\ rec' = [IdleRec EXCEPT !.pc = IF Discrepancies = {} THEN "successful" ELSE "failed"]
    /\ UNCHANGED <<adapter, service, broker>>

Reported ==
    /\ rec.pc \in {"successful", "failed"}
    /\ rec' = IdleRec
    /\ UNCHANGED <<adapter, service, broker>>

-----------------------------------------------------------------------------
(* The broker                                                              *)

\* What an answer may say of an order: its state or none, with its id or without.
Replies(st) == [st : {st, "none"}, id : BOOLEAN]

\* A write that left is processed at most once, soon, late or never; the answer is
\* lost if nobody waits for it any more.
Process(c) ==
    LET o == OrderOf[c]
        Answer(st) == \E reply \in Replies(st) :
            answer' = [answer EXCEPT ![c] = IF call = [pc |-> "transport", cmd |-> c]
                                            THEN {reply} ELSE {}]
    IN
    /\ c \in wire
    /\ wire' = wire \ {c}
    /\ \/ /\ c \in Places
          /\ remote' = [remote EXCEPT ![o] = "OPEN"]
          /\ Answer("OPEN")
       \/ /\ c \in Places
          /\ Answer("REJECTED")
          /\ UNCHANGED remote
       \/ /\ c \in Cancels /\ remote[o] = "OPEN"
          /\ remote' = [remote EXCEPT ![o] = "CANCELED"]
          /\ Answer("CANCELED")
       \/ /\ c \in Cancels
          /\ remote[o] # "OPEN"
          /\ Answer(remote[o])
          /\ UNCHANGED remote
    /\ UNCHANGED <<adapter, service, sent, rec>>

\* An order fills.
Fill(o) ==
    /\ remote[o] = "OPEN"
    /\ remote' = [remote EXCEPT ![o] = "FILLED"]
    /\ UNCHANGED <<adapter, service, wire, answer, sent, rec>>

-----------------------------------------------------------------------------

Init ==
    /\ caps = None /\ brokerCaps = None
    /\ local = [o \in Orders |-> NoOrder]
    /\ results = [k \in Keys |-> {}]
    /\ recorded = {} /\ durable = {}
    /\ call = IdleCall
    /\ outcome = [c \in Commands |-> "none"]
    /\ wire = {}
    /\ answer = [c \in Commands |-> {}]
    /\ sent = [c \in Commands |-> 0]
    /\ remote = [o \in Orders |-> IF o \in Earlier THEN "OPEN" ELSE "none"]
    /\ rec = IdleRec

Write ==
    \/ \E c \in Commands : Ask(c)
    \/ Listed \/ Build \/ Enter \/ Record \/ RecordFails \/ Find
    \/ Authorized \/ Denied \/ Misauthorized
    \/ Answered \/ Unreadable \/ Unanswered \/ Interrupted

Reconciliation ==
    \/ ReconcileBegin \/ ReconcileListed \/ ReconcileRead \/ ReconcileFails
    \/ Reconcile \/ Reported

Next ==
    \/ Write
    \/ Reconciliation
    \/ \E c \in Commands : Process(c)
    \/ \E o \in Orders : Fill(o)

Spec == Init /\ [][Next]_vars

-----------------------------------------------------------------------------
\* Whatever times out, fails, is interrupted and is asked again, the writes of one
\* idempotency key leave the process at most once, and only after the command was
\* stored (_write_results, record_broker_command_intent).
TransmittedOnce ==
    /\ \A c \in Commands : sent[c] <= 1 /\ (sent[c] > 0 => c \in durable)
    /\ \A c, d \in Commands : KeyOf[c] = KeyOf[d] /\ sent[c] > 0 /\ sent[d] > 0 => c = d

\* "It is never promoted to OPEN/FILLED merely because a call returned": an order has
\* an end or an open state in memory only if the broker gave it that state, and a
\* rejected one is not at the broker and not on its way there.
AnswersAreTheBrokers ==
    \A o \in Orders :
        /\ local[o].st = "OPEN" => remote[o] # "none"
        /\ local[o].st \in {"FILLED", "CANCELED"} => remote[o] = local[o].st
        /\ local[o].st = "REJECTED" =>
              /\ remote[o] = "none"
              /\ \A c \in wire : OrderOf[c] # o

\* Once a placement has ended in SubmissionUnknownError, no reconcile() succeeds until
\* the broker has the order, however the reads and the write overlap.
LostWriteBlocksReconcile ==
    [][rec.pc = "compare" /\ rec'.pc = "successful" =>
          \A c \in Places : outcome'[c] = "unknown" => remote'[OrderOf[c]] # "none"]_vars
=============================================================================
