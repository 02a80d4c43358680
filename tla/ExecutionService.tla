-------------------------- MODULE ExecutionService --------------------------
(***************************************************************************)
(* ExecutionService (app/execution/service.py): the only path on which the *)
(* program asks a broker to change an order.  Every await of execute,      *)
(* cancel_order, reconcile_submission and record_broker_update is a point  *)
(* where the operator, the broker, the store, a task cancellation or a     *)
(* crash of the process may intervene, so each is a step of its own.       *)
(*                                                                         *)
(* An intent is <<p, action>>: the fingerprint of proposal p determines    *)
(* the intent id and the idempotency key of its placement, and p also      *)
(* determines those of its cancellation.  Proposals are the ones bound to  *)
(* this environment and namespace; _validate_binding refuses the others    *)
(* before anything happens.  An order is [st, filled, id], its exact terms *)
(* being those of p; id tells the id made up locally for a pending row     *)
(* from the one the broker assigned.                                       *)
(***************************************************************************)
EXTENDS OrderLifecycle, Integers

CONSTANTS
    Env,          \* ExecutionEnvironment: "DEMO" or "LIVE"
    Proposals,    \* exact proposals, by order fingerprint
    Buys,         \* those that open a position
    Cancellable,  \* those whose order some caller may ask to cancel
    Reported,     \* those whose changes reach record_broker_update
    Queried,      \* those some caller passes to reconcile_submission
    Tasks,        \* concurrent callers
    NoTask,       \* the lock is free
    Modes,        \* trading modes the operator uses
    Quantity      \* contracts per order

ASSUME EnvAssumption == Env \in {"DEMO", "LIVE"}
ASSUME ProposalsAssumption == 
    \A S \in {Buys, Cancellable, Reported, Queried} : S \subseteq Proposals
ASSUME TasksAssumption == NoTask \notin Tasks
ASSUME ModesAssumption ==
    Modes \subseteq {"RESEARCH", "SHADOW", "APPROVAL", "EXIT_AUTO", "AUTO"}
ASSUME QuantityAssumption == Quantity \in Nat \ {0}

VARIABLES
    \* the process
    lock,         \* holder of _execution_lock
    call,         \* the call each caller is making, see Calls
    latch,        \* _interrupted_write_intents
    rec, upd,     \* reconcile_submission and record_broker_update in progress
    \* the controls
    mode, clear, safety,
    \* the execution store
    intents, commands, row, journal, negatives,
    \* the broker
    order, seen, wire, answer, sent

process == <<lock, call, latch>>
control == <<mode, clear, safety>>
store   == <<intents, commands, row, journal, negatives>>
broker  == <<order, seen, wire, answer, sent>>
vars    == <<process, rec, upd, control, store, broker>>

-----------------------------------------------------------------------------
(* Values                                                                  *)

Intents == Proposals \X {"place", "cancel"}
Place(p) == <<p, "place">>

Orders == [st : OrderStates \union {"NONE"}, filled : 0..Quantity,
           id : {"pending", "broker"}]
NoOrder == [st |-> "NONE", filled |-> 0, id |-> "pending"]

\* "ready": durable command ready; "denied": local gate, no write attempted;
\* "unknown", "interrupted": outcome unproven; "observed", "reconciled", "update".
Reasons == {"ready", "denied", "unknown", "interrupted", "observed",
            "reconciled", "update"}
Records == Intents \X OrderStates \X OrderStates \X Reasons

SafetyLevels == {"NORMAL", "ENTRY_DISABLED", "HALTED"}

\* LIVE is stopped at startup until it is activated; DEMO waits for its window.
StartupSafety == IF Env = "LIVE" THEN "HALTED" ELSE "ENTRY_DISABLED"

Pcs == {"idle", "admit", "evidence", "account", "recheck", "cancelEvidence",
        "saveIntent", "saveCommand", "savePending", "journalPending", "gate",
        "denySave", "denyJournal", "await", "saveUnknown", "journalUnknown",
        "saveReply", "journalReply", "auditSave", "auditJournal"}

\* A call of execute or cancel_order: its intent, the mode read when it started,
\* the exact approval it was given, the writes already made when it read
\* the account, and the BrokerOrder it holds (pending, then the response).
NoIntent == <<"none", "none">>
Calls == [pc : Pcs, intent : Intents \union {NoIntent}, mode : Modes \union {"RESEARCH"},
          approval : {"none", "valid", "expired"}, known : SUBSET Intents, held : Orders]
IdleCall == [pc |-> "idle", intent |-> NoIntent, mode |-> "RESEARCH",
             approval |-> "none", known |-> {}, held |-> NoOrder]

Sent == {i \in Intents : sent[i] > 0}

\* What save_order of the store accepts over the newest row of the intent.
SaveOk(previous, new) ==
    \/ previous.st = "NONE"
    \/ /\ new.filled >= previous.filled
       /\ previous.id = new.id \/ previous.st \in AmbiguousStates

-----------------------------------------------------------------------------
(* Gates                                                                   *)

preflight(p, m) ==
    /\ latch = {}
    /\ ~(Env = "LIVE" /\ m = "SHADOW")
    /\ m # "RESEARCH"
    /\ clear
    /\ IF p \in Buys THEN safety = "NORMAL" ELSE safety # "HALTED"

approval_required(p, m) == m = "APPROVAL" \/ (m = "EXIT_AUTO" /\ p \in Buys)

validate_approval(t, m) ==
    approval_required(call[t].intent[1], m) => call[t].approval = "valid"

cancel_gate == clear /\ safety # "HALTED"

\* Mutant of placement_gate: the mode is compared but the gates are not re-run.
MutPlacementGate(t) == mode = call[t].mode /\ validate_approval(t, call[t].mode)

\* Re-read of the mode, preflight and approval before the intent and again,
\* with no await in between, before the broker call.
placement_gate(t) ==
    /\ mode = call[t].mode
    /\ preflight(call[t].intent[1], call[t].mode)
    /\ validate_approval(t, call[t].mode)

final_gate(t) == IF call[t].intent[2] = "place" THEN placement_gate(t) ELSE cancel_gate

-----------------------------------------------------------------------------
(* Calls                                                                   *)

At(t, label) == call[t].pc = label

Goto(t, label) == call' = [call EXCEPT ![t].pc = label]

\* The call returns or raises and the lock is released.
Finish(t) ==
    /\ lock' = NoTask
    /\ call' = [call EXCEPT ![t] = IdleCall]
    /\ answer' = [answer EXCEPT ![call[t].intent] = NoOrder]

\* emergency_stop
Halt == safety' = "HALTED"

\* _deny_interrupted_writes stops the runtime when it refuses.
DenyInterrupted == safety' = IF latch # {} THEN "HALTED" ELSE safety

\* Mutant of Begin: admission is not serialised by _execution_lock.
MutBeginWithoutLock(t, p, approval) ==
    /\ At(t, "idle")
    /\ lock' = t
    /\ call' = [call EXCEPT ![t] =
                  [IdleCall EXCEPT !.pc = "admit", !.intent = Place(p),
                                   !.mode = mode, !.approval = approval]]
    /\ UNCHANGED <<latch, rec, upd, control, store, broker>>

Begin(t, p, approval) ==
    /\ At(t, "idle")
    /\ lock = NoTask
    /\ lock' = t
    /\ call' = [call EXCEPT ![t] =
                  [IdleCall EXCEPT !.pc = "admit", !.intent = Place(p),
                                   !.mode = mode, !.approval = approval]]
    /\ UNCHANGED <<latch, rec, upd, control, store, broker>>

\* Mutant of BeginCancel: a cancellation is admitted while the latch is set.
MutBeginCancel(t, p, target) ==
    /\ At(t, "idle")
    /\ lock = NoTask
    /\ target.st \in WorkingStates
    /\ cancel_gate
    /\ lock' = t
    /\ call' = [call EXCEPT ![t] =
                  [IdleCall EXCEPT !.pc = "cancelEvidence",
                                   !.intent = <<p, "cancel">>, !.held = target]]
    /\ UNCHANGED <<latch, rec, upd, control, store, broker>>

\* cancel_order, with whatever working snapshot of the order its caller holds.
BeginCancel(t, p, target) ==
    /\ At(t, "idle")
    /\ lock = NoTask
    /\ target.st \in WorkingStates
    /\ latch = {}
    /\ cancel_gate
    /\ lock' = t
    /\ call' = [call EXCEPT ![t] =
                  [IdleCall EXCEPT !.pc = "cancelEvidence",
                                   !.intent = <<p, "cancel">>, !.held = target]]
    /\ UNCHANGED <<latch, rec, upd, control, store, broker>>

\* cancel_order stops the runtime, as execute does, while the latch is set.
RefuseCancel(t) ==
    /\ At(t, "idle")
    /\ lock = NoTask
    /\ latch # {}
    /\ Halt
    /\ UNCHANGED <<process, rec, upd, mode, clear, store, broker>>

\* A matching intent blocks the proposal whatever became of it.
Admit(t) ==
    /\ At(t, "admit")
    /\ call[t].intent \notin intents
    /\ preflight(call[t].intent[1], call[t].mode)
    /\ Goto(t, "evidence")
    /\ UNCHANGED <<lock, latch, rec, upd, control, store, broker>>

\* Account, reconciliation, quote, risk, review; then the approval.
GatherEvidence(t) ==
    /\ At(t, "evidence")
    /\ validate_approval(t, call[t].mode)
    /\ Goto(t, "account")
    /\ UNCHANGED <<lock, latch, rec, upd, control, store, broker>>

\* Quote and effective account are read again; risk is evaluated on them.
ReadAccount(t) ==
    /\ At(t, "account")
    /\ call' = [call EXCEPT ![t].known = Sent, ![t].pc = "recheck"]
    /\ UNCHANGED <<lock, latch, rec, upd, control, store, broker>>

Recheck(t) ==
    /\ At(t, "recheck")
    /\ placement_gate(t)
    /\ Goto(t, "saveIntent")
    /\ UNCHANGED <<lock, latch, rec, upd, control, store, broker>>

\* Original intent and command, account, reconciliation, duplicate check.
GatherCancelEvidence(t) ==
    /\ At(t, "cancelEvidence")
    /\ Place(call[t].intent[1]) \in intents \intersect commands
    /\ call[t].intent \notin intents
    /\ call' = [call EXCEPT ![t].known = Sent, ![t].pc = "saveIntent"]
    /\ UNCHANGED <<lock, latch, rec, upd, control, store, broker>>

\* An intent already stored differs at least in its timestamps, so the store
\* refuses to save this one over it.
SaveIntent(t) ==
    /\ At(t, "saveIntent")
    /\ call[t].intent \notin intents
    /\ intents' = intents \union {call[t].intent}
    /\ Goto(t, "saveCommand")
    /\ UNCHANGED <<lock, latch, rec, upd, control, commands, row, journal, negatives, broker>>

SaveCommand(t) ==
    /\ At(t, "saveCommand")
    /\ call[t].intent \in intents
    /\ commands' = commands \union {call[t].intent}
    /\ Goto(t, "savePending")
    /\ UNCHANGED <<lock, latch, rec, upd, control, intents, row, journal, negatives, broker>>

\* get_capabilities: before the intent of a placement, after that of a
\* cancellation.  A DEMO broker that advertises external writes stops the runtime.
CapabilityDenied(t) ==
    /\ IF call[t].intent[2] = "place" THEN At(t, "saveIntent") ELSE At(t, "saveCommand")
    /\ Finish(t)
    /\ \/ UNCHANGED safety
       \/ Env = "DEMO" /\ Halt
    /\ UNCHANGED <<latch, rec, upd, mode, clear,
                   store, order, seen, wire, sent>>

Pending(t) ==
    IF call[t].intent[2] = "place"
    THEN [st |-> "SUBMITTING", filled |-> 0, id |-> "pending"]
    ELSE [call[t].held EXCEPT !.st = "SUBMITTING"]

\* save_order by the call, in the given state of the order it holds
Save(t, new, next) ==
    /\ SaveOk(row[call[t].intent], new)
    /\ row' = [row EXCEPT ![call[t].intent] = new]
    /\ call' = [call EXCEPT ![t].held = new, ![t].pc = next]
    /\ UNCHANGED <<lock, latch, rec, upd, control,
                   intents, commands, journal, negatives, broker>>

Record(i, previous, current, reason) ==
    journal' = journal \union {<<i, previous, current, reason>>}

\* A transition that ends the call
RecordAndFinish(t, previous, current, reason) ==
    /\ Record(call[t].intent, previous, current, reason)
    /\ Finish(t)
    /\ UNCHANGED <<latch, rec, upd, control, intents,
                   commands, row, negatives, order, seen, wire, sent>>

SavePending(t) == At(t, "savePending") /\ Save(t, Pending(t), "journalPending")

JournalPending(t) ==
    /\ At(t, "journalPending")
    /\ Record(call[t].intent, "INTENT_PERSISTED", "SUBMITTING", "ready")
    /\ Goto(t, "gate")
    /\ UNCHANGED <<lock, latch, rec, upd, control, intents, commands, row, negatives, broker>>

\* The gates and the start of the broker call are one step: no await between.
Submit(t) ==
    /\ At(t, "gate")
    /\ final_gate(t)
    /\ sent' = [sent EXCEPT ![call[t].intent] = @ + 1]
    /\ wire' = wire \union {call[t].intent}
    /\ Goto(t, "await")
    /\ UNCHANGED <<lock, latch, rec, upd, control, store, order, seen, answer>>

\* A placement is also denied when its risk evidence has expired.
GateDenies(t) ==
    /\ At(t, "gate")
    /\ ~final_gate(t) \/ call[t].intent[2] = "place"
    /\ Goto(t, "denySave")
    /\ IF call[t].intent[2] = "place" /\ mode = call[t].mode
       THEN DenyInterrupted ELSE UNCHANGED safety
    /\ UNCHANGED <<lock, latch, rec, upd, mode, clear, store, broker>>

DenySave(t) ==
    At(t, "denySave") /\ Save(t, [call[t].held EXCEPT !.st = "REJECTED"], "denyJournal")

DenyJournal(t) ==
    At(t, "denyJournal") /\ RecordAndFinish(t, "SUBMITTING", "REJECTED", "denied")

\* The broker's answer arrives and correlates with the intent.
Reply(t) ==
    /\ At(t, "await")
    /\ answer[call[t].intent] # NoOrder
    /\ call' = [call EXCEPT ![t].held = answer[call[t].intent],
                            ![t].pc = "saveReply"]
    /\ answer' = [answer EXCEPT ![call[t].intent] = NoOrder]
    /\ UNCHANGED <<lock, latch, rec, upd, control,
                   store, order, seen, wire, sent>>

\* An answer to a placement that names another intent: the row stays SUBMITTING.
UncorrelatedReply(t) ==
    /\ At(t, "await")
    /\ call[t].intent[2] = "place"
    /\ answer[call[t].intent] # NoOrder
    /\ safety' = IF Env = "LIVE" THEN "HALTED" ELSE safety
    /\ Finish(t)
    /\ UNCHANGED <<latch, rec, upd, mode, clear,
                   store, order, seen, wire, sent>>

\* Mutants of OutcomeUnknown: the command is retried blindly, or a timeout is
\* taken for a refusal.
MutRetry(t) ==
    /\ At(t, "await")
    /\ Env = "LIVE"
    /\ Goto(t, "gate")
    /\ UNCHANGED <<lock, latch, rec, upd, control, store, broker>>

MutTimeoutIsDenial(t) ==
    /\ At(t, "await")
    /\ Env = "LIVE"
    /\ Goto(t, "denySave")
    /\ UNCHANGED <<lock, latch, rec, upd, control, store, broker>>

\* Timeout, lost connection or an unknown outcome reported by the adapter.
OutcomeUnknown(t) ==
    /\ At(t, "await")
    /\ Env = "LIVE"
    /\ Halt
    /\ Goto(t, "saveUnknown")
    /\ UNCHANGED <<lock, latch, rec, upd, mode, clear, store, broker>>

\* Mutant of SaveUnknown: the unproven outcome is stored as a rejection.
MutSaveUnknown(t) ==
    /\ At(t, "saveUnknown")
    /\ Save(t, [call[t].held EXCEPT !.st = "REJECTED"], "journalUnknown")

SaveUnknown(t) ==
    /\ At(t, "saveUnknown")
    /\ Save(t, [call[t].held EXCEPT !.st = "SUBMISSION_UNKNOWN"], "journalUnknown")

JournalUnknown(t) ==
    /\ At(t, "journalUnknown")
    /\ RecordAndFinish(t, "SUBMITTING", "SUBMISSION_UNKNOWN", "unknown")

\* The row is saved before the state machine is asked about the transition.
SaveReply(t) == At(t, "saveReply") /\ Save(t, call[t].held, "journalReply")

JournalReply(t) ==
    /\ At(t, "journalReply")
    /\ CanTransition("SUBMITTING", call[t].held.st, FALSE)
    /\ RecordAndFinish(t, "SUBMITTING", call[t].held.st, "observed")

\* The task is cancelled once the broker may have the command.  A cancellation
\* can also arrive when the last transition has just been committed.
Interrupted(t) ==
    /\ call[t].pc \in {"await", "saveReply", "journalReply"}
    /\ latch' = latch \union {call[t].intent}
    /\ Halt
    /\ Goto(t, "auditSave")
    /\ \/ UNCHANGED journal
       \/ /\ call[t].pc = "journalReply"
          /\ CanTransition("SUBMITTING", call[t].held.st, FALSE)
          /\ Record(call[t].intent, "SUBMITTING", call[t].held.st, "observed")
    /\ UNCHANGED <<lock, rec, upd, mode, clear, intents, commands, row, negatives, broker>>

AuditSave(t) ==
    /\ At(t, "auditSave")
    /\ Save(t, [call[t].held EXCEPT !.st = "SUBMISSION_UNKNOWN"], "auditJournal")

AuditJournal(t) ==
    /\ At(t, "auditJournal")
    /\ RecordAndFinish(t, "SUBMITTING", "SUBMISSION_UNKNOWN", "interrupted")

\* The audit of an interruption fails, is cancelled again or exceeds its deadline.
AuditFails(t) ==
    /\ call[t].pc \in {"auditSave", "auditJournal"}
    /\ Halt
    /\ Finish(t)
    /\ UNCHANGED <<latch, rec, upd, mode, clear,
                   store, order, seen, wire, sent>>

\* Every other way a call ends: a failed check or review, an error of the store
\* or of the broker, a cancellation before the broker call.  Nothing is undone.
Abort(t) ==
    /\ call[t].pc \notin {"idle", "auditSave", "auditJournal"}
    /\ Finish(t)
    /\ \/ UNCHANGED safety
       \/ call[t].pc \in {"admit", "recheck"} /\ DenyInterrupted
    /\ UNCHANGED <<latch, rec, upd, mode, clear,
                   store, order, seen, wire, sent>>

-----------------------------------------------------------------------------
(* Calls that do not take the execution lock                               *)

IdleRec == [pc |-> "idle", intent |-> <<>>, match |-> NoOrder]
IdleUpd == [pc |-> "idle", intent |-> <<>>, local |-> "NONE", new |-> NoOrder]

OutsideLock == UNCHANGED <<process, control, intents, commands, broker>>

ReconcileBegin(i) ==
    /\ rec.pc = "idle"
    /\ row[i].st = "SUBMISSION_UNKNOWN"
    /\ rec' = [rec EXCEPT !.pc = "query", !.intent = i]
    /\ OutsideLock /\ UNCHANGED <<upd, row, journal, negatives>>

\* The broker lists its orders under the intent that placed them.
ReconcileMatch ==
    LET p == rec.intent[1] IN
    /\ rec.pc = "query"
    /\ rec.intent = Place(p)
    /\ order[p].st # "NONE"
    /\ rec' = [rec EXCEPT !.pc = "save", !.match = order[p]]
    /\ OutsideLock /\ UNCHANGED <<upd, row, journal, negatives>>

\* A complete history without the key: recorded, but the row is not touched.
ReconcileNegative ==
    /\ rec.pc = "query"
    /\ rec.intent = Place(rec.intent[1]) => order[rec.intent[1]].st = "NONE"
    /\ negatives' = negatives \union {rec.intent}
    /\ rec' = IdleRec
    /\ OutsideLock /\ UNCHANGED <<upd, row, journal>>

ReconcileSave ==
    /\ rec.pc = "save"
    /\ SaveOk(row[rec.intent], rec.match)
    /\ row' = [row EXCEPT ![rec.intent] = rec.match]
    /\ rec' = [rec EXCEPT !.pc = "journal"]
    /\ OutsideLock /\ UNCHANGED <<upd, journal, negatives>>

ReconcileJournal ==
    /\ rec.pc = "journal"
    /\ CanTransition("SUBMISSION_UNKNOWN", rec.match.st, TRUE)
    /\ Record(rec.intent, "SUBMISSION_UNKNOWN", rec.match.st, "reconciled")
    /\ rec' = IdleRec
    /\ OutsideLock /\ UNCHANGED <<upd, row, negatives>>

\* Incomplete report, mismatching terms, an error or a cancellation.
ReconcileAbandon ==
    /\ rec.pc # "idle"
    /\ rec' = IdleRec
    /\ OutsideLock /\ UNCHANGED <<upd, row, journal, negatives>>

\* record_broker_update for an order the broker reports; the transition is
\* checked against the row read here and recorded before the row is saved.
UpdateBegin(p, evidence) ==
    LET local == row[Place(p)] IN
    /\ upd.pc = "idle"
    /\ local.st # "NONE"
    /\ local.id = order[p].id
    /\ order[p].filled >= local.filled
    /\ order[p].st # local.st \/ order[p].filled # local.filled
    /\ CanTransition(local.st, order[p].st, evidence)
    /\ upd' = [pc |-> "journal", intent |-> Place(p), local |-> local.st,
               new |-> order[p]]
    /\ OutsideLock /\ UNCHANGED <<rec, row, journal, negatives>>

UpdateJournal ==
    /\ upd.pc = "journal"
    /\ Record(upd.intent, upd.local, upd.new.st, "update")
    /\ upd' = [upd EXCEPT !.pc = "save"]
    /\ OutsideLock /\ UNCHANGED <<rec, row, negatives>>

UpdateSave ==
    /\ upd.pc = "save"
    /\ SaveOk(row[upd.intent], upd.new)
    /\ row' = [row EXCEPT ![upd.intent] = upd.new]
    /\ upd' = IdleUpd
    /\ OutsideLock /\ UNCHANGED <<rec, journal, negatives>>

UpdateAbandon ==
    /\ upd.pc # "idle"
    /\ upd' = IdleUpd
    /\ OutsideLock /\ UNCHANGED <<rec, row, journal, negatives>>

-----------------------------------------------------------------------------
(* The broker (external): it may process a command long after the caller   *)
(* gave up on it, or never.                                                *)

Service == <<process, rec, upd, control, store>>

Awaited(i) == \E t \in Tasks : call[t].intent = i /\ call[t].pc = "await"

Respond(i, new) ==
    /\ wire' = wire \ {i}
    /\ order' = [order EXCEPT ![i[1]] = new]
    /\ seen' = [seen EXCEPT ![i[1]] = @ \union {new}]
    /\ answer' = IF Awaited(i) THEN [answer EXCEPT ![i] = new] ELSE answer
    /\ UNCHANGED <<sent, Service>>

\* How a new order may stand once the broker has processed it.
Placed == {o \in [st : {"OPEN", "PARTIAL", "FILLED", "CANCELED", "REJECTED"},
                  filled : 0..Quantity, id : {"broker"}] :
              /\ o.st \in {"OPEN", "CANCELED", "REJECTED"} => o.filled = 0
              /\ o.st = "PARTIAL" => o.filled \in 1..(Quantity - 1)
              /\ o.st = "FILLED" => o.filled = Quantity}

\* How a working order may stand later.
Later(o) == {n \in [st : {"PARTIAL", "FILLED", "CANCELED", "EXPIRED"},
                    filled : 0..Quantity, id : {"broker"}] :
                /\ n.st = "PARTIAL" => n.filled \in (o.filled + 1)..(Quantity - 1)
                /\ n.st = "FILLED" => n.filled = Quantity
                /\ n.st \in {"CANCELED", "EXPIRED"} => n.filled = o.filled}

BrokerPlaces(p) ==
    /\ Place(p) \in wire
    /\ order[p].st = "NONE"
    /\ \E o \in Placed : Respond(Place(p), o)

\* A terminal order is returned as it is.
BrokerCancels(p) ==
    /\ <<p, "cancel">> \in wire
    /\ Respond(<<p, "cancel">>,
               IF order[p].st \in WorkingStates
               THEN [order[p] EXCEPT !.st = "CANCELED"] ELSE order[p])

BrokerMoves(p) ==
    /\ order[p].st \in WorkingStates
    /\ \E o \in Later(order[p]) :
          /\ order' = [order EXCEPT ![p] = o]
          /\ seen' = [seen EXCEPT ![p] = @ \union {o}]
    /\ UNCHANGED <<wire, answer, sent, Service>>

-----------------------------------------------------------------------------
(* The operator, the health monitor and the clock                          *)

Uncontrolled == UNCHANGED <<process, rec, upd, store, broker>>

\* set_mode of the dashboard: LIVE is refused the modes that need activation.
\* Its other check, of HALTED, precedes an await and may be stale at the assignment.
SetMode(m) ==
    /\ Env = "LIVE" => m \notin {"SHADOW", "EXIT_AUTO", "AUTO"}
    /\ mode' = m
    /\ UNCHANGED <<clear, safety>> /\ Uncontrolled

\* Kill switch and healthcheck.
SetClear(b) == clear' = b /\ UNCHANGED <<mode, safety>> /\ Uncontrolled

\* SafetyController: NORMAL is entered from ENTRY_DISABLED only; HALTED is left
\* only with manual clearance.
SetSafety(s) ==
    /\ s = "NORMAL" => safety = "ENTRY_DISABLED"
    /\ safety' = s
    /\ UNCHANGED <<mode, clear>> /\ Uncontrolled

\* The approval a call was given passes its expiry.
ExpireApproval(t) ==
    /\ call[t].approval = "valid"
    /\ call' = [call EXCEPT ![t].approval = "expired"]
    /\ UNCHANGED <<lock, latch, rec, upd, control, store, broker>>

\* The process dies and is restarted.  Requests already sent to an external
\* broker are still in flight; a simulated broker dies with the process.
Crash ==
    /\ lock' = NoTask
    /\ call' = [t \in Tasks |-> IdleCall]
    /\ latch' = {}
    /\ rec' = IdleRec
    /\ upd' = IdleUpd
    /\ safety' = StartupSafety
    /\ wire' = IF Env = "LIVE" THEN wire ELSE {}
    /\ answer' = [i \in Intents |-> NoOrder]
    /\ UNCHANGED <<mode, clear, store, order, seen, sent>>

-----------------------------------------------------------------------------

Init ==
    /\ lock = NoTask
    /\ call = [t \in Tasks |-> IdleCall]
    /\ latch = {}
    /\ mode \in Modes /\ (Env = "LIVE" => mode # "SHADOW")
    /\ rec = IdleRec
    /\ upd = IdleUpd
    /\ clear \in BOOLEAN
    /\ safety = StartupSafety
    /\ intents = {} /\ commands = {} /\ journal = {} /\ negatives = {}
    /\ row = [i \in Intents |-> NoOrder]
    /\ order = [p \in Proposals |-> NoOrder]
    /\ seen = [p \in Proposals |-> {}]
    /\ wire = {}
    /\ answer = [i \in Intents |-> NoOrder]
    /\ sent = [i \in Intents |-> 0]

\* What a caller does next when nothing goes wrong outside it.
Proceed(t) ==
    \/ Admit(t) \/ GatherEvidence(t) \/ ReadAccount(t) \/ Recheck(t)
    \/ GatherCancelEvidence(t)
    \/ SaveIntent(t) \/ SaveCommand(t) \/ SavePending(t) \/ JournalPending(t)
    \/ Submit(t) \/ GateDenies(t) \/ DenySave(t) \/ DenyJournal(t)
    \/ Reply(t) \/ SaveReply(t) \/ JournalReply(t)
    \/ SaveUnknown(t) \/ JournalUnknown(t)
    \/ AuditSave(t) \/ AuditJournal(t)

\* What else may end or divert its call.
Fail(t) ==
    \/ CapabilityDenied(t) \/ UncorrelatedReply(t) \/ OutcomeUnknown(t)
    \/ Interrupted(t) \/ AuditFails(t) \/ Abort(t)

Call(t) ==
    \/ \E p \in Proposals, approval \in {"none", "valid"} :
          Begin(t, p, approval)
    \/ \E p \in Cancellable :
          \/ \E target \in seen[p] : BeginCancel(t, p, target)
          \/ RefuseCancel(t)
    \/ Proceed(t)
    \/ Fail(t)

Reconciliation ==
    \/ \E i \in Queried \X {"place", "cancel"} : ReconcileBegin(i)
    \/ ReconcileMatch \/ ReconcileNegative \/ ReconcileSave \/ ReconcileJournal
    \/ ReconcileAbandon

Update ==
    \/ \E p \in Reported, evidence \in BOOLEAN : UpdateBegin(p, evidence)
    \/ UpdateJournal \/ UpdateSave \/ UpdateAbandon

Broker == \E p \in Proposals : BrokerPlaces(p) \/ BrokerCancels(p) \/ BrokerMoves(p)

Controls ==
    \/ \E m \in Modes : SetMode(m)
    \/ \E b \in BOOLEAN : SetClear(b)
    \/ \E s \in SafetyLevels : SetSafety(s)
    \/ \E t \in Tasks : ExpireApproval(t)

Next ==
    \/ \E t \in Tasks : Call(t)
    \/ Reconciliation
    \/ Update
    \/ Broker
    \/ Controls
    \/ Crash

Spec == Init /\ [][Next]_vars

-----------------------------------------------------------------------------
(* Properties                                                              *)

\* The labels of a call before its intent is durable, and from then to its
\* broker call.
BeforeIntent == {"admit", "evidence", "account", "recheck", "cancelEvidence", "saveIntent"}
AfterIntent  == {"saveCommand", "savePending", "journalPending", "gate"}

Recs == [pc : {"idle", "query", "save", "journal"},
         intent : Intents \union {<<>>}, match : Orders]
Upds == [pc : {"idle", "journal", "save"}, intent : Intents \union {<<>>},
         local : OrderStates \union {"NONE"}, new : Orders]

TypeOK ==
    /\ lock \in Tasks \union {NoTask}
    /\ call \in [Tasks -> Calls]
    /\ latch \subseteq Intents
    /\ rec \in Recs /\ upd \in Upds
    /\ mode \in Modes /\ clear \in BOOLEAN /\ safety \in SafetyLevels
    /\ intents \subseteq Intents /\ commands \subseteq Intents
    /\ negatives \subseteq Intents
    /\ row \in [Intents -> Orders]
    /\ journal \subseteq Records
    /\ order \in [Proposals -> Orders]
    /\ seen \in [Proposals -> SUBSET Orders]
    /\ wire \subseteq Intents
    /\ answer \in [Intents -> Orders]
    /\ sent \in [Intents -> Nat]

\* ExecutionService.execute and cancel_order: whatever crashes, cancellations,
\* store errors, retries and negative reconciliations happen, the broker is asked
\* at most once for each exact placement and each exact cancellation.
AtMostOnce == \A i \in Intents : sent[i] <= 1

\* "persist before send": whatever reached the wire has a durable intent, a
\* durable command, an order row and the journal record that it was ready.
WriteAhead ==
    \A i \in Intents : sent[i] > 0 =>
        /\ i \in intents \intersect commands
        /\ row[i].st # "NONE"
        /\ <<i, "INTENT_PERSISTED", "SUBMITTING", "ready">> \in journal

\* A record "no broker write attempted" is final proof of absence: recovery uses
\* it to excuse an order missing from the ledger, so no write may precede or
\* follow it.
DenialProvesNoWrite ==
    \A i \in Intents :
        <<i, "SUBMITTING", "REJECTED", "denied">> \in journal => sent[i] = 0

\* A durable row never claims a state the broker's order was not in, and never
\* calls a command rejected that was sent and not rejected: a transmitted command
\* is shown as unresolved or as something the broker really reported.
RowsComeFromBroker ==
    \A i \in Intents :
        /\ row[i].st \in WorkingStates \union TerminalStates =>
              \/ row[i] \in seen[i[1]]
              \/ row[i].st = "REJECTED" /\ sent[i] = 0
        /\ sent[i] > 0 /\ row[i].st \notin AmbiguousStates => row[i] \in seen[i[1]]

\* Serial admission: from the moment a call has read the account until it asks
\* the broker, no other command reaches the broker, so no two calls spend the
\* same buying power.
SeesAllWrites(t) ==
    call[t].pc \in {"recheck", "saveIntent"} \union AfterIntent => call[t].known = Sent

AdmissionSeesAllWrites == \A t \in Tasks : SeesAllWrites(t)

\* Only the holder of the lock is inside execute or cancel_order.
CallsHoldLock ==
    \A t \in Tasks : call[t].pc # "idle" => lock = t /\ call[t].intent \in Intents

\* Nothing exists for an intent before its durable record.
NothingBeforeIntent ==
    \A i \in Intents \ intents :
        /\ sent[i] = 0
        /\ row[i] = NoOrder
        /\ \A r \in journal : r[1] # i

\* What a call has already made durable at each label, and what it cannot have
\* done yet before its broker call.
DurableCall(t) ==
    LET i == call[t].intent pc == call[t].pc IN
    /\ pc \notin BeforeIntent \union {"idle"} => i \in intents
    /\ pc \in AfterIntent \union {"denySave", "denyJournal"} => sent[i] = 0
    /\ pc \in AfterIntent => <<i, "SUBMITTING", "REJECTED", "denied">> \notin journal
    /\ pc \in AfterIntent \ {"saveCommand"} => i \in commands
    /\ pc \in {"journalPending", "gate"} => row[i].st # "NONE"
    /\ pc = "gate" => <<i, "INTENT_PERSISTED", "SUBMITTING", "ready">> \in journal

CallsAreDurable == \A t \in Tasks : DurableCall(t)

\* While the latch is set the only calls under way towards the broker are
\* placements, and these check it again.
LatchStopsCancels ==
    latch # {} => \A t \in Tasks :
        call[t].pc \in BeforeIntent \union AfterIntent => call[t].intent[2] = "place"

\* Whoever is about to save an order it got from the broker holds a real one.
OrdersExist ==
    /\ \A p \in Proposals : order[p].st = "NONE" => order[p] = NoOrder
    /\ \A i \in Intents : answer[i].st = "NONE" => answer[i] = NoOrder
    /\ \A t \in Tasks : call[t].pc = "saveReply" => call[t].held.st # "NONE"
    /\ rec.pc # "idle" => rec.intent \in Intents
    /\ rec.pc \in {"save", "journal"} => rec.match.st # "NONE"
    /\ upd.pc # "idle" => /\ upd.intent \in Intents
                          /\ upd.local # "NONE" /\ upd.new.st # "NONE"

WellFormed == TypeOK /\ CallsHoldLock /\ OrdersExist

SubmissionInv ==
    /\ WellFormed
    /\ NothingBeforeIntent
    /\ CallsAreDurable
    /\ LatchStopsCancels
    /\ rec.pc # "idle" => rec.intent \in intents
    /\ upd.pc # "idle" => upd.intent \in intents
    /\ AtMostOnce
    /\ WriteAhead
    /\ DenialProvesNoWrite
    /\ AdmissionSeesAllWrites

\* What a call knows about the row of its intent and about the broker's order.
CallHasEvidence(t) ==
    LET i == call[t].intent pc == call[t].pc IN
    /\ pc # "idle" /\ i[2] = "cancel" => order[i[1]].st # "NONE"
    /\ pc \in {"saveCommand", "savePending"} => row[i].st = "NONE"
    /\ pc \in {"journalPending", "gate", "denySave"} => row[i].st = "SUBMITTING"
    /\ pc \in {"saveReply", "journalReply"} => call[t].held \in seen[i[1]]

\* Every order in the hands of the broker or of the service was asked for and is
\* one the broker's order really was.
BrokerHasEvidence ==
    /\ \A p \in Proposals : order[p].st = "NONE" =>
          seen[p] = {} /\ <<p, "cancel">> \notin wire
    /\ \A p \in Proposals : order[p].st # "NONE" =>
          order[p] \in seen[p] /\ sent[Place(p)] > 0
    /\ \A i \in wire : sent[i] > 0
    /\ \A i \in Intents : answer[i] # NoOrder => answer[i] \in seen[i[1]]
    /\ rec.pc \in {"save", "journal"} =>
          rec.match \in seen[rec.intent[1]] /\ sent[rec.intent] > 0
    /\ upd.pc # "idle" => upd.new \in seen[upd.intent[1]] /\ sent[upd.intent] > 0

EvidenceInv ==
    /\ SubmissionInv
    /\ BrokerHasEvidence
    /\ \A t \in Tasks : CallHasEvidence(t)
    /\ RowsComeFromBroker

\* The final gate of _execute and _cancel_order: at the instant of a write the
\* controls as they are now, not as the call once read them, permit it.
WritePermittedNow(i) ==
    /\ clear
    /\ i[2] = "place" =>
         /\ mode # "RESEARCH" /\ ~(Env = "LIVE" /\ mode = "SHADOW")
         /\ i[1] \in Buys => safety = "NORMAL"
         /\ approval_required(i[1], mode) =>
              \A t \in Tasks : At(t, "gate") /\ call[t].intent = i =>
                  call[t].approval = "valid"
    /\ safety # "HALTED"

ControlsGovernWrites ==
    [][\A i \in Intents : sent'[i] # sent[i] => WritePermittedNow(i)]_vars

\* Once a broker command was interrupted nothing is written until the process
\* restarts, even if an operator clears the halt.
LatchBlocksWrites == [][latch # {} => sent' = sent]_vars

\* An intent whose outcome is unknown is resolved only by a state of the broker's
\* order, or not at all.
UnknownResolvedByBroker ==
    [][\A i \in Intents :
          row[i].st = "SUBMISSION_UNKNOWN" /\ row'[i].st # "SUBMISSION_UNKNOWN"
             => row'[i] \in seen[i[1]]]_vars

=============================================================================
