----------------------- MODULE ExecutionServiceProofs -----------------------
(***************************************************************************)
(* The submission protocol of ExecutionService is safe for every number of *)
(* proposals, callers and contracts, in both environments; and what the    *)
(* durable rows say about the broker is true.                              *)
(***************************************************************************)
EXTENDS ExecutionService, TLAPS

\* A step that only moves a caller to another label keeps the calls well formed.
LEMMA GotoTypes ==
    ASSUME WellFormed, NEW t \in Tasks, NEW label \in Pcs, Goto(t, label)
    PROVE  /\ call' \in [Tasks -> Calls]
           /\ call'[t] = [call[t] EXCEPT !.pc = label]
           /\ \A u \in Tasks \ {t} : call'[u] = call[u]
           /\ call'[t].pc = label
           /\ call'[t].intent = call[t].intent
           /\ call'[t].known = call[t].known
           /\ call'[t].held = call[t].held
  BY DEF WellFormed, TypeOK, Goto, Calls

\* A call that ends leaves every caller outside execute and cancel_order.
LEMMA FinishTypes ==
    ASSUME WellFormed, NEW t \in Tasks, Finish(t), call[t].pc # "idle"
    PROVE  /\ call' \in [Tasks -> Calls]
           /\ call'[t] = IdleCall
           /\ \A u \in Tasks \ {t} : call'[u] = call[u]
           /\ lock' \in Tasks \union {NoTask}
           /\ answer' \in [Intents -> Orders]
           /\ CallsHoldLock'
           /\ \A i \in Intents : answer'[i].st = "NONE" => answer'[i] = NoOrder
  <1>1. /\ call' \in [Tasks -> Calls] /\ call'[t] = IdleCall
        /\ \A u \in Tasks \ {t} : call'[u] = call[u]
    BY QuantityAssumption DEF WellFormed, TypeOK, Finish, Calls, IdleCall, Pcs, NoOrder, Orders
  <1>2. lock = t /\ call[t].intent \in Intents
    BY DEF WellFormed, CallsHoldLock
  <1>3. /\ answer' \in [Intents -> Orders]
        /\ \A i \in Intents : answer'[i].st = "NONE" => answer'[i] = NoOrder
    BY <1>2, QuantityAssumption DEF WellFormed, TypeOK, OrdersExist, Finish, NoOrder, Orders
  <1>4. \A u \in Tasks : call'[u].pc = "idle"
    BY <1>1, <1>2 DEF WellFormed, CallsHoldLock, IdleCall
  <1>. QED  BY <1>1, <1>3, <1>4 DEF Finish, CallsHoldLock

\* A step of a caller that ends its call and touches, besides the safety state
\* and the journal, nothing that WellFormed speaks of.
LEMMA FinishWellFormed ==
    ASSUME WellFormed, NEW t \in Tasks, Finish(t), call[t].pc # "idle",
           UNCHANGED <<rec, upd, row, order, seen, sent, mode, clear, wire,
                       intents, commands, negatives, latch>>,
           safety' \in SafetyLevels, journal' \subseteq Records
    PROVE  WellFormed'
  <1>1. /\ call' \in [Tasks -> Calls] /\ call'[t] = IdleCall
        /\ \A u \in Tasks \ {t} : call'[u] = call[u]
        /\ lock' \in Tasks \union {NoTask}
        /\ answer' \in [Intents -> Orders]
        /\ CallsHoldLock'
        /\ \A i \in Intents : answer'[i].st = "NONE" => answer'[i] = NoOrder
    BY FinishTypes
  <1>2. TypeOK'
    BY <1>1 DEF WellFormed, TypeOK
  <1>3. OrdersExist'
    BY <1>1 DEF WellFormed, OrdersExist, IdleCall
  <1>. QED  BY <1>1, <1>2, <1>3 DEF WellFormed

\* A step of a caller that goes on, holding its lock and its intent.
LEMMA ContinueWellFormed ==
    ASSUME WellFormed, NEW t \in Tasks, call[t].pc # "idle",
           call' \in [Tasks -> Calls], \A u \in Tasks \ {t} : call'[u] = call[u],
           call'[t].intent = call[t].intent,
           call'[t].pc = "saveReply" => call'[t].held.st # "NONE",
           UNCHANGED <<lock, rec, upd, order, seen, mode, clear>>,
           safety' \in SafetyLevels, journal' \subseteq Records,
           latch' \subseteq Intents, row' \in [Intents -> Orders],
           intents' \subseteq Intents, commands' \subseteq Intents,
           UNCHANGED negatives, wire' \subseteq Intents, sent' \in [Intents -> Nat],
           answer' \in [Intents -> Orders],
           \A i \in Intents : answer'[i].st = "NONE" => answer'[i] = NoOrder
    PROVE  WellFormed'
  <1>1. TypeOK'
    BY DEF WellFormed, TypeOK
  <1>2. CallsHoldLock'
    BY DEF WellFormed, CallsHoldLock
  <1>3. OrdersExist'
    BY DEF WellFormed, OrdersExist
  <1>. QED  BY <1>1, <1>2, <1>3 DEF WellFormed

\* save_order as a caller uses it.
LEMMA SaveWellFormed ==
    ASSUME WellFormed, NEW t \in Tasks, call[t].pc # "idle", NEW new \in Orders,
           NEW next \in Pcs \ {"saveReply"}, Save(t, new, next)
    PROVE  /\ WellFormed'
           /\ call'[t].pc = next
           /\ call'[t].intent = call[t].intent
           /\ call'[t].known = call[t].known
           /\ \A u \in Tasks \ {t} : call'[u] = call[u]
  <1>1. call[t].intent \in Intents
    BY DEF WellFormed, CallsHoldLock
  <1>2. /\ call' \in [Tasks -> Calls] /\ \A u \in Tasks \ {t} : call'[u] = call[u]
        /\ call'[t].pc = next /\ call'[t].intent = call[t].intent
        /\ call'[t].known = call[t].known
    BY DEF WellFormed, TypeOK, Save, Calls
  <1>3. row' \in [Intents -> Orders]
    BY <1>1 DEF WellFormed, TypeOK, Save
  <1>4. WellFormed'
    BY <1>2, <1>3, ContinueWellFormed
       DEF WellFormed, TypeOK, OrdersExist, Save, control, broker
  <1>. QED  BY <1>2, <1>4

\* The journal only ever receives records of the declared shape.
LEMMA RecordTypes ==
    ASSUME WellFormed, NEW i \in Intents, NEW a \in OrderStates,
           NEW b \in OrderStates, NEW r \in Reasons, Record(i, a, b, r)
    PROVE  journal' \subseteq Records
  BY DEF WellFormed, TypeOK, Record, Records

\* A transition the state machine allows leads to a declared state.
LEMMA SuccessorsTypes ==
    ASSUME NEW a \in OrderStates, NEW b, NEW evidence, CanTransition(a, b, evidence)
    PROVE  b \in OrderStates
  <1>1. b \in Successors(a)
    BY DEF CanTransition
  <1>. QED  BY <1>1 DEF Successors, OrderStates, AmbiguousStates, WorkingStates,
                       TerminalStates

\* The steps of one caller, first those that do not end its call.
LEMMA ProceedWellFormed ==
    ASSUME WellFormed, NEW t \in Tasks, Proceed(t)
    PROVE  WellFormed'
  <1>. DEFINE i == call[t].intent
  <1>a. ASSUME call[t].pc # "idle" PROVE i \in Intents /\ lock = t
    BY <1>a DEF WellFormed, CallsHoldLock
  <1>b. call \in [Tasks -> Calls] /\ call[t] \in Calls /\ call[t].held \in Orders
    BY DEF WellFormed, TypeOK, Calls
  <1>1. CASE Admit(t)
    BY <1>1, GotoTypes, ContinueWellFormed
       DEF Admit, At, WellFormed, TypeOK, OrdersExist, Pcs, control, store, broker
  <1>2. CASE GatherEvidence(t)
    BY <1>2, GotoTypes, ContinueWellFormed
       DEF GatherEvidence, At, WellFormed, TypeOK, OrdersExist, Pcs, control, store, broker
  <1>3. CASE Recheck(t)
    BY <1>3, GotoTypes, ContinueWellFormed
       DEF Recheck, At, WellFormed, TypeOK, OrdersExist, Pcs, control, store, broker
  <1>4. CASE ReadAccount(t)
    <2>1. /\ call' \in [Tasks -> Calls] /\ \A u \in Tasks \ {t} : call'[u] = call[u]
          /\ call'[t].intent = i /\ call'[t].pc # "saveReply"
      BY <1>4, <1>b DEF ReadAccount, Calls, Pcs, Sent
    <2>. QED
      BY <1>4, <2>1, ContinueWellFormed
         DEF ReadAccount, At, WellFormed, TypeOK, OrdersExist, control, store, broker
  <1>5. CASE GatherCancelEvidence(t)
    <2>1. /\ call' \in [Tasks -> Calls] /\ \A u \in Tasks \ {t} : call'[u] = call[u]
          /\ call'[t].intent = i /\ call'[t].pc # "saveReply"
      BY <1>5, <1>b DEF GatherCancelEvidence, Calls, Pcs, Sent
    <2>. QED
      BY <1>5, <2>1, ContinueWellFormed
         DEF GatherCancelEvidence, At, WellFormed, TypeOK, OrdersExist, control, store, broker
  <1>6. CASE SaveIntent(t)
    BY <1>6, <1>a, GotoTypes, ContinueWellFormed
       DEF SaveIntent, At, WellFormed, TypeOK, OrdersExist, Pcs, control, broker
  <1>7. CASE SaveCommand(t)
    BY <1>7, <1>a, GotoTypes, ContinueWellFormed
       DEF SaveCommand, At, WellFormed, TypeOK, OrdersExist, Pcs, control, broker
  <1>8. CASE SavePending(t)
    <2>1. Pending(t) \in Orders
      BY <1>b, QuantityAssumption DEF Pending, Orders, OrderStates, AmbiguousStates, TerminalStates
    <2>. QED  BY <1>8, <2>1, SaveWellFormed DEF SavePending, At, Pcs
  <1>9. CASE DenySave(t)
    <2>1. [call[t].held EXCEPT !.st = "REJECTED"] \in Orders
      BY <1>b, QuantityAssumption DEF Orders, OrderStates, AmbiguousStates, TerminalStates
    <2>. QED  BY <1>9, <2>1, SaveWellFormed DEF DenySave, At, Pcs
  <1>10. CASE SaveUnknown(t)
    <2>1. [call[t].held EXCEPT !.st = "SUBMISSION_UNKNOWN"] \in Orders
      BY <1>b, QuantityAssumption DEF Orders, OrderStates, AmbiguousStates, TerminalStates
    <2>. QED  BY <1>10, <2>1, SaveWellFormed DEF SaveUnknown, At, Pcs
  <1>11. CASE AuditSave(t)
    <2>1. [call[t].held EXCEPT !.st = "SUBMISSION_UNKNOWN"] \in Orders
      BY <1>b, QuantityAssumption DEF Orders, OrderStates, AmbiguousStates, TerminalStates
    <2>. QED  BY <1>11, <2>1, SaveWellFormed DEF AuditSave, At, Pcs
  <1>12. CASE SaveReply(t)
    <2>1. call[t].held \in Orders
      BY <1>b, QuantityAssumption DEF Orders, OrderStates, AmbiguousStates, TerminalStates
    <2>. QED  BY <1>12, <2>1, SaveWellFormed DEF SaveReply, At, Pcs
  <1>13. CASE JournalPending(t)
    <2>1. journal' \subseteq Records
      BY <1>13, <1>a, RecordTypes
         DEF JournalPending, At, OrderStates, AmbiguousStates, Reasons
    <2>. QED
      BY <1>13, <2>1, GotoTypes, ContinueWellFormed
         DEF JournalPending, At, WellFormed, TypeOK, OrdersExist, Pcs, control, broker
  <1>14. CASE Submit(t)
    <2>1. sent' \in [Intents -> Nat] /\ wire' \subseteq Intents
      BY <1>14, <1>a DEF Submit, At, WellFormed, TypeOK
    <2>2. /\ call' \in [Tasks -> Calls] /\ \A u \in Tasks \ {t} : call'[u] = call[u]
          /\ call'[t].intent = call[t].intent /\ call'[t].pc = "await"
      BY <1>14, GotoTypes DEF Submit, Pcs
    <2>. QED
      BY <1>14, <2>1, <2>2, ContinueWellFormed
         DEF Submit, At, WellFormed, TypeOK, OrdersExist, control, store
  <1>15. CASE GateDenies(t)
    BY <1>15, GotoTypes, ContinueWellFormed
       DEF GateDenies, At, DenyInterrupted, WellFormed, TypeOK, OrdersExist, Pcs,
           SafetyLevels, store, broker
  <1>16. CASE DenyJournal(t)
    <2>1. journal' \subseteq Records
      BY <1>16, <1>a, RecordTypes
         DEF DenyJournal, RecordAndFinish, At, OrderStates, AmbiguousStates,
             TerminalStates, Reasons
    <2>. QED
      BY <1>16, <2>1, FinishWellFormed
         DEF DenyJournal, RecordAndFinish, At, WellFormed, TypeOK, control
  <1>17. CASE JournalUnknown(t)
    <2>1. journal' \subseteq Records
      BY <1>17, <1>a, RecordTypes
         DEF JournalUnknown, RecordAndFinish, At, OrderStates, AmbiguousStates,
             TerminalStates, Reasons
    <2>. QED
      BY <1>17, <2>1, FinishWellFormed
         DEF JournalUnknown, RecordAndFinish, At, WellFormed, TypeOK, control
  <1>18. CASE AuditJournal(t)
    <2>1. journal' \subseteq Records
      BY <1>18, <1>a, RecordTypes
         DEF AuditJournal, RecordAndFinish, At, OrderStates, AmbiguousStates,
             TerminalStates, Reasons
    <2>. QED
      BY <1>18, <2>1, FinishWellFormed
         DEF AuditJournal, RecordAndFinish, At, WellFormed, TypeOK, control
  <1>19. CASE JournalReply(t)
    <2>0. call[t].held.st \in OrderStates
      BY <1>19, SuccessorsTypes DEF JournalReply, OrderStates, AmbiguousStates
    <2>1. journal' \subseteq Records
      BY <1>19, <1>a, <2>0, RecordTypes
         DEF JournalReply, RecordAndFinish, At, OrderStates, AmbiguousStates,
             TerminalStates, Reasons
    <2>. QED
      BY <1>19, <2>1, FinishWellFormed
         DEF JournalReply, RecordAndFinish, At, WellFormed, TypeOK, control
  <1>20. CASE Reply(t)
    <2>1. i \in Intents /\ answer[i] \in Orders /\ answer[i].st # "NONE"
      BY <1>20, <1>a DEF Reply, At, WellFormed, TypeOK, OrdersExist
    <2>2. /\ call' \in [Tasks -> Calls] /\ \A u \in Tasks \ {t} : call'[u] = call[u]
          /\ call'[t].intent = i /\ call'[t].held = answer[i]
      BY <1>20, <1>b, <2>1 DEF Reply, Calls, Pcs
    <2>a. NoOrder \in Orders /\ answer \in [Intents -> Orders]
          /\ answer' = [answer EXCEPT ![i] = NoOrder]
      BY <1>20, QuantityAssumption DEF Reply, WellFormed, TypeOK, NoOrder, Orders
    <2>b. \A j \in Intents : answer[j].st = "NONE" => answer[j] = NoOrder
      BY DEF WellFormed, OrdersExist
    <2>3. /\ answer' \in [Intents -> Orders]
          /\ \A j \in Intents : answer'[j].st = "NONE" => answer'[j] = NoOrder
      BY <2>1, <2>a, <2>b
    <2>. QED
      BY <1>20, <2>1, <2>2, <2>3, ContinueWellFormed
         DEF Reply, At, WellFormed, TypeOK, OrdersExist, control, store
  <1>. QED
    BY <1>1, <1>2, <1>3, <1>4, <1>5, <1>6, <1>7, <1>8, <1>9, <1>10, <1>11, <1>12, <1>13, <1>14, <1>15, <1>16, <1>17, <1>18, <1>19, <1>20 DEF Proceed

\* The ways a call fails.
LEMMA FailWellFormed ==
    ASSUME WellFormed, NEW t \in Tasks, Fail(t)
    PROVE  WellFormed'
  <1>a. ASSUME call[t].pc # "idle" PROVE call[t].intent \in Intents
    BY <1>a DEF WellFormed, CallsHoldLock
  <1>1. CASE CapabilityDenied(t)
    BY <1>1, FinishWellFormed
       DEF CapabilityDenied, At, Halt, WellFormed, TypeOK, SafetyLevels, store
  <1>2. CASE UncorrelatedReply(t)
    BY <1>2, FinishWellFormed
       DEF UncorrelatedReply, At, WellFormed, TypeOK, SafetyLevels, store
  <1>3. CASE OutcomeUnknown(t)
    BY <1>3, GotoTypes, ContinueWellFormed
       DEF OutcomeUnknown, At, Halt, WellFormed, TypeOK, OrdersExist, Pcs,
           SafetyLevels, store, broker
  <1>4. CASE Interrupted(t)
    <2>1. journal' \subseteq Records
      <3>1. CASE UNCHANGED journal
        BY <3>1 DEF WellFormed, TypeOK
      <3>2. CASE /\ CanTransition("SUBMITTING", call[t].held.st, FALSE)
                 /\ Record(call[t].intent, "SUBMITTING", call[t].held.st, "observed")
        <4>1. call[t].held.st \in OrderStates
          BY <3>2, SuccessorsTypes DEF OrderStates, AmbiguousStates
        <4>. QED
          BY <1>4, <1>a, <3>2, <4>1, RecordTypes
             DEF Interrupted, OrderStates, AmbiguousStates, Reasons
      <3>. QED  BY <1>4, <3>1, <3>2 DEF Interrupted
    <2>. QED
      BY <1>4, <1>a, <2>1, GotoTypes, ContinueWellFormed
         DEF Interrupted, Halt, WellFormed, TypeOK, OrdersExist, Pcs, SafetyLevels,
             broker
  <1>5. CASE AuditFails(t)
    BY <1>5, FinishWellFormed
       DEF AuditFails, Halt, WellFormed, TypeOK, SafetyLevels, store
  <1>6. CASE Abort(t)
    BY <1>6, FinishWellFormed
       DEF Abort, DenyInterrupted, WellFormed, TypeOK, SafetyLevels, store
  <1>. QED  BY <1>1, <1>2, <1>3, <1>4, <1>5, <1>6 DEF Fail

\* A call starts only when nobody holds the lock.
LEMMA BeginWellFormed ==
    ASSUME WellFormed, NEW t \in Tasks, lock = NoTask, lock' = t,
           NEW new \in Calls, new.intent \in Intents, new.pc # "saveReply",
           call' = [call EXCEPT ![t] = new],
           UNCHANGED <<latch, rec, upd, control, store, broker>>
    PROVE  WellFormed'
  <1>1. /\ call' \in [Tasks -> Calls] /\ call'[t] = new
        /\ \A u \in Tasks \ {t} : call'[u] = call[u]
    BY DEF WellFormed, TypeOK
  <1>2. TypeOK'
    BY <1>1 DEF WellFormed, TypeOK, control, store, broker
  <1>3. CallsHoldLock'
    BY <1>1, TasksAssumption DEF WellFormed, CallsHoldLock
  <1>4. OrdersExist'
    BY <1>1 DEF WellFormed, OrdersExist, broker
  <1>. QED  BY <1>2, <1>3, <1>4 DEF WellFormed

\* Every step of a caller keeps the state well formed.
LEMMA CallWellFormed ==
    ASSUME WellFormed, NEW t \in Tasks, Call(t)
    PROVE  WellFormed'
  <1>0. IdleCall \in Calls
    BY QuantityAssumption DEF IdleCall, Calls, Pcs, NoOrder, Orders
  <1>1. ASSUME NEW p \in Proposals, NEW approval \in {"none", "valid"},
               Begin(t, p, approval)
        PROVE  WellFormed'
    <2>. DEFINE new == [IdleCall EXCEPT !.pc = "admit", !.intent = Place(p),
                                        !.mode = mode, !.approval = approval]
    <2>1. new \in Calls /\ new.intent \in Intents /\ new.pc # "saveReply"
      BY <1>0 DEF Calls, IdleCall, Pcs, Place, Intents, WellFormed, TypeOK
    <2>. HIDE DEF new
    <2>2. lock = NoTask /\ lock' = t /\ call' = [call EXCEPT ![t] = new]
          /\ UNCHANGED <<latch, rec, upd, control, store, broker>>
      BY <1>1 DEF Begin, new
    <2>. QED  BY <2>1, <2>2, BeginWellFormed
  <1>2. ASSUME NEW p \in Cancellable, NEW target \in seen[p], BeginCancel(t, p, target)
        PROVE  WellFormed'
    <2>. DEFINE new == [IdleCall EXCEPT !.pc = "cancelEvidence",
                                        !.intent = <<p, "cancel">>, !.held = target]
    <2>0. p \in Proposals /\ target \in Orders
      BY ProposalsAssumption DEF WellFormed, TypeOK
    <2>1. new \in Calls /\ new.intent \in Intents /\ new.pc # "saveReply"
      BY <1>0, <2>0 DEF Calls, IdleCall, Pcs, Intents
    <2>. HIDE DEF new
    <2>2. lock = NoTask /\ lock' = t /\ call' = [call EXCEPT ![t] = new]
          /\ UNCHANGED <<latch, rec, upd, control, store, broker>>
      BY <1>2 DEF BeginCancel, new
    <2>. QED  BY <2>1, <2>2, BeginWellFormed
  <1>3. CASE RefuseCancel(t)
    BY <1>3 DEF RefuseCancel, Halt, SafetyLevels, WellFormed, TypeOK, CallsHoldLock,
                OrdersExist, process, store, broker
  <1>. QED  BY <1>1, <1>2, <1>3, ProceedWellFormed, FailWellFormed DEF Call

\* The calls that take no lock.
LEMMA ObserverWellFormed ==
    ASSUME WellFormed, Reconciliation \/ Update
    PROVE  WellFormed'
  <1>. USE DEF OutsideLock, process, control, broker
  <1>a. NoOrder \in Orders
    BY QuantityAssumption DEF NoOrder, Orders
  <1>b. IdleRec \in Recs /\ IdleUpd \in Upds
    BY <1>a DEF IdleRec, Recs, IdleUpd, Upds
  <1>c. rec \in Recs /\ upd \in Upds /\ order \in [Proposals -> Orders]
        /\ row \in [Intents -> Orders]
    BY DEF WellFormed, TypeOK
  <1>1. ASSUME NEW i \in Queried \X {"place", "cancel"}, ReconcileBegin(i)
        PROVE  WellFormed'
    <2>1. i \in Intents
      BY ProposalsAssumption DEF Intents
    <2>2. rec' \in Recs /\ rec'.pc = "query" /\ rec'.intent = i
      BY <1>1, <1>c, <2>1 DEF ReconcileBegin, Recs
    <2>. QED
      BY <1>1, <2>1, <2>2 DEF ReconcileBegin, WellFormed, TypeOK, CallsHoldLock, OrdersExist
  <1>2. CASE ReconcileMatch
    <2>1. rec.intent \in Intents /\ rec.intent[1] \in Proposals
      BY <1>2 DEF ReconcileMatch, WellFormed, OrdersExist, Intents
    <2>2. /\ rec' \in Recs /\ rec'.pc = "save" /\ rec'.intent = rec.intent
          /\ rec'.match.st # "NONE"
      BY <1>2, <1>c, <2>1 DEF ReconcileMatch, Recs
    <2>. QED
      BY <1>2, <2>1, <2>2 DEF ReconcileMatch, WellFormed, TypeOK, CallsHoldLock, OrdersExist
  <1>3. CASE ReconcileNegative
    BY <1>3, <1>b DEF ReconcileNegative, IdleRec, WellFormed, TypeOK, CallsHoldLock,
                      OrdersExist
  <1>4. CASE ReconcileSave
    <2>1. /\ rec' \in Recs /\ rec'.intent = rec.intent /\ rec'.match = rec.match
          /\ rec.match \in Orders /\ rec'.pc = "journal" /\ rec.match.st # "NONE"
          /\ rec.intent \in Intents
      BY <1>4, <1>c DEF ReconcileSave, Recs, WellFormed, OrdersExist
    <2>2. row' \in [Intents -> Orders]
      BY <1>4, <1>c, <2>1 DEF ReconcileSave
    <2>. QED
      BY <1>4, <2>1, <2>2 DEF ReconcileSave, WellFormed, TypeOK, CallsHoldLock, OrdersExist
  <1>5. CASE ReconcileJournal
    <2>1. rec.intent \in Intents /\ rec.match.st \in OrderStates
      BY <1>5, SuccessorsTypes
         DEF ReconcileJournal, WellFormed, OrdersExist, OrderStates, AmbiguousStates
    <2>2. journal' \subseteq Records
      BY <1>5, <2>1, RecordTypes
         DEF ReconcileJournal, OrderStates, AmbiguousStates, Reasons
    <2>. QED
      BY <1>5, <1>b, <2>2 DEF ReconcileJournal, IdleRec, WellFormed, TypeOK,
                              CallsHoldLock, OrdersExist
  <1>6. CASE ReconcileAbandon
    BY <1>6, <1>b DEF ReconcileAbandon, IdleRec, WellFormed, TypeOK, CallsHoldLock,
                      OrdersExist
  <1>7. ASSUME NEW p \in Reported, NEW evidence \in BOOLEAN, UpdateBegin(p, evidence)
        PROVE  WellFormed'
    <2>1. p \in Proposals /\ Place(p) \in Intents
      BY ProposalsAssumption DEF Place, Intents
    <2>2. /\ row[Place(p)] \in Orders /\ order[p] \in Orders
          /\ row[Place(p)].st \in OrderStates
      BY <1>7, <1>c, <2>1 DEF UpdateBegin, Orders
    <2>3. order[p].st # "NONE"
      <3>1. order[p].st \in OrderStates
        BY <1>7, <2>2, SuccessorsTypes DEF UpdateBegin
      <3>. QED  BY <3>1 DEF OrderStates, AmbiguousStates, WorkingStates, TerminalStates
    <2>4. /\ upd' \in Upds /\ upd'.intent = Place(p) /\ upd'.new = order[p]
          /\ upd'.local # "NONE"
      BY <1>7, <2>1, <2>2 DEF UpdateBegin, Upds
    <2>. QED
      BY <1>7, <2>1, <2>3, <2>4 DEF UpdateBegin, WellFormed, TypeOK, CallsHoldLock, OrdersExist
  <1>8. CASE UpdateJournal
    <2>1. /\ upd' \in Upds /\ upd'.intent = upd.intent /\ upd'.new = upd.new
          /\ upd'.local = upd.local /\ upd.intent \in Intents
          /\ upd.local \in OrderStates /\ upd.new.st \in OrderStates
          /\ upd.local # "NONE" /\ upd.new.st # "NONE"
      BY <1>8, <1>c DEF UpdateJournal, Upds, Orders, WellFormed, OrdersExist
    <2>2. journal' \subseteq Records
      BY <1>8, <2>1, RecordTypes DEF UpdateJournal, Reasons
    <2>. QED
      BY <1>8, <2>1, <2>2 DEF UpdateJournal, WellFormed, TypeOK, CallsHoldLock, OrdersExist
  <1>9. CASE UpdateSave
    <2>1. upd.intent \in Intents /\ upd.new \in Orders
      BY <1>9, <1>c DEF UpdateSave, Upds, WellFormed, OrdersExist
    <2>2. row' \in [Intents -> Orders]
      BY <1>9, <1>c, <2>1 DEF UpdateSave
    <2>. QED
      BY <1>9, <1>b, <2>2 DEF UpdateSave, IdleUpd, WellFormed, TypeOK, CallsHoldLock,
                              OrdersExist
  <1>10. CASE UpdateAbandon
    BY <1>10, <1>b DEF UpdateAbandon, IdleUpd, WellFormed, TypeOK, CallsHoldLock,
                       OrdersExist
  <1>. QED
    BY <1>1, <1>2, <1>3, <1>4, <1>5, <1>6, <1>7, <1>8, <1>9, <1>10
       DEF Reconciliation, Update

\* The broker's steps.
LEMMA BrokerWellFormed ==
    ASSUME WellFormed, Broker
    PROVE  WellFormed'
  <1>. USE DEF Service, process, control, store
  <1>1. PICK p \in Proposals : BrokerPlaces(p) \/ BrokerCancels(p) \/ BrokerMoves(p)
    BY DEF Broker
  <1>a. order[p] \in Orders /\ (order[p].st = "NONE" => order[p] = NoOrder)
    BY DEF WellFormed, TypeOK, OrdersExist
  <1>b. Placed \subseteq Orders /\ \A o \in Placed : o.st # "NONE"
    BY DEF Placed, Orders, OrderStates, WorkingStates, TerminalStates
  <1>c. Later(order[p]) \subseteq Orders /\ \A o \in Later(order[p]) : o.st # "NONE"
    BY DEF Later, Orders, OrderStates, WorkingStates, TerminalStates
  <1>2. ASSUME NEW i \in Intents, i[1] = p, NEW new \in Orders,
               new.st = "NONE" => new = NoOrder, Respond(i, new)
        PROVE  WellFormed'
    <2>1. /\ order' \in [Proposals -> Orders] /\ seen' \in [Proposals -> SUBSET Orders]
          /\ \A q \in Proposals : order'[q].st = "NONE" => order'[q] = NoOrder
      BY <1>2 DEF Respond, WellFormed, TypeOK, OrdersExist
    <2>2. /\ answer' \in [Intents -> Orders]
          /\ \A j \in Intents : answer'[j].st = "NONE" => answer'[j] = NoOrder
      BY <1>2 DEF Respond, WellFormed, TypeOK, OrdersExist
    <2>3. TypeOK'
      BY <1>2, <2>1, <2>2 DEF Respond, WellFormed, TypeOK
    <2>4. CallsHoldLock' /\ OrdersExist'
      BY <1>2, <2>1, <2>2 DEF Respond, WellFormed, CallsHoldLock, OrdersExist
    <2>. QED  BY <2>3, <2>4 DEF WellFormed
  <1>3. CASE BrokerPlaces(p)
    BY <1>3, <1>2, <1>b DEF BrokerPlaces, Place, Intents
  <1>4. CASE BrokerCancels(p)
    <2>. DEFINE new == IF order[p].st \in WorkingStates
                       THEN [order[p] EXCEPT !.st = "CANCELED"] ELSE order[p]
    <2>1. new \in Orders /\ (new.st = "NONE" => new = NoOrder)
      BY <1>a DEF Orders, OrderStates, TerminalStates
    <2>. HIDE DEF new
    <2>2. Respond(<<p, "cancel">>, new)
      BY <1>4 DEF BrokerCancels, new
    <2>. QED  BY <1>2, <2>1, <2>2 DEF Intents
  <1>5. CASE BrokerMoves(p)
    <2>1. /\ order' \in [Proposals -> Orders] /\ seen' \in [Proposals -> SUBSET Orders]
          /\ \A q \in Proposals : order'[q].st = "NONE" => order'[q] = NoOrder
      BY <1>5, <1>c DEF BrokerMoves, WellFormed, TypeOK, OrdersExist
    <2>. QED
      BY <1>5, <2>1 DEF BrokerMoves, WellFormed, TypeOK, CallsHoldLock, OrdersExist
  <1>. QED  BY <1>1, <1>3, <1>4, <1>5

\* The operator, the health monitor and the clock.
LEMMA ControlsWellFormed ==
    ASSUME WellFormed, Controls
    PROVE  WellFormed'
  <1>. USE DEF Uncontrolled, process, store, broker
  <1>1. ASSUME NEW m \in Modes, SetMode(m) PROVE WellFormed'
    BY <1>1 DEF SetMode, WellFormed, TypeOK, CallsHoldLock, OrdersExist
  <1>2. ASSUME NEW b \in BOOLEAN, SetClear(b) PROVE WellFormed'
    BY <1>2 DEF SetClear, WellFormed, TypeOK, CallsHoldLock, OrdersExist
  <1>3. ASSUME NEW s \in SafetyLevels, SetSafety(s) PROVE WellFormed'
    BY <1>3 DEF SetSafety, WellFormed, TypeOK, CallsHoldLock, OrdersExist
  <1>4. ASSUME NEW t \in Tasks, ExpireApproval(t) PROVE WellFormed'
    <2>1. /\ call' \in [Tasks -> Calls]
          /\ \A u \in Tasks : /\ call'[u].pc = call[u].pc
                             /\ call'[u].intent = call[u].intent
                             /\ call'[u].held = call[u].held
      BY <1>4 DEF ExpireApproval, WellFormed, TypeOK, Calls
    <2>. QED
      BY <1>4, <2>1 DEF ExpireApproval, WellFormed, TypeOK, CallsHoldLock, OrdersExist,
                        control
  <1>. QED  BY <1>1, <1>2, <1>3, <1>4 DEF Controls

\* A restart begins with no call in progress.
LEMMA CrashWellFormed ==
    ASSUME WellFormed, Crash
    PROVE  WellFormed'
  <1>1. NoOrder \in Orders /\ IdleCall \in Calls /\ IdleRec \in Recs /\ IdleUpd \in Upds
    BY QuantityAssumption DEF NoOrder, Orders, IdleCall, Calls, Pcs, IdleRec, Recs,
                              IdleUpd, Upds
  <1>2. TypeOK'
    BY <1>1 DEF Crash, WellFormed, TypeOK, store, StartupSafety, SafetyLevels
  <1>3. CallsHoldLock' /\ OrdersExist'
    BY <1>1 DEF Crash, WellFormed, CallsHoldLock, OrdersExist, store, IdleCall, IdleRec,
                IdleUpd, NoOrder
  <1>. QED  BY <1>2, <1>3 DEF WellFormed

\* Types, the lock discipline and the orders in hand are invariant.
LEMMA WellFormedStep ==
    ASSUME WellFormed, [Next]_vars
    PROVE  WellFormed'
  <1>1. CASE UNCHANGED vars
    BY <1>1 DEF vars, process, control, store, broker, WellFormed, TypeOK,
                CallsHoldLock, OrdersExist
  <1>2. ASSUME NEW t \in Tasks, Call(t) PROVE WellFormed'
    BY <1>2, CallWellFormed
  <1>. QED
    BY <1>1, <1>2, ObserverWellFormed, BrokerWellFormed, ControlsWellFormed,
       CrashWellFormed DEF Next

\* The initial state is well formed.
LEMMA WellFormedInit == Init => WellFormed
  <1>1. NoOrder \in Orders /\ IdleCall \in Calls /\ IdleRec \in Recs /\ IdleUpd \in Upds
    BY QuantityAssumption DEF NoOrder, Orders, IdleCall, Calls, Pcs, IdleRec, Recs,
                              IdleUpd, Upds
  <1>. QED
    BY <1>1 DEF Init, WellFormed, TypeOK, CallsHoldLock, OrdersExist, StartupSafety,
                SafetyLevels, IdleCall, IdleRec, IdleUpd, NoOrder

\* ExecutionService keeps its state well typed, and at most one caller is inside
\* execute or cancel_order, whatever the number of callers.
THEOREM TypeCorrect == Spec => []TypeOK
  <1>1. WellFormed => TypeOK
    BY DEF WellFormed
  <1>. QED  BY <1>1, WellFormedInit, WellFormedStep, PTL DEF Spec

-----------------------------------------------------------------------------
(* The submission invariant                                                *)

\* What SubmissionInv says of the store and the wire alone.
StoreInv == NothingBeforeIntent /\ AtMostOnce /\ WriteAhead /\ DenialProvesNoWrite

\* What it says of one call, when that call is the only one.
CallInv(t) ==
    /\ DurableCall(t)
    /\ SeesAllWrites(t)
    /\ latch # {} /\ call[t].pc \in BeforeIntent \union AfterIntent
          => call[t].intent[2] = "place"

ObserverInv ==
    /\ rec.pc # "idle" => rec.intent \in intents
    /\ upd.pc # "idle" => upd.intent \in intents

\* The store's part of the invariant depends on nothing else.
LEMMA StoreUnchanged ==
    ASSUME StoreInv, UNCHANGED <<intents, commands, row, journal, sent>>
    PROVE  StoreInv'
  BY DEF StoreInv, NothingBeforeIntent, AtMostOnce, WriteAhead, DenialProvesNoWrite

\* An idle call satisfies its part of the invariant.
LEMMA IdleCallInv ==
    ASSUME NEW t \in Tasks, call[t].pc = "idle"
    PROVE  CallInv(t)
  BY DEF CallInv, DurableCall, SeesAllWrites, BeforeIntent, AfterIntent

\* Assembling the invariant from its parts.
LEMMA Assemble ==
    ASSUME WellFormed, StoreInv, ObserverInv, \A t \in Tasks : CallInv(t)
    PROVE  SubmissionInv
  BY DEF SubmissionInv, StoreInv, ObserverInv, CallInv, CallsAreDurable,
         LatchStopsCancels, AdmissionSeesAllWrites

\* And taking it apart.
LEMMA Parts ==
    ASSUME SubmissionInv
    PROVE  WellFormed /\ StoreInv /\ ObserverInv /\ \A t \in Tasks : CallInv(t)
  BY DEF SubmissionInv, StoreInv, ObserverInv, CallInv, CallsAreDurable,
         LatchStopsCancels, AdmissionSeesAllWrites

\* A step of the caller that holds the lock: every other call is idle.
LEMMA CallerStep ==
    ASSUME SubmissionInv, WellFormed', NEW t \in Tasks, call[t].pc # "idle",
           \A u \in Tasks \ {t} : call'[u] = call[u],
           CallInv(t)', StoreInv', UNCHANGED <<rec, upd>>, intents \subseteq intents'
    PROVE  SubmissionInv'
  <1>1. \A u \in Tasks \ {t} : call'[u].pc = "idle"
    BY DEF SubmissionInv, WellFormed, CallsHoldLock
  <1>2. \A u \in Tasks : CallInv(u)'
    BY <1>1 DEF CallInv, DurableCall, SeesAllWrites, BeforeIntent, AfterIntent
  <1>3. ObserverInv'
    BY DEF SubmissionInv, ObserverInv
  <1>. QED  BY <1>2, <1>3 DEF SubmissionInv, StoreInv, ObserverInv, CallInv,
               CallsAreDurable, LatchStopsCancels, AdmissionSeesAllWrites

\* A record about an intent that exists, and that is no denial, keeps the
\* store's part of the invariant.
LEMMA RecordInv ==
    ASSUME StoreInv, NEW i \in intents, NEW a, NEW b, NEW r, r # "denied",
           Record(i, a, b, r), UNCHANGED <<intents, commands, row, sent>>
    PROVE  StoreInv'
  BY DEF StoreInv, NothingBeforeIntent, AtMostOnce, WriteAhead, DenialProvesNoWrite,
         Record

\* So does a new row for an intent that exists.
LEMMA RowInv ==
    ASSUME WellFormed, StoreInv, NEW i \in intents, NEW new \in Orders, new.st # "NONE",
           row' = [row EXCEPT ![i] = new], UNCHANGED <<intents, commands, journal, sent>>
    PROVE  StoreInv'
  BY DEF StoreInv, NothingBeforeIntent, AtMostOnce, WriteAhead, DenialProvesNoWrite,
         WellFormed, TypeOK

\* A call that ends.
LEMMA FinishInv ==
    ASSUME SubmissionInv, WellFormed', NEW t \in Tasks, call[t].pc # "idle", Finish(t),
           StoreInv', UNCHANGED <<rec, upd, intents>>
    PROVE  SubmissionInv'
  <1>1. /\ call'[t] = IdleCall /\ \A u \in Tasks \ {t} : call'[u] = call[u]
    BY FinishTypes DEF SubmissionInv
  <1>2. CallInv(t)'
    BY <1>1 DEF CallInv, DurableCall, SeesAllWrites, BeforeIntent, AfterIntent, IdleCall
  <1>. QED  BY <1>1, <1>2, CallerStep

\* save_order by a caller whose intent is durable and which is past its broker
\* call, or was denied it.
LEMMA SaveInv ==
    ASSUME SubmissionInv, WellFormed', NEW t \in Tasks, NEW new \in Orders,
           NEW next \in Pcs \ {"saveReply"}, Save(t, new, next), new.st # "NONE",
           call[t].pc \notin BeforeIntent \union {"idle"},
           next \notin BeforeIntent \union AfterIntent \union {"denySave"},
           next = "denyJournal" => call[t].pc = "denySave"
    PROVE  SubmissionInv'
  <1>. DEFINE i == call[t].intent
  <1>1. CallInv(t) /\ WellFormed /\ StoreInv
    BY Parts
  <1>2. i \in intents
    BY <1>1 DEF CallInv, DurableCall
  <1>3. StoreInv'
    BY <1>1, <1>2, RowInv DEF Save, broker
  <1>4. /\ call'[t].pc = next /\ call'[t].intent = i
        /\ \A u \in Tasks \ {t} : call'[u] = call[u]
    BY <1>1, SaveWellFormed
  <1>5. CallInv(t)'
    BY <1>1, <1>4 DEF CallInv, DurableCall, SeesAllWrites, Save, broker, BeforeIntent,
                      AfterIntent
  <1>. QED  BY <1>3, <1>4, <1>5, CallerStep DEF Save

\* A caller that moves on without touching the store or the wire.
LEMMA QuietInv ==
    ASSUME SubmissionInv, WellFormed', NEW t \in Tasks, call[t].pc # "idle",
           \A u \in Tasks \ {t} : call'[u] = call[u],
           UNCHANGED <<rec, upd, intents, commands, row, journal, sent>>, CallInv(t)'
    PROVE  SubmissionInv'
  BY Parts, StoreUnchanged, CallerStep

\* The steps of one caller.
LEMMA ProceedInv ==
    ASSUME SubmissionInv, NEW t \in Tasks, Proceed(t)
    PROVE  SubmissionInv'
  <1>. DEFINE i == call[t].intent
  <1>. USE DEF At, control, store, broker
  <1>a. WellFormed /\ StoreInv /\ CallInv(t)
    BY Parts
  <1>b. WellFormed'
    BY <1>a, ProceedWellFormed
  <1>c. call \in [Tasks -> Calls] /\ call[t] \in Calls /\ call[t].held \in Orders
    BY <1>a DEF WellFormed, TypeOK, Calls
  <1>d. ASSUME call[t].pc \notin BeforeIntent \union {"idle"} PROVE i \in intents
    BY <1>a, <1>d DEF CallInv, DurableCall
  <1>e. ASSUME NEW label \in Pcs, Goto(t, label), latch' = latch
        PROVE  /\ \A u \in Tasks \ {t} : call'[u] = call[u]
               /\ call'[t].pc = label /\ call'[t].intent = i
               /\ call'[t].known = call[t].known
    BY <1>a, <1>e, GotoTypes
  <1>1. CASE Admit(t)
    <2>1. "evidence" \in Pcs /\ Goto(t, "evidence") /\ latch' = latch /\ call[t].pc # "idle"
      BY <1>1 DEF Admit, Pcs
    <2>2. CallInv(t)'
      BY <1>1, <1>a, <1>e, <2>1 DEF Admit, CallInv, DurableCall, SeesAllWrites, Sent, BeforeIntent, AfterIntent
    <2>. QED  BY <1>1, <1>b, <1>e, <2>1, <2>2, QuietInv DEF Admit
  <1>2. CASE GatherEvidence(t)
    <2>1. "account" \in Pcs /\ Goto(t, "account") /\ latch' = latch /\ call[t].pc # "idle"
      BY <1>2 DEF GatherEvidence, Pcs
    <2>2. CallInv(t)'
      BY <1>2, <1>a, <1>e, <2>1 DEF GatherEvidence, CallInv, DurableCall, SeesAllWrites, Sent, BeforeIntent, AfterIntent
    <2>. QED  BY <1>2, <1>b, <1>e, <2>1, <2>2, QuietInv DEF GatherEvidence
  <1>3. CASE Recheck(t)
    <2>1. "saveIntent" \in Pcs /\ Goto(t, "saveIntent") /\ latch' = latch /\ call[t].pc # "idle"
      BY <1>3 DEF Recheck, Pcs
    <2>2. CallInv(t)'
      BY <1>3, <1>a, <1>e, <2>1 DEF Recheck, CallInv, DurableCall, SeesAllWrites, Sent, BeforeIntent, AfterIntent
    <2>. QED  BY <1>3, <1>b, <1>e, <2>1, <2>2, QuietInv DEF Recheck
  <1>4. CASE GateDenies(t)
    <2>1. "denySave" \in Pcs /\ Goto(t, "denySave") /\ latch' = latch /\ call[t].pc # "idle"
      BY <1>4 DEF GateDenies, Pcs
    <2>2. CallInv(t)'
      BY <1>4, <1>a, <1>e, <2>1 DEF GateDenies, CallInv, DurableCall, SeesAllWrites, Sent, BeforeIntent, AfterIntent
    <2>. QED  BY <1>4, <1>b, <1>e, <2>1, <2>2, QuietInv DEF GateDenies
  <1>5. CASE ReadAccount(t)
    <2>1. /\ \A u \in Tasks \ {t} : call'[u] = call[u]
          /\ call'[t].intent = i /\ call'[t].pc = "recheck" /\ call'[t].known = Sent
      BY <1>5, <1>c DEF ReadAccount, Calls
    <2>2. CallInv(t)'
      BY <1>5, <1>a, <2>1 DEF ReadAccount, CallInv, DurableCall, SeesAllWrites, Sent, BeforeIntent, AfterIntent
    <2>. QED  BY <1>5, <1>b, <2>1, <2>2, QuietInv DEF ReadAccount
  <1>6. CASE GatherCancelEvidence(t)
    <2>1. /\ \A u \in Tasks \ {t} : call'[u] = call[u]
          /\ call'[t].intent = i /\ call'[t].pc = "saveIntent" /\ call'[t].known = Sent
      BY <1>6, <1>c DEF GatherCancelEvidence, Calls
    <2>2. CallInv(t)'
      BY <1>6, <1>a, <2>1 DEF GatherCancelEvidence, CallInv, DurableCall, SeesAllWrites, Sent, BeforeIntent, AfterIntent
    <2>. QED  BY <1>6, <1>b, <2>1, <2>2, QuietInv DEF GatherCancelEvidence
  <1>7. CASE SaveIntent(t)
    <2>1. "saveCommand" \in Pcs /\ Goto(t, "saveCommand") /\ latch' = latch
      BY <1>7 DEF SaveIntent, Pcs
    <2>2. i \in Intents \ intents
      BY <1>7, <1>a DEF SaveIntent, WellFormed, CallsHoldLock
    <2>3. sent[i] = 0 /\ <<i, "SUBMITTING", "REJECTED", "denied">> \notin journal
      BY <1>a, <2>2 DEF StoreInv, NothingBeforeIntent
    <2>4. CallInv(t)'
      BY <1>7, <1>a, <1>e, <2>1, <2>3 DEF SaveIntent, CallInv, DurableCall, SeesAllWrites, Sent, BeforeIntent, AfterIntent
    <2>5. StoreInv'
      BY <1>7, <1>a DEF SaveIntent, StoreInv, NothingBeforeIntent, AtMostOnce, WriteAhead,
                         DenialProvesNoWrite
    <2>. QED  BY <1>7, <1>b, <1>e, <2>1, <2>4, <2>5, CallerStep DEF SaveIntent
  <1>8. CASE SaveCommand(t)
    <2>1. "savePending" \in Pcs /\ Goto(t, "savePending") /\ latch' = latch
      BY <1>8 DEF SaveCommand, Pcs
    <2>2. CallInv(t)'
      BY <1>8, <1>a, <1>e, <2>1 DEF SaveCommand, CallInv, DurableCall, SeesAllWrites, Sent, BeforeIntent, AfterIntent
    <2>3. StoreInv'
      BY <1>8, <1>a DEF SaveCommand, StoreInv, NothingBeforeIntent, AtMostOnce, WriteAhead,
                         DenialProvesNoWrite
    <2>. QED  BY <1>8, <1>b, <1>e, <2>1, <2>2, <2>3, CallerStep DEF SaveCommand
  <1>9. CASE SavePending(t)
    <2>1. Pending(t) \in Orders /\ Pending(t).st # "NONE"
      BY <1>c, QuantityAssumption DEF Pending, Orders, OrderStates, AmbiguousStates
    <2>2. i \in intents /\ call[t].pc # "idle"
      BY <1>9, <1>d DEF SavePending, BeforeIntent
    <2>3. Save(t, Pending(t), "journalPending") /\ "journalPending" \in Pcs \ {"saveReply"}
      BY <1>9 DEF SavePending, Pcs
    <2>4. StoreInv'
      BY <1>a, <2>1, <2>2, <2>3, RowInv DEF Save
    <2>5. /\ call'[t].pc = "journalPending" /\ call'[t].intent = i
          /\ call'[t].known = call[t].known
          /\ \A u \in Tasks \ {t} : call'[u] = call[u]
      BY <1>a, <2>1, <2>2, <2>3, SaveWellFormed
    <2>6. row'[i].st # "NONE"
      BY <1>a, <2>1, <2>2, <2>3 DEF Save, WellFormed, TypeOK
    <2>7. CallInv(t)'
      BY <1>9, <1>a, <2>3, <2>5, <2>6
         DEF SavePending, Save, CallInv, DurableCall, SeesAllWrites, Sent, BeforeIntent, AfterIntent
    <2>. QED  BY <1>b, <2>2, <2>3, <2>4, <2>5, <2>7, CallerStep DEF Save
  <1>10. CASE JournalPending(t)
    <2>1. "gate" \in Pcs /\ Goto(t, "gate") /\ latch' = latch /\ i \in intents
      BY <1>10, <1>d DEF JournalPending, Pcs, BeforeIntent
    <2>2. StoreInv'
      BY <1>10, <1>a, <2>1, RecordInv DEF JournalPending
    <2>3. CallInv(t)'
      BY <1>10, <1>a, <1>e, <2>1
         DEF JournalPending, Record, CallInv, DurableCall, SeesAllWrites, Sent, BeforeIntent, AfterIntent
    <2>. QED  BY <1>10, <1>b, <1>e, <2>1, <2>2, <2>3, CallerStep DEF JournalPending
  <1>11. CASE Submit(t)
    <2>1. "await" \in Pcs /\ Goto(t, "await") /\ latch' = latch /\ i \in intents
      BY <1>11, <1>d DEF Submit, Pcs, BeforeIntent
    <2>2. /\ sent[i] = 0 /\ i \in commands /\ row[i].st # "NONE"
          /\ <<i, "INTENT_PERSISTED", "SUBMITTING", "ready">> \in journal
          /\ <<i, "SUBMITTING", "REJECTED", "denied">> \notin journal
      BY <1>11, <1>a DEF Submit, CallInv, DurableCall, AfterIntent
    <2>3. i \in Intents /\ sent' \in [Intents -> Nat] /\ sent'[i] = 1
          /\ \A j \in Intents \ {i} : sent'[j] = sent[j]
      BY <1>11, <1>a, <2>2 DEF Submit, WellFormed, TypeOK, CallsHoldLock
    <2>4. StoreInv'
      BY <1>11, <1>a, <2>1, <2>2, <2>3 DEF Submit, StoreInv, NothingBeforeIntent, AtMostOnce, WriteAhead,
                         DenialProvesNoWrite
    <2>5. CallInv(t)'
      BY <1>11, <1>a, <1>e, <2>1
         DEF Submit, CallInv, DurableCall, SeesAllWrites, BeforeIntent, AfterIntent
    <2>. QED  BY <1>11, <1>b, <1>e, <2>1, <2>4, <2>5, CallerStep DEF Submit
  <1>12. CASE DenySave(t)
    <2>. DEFINE new == [call[t].held EXCEPT !.st = "REJECTED"]
    <2>1. new \in Orders /\ new.st # "NONE"
      BY <1>c DEF Orders, OrderStates, AmbiguousStates, TerminalStates
    <2>. HIDE DEF new
    <2>2. Save(t, new, "denyJournal") /\ "denyJournal" \in Pcs \ {"saveReply"}
      BY <1>12 DEF DenySave, Pcs, new
    <2>. QED  BY <1>12, <1>b, <2>1, <2>2, SaveInv DEF DenySave, BeforeIntent, AfterIntent
  <1>13. CASE SaveUnknown(t)
    <2>. DEFINE new == [call[t].held EXCEPT !.st = "SUBMISSION_UNKNOWN"]
    <2>1. new \in Orders /\ new.st # "NONE"
      BY <1>c DEF Orders, OrderStates, AmbiguousStates, TerminalStates
    <2>. HIDE DEF new
    <2>2. Save(t, new, "journalUnknown") /\ "journalUnknown" \in Pcs \ {"saveReply"}
      BY <1>13 DEF SaveUnknown, Pcs, new
    <2>. QED  BY <1>13, <1>b, <2>1, <2>2, SaveInv DEF SaveUnknown, BeforeIntent, AfterIntent
  <1>14. CASE AuditSave(t)
    <2>. DEFINE new == [call[t].held EXCEPT !.st = "SUBMISSION_UNKNOWN"]
    <2>1. new \in Orders /\ new.st # "NONE"
      BY <1>c DEF Orders, OrderStates, AmbiguousStates, TerminalStates
    <2>. HIDE DEF new
    <2>2. Save(t, new, "auditJournal") /\ "auditJournal" \in Pcs \ {"saveReply"}
      BY <1>14 DEF AuditSave, Pcs, new
    <2>. QED  BY <1>14, <1>b, <2>1, <2>2, SaveInv DEF AuditSave, BeforeIntent, AfterIntent
  <1>15. CASE SaveReply(t)
    <2>1. call[t].held \in Orders /\ call[t].held.st # "NONE"
      BY <1>15, <1>a, <1>c DEF SaveReply, WellFormed, OrdersExist
    <2>2. "journalReply" \in Pcs \ {"saveReply"}
      BY DEF Pcs
    <2>. QED  BY <1>15, <1>b, <2>1, <2>2, SaveInv DEF SaveReply, BeforeIntent, AfterIntent
  <1>16. CASE DenyJournal(t)
    <2>1. i \in intents /\ sent[i] = 0
      BY <1>16, <1>a, <1>d DEF DenyJournal, CallInv, DurableCall, BeforeIntent
    <2>2. StoreInv'
      BY <1>16, <1>a, <2>1 DEF DenyJournal, RecordAndFinish, Record, StoreInv, NothingBeforeIntent,
                               AtMostOnce, WriteAhead, DenialProvesNoWrite
    <2>. QED  BY <1>16, <1>b, <2>2, FinishInv DEF DenyJournal, RecordAndFinish
  <1>17. CASE JournalUnknown(t)
    <2>1. i \in intents
      BY <1>17, <1>d DEF JournalUnknown, BeforeIntent
    <2>2. StoreInv'
      BY <1>17, <1>a, <2>1, RecordInv DEF JournalUnknown, RecordAndFinish
    <2>. QED  BY <1>17, <1>b, <2>2, FinishInv DEF JournalUnknown, RecordAndFinish
  <1>18. CASE AuditJournal(t)
    <2>1. i \in intents
      BY <1>18, <1>d DEF AuditJournal, BeforeIntent
    <2>2. StoreInv'
      BY <1>18, <1>a, <2>1, RecordInv DEF AuditJournal, RecordAndFinish
    <2>. QED  BY <1>18, <1>b, <2>2, FinishInv DEF AuditJournal, RecordAndFinish
  <1>19. CASE JournalReply(t)
    <2>1. i \in intents
      BY <1>19, <1>d DEF JournalReply, BeforeIntent
    <2>2. StoreInv'
      BY <1>19, <1>a, <2>1, RecordInv DEF JournalReply, RecordAndFinish
    <2>. QED  BY <1>19, <1>b, <2>2, FinishInv DEF JournalReply, RecordAndFinish
  <1>20. CASE Reply(t)
    <2>1. /\ \A u \in Tasks \ {t} : call'[u] = call[u]
          /\ call'[t].intent = i /\ call'[t].pc = "saveReply"
      BY <1>20, <1>c DEF Reply, Calls
    <2>2. CallInv(t)'
      BY <1>20, <1>a, <2>1 DEF Reply, CallInv, DurableCall, SeesAllWrites, BeforeIntent, AfterIntent
    <2>. QED  BY <1>20, <1>b, <2>1, <2>2, QuietInv DEF Reply
  <1>. QED
    BY <1>1, <1>2, <1>3, <1>4, <1>5, <1>6, <1>7, <1>8, <1>9, <1>10, <1>11, <1>12, <1>13, <1>14, <1>15, <1>16, <1>17, <1>18, <1>19, <1>20 DEF Proceed

\* The ways a call fails.
LEMMA FailInv ==
    ASSUME SubmissionInv, NEW t \in Tasks, Fail(t)
    PROVE  SubmissionInv'
  <1>. USE DEF At, control, store, broker
  <1>a. WellFormed /\ StoreInv /\ CallInv(t)
    BY Parts
  <1>b. WellFormed'
    BY <1>a, FailWellFormed
  <1>1. CASE CapabilityDenied(t)
    BY <1>1, <1>a, <1>b, StoreUnchanged, FinishInv DEF CapabilityDenied
  <1>2. CASE UncorrelatedReply(t)
    BY <1>2, <1>a, <1>b, StoreUnchanged, FinishInv DEF UncorrelatedReply
  <1>3. CASE AuditFails(t)
    BY <1>3, <1>a, <1>b, StoreUnchanged, FinishInv DEF AuditFails
  <1>4. CASE Abort(t)
    BY <1>4, <1>a, <1>b, StoreUnchanged, FinishInv DEF Abort
  <1>5. CASE OutcomeUnknown(t)
    <2>1. /\ \A u \in Tasks \ {t} : call'[u] = call[u]
          /\ call'[t].pc = "saveUnknown" /\ call'[t].intent = call[t].intent
      BY <1>5, <1>a, GotoTypes DEF OutcomeUnknown, Pcs
    <2>2. CallInv(t)'
      BY <1>5, <1>a, <2>1
         DEF OutcomeUnknown, CallInv, DurableCall, SeesAllWrites, BeforeIntent, AfterIntent
    <2>. QED  BY <1>5, <1>b, <2>1, <2>2, QuietInv DEF OutcomeUnknown
  <1>6. CASE Interrupted(t)
    <2>1. /\ \A u \in Tasks \ {t} : call'[u] = call[u]
          /\ call'[t].pc = "auditSave" /\ call'[t].intent = call[t].intent
      BY <1>6, <1>a, GotoTypes DEF Interrupted, Pcs
    <2>2. call[t].intent \in intents
      BY <1>6, <1>a DEF Interrupted, CallInv, DurableCall, BeforeIntent
    <2>3. StoreInv'
      <3>1. CASE UNCHANGED journal
        BY <1>6, <1>a, <3>1, StoreUnchanged DEF Interrupted
      <3>2. CASE Record(call[t].intent, "SUBMITTING", call[t].held.st, "observed")
        BY <1>6, <1>a, <2>2, <3>2, RecordInv DEF Interrupted
      <3>. QED  BY <1>6, <3>1, <3>2 DEF Interrupted
    <2>4. CallInv(t)'
      BY <1>6, <1>a, <2>1, <2>2
         DEF Interrupted, CallInv, DurableCall, SeesAllWrites, BeforeIntent, AfterIntent
    <2>. QED  BY <1>6, <1>b, <2>1, <2>3, <2>4, CallerStep DEF Interrupted
  <1>. QED  BY <1>1, <1>2, <1>3, <1>4, <1>5, <1>6 DEF Fail

\* A call starts: nothing is durable yet.
LEMMA BeginInv ==
    ASSUME SubmissionInv, WellFormed', NEW t \in Tasks, lock = NoTask,
           \A u \in Tasks \ {t} : call'[u] = call[u],
           call'[t].pc \in {"admit", "cancelEvidence"},
           latch # {} => call'[t].intent[2] = "place",
           UNCHANGED <<latch, rec, upd, intents, commands, row, journal, sent>>
    PROVE  SubmissionInv'
  <1>1. \A u \in Tasks \ {t} : call'[u].pc = "idle"
    BY TasksAssumption DEF SubmissionInv, WellFormed, CallsHoldLock
  <1>2. \A u \in Tasks : CallInv(u)'
    BY <1>1 DEF CallInv, DurableCall, SeesAllWrites, BeforeIntent, AfterIntent
  <1>3. StoreInv' /\ ObserverInv'
    BY Parts, StoreUnchanged DEF ObserverInv
  <1>. QED  BY <1>2, <1>3 DEF SubmissionInv, StoreInv, ObserverInv, CallInv,
               CallsAreDurable, LatchStopsCancels, AdmissionSeesAllWrites

\* A step of anybody who is not a caller and leaves the intents, the commands and
\* the count of writes alone.
LEMMA OutsiderInv ==
    ASSUME SubmissionInv, WellFormed', StoreInv', ObserverInv',
           \A t \in Tasks : /\ call'[t].pc = call[t].pc
                            /\ call'[t].intent = call[t].intent
                            /\ call'[t].known = call[t].known,
           \A i \in Intents : row[i].st # "NONE" => row'[i].st # "NONE",
           \A r \in journal' \ journal : r[4] # "denied",
           journal \subseteq journal',
           UNCHANGED <<latch, intents, commands, sent>>
    PROVE  SubmissionInv'
  <1>1. ASSUME NEW t \in Tasks PROVE CallInv(t)'
    <2>1. CallInv(t)
      BY Parts
    <2>2. call[t].pc # "idle" => call[t].intent \in Intents
      BY DEF SubmissionInv, WellFormed, CallsHoldLock
    <2>. QED  BY <2>1, <2>2 DEF CallInv, DurableCall, SeesAllWrites, Sent, BeforeIntent,
                                AfterIntent
  <1>. QED  BY <1>1 DEF SubmissionInv, StoreInv, ObserverInv, CallInv,
               CallsAreDurable, LatchStopsCancels, AdmissionSeesAllWrites

\* Every step of a caller preserves the invariant.
LEMMA CallSubmission ==
    ASSUME SubmissionInv, NEW t \in Tasks, Call(t)
    PROVE  SubmissionInv'
  <1>. USE DEF control, store, broker
  <1>a. WellFormed /\ StoreInv /\ ObserverInv /\ call \in [Tasks -> Calls]
    BY Parts DEF WellFormed, TypeOK
  <1>b. WellFormed'
    BY <1>a, CallWellFormed
  <1>1. ASSUME NEW p \in Proposals, NEW approval \in {"none", "valid"},
               Begin(t, p, approval)
        PROVE  SubmissionInv'
    <2>1. /\ \A u \in Tasks \ {t} : call'[u] = call[u]
          /\ call'[t].pc = "admit" /\ call'[t].intent = Place(p)
      BY <1>1, <1>a DEF Begin, IdleCall
    <2>. QED  BY <1>1, <1>b, <2>1, BeginInv DEF Begin, Place
  <1>2. ASSUME NEW p \in Cancellable, NEW target \in seen[p], BeginCancel(t, p, target)
        PROVE  SubmissionInv'
    <2>1. /\ \A u \in Tasks \ {t} : call'[u] = call[u]
          /\ call'[t].pc = "cancelEvidence"
      BY <1>2, <1>a DEF BeginCancel, IdleCall
    <2>. QED  BY <1>2, <1>b, <2>1, BeginInv DEF BeginCancel
  <1>3. CASE RefuseCancel(t)
    BY <1>3, <1>a, <1>b, StoreUnchanged, OutsiderInv
       DEF RefuseCancel, ObserverInv, process
  <1>. QED  BY <1>1, <1>2, <1>3, ProceedInv, FailInv DEF Call

\* Reconciliation and broker updates never invent an intent.
LEMMA ObserverSubmission ==
    ASSUME SubmissionInv, Reconciliation \/ Update
    PROVE  SubmissionInv'
  <1>. USE DEF OutsideLock, process, control, broker
  <1>a. WellFormed /\ StoreInv /\ ObserverInv
    BY Parts
  <1>b. WellFormed'
    BY <1>a, ObserverWellFormed
  <1>c. /\ rec \in Recs /\ upd \in Upds /\ row \in [Intents -> Orders]
        /\ intents \subseteq Intents
    BY <1>a DEF WellFormed, TypeOK
  <1>d. \A i \in Intents : row[i].st # "NONE" => i \in intents
    BY <1>a DEF StoreInv, NothingBeforeIntent, NoOrder
  <1>1. ASSUME NEW i \in Queried \X {"place", "cancel"}, ReconcileBegin(i)
        PROVE  SubmissionInv'
    <2>1. i \in Intents
      BY ProposalsAssumption DEF Intents
    <2>2. i \in intents /\ rec'.intent = i
      BY <1>1, <1>c, <1>d, <2>1 DEF ReconcileBegin, Recs
    <2>3. ObserverInv'
      BY <1>1, <1>a, <2>2 DEF ObserverInv, ReconcileBegin
    <2>. QED  BY <1>1, <1>a, <1>b, <2>3, StoreUnchanged, OutsiderInv DEF ReconcileBegin
  <1>2. CASE ReconcileMatch
    <2>1. ObserverInv'
      BY <1>2, <1>a, <1>c DEF ObserverInv, ReconcileMatch, Recs
    <2>. QED  BY <1>2, <1>a, <1>b, <2>1, StoreUnchanged, OutsiderInv DEF ReconcileMatch
  <1>3. CASE ReconcileNegative
    <2>1. ObserverInv'
      BY <1>3, <1>a DEF ObserverInv, ReconcileNegative, IdleRec
    <2>. QED  BY <1>3, <1>a, <1>b, <2>1, StoreUnchanged, OutsiderInv DEF ReconcileNegative
  <1>4. CASE ReconcileSave
    <2>1. rec.intent \in intents /\ rec.match \in Orders /\ rec.match.st # "NONE"
      BY <1>4, <1>a, <1>c DEF ReconcileSave, ObserverInv, Recs, WellFormed, OrdersExist
    <2>2. ObserverInv' /\ StoreInv'
      BY <1>4, <1>a, <1>c, <2>1, RowInv DEF ObserverInv, ReconcileSave, Recs
    <2>3. \A i \in Intents : row[i].st # "NONE" => row'[i].st # "NONE"
      BY <1>4, <1>c, <2>1 DEF ReconcileSave
    <2>. QED  BY <1>4, <1>b, <2>2, <2>3, OutsiderInv DEF ReconcileSave
  <1>5. CASE ReconcileJournal
    <2>1. rec.intent \in intents
      BY <1>5, <1>a DEF ReconcileJournal, ObserverInv
    <2>2. ObserverInv' /\ StoreInv'
      BY <1>5, <1>a, <2>1, RecordInv DEF ObserverInv, ReconcileJournal, IdleRec
    <2>. QED  BY <1>5, <1>b, <2>2, OutsiderInv DEF ReconcileJournal, Record
  <1>6. CASE ReconcileAbandon
    <2>1. ObserverInv'
      BY <1>6, <1>a DEF ObserverInv, ReconcileAbandon, IdleRec
    <2>. QED  BY <1>6, <1>a, <1>b, <2>1, StoreUnchanged, OutsiderInv DEF ReconcileAbandon
  <1>7. ASSUME NEW p \in Reported, NEW evidence \in BOOLEAN, UpdateBegin(p, evidence)
        PROVE  SubmissionInv'
    <2>1. Place(p) \in intents
      BY <1>7, <1>d, ProposalsAssumption DEF UpdateBegin, Place, Intents
    <2>2. ObserverInv'
      BY <1>7, <1>a, <2>1 DEF ObserverInv, UpdateBegin
    <2>. QED  BY <1>7, <1>a, <1>b, <2>2, StoreUnchanged, OutsiderInv DEF UpdateBegin
  <1>8. CASE UpdateJournal
    <2>1. upd.intent \in intents
      BY <1>8, <1>a DEF UpdateJournal, ObserverInv
    <2>2. ObserverInv' /\ StoreInv'
      BY <1>8, <1>a, <1>c, <2>1, RecordInv DEF ObserverInv, UpdateJournal, Upds
    <2>. QED  BY <1>8, <1>b, <2>2, OutsiderInv DEF UpdateJournal, Record
  <1>9. CASE UpdateSave
    <2>1. upd.intent \in intents /\ upd.new \in Orders /\ upd.new.st # "NONE"
      BY <1>9, <1>a, <1>c DEF UpdateSave, ObserverInv, Upds, WellFormed, OrdersExist
    <2>2. ObserverInv' /\ StoreInv'
      BY <1>9, <1>a, <1>c, <2>1, RowInv DEF ObserverInv, UpdateSave, IdleUpd
    <2>3. \A i \in Intents : row[i].st # "NONE" => row'[i].st # "NONE"
      BY <1>9, <1>c, <2>1 DEF UpdateSave
    <2>. QED  BY <1>9, <1>b, <2>2, <2>3, OutsiderInv DEF UpdateSave
  <1>10. CASE UpdateAbandon
    <2>1. ObserverInv'
      BY <1>10, <1>a DEF ObserverInv, UpdateAbandon, IdleUpd
    <2>. QED  BY <1>10, <1>a, <1>b, <2>1, StoreUnchanged, OutsiderInv DEF UpdateAbandon
  <1>. QED
    BY <1>1, <1>2, <1>3, <1>4, <1>5, <1>6, <1>7, <1>8, <1>9, <1>10
       DEF Reconciliation, Update

\* SubmissionInv is inductive.
LEMMA SubmissionStep ==
    ASSUME SubmissionInv, [Next]_vars
    PROVE  SubmissionInv'
  <1>. USE DEF process, control, store, broker
  <1>a. WellFormed /\ StoreInv /\ ObserverInv
    BY Parts
  <1>b. WellFormed'
    BY <1>a, WellFormedStep
  <1>1. CASE UNCHANGED vars
    BY <1>1, <1>a, <1>b, StoreUnchanged, OutsiderInv DEF vars, ObserverInv
  <1>2. ASSUME NEW t \in Tasks, Call(t) PROVE SubmissionInv'
    BY <1>2, CallSubmission
  <1>3. CASE Reconciliation \/ Update
    BY <1>3, ObserverSubmission
  <1>4. CASE Broker
    <2>1. UNCHANGED <<process, rec, upd, store, sent>>
      BY <1>4 DEF Broker, BrokerPlaces, BrokerCancels, BrokerMoves, Respond, Service
    <2>. QED  BY <1>a, <1>b, <2>1, StoreUnchanged, OutsiderInv DEF ObserverInv
  <1>5. CASE Controls
    <2>1. /\ UNCHANGED <<latch, rec, upd, store, sent>>
          /\ \A t \in Tasks : /\ call'[t].pc = call[t].pc
                              /\ call'[t].intent = call[t].intent
                              /\ call'[t].known = call[t].known
      BY <1>5, <1>a DEF Controls, SetMode, SetClear, SetSafety, ExpireApproval,
                        Uncontrolled, WellFormed, TypeOK, Calls
    <2>. QED  BY <1>a, <1>b, <2>1, StoreUnchanged, OutsiderInv DEF ObserverInv
  <1>6. CASE Crash
    <2>1. StoreInv' /\ ObserverInv'
      BY <1>6, <1>a, StoreUnchanged DEF Crash, ObserverInv, IdleRec, IdleUpd
    <2>2. \A t \in Tasks : CallInv(t)'
      BY <1>6 DEF Crash, IdleCall, CallInv, DurableCall, SeesAllWrites, BeforeIntent,
                  AfterIntent
    <2>. QED  BY <1>b, <2>1, <2>2 DEF SubmissionInv, StoreInv, ObserverInv, CallInv,
                 CallsAreDurable, LatchStopsCancels, AdmissionSeesAllWrites
  <1>. QED  BY <1>1, <1>2, <1>3, <1>4, <1>5, <1>6 DEF Next

\* SubmissionInv holds initially.
LEMMA SubmissionInit == Init => SubmissionInv
  <1>1. Init => StoreInv /\ ObserverInv /\ \A t \in Tasks : CallInv(t)
    BY DEF Init, StoreInv, NothingBeforeIntent, AtMostOnce, WriteAhead,
           DenialProvesNoWrite, ObserverInv, IdleRec, IdleUpd, IdleCall, CallInv,
           DurableCall, SeesAllWrites, BeforeIntent, AfterIntent
  <1>. QED  BY <1>1, WellFormedInit, Assemble

\* The submission protocol of execute and cancel_order: the whole inductive
\* invariant, for every set of proposals and callers.
THEOREM SubmissionInvHolds == Spec => []SubmissionInv
  BY SubmissionInit, SubmissionStep, PTL DEF Spec

\* No exact placement or cancellation is ever sent to the broker twice.
THEOREM NeverSentTwice == Spec => []AtMostOnce
  <1>1. SubmissionInv => AtMostOnce
    BY DEF SubmissionInv
  <1>. QED  BY <1>1, SubmissionInvHolds, PTL

\* Everything sent to the broker was durable first.
THEOREM PersistBeforeSend == Spec => []WriteAhead
  <1>1. SubmissionInv => WriteAhead
    BY DEF SubmissionInv
  <1>. QED  BY <1>1, SubmissionInvHolds, PTL

\* A journalled denial proves that no broker write happened, then or later.
THEOREM DenialIsProof == Spec => []DenialProvesNoWrite
  <1>1. SubmissionInv => DenialProvesNoWrite
    BY DEF SubmissionInv
  <1>. QED  BY <1>1, SubmissionInvHolds, PTL

\* Nobody spends buying power that another call's command has already used.
THEOREM AdmissionIsSerial == Spec => []AdmissionSeesAllWrites
  <1>1. SubmissionInv => AdmissionSeesAllWrites
    BY DEF SubmissionInv
  <1>. QED  BY <1>1, SubmissionInvHolds, PTL

-----------------------------------------------------------------------------
(* What the durable order rows say about the broker is true, and the       *)
(* controls govern every write.                                            *)

\* RowsComeFromBroker for one intent and a row it may have.
Backed(i, r) ==
    /\ r.st \in WorkingStates \union TerminalStates =>
          r \in seen[i[1]] \/ (r.st = "REJECTED" /\ sent[i] = 0)
    /\ sent[i] > 0 /\ r.st \notin AmbiguousStates => r \in seen[i[1]]

\* A new row is as well founded as the order it holds.
LEMMA RowBacked ==
    ASSUME WellFormed, RowsComeFromBroker, NEW i \in Intents, NEW new \in Orders,
           row' = [row EXCEPT ![i] = new], UNCHANGED <<seen, sent>>, Backed(i, new)
    PROVE  RowsComeFromBroker'
  BY DEF WellFormed, TypeOK, RowsComeFromBroker, Backed

\* A step of the caller that holds the lock.
LEMMA CallerEvidence ==
    ASSUME EvidenceInv, SubmissionInv', NEW t \in Tasks, call[t].pc # "idle",
           \A u \in Tasks \ {t} : call'[u] = call[u],
           CallHasEvidence(t)', RowsComeFromBroker', BrokerHasEvidence'
    PROVE  EvidenceInv'
  <1>1. \A u \in Tasks \ {t} : call'[u].pc = "idle"
    BY DEF EvidenceInv, SubmissionInv, WellFormed, CallsHoldLock
  <1>. QED  BY <1>1 DEF EvidenceInv, CallHasEvidence

\* A caller that moves on without touching the rows, the orders or the wire.
LEMMA QuietEvidence ==
    ASSUME EvidenceInv, SubmissionInv', NEW t \in Tasks, call[t].pc # "idle",
           \A u \in Tasks \ {t} : call'[u] = call[u],
           UNCHANGED <<rec, upd, row, broker>>, CallHasEvidence(t)'
    PROVE  EvidenceInv'
  <1>1. RowsComeFromBroker' /\ BrokerHasEvidence'
    BY DEF EvidenceInv, RowsComeFromBroker, BrokerHasEvidence, broker
  <1>. QED  BY <1>1, CallerEvidence

\* A call that ends.
LEMMA FinishEvidence ==
    ASSUME EvidenceInv, SubmissionInv', NEW t \in Tasks, call[t].pc # "idle", Finish(t),
           UNCHANGED <<rec, upd, row, order, seen, wire, sent>>
    PROVE  EvidenceInv'
  <1>1. call'[t] = IdleCall /\ \A u \in Tasks \ {t} : call'[u] = call[u]
    BY FinishTypes DEF EvidenceInv, SubmissionInv
  <1>2. CallHasEvidence(t)'
    BY <1>1 DEF CallHasEvidence, IdleCall
  <1>3. \A i \in Intents : answer'[i] # NoOrder => answer'[i] = answer[i]
    BY DEF Finish, EvidenceInv, SubmissionInv, WellFormed, TypeOK, CallsHoldLock
  <1>4. RowsComeFromBroker' /\ BrokerHasEvidence'
    BY <1>3 DEF EvidenceInv, RowsComeFromBroker, BrokerHasEvidence
  <1>. QED  BY <1>1, <1>2, <1>4, CallerEvidence

\* save_order by a caller.
LEMMA SaveEvidence ==
    ASSUME EvidenceInv, SubmissionInv', NEW t \in Tasks, call[t].pc # "idle",
           NEW new \in Orders, NEW next \in Pcs \ {"saveReply"}, Save(t, new, next),
           Backed(call[t].intent, new),
           next \notin {"saveCommand", "savePending", "gate", "denySave"},
           next = "journalPending" => new.st = "SUBMITTING",
           next = "journalReply" => new \in seen[call[t].intent[1]]
    PROVE  EvidenceInv'
  <1>. DEFINE i == call[t].intent
  <1>1. WellFormed /\ i \in Intents /\ CallHasEvidence(t)
    BY DEF EvidenceInv, SubmissionInv, WellFormed, CallsHoldLock
  <1>2. /\ call'[t].pc = next /\ call'[t].intent = i
        /\ \A u \in Tasks \ {t} : call'[u] = call[u]
    BY <1>1, SaveWellFormed
  <1>3. call'[t].held = new /\ row'[i] = new
    BY <1>1 DEF Save, WellFormed, TypeOK, Calls
  <1>4. RowsComeFromBroker'
    BY <1>1, RowBacked DEF Save, EvidenceInv, broker
  <1>5. BrokerHasEvidence'
    BY DEF EvidenceInv, BrokerHasEvidence, Save, broker
  <1>6. CallHasEvidence(t)'
    BY <1>1, <1>2, <1>3 DEF CallHasEvidence, Save, broker
  <1>. QED  BY <1>2, <1>4, <1>5, <1>6, CallerEvidence

\* The steps of one caller.
LEMMA ProceedEvidence ==
    ASSUME EvidenceInv, NEW t \in Tasks, Proceed(t)
    PROVE  EvidenceInv'
  <1>. DEFINE i == call[t].intent
  <1>. USE DEF At, control, store, broker
  <1>a. SubmissionInv /\ WellFormed /\ CallHasEvidence(t) /\ CallInv(t)
    BY Parts DEF EvidenceInv
  <1>b. SubmissionInv'
    BY <1>a, ProceedInv
  <1>c. call \in [Tasks -> Calls] /\ call[t] \in Calls /\ call[t].held \in Orders
    BY <1>a DEF WellFormed, TypeOK, Calls
  <1>d. ASSUME NEW label \in Pcs, Goto(t, label)
        PROVE  /\ \A u \in Tasks \ {t} : call'[u] = call[u]
               /\ call'[t].pc = label /\ call'[t].intent = i /\ call'[t].held = call[t].held
    BY <1>a, <1>d, GotoTypes
  <1>1. CASE Admit(t)
    <2>1. "evidence" \in Pcs /\ Goto(t, "evidence")
      BY <1>1 DEF Admit, Pcs
    <2>2. CallHasEvidence(t)'
      BY <1>1, <1>a, <1>d, <2>1 DEF Admit, CallHasEvidence
    <2>. QED  BY <1>1, <1>b, <1>d, <2>1, <2>2, QuietEvidence DEF Admit
  <1>2. CASE GatherEvidence(t)
    <2>1. "account" \in Pcs /\ Goto(t, "account")
      BY <1>2 DEF GatherEvidence, Pcs
    <2>2. CallHasEvidence(t)'
      BY <1>2, <1>a, <1>d, <2>1 DEF GatherEvidence, CallHasEvidence
    <2>. QED  BY <1>2, <1>b, <1>d, <2>1, <2>2, QuietEvidence DEF GatherEvidence
  <1>3. CASE Recheck(t)
    <2>1. "saveIntent" \in Pcs /\ Goto(t, "saveIntent")
      BY <1>3 DEF Recheck, Pcs
    <2>2. CallHasEvidence(t)'
      BY <1>3, <1>a, <1>d, <2>1 DEF Recheck, CallHasEvidence
    <2>. QED  BY <1>3, <1>b, <1>d, <2>1, <2>2, QuietEvidence DEF Recheck
  <1>4. CASE SaveCommand(t)
    <2>1. "savePending" \in Pcs /\ Goto(t, "savePending")
      BY <1>4 DEF SaveCommand, Pcs
    <2>2. CallHasEvidence(t)'
      BY <1>4, <1>a, <1>d, <2>1 DEF SaveCommand, CallHasEvidence
    <2>. QED  BY <1>4, <1>b, <1>d, <2>1, <2>2, QuietEvidence DEF SaveCommand
  <1>5. CASE JournalPending(t)
    <2>1. "gate" \in Pcs /\ Goto(t, "gate")
      BY <1>5 DEF JournalPending, Pcs
    <2>2. CallHasEvidence(t)'
      BY <1>5, <1>a, <1>d, <2>1 DEF JournalPending, CallHasEvidence
    <2>. QED  BY <1>5, <1>b, <1>d, <2>1, <2>2, QuietEvidence DEF JournalPending
  <1>6. CASE GateDenies(t)
    <2>1. "denySave" \in Pcs /\ Goto(t, "denySave")
      BY <1>6 DEF GateDenies, Pcs
    <2>2. CallHasEvidence(t)'
      BY <1>6, <1>a, <1>d, <2>1 DEF GateDenies, CallHasEvidence
    <2>. QED  BY <1>6, <1>b, <1>d, <2>1, <2>2, QuietEvidence DEF GateDenies
  <1>7. CASE ReadAccount(t)
    <2>1. /\ \A u \in Tasks \ {t} : call'[u] = call[u]
          /\ call'[t].intent = i /\ call'[t].pc = "recheck"
      BY <1>7, <1>c DEF ReadAccount, Calls
    <2>2. CallHasEvidence(t)'
      BY <1>7, <1>a, <2>1 DEF ReadAccount, CallHasEvidence
    <2>. QED  BY <1>7, <1>b, <2>1, <2>2, QuietEvidence DEF ReadAccount
  <1>8. CASE GatherCancelEvidence(t)
    <2>1. /\ \A u \in Tasks \ {t} : call'[u] = call[u]
          /\ call'[t].intent = i /\ call'[t].pc = "saveIntent"
      BY <1>8, <1>c DEF GatherCancelEvidence, Calls
    <2>2. CallHasEvidence(t)'
      BY <1>8, <1>a, <2>1 DEF GatherCancelEvidence, CallHasEvidence
    <2>. QED  BY <1>8, <1>b, <2>1, <2>2, QuietEvidence DEF GatherCancelEvidence
  <1>9. CASE SaveIntent(t)
    <2>1. "saveCommand" \in Pcs /\ Goto(t, "saveCommand")
      BY <1>9 DEF SaveIntent, Pcs
    <2>2. row[i].st = "NONE"
      BY <1>9, <1>a DEF SaveIntent, SubmissionInv, NothingBeforeIntent, NoOrder,
                         WellFormed, CallsHoldLock
    <2>3. CallHasEvidence(t)'
      BY <1>9, <1>a, <1>d, <2>1, <2>2 DEF SaveIntent, CallHasEvidence
    <2>. QED  BY <1>9, <1>b, <1>d, <2>1, <2>3, QuietEvidence DEF SaveIntent
  <1>10. CASE SavePending(t)
    <2>1. Pending(t) \in Orders /\ Pending(t).st = "SUBMITTING"
      BY <1>c, QuantityAssumption DEF Pending, Orders, OrderStates, AmbiguousStates
    <2>2. Backed(i, Pending(t))
      BY <2>1 DEF Backed, WorkingStates, TerminalStates, AmbiguousStates
    <2>3. "journalPending" \in Pcs \ {"saveReply"}
      BY DEF Pcs
    <2>. QED  BY <1>10, <1>b, <2>1, <2>2, <2>3, SaveEvidence DEF SavePending
  <1>11. CASE SaveUnknown(t)
    <2>. DEFINE new == [call[t].held EXCEPT !.st = "SUBMISSION_UNKNOWN"]
    <2>1. new \in Orders /\ new.st = "SUBMISSION_UNKNOWN"
      BY <1>c DEF Orders, OrderStates, AmbiguousStates
    <2>. HIDE DEF new
    <2>2. Backed(i, new) /\ "journalUnknown" \in Pcs \ {"saveReply"}
      BY <2>1 DEF Backed, WorkingStates, TerminalStates, AmbiguousStates, Pcs
    <2>3. Save(t, new, "journalUnknown")
      BY <1>11 DEF SaveUnknown, new
    <2>. QED  BY <1>11, <1>b, <2>1, <2>2, <2>3, SaveEvidence DEF SaveUnknown
  <1>12. CASE AuditSave(t)
    <2>. DEFINE new == [call[t].held EXCEPT !.st = "SUBMISSION_UNKNOWN"]
    <2>1. new \in Orders /\ new.st = "SUBMISSION_UNKNOWN"
      BY <1>c DEF Orders, OrderStates, AmbiguousStates
    <2>. HIDE DEF new
    <2>2. Backed(i, new) /\ "auditJournal" \in Pcs \ {"saveReply"}
      BY <2>1 DEF Backed, WorkingStates, TerminalStates, AmbiguousStates, Pcs
    <2>3. Save(t, new, "auditJournal")
      BY <1>12 DEF AuditSave, new
    <2>. QED  BY <1>12, <1>b, <2>1, <2>2, <2>3, SaveEvidence DEF AuditSave
  <1>13. CASE DenySave(t)
    <2>. DEFINE new == [call[t].held EXCEPT !.st = "REJECTED"]
    <2>1. new \in Orders /\ new.st = "REJECTED"
      BY <1>c DEF Orders, OrderStates, TerminalStates
    <2>. HIDE DEF new
    <2>2. sent[i] = 0
      BY <1>13, <1>a DEF DenySave, CallInv, DurableCall
    <2>3. Backed(i, new) /\ "denyJournal" \in Pcs \ {"saveReply"}
      BY <2>1, <2>2 DEF Backed, WorkingStates, TerminalStates, AmbiguousStates, Pcs
    <2>4. Save(t, new, "denyJournal")
      BY <1>13 DEF DenySave, new
    <2>. QED  BY <1>13, <1>b, <2>1, <2>3, <2>4, SaveEvidence DEF DenySave
  <1>14. CASE SaveReply(t)
    <2>1. call[t].held \in seen[i[1]]
      BY <1>14, <1>a DEF SaveReply, CallHasEvidence
    <2>2. Backed(i, call[t].held) /\ "journalReply" \in Pcs \ {"saveReply"}
      BY <2>1 DEF Backed, Pcs
    <2>. QED  BY <1>14, <1>b, <1>c, <2>1, <2>2, SaveEvidence DEF SaveReply
  <1>15. CASE DenyJournal(t)
    BY <1>15, <1>b, FinishEvidence DEF DenyJournal, RecordAndFinish
  <1>16. CASE JournalUnknown(t)
    BY <1>16, <1>b, FinishEvidence DEF JournalUnknown, RecordAndFinish
  <1>17. CASE AuditJournal(t)
    BY <1>17, <1>b, FinishEvidence DEF AuditJournal, RecordAndFinish
  <1>18. CASE JournalReply(t)
    BY <1>18, <1>b, FinishEvidence DEF JournalReply, RecordAndFinish
  <1>19. CASE Submit(t)
    <2>1. "await" \in Pcs /\ Goto(t, "await") /\ i \in Intents
      BY <1>19, <1>a DEF Submit, Pcs, WellFormed, CallsHoldLock
    <2>2. row[i].st = "SUBMITTING"
      BY <1>19, <1>a DEF Submit, CallHasEvidence
    <2>3. sent'[i] > 0 /\ \A j \in Intents : sent'[j] >= sent[j] /\ (j # i => sent'[j] = sent[j])
      BY <1>19, <1>a, <2>1 DEF Submit, WellFormed, TypeOK
    <2>4. RowsComeFromBroker'
      BY <1>19, <2>2, <2>3 DEF Submit, EvidenceInv, RowsComeFromBroker, WorkingStates,
                               TerminalStates, AmbiguousStates
    <2>5. \A j \in wire' : sent'[j] > 0
      BY <1>19, <1>a, <2>3 DEF Submit, EvidenceInv, BrokerHasEvidence, WellFormed, TypeOK
    <2>6. \A p \in Proposals : order[p].st = "NONE" => i # <<p, "cancel">>
      BY <1>19, <1>a DEF Submit, CallHasEvidence
    <2>7. \A p \in Proposals : order[p].st # "NONE" => sent'[Place(p)] > 0
      BY <1>a, <2>3 DEF EvidenceInv, BrokerHasEvidence, Place, Intents, WellFormed, TypeOK
    <2>8. /\ rec.pc \in {"save", "journal"} => sent'[rec.intent] > 0
          /\ upd.pc # "idle" => sent'[upd.intent] > 0
      BY <1>a, <2>3 DEF EvidenceInv, BrokerHasEvidence, WellFormed, TypeOK, OrdersExist
    <2>9. BrokerHasEvidence'
      BY <1>19, <2>5, <2>6, <2>7, <2>8 DEF Submit, EvidenceInv, BrokerHasEvidence
    <2>10. CallHasEvidence(t)'
      BY <1>19, <1>a, <1>d, <2>1 DEF Submit, CallHasEvidence
    <2>. QED  BY <1>19, <1>b, <1>d, <2>1, <2>4, <2>9, <2>10, CallerEvidence DEF Submit
  <1>20. CASE Reply(t)
    <2>1. i \in Intents /\ answer[i] \in seen[i[1]]
      BY <1>20, <1>a DEF Reply, EvidenceInv, BrokerHasEvidence, WellFormed, CallsHoldLock
    <2>2. /\ \A u \in Tasks \ {t} : call'[u] = call[u]
          /\ call'[t].intent = i /\ call'[t].pc = "saveReply" /\ call'[t].held = answer[i]
      BY <1>20, <1>c DEF Reply, Calls
    <2>3. \A j \in Intents : answer'[j] # NoOrder => answer'[j] = answer[j]
      BY <1>20, <1>a, <2>1 DEF Reply, WellFormed, TypeOK
    <2>4. RowsComeFromBroker' /\ BrokerHasEvidence'
      BY <1>20, <2>3 DEF Reply, EvidenceInv, RowsComeFromBroker, BrokerHasEvidence
    <2>5. CallHasEvidence(t)'
      BY <1>20, <1>a, <2>1, <2>2 DEF Reply, CallHasEvidence
    <2>. QED  BY <1>20, <1>b, <2>2, <2>4, <2>5, CallerEvidence DEF Reply
  <1>. QED
    BY <1>1, <1>2, <1>3, <1>4, <1>5, <1>6, <1>7, <1>8, <1>9, <1>10, <1>11, <1>12, <1>13, <1>14, <1>15, <1>16, <1>17, <1>18, <1>19, <1>20 DEF Proceed

\* The ways a call fails.
LEMMA FailEvidence ==
    ASSUME EvidenceInv, NEW t \in Tasks, Fail(t)
    PROVE  EvidenceInv'
  <1>. USE DEF At, control, store, broker
  <1>a. SubmissionInv /\ WellFormed /\ CallHasEvidence(t)
    BY Parts DEF EvidenceInv
  <1>b. SubmissionInv'
    BY <1>a, FailInv
  <1>1. CASE CapabilityDenied(t)
    BY <1>1, <1>b, FinishEvidence DEF CapabilityDenied
  <1>2. CASE UncorrelatedReply(t)
    BY <1>2, <1>b, FinishEvidence DEF UncorrelatedReply
  <1>3. CASE AuditFails(t)
    BY <1>3, <1>b, FinishEvidence DEF AuditFails
  <1>4. CASE Abort(t)
    BY <1>4, <1>b, FinishEvidence DEF Abort
  <1>5. CASE OutcomeUnknown(t)
    <2>1. /\ \A u \in Tasks \ {t} : call'[u] = call[u]
          /\ call'[t].pc = "saveUnknown" /\ call'[t].intent = call[t].intent
      BY <1>5, <1>a, GotoTypes DEF OutcomeUnknown, Pcs
    <2>2. CallHasEvidence(t)'
      BY <1>5, <1>a, <2>1 DEF OutcomeUnknown, CallHasEvidence
    <2>. QED  BY <1>5, <1>b, <2>1, <2>2, QuietEvidence DEF OutcomeUnknown
  <1>6. CASE Interrupted(t)
    <2>1. /\ \A u \in Tasks \ {t} : call'[u] = call[u]
          /\ call'[t].pc = "auditSave" /\ call'[t].intent = call[t].intent
      BY <1>6, <1>a, GotoTypes DEF Interrupted, Pcs
    <2>2. CallHasEvidence(t)'
      BY <1>6, <1>a, <2>1 DEF Interrupted, CallHasEvidence
    <2>. QED  BY <1>6, <1>b, <2>1, <2>2, QuietEvidence DEF Interrupted
  <1>. QED  BY <1>1, <1>2, <1>3, <1>4, <1>5, <1>6 DEF Fail

\* A call starts.
LEMMA CallEvidence ==
    ASSUME EvidenceInv, NEW t \in Tasks, Call(t)
    PROVE  EvidenceInv'
  <1>. USE DEF At, control, store, broker
  <1>a. SubmissionInv /\ WellFormed /\ call \in [Tasks -> Calls]
    BY DEF EvidenceInv, SubmissionInv, WellFormed, TypeOK
  <1>b. SubmissionInv'
    BY <1>a, CallSubmission
  <1>c. ASSUME UNCHANGED <<rec, upd, row, broker>>
        PROVE  RowsComeFromBroker' /\ BrokerHasEvidence'
    BY <1>c DEF EvidenceInv, RowsComeFromBroker, BrokerHasEvidence
  <1>1. ASSUME NEW p \in Proposals, NEW approval \in {"none", "valid"},
               Begin(t, p, approval)
        PROVE  EvidenceInv'
    <2>1. /\ \A u \in Tasks \ {t} : call'[u] = call[u]
          /\ call'[t].pc = "admit" /\ call'[t].intent = Place(p)
      BY <1>1, <1>a DEF Begin, IdleCall
    <2>2. \A u \in Tasks : CallHasEvidence(u)'
      BY <1>1, <2>1 DEF Begin, Place, EvidenceInv, CallHasEvidence
    <2>. QED  BY <1>1, <1>b, <1>c, <2>2 DEF Begin, EvidenceInv
  <1>2. ASSUME NEW p \in Cancellable, NEW target \in seen[p], BeginCancel(t, p, target)
        PROVE  EvidenceInv'
    <2>1. /\ \A u \in Tasks \ {t} : call'[u] = call[u]
          /\ call'[t].pc = "cancelEvidence" /\ call'[t].intent = <<p, "cancel">>
      BY <1>2, <1>a DEF BeginCancel, IdleCall
    <2>2. order[p].st # "NONE"
      BY ProposalsAssumption DEF EvidenceInv, BrokerHasEvidence
    <2>3. \A u \in Tasks : CallHasEvidence(u)'
      BY <1>2, <2>1, <2>2 DEF BeginCancel, EvidenceInv, CallHasEvidence
    <2>. QED  BY <1>2, <1>b, <1>c, <2>3 DEF BeginCancel, EvidenceInv
  <1>3. CASE RefuseCancel(t)
    <2>1. \A u \in Tasks : CallHasEvidence(u)'
      BY <1>3 DEF RefuseCancel, process, EvidenceInv, CallHasEvidence
    <2>. QED  BY <1>3, <1>b, <1>c, <2>1 DEF RefuseCancel, EvidenceInv
  <1>. QED  BY <1>1, <1>2, <1>3, ProceedEvidence, FailEvidence DEF Call

\* A new row by somebody who is not a caller, for a command that was sent.
LEMMA OutsiderRow ==
    ASSUME EvidenceInv, NEW i \in Intents, NEW new \in Orders, sent[i] > 0,
           new \in seen[i[1]], row' = [row EXCEPT ![i] = new],
           UNCHANGED <<call, order, seen, sent>>
    PROVE  RowsComeFromBroker' /\ \A t \in Tasks : CallHasEvidence(t)'
  <1>1. RowsComeFromBroker'
    BY RowBacked DEF EvidenceInv, SubmissionInv, Backed
  <1>2. ASSUME NEW t \in Tasks PROVE CallHasEvidence(t)'
    <2>1. CallInv(t) /\ CallHasEvidence(t) /\ row \in [Intents -> Orders]
      BY Parts DEF EvidenceInv, WellFormed, TypeOK
    <2>2. call[t].pc # "idle" => call[t].intent \in Intents
      BY DEF EvidenceInv, SubmissionInv, WellFormed, CallsHoldLock
    <2>3. call[t].pc \in AfterIntent \union {"denySave"} => call[t].intent # i
      BY <2>1, <2>2 DEF CallInv, DurableCall
    <2>. QED  BY <2>1, <2>2, <2>3 DEF CallHasEvidence, AfterIntent
  <1>. QED  BY <1>1, <1>2

\* Reconciliation and broker updates.
LEMMA ObserverEvidence ==
    ASSUME EvidenceInv, Reconciliation \/ Update
    PROVE  EvidenceInv'
  <1>. USE DEF OutsideLock, process, control, broker
  <1>a. SubmissionInv /\ WellFormed
    BY DEF EvidenceInv, SubmissionInv
  <1>b. SubmissionInv'
    BY <1>a, ObserverSubmission
  <1>c. /\ rec \in Recs /\ upd \in Upds /\ row \in [Intents -> Orders]
        /\ order \in [Proposals -> Orders]
    BY <1>a DEF WellFormed, TypeOK
  <1>d. ASSUME UNCHANGED <<process, row, broker>>
        PROVE  RowsComeFromBroker' /\ \A t \in Tasks : CallHasEvidence(t)'
    BY <1>d DEF EvidenceInv, RowsComeFromBroker, CallHasEvidence
  <1>1. ASSUME NEW i \in Queried \X {"place", "cancel"}, ReconcileBegin(i)
        PROVE  EvidenceInv'
    <2>1. BrokerHasEvidence'
      BY <1>1, <1>c DEF ReconcileBegin, Recs, EvidenceInv, BrokerHasEvidence
    <2>. QED  BY <1>1, <1>b, <1>d, <2>1 DEF ReconcileBegin, EvidenceInv
  <1>2. CASE ReconcileMatch
    <2>. DEFINE p == rec.intent[1]
    <2>1. p \in Proposals /\ rec.intent = Place(p) /\ order[p].st # "NONE"
      BY <1>2, <1>a DEF ReconcileMatch, WellFormed, OrdersExist, Intents
    <2>2. rec'.match = order[p] /\ rec'.intent = rec.intent
      BY <1>2, <1>c DEF ReconcileMatch, Recs
    <2>3. order[p] \in seen[p] /\ sent[rec.intent] > 0
      BY <2>1 DEF EvidenceInv, BrokerHasEvidence
    <2>4. BrokerHasEvidence'
      BY <1>2, <2>1, <2>2, <2>3 DEF ReconcileMatch, EvidenceInv, BrokerHasEvidence
    <2>. QED  BY <1>2, <1>b, <1>d, <2>4 DEF ReconcileMatch, EvidenceInv
  <1>3. CASE ReconcileNegative
    <2>1. BrokerHasEvidence'
      BY <1>3 DEF ReconcileNegative, IdleRec, EvidenceInv, BrokerHasEvidence
    <2>. QED  BY <1>3, <1>b, <1>d, <2>1 DEF ReconcileNegative, EvidenceInv
  <1>4. CASE ReconcileSave
    <2>1. /\ rec.intent \in Intents /\ rec.match \in Orders
          /\ rec.match \in seen[rec.intent[1]] /\ sent[rec.intent] > 0
          /\ rec'.match = rec.match /\ rec'.intent = rec.intent
      BY <1>4, <1>a, <1>c DEF ReconcileSave, Recs, WellFormed, OrdersExist, EvidenceInv,
                              BrokerHasEvidence
    <2>2. RowsComeFromBroker' /\ \A t \in Tasks : CallHasEvidence(t)'
      BY <1>4, <2>1, OutsiderRow DEF ReconcileSave
    <2>3. BrokerHasEvidence'
      BY <1>4, <2>1 DEF ReconcileSave, EvidenceInv, BrokerHasEvidence
    <2>. QED  BY <1>b, <2>2, <2>3 DEF EvidenceInv
  <1>5. CASE ReconcileJournal
    <2>1. BrokerHasEvidence'
      BY <1>5 DEF ReconcileJournal, IdleRec, EvidenceInv, BrokerHasEvidence
    <2>. QED  BY <1>5, <1>b, <1>d, <2>1 DEF ReconcileJournal, EvidenceInv
  <1>6. CASE ReconcileAbandon
    <2>1. BrokerHasEvidence'
      BY <1>6 DEF ReconcileAbandon, IdleRec, EvidenceInv, BrokerHasEvidence
    <2>. QED  BY <1>6, <1>b, <1>d, <2>1 DEF ReconcileAbandon, EvidenceInv
  <1>7. ASSUME NEW p \in Reported, NEW evidence \in BOOLEAN, UpdateBegin(p, evidence)
        PROVE  EvidenceInv'
    <2>1. /\ p \in Proposals /\ Place(p)[1] = p
          /\ upd'.intent = Place(p) /\ upd'.new = order[p]
      BY <1>7, ProposalsAssumption DEF UpdateBegin, Place
    <2>2. order[p].st # "NONE"
      BY <1>7, <1>b, <2>1 DEF UpdateBegin, SubmissionInv, WellFormed, OrdersExist
    <2>3. order[p] \in seen[p] /\ sent[Place(p)] > 0
      BY <2>1, <2>2 DEF EvidenceInv, BrokerHasEvidence
    <2>4. BrokerHasEvidence'
      BY <1>7, <2>1, <2>3 DEF UpdateBegin, EvidenceInv, BrokerHasEvidence
    <2>. QED  BY <1>7, <1>b, <1>d, <2>4 DEF UpdateBegin, EvidenceInv
  <1>8. CASE UpdateJournal
    <2>1. BrokerHasEvidence'
      BY <1>8, <1>c DEF UpdateJournal, Upds, EvidenceInv, BrokerHasEvidence
    <2>. QED  BY <1>8, <1>b, <1>d, <2>1 DEF UpdateJournal, EvidenceInv
  <1>9. CASE UpdateSave
    <2>1. /\ upd.intent \in Intents /\ upd.new \in Orders
          /\ upd.new \in seen[upd.intent[1]] /\ sent[upd.intent] > 0
      BY <1>9, <1>a, <1>c DEF UpdateSave, Upds, WellFormed, OrdersExist, EvidenceInv,
                              BrokerHasEvidence
    <2>2. RowsComeFromBroker' /\ \A t \in Tasks : CallHasEvidence(t)'
      BY <1>9, <2>1, OutsiderRow DEF UpdateSave
    <2>3. BrokerHasEvidence'
      BY <1>9, <2>1 DEF UpdateSave, IdleUpd, EvidenceInv, BrokerHasEvidence
    <2>. QED  BY <1>b, <2>2, <2>3 DEF EvidenceInv
  <1>10. CASE UpdateAbandon
    <2>1. BrokerHasEvidence'
      BY <1>10 DEF UpdateAbandon, IdleUpd, EvidenceInv, BrokerHasEvidence
    <2>. QED  BY <1>10, <1>b, <1>d, <2>1 DEF UpdateAbandon, EvidenceInv
  <1>. QED
    BY <1>1, <1>2, <1>3, <1>4, <1>5, <1>6, <1>7, <1>8, <1>9, <1>10
       DEF Reconciliation, Update

\* A new state of the order of p, which was asked for.
NewOrder(p, new) ==
    /\ new.st # "NONE" /\ sent[Place(p)] > 0
    /\ order'[p] = new /\ \A q \in Proposals \ {p} : order'[q] = order[q]
    /\ new \in seen'[p] /\ \A q \in Proposals : seen[q] \subseteq seen'[q]
    /\ \A q \in Proposals \ {p} : seen'[q] = seen[q]
    /\ wire' \subseteq wire
    /\ \A i \in Intents : answer'[i] = answer[i] \/ (i[1] = p /\ answer'[i] = new)
    /\ UNCHANGED <<call, rec, upd, row, sent>>

\* It leaves everything founded that was.
LEMMA OrderEvidence ==
    ASSUME EvidenceInv, SubmissionInv', NEW p \in Proposals, NEW new \in Orders,
           NewOrder(p, new)
    PROVE  EvidenceInv'
  <1>. USE DEF NewOrder
  <1>1. /\ seen \in [Proposals -> SUBSET Orders] /\ order \in [Proposals -> Orders]
        /\ wire \subseteq Intents
    BY DEF EvidenceInv, SubmissionInv, WellFormed, TypeOK
  <1>2. p \in Proposals
    OBVIOUS
  <1>3. /\ \A i \in Intents : i[1] \in Proposals
        /\ rec.pc # "idle" => rec.intent[1] \in Proposals
        /\ upd.pc # "idle" => upd.intent[1] \in Proposals
        /\ \A t \in Tasks : call[t].pc # "idle" => call[t].intent[1] \in Proposals
    BY DEF EvidenceInv, SubmissionInv, WellFormed, OrdersExist, CallsHoldLock, Intents
  <1>4. RowsComeFromBroker'
    BY <1>2, <1>3 DEF EvidenceInv, RowsComeFromBroker
  <1>5. BrokerHasEvidence'
    BY <1>1, <1>2, <1>3 DEF EvidenceInv, BrokerHasEvidence
  <1>6. \A t \in Tasks : CallHasEvidence(t)'
    BY <1>2, <1>3 DEF EvidenceInv, CallHasEvidence
  <1>. QED  BY <1>4, <1>5, <1>6 DEF EvidenceInv

\* The broker's steps.
LEMMA BrokerEvidence ==
    ASSUME EvidenceInv, SubmissionInv', Broker
    PROVE  EvidenceInv'
  <1>. USE DEF Service, process, control, store
  <1>1. PICK p \in Proposals : BrokerPlaces(p) \/ BrokerCancels(p) \/ BrokerMoves(p)
    BY DEF Broker
  <1>a. /\ order[p] \in Orders /\ answer \in [Intents -> Orders]
        /\ order \in [Proposals -> Orders] /\ seen \in [Proposals -> SUBSET Orders]
    BY DEF EvidenceInv, SubmissionInv, WellFormed, TypeOK
  <1>b. ASSUME NEW new, order' = [order EXCEPT ![p] = new],
               seen' = [seen EXCEPT ![p] = @ \union {new}]
        PROVE  /\ order'[p] = new /\ \A q \in Proposals \ {p} : order'[q] = order[q]
               /\ new \in seen'[p] /\ \A q \in Proposals : seen[q] \subseteq seen'[q]
               /\ \A q \in Proposals \ {p} : seen'[q] = seen[q]
    BY <1>a, <1>b
  <1>2. ASSUME NEW i \in Intents, i[1] = p, NEW new \in Orders, new.st # "NONE",
               sent[Place(p)] > 0, Respond(i, new)
        PROVE  EvidenceInv'
    <2>1. \A j \in Intents : answer'[j] = answer[j] \/ (j[1] = p /\ answer'[j] = new)
      BY <1>2, <1>a DEF Respond
    <2>2. /\ order'[p] = new /\ \A q \in Proposals \ {p} : order'[q] = order[q]
          /\ new \in seen'[p] /\ \A q \in Proposals : seen[q] \subseteq seen'[q]
          /\ \A q \in Proposals \ {p} : seen'[q] = seen[q]
      BY <1>2, <1>b DEF Respond
    <2>3. wire' \subseteq wire /\ UNCHANGED <<call, rec, upd, row, sent>>
      BY <1>2 DEF Respond
    <2>4. NewOrder(p, new)
      BY <1>2, <2>1, <2>2, <2>3 DEF NewOrder
    <2>. QED  BY <1>2, <2>4, OrderEvidence
  <1>3. CASE BrokerPlaces(p)
    <2>1. sent[Place(p)] > 0
      BY <1>3 DEF BrokerPlaces, EvidenceInv, BrokerHasEvidence
    <2>2. \A o \in Placed : o \in Orders /\ o.st # "NONE"
      BY DEF Placed, Orders, OrderStates, WorkingStates, TerminalStates
    <2>. QED  BY <1>2, <1>3, <2>1, <2>2 DEF BrokerPlaces, Place, Intents
  <1>4. CASE BrokerCancels(p)
    <2>. DEFINE new == IF order[p].st \in WorkingStates
                       THEN [order[p] EXCEPT !.st = "CANCELED"] ELSE order[p]
    <2>1. order[p].st # "NONE"
      BY <1>4 DEF BrokerCancels, EvidenceInv, BrokerHasEvidence
    <2>2. new \in Orders /\ new.st # "NONE"
      BY <1>a, <2>1 DEF Orders, OrderStates, TerminalStates
    <2>3. sent[Place(p)] > 0
      BY <2>1 DEF EvidenceInv, BrokerHasEvidence
    <2>. HIDE DEF new
    <2>4. Respond(<<p, "cancel">>, new)
      BY <1>4 DEF BrokerCancels, new
    <2>. QED  BY <1>2, <2>2, <2>3, <2>4 DEF Intents
  <1>5. CASE BrokerMoves(p)
    <2>1. PICK o \in Later(order[p]) : /\ order' = [order EXCEPT ![p] = o]
                                      /\ seen' = [seen EXCEPT ![p] = @ \union {o}]
      BY <1>5 DEF BrokerMoves
    <2>2. o \in Orders /\ o.st # "NONE"
      BY DEF Later, Orders, OrderStates, WorkingStates, TerminalStates
    <2>3. sent[Place(p)] > 0
      BY <1>5 DEF BrokerMoves, EvidenceInv, BrokerHasEvidence, WorkingStates
    <2>4. /\ order'[p] = o /\ \A q \in Proposals \ {p} : order'[q] = order[q]
          /\ o \in seen'[p] /\ \A q \in Proposals : seen[q] \subseteq seen'[q]
          /\ \A q \in Proposals \ {p} : seen'[q] = seen[q]
      BY <2>1, <1>b
    <2>5. UNCHANGED <<call, rec, upd, row, sent, wire, answer>>
      BY <1>5 DEF BrokerMoves
    <2>6. NewOrder(p, o)
      BY <2>2, <2>3, <2>4, <2>5 DEF NewOrder
    <2>. QED  BY <2>2, <2>6, OrderEvidence
  <1>. QED  BY <1>1, <1>3, <1>4, <1>5

\* EvidenceInv is inductive.
LEMMA EvidenceStep ==
    ASSUME EvidenceInv, [Next]_vars
    PROVE  EvidenceInv'
  <1>. USE DEF process, control, store, broker
  <1>a. SubmissionInv /\ WellFormed
    BY DEF EvidenceInv, SubmissionInv
  <1>b. SubmissionInv'
    BY <1>a, SubmissionStep
  <1>1. CASE UNCHANGED vars
    BY <1>1, <1>b DEF vars, EvidenceInv, RowsComeFromBroker, BrokerHasEvidence,
                      CallHasEvidence
  <1>2. ASSUME NEW t \in Tasks, Call(t) PROVE EvidenceInv'
    BY <1>2, CallEvidence
  <1>3. CASE Reconciliation \/ Update
    BY <1>3, ObserverEvidence
  <1>4. CASE Broker
    BY <1>4, <1>b, BrokerEvidence
  <1>5. CASE Controls
    <2>1. /\ UNCHANGED <<rec, upd, row, order, seen, wire, answer, sent>>
          /\ \A t \in Tasks : /\ call'[t].pc = call[t].pc
                              /\ call'[t].intent = call[t].intent
                              /\ call'[t].held = call[t].held
      BY <1>5, <1>a DEF Controls, SetMode, SetClear, SetSafety, ExpireApproval,
                        Uncontrolled, WellFormed, TypeOK, Calls
    <2>. QED  BY <1>b, <2>1 DEF EvidenceInv, RowsComeFromBroker, BrokerHasEvidence,
                                CallHasEvidence
  <1>6. CASE Crash
    <2>1. RowsComeFromBroker' /\ BrokerHasEvidence'
      BY <1>6 DEF Crash, EvidenceInv, RowsComeFromBroker, BrokerHasEvidence, IdleRec,
                  IdleUpd
    <2>2. \A t \in Tasks : CallHasEvidence(t)'
      BY <1>6 DEF Crash, IdleCall, CallHasEvidence
    <2>. QED  BY <1>b, <2>1, <2>2 DEF EvidenceInv
  <1>. QED  BY <1>1, <1>2, <1>3, <1>4, <1>5, <1>6 DEF Next

\* EvidenceInv holds initially.
LEMMA EvidenceInit == Init => EvidenceInv
  <1>1. Init => RowsComeFromBroker /\ BrokerHasEvidence /\ \A t \in Tasks : CallHasEvidence(t)
    BY DEF Init, RowsComeFromBroker, BrokerHasEvidence, CallHasEvidence, NoOrder, IdleRec,
           IdleUpd, IdleCall, WorkingStates, TerminalStates
  <1>. QED  BY <1>1, SubmissionInit DEF EvidenceInv

\* Execution and reconciliation together: the whole inductive invariant.
THEOREM EvidenceInvHolds == Spec => []EvidenceInv
  BY EvidenceInit, EvidenceStep, PTL DEF Spec

\* A durable order row is unresolved, or something the broker really reported, or
\* the denial of a command that was never sent.
THEOREM RowsAreTrue == Spec => []RowsComeFromBroker
  <1>1. EvidenceInv => RowsComeFromBroker
    BY DEF EvidenceInv
  <1>. QED  BY <1>1, EvidenceInvHolds, PTL

-----------------------------------------------------------------------------
(* What governs a write                                                    *)

\* The only step that writes to the broker is Submit, and only for its intent.
LEMMA OnlySubmitWrites ==
    ASSUME WellFormed, [Next]_vars, sent' # sent
    PROVE  \E t \in Tasks : Submit(t)
  <1>. USE DEF process, control, store, broker
  <1>1. ASSUME NEW t \in Tasks, Proceed(t), ~Submit(t) PROVE FALSE
    BY <1>1 DEF Proceed, Admit, GatherEvidence, ReadAccount, Recheck,
       GatherCancelEvidence, SaveIntent, SaveCommand, SavePending, JournalPending,
       GateDenies, DenySave, DenyJournal, Reply, SaveReply, JournalReply, SaveUnknown,
       JournalUnknown, AuditSave, AuditJournal, Save, RecordAndFinish
  <1>2. ASSUME NEW t \in Tasks, Fail(t) PROVE FALSE
    BY <1>2 DEF Fail, CapabilityDenied, UncorrelatedReply, OutcomeUnknown, Interrupted,
       AuditFails, Abort
  <1>3. ASSUME NEW t \in Tasks, Call(t), ~Submit(t) PROVE FALSE
    BY <1>1, <1>2, <1>3 DEF Call, Begin, BeginCancel, RefuseCancel
  <1>4. CASE Reconciliation \/ Update
    BY <1>4 DEF Reconciliation, Update, ReconcileBegin, ReconcileMatch,
       ReconcileNegative, ReconcileSave, ReconcileJournal, ReconcileAbandon,
       UpdateBegin, UpdateJournal, UpdateSave, UpdateAbandon, OutsideLock
  <1>5. CASE Broker
    BY <1>5 DEF Broker, BrokerPlaces, BrokerCancels, BrokerMoves, Respond
  <1>6. CASE Controls
    BY <1>6 DEF Controls, SetMode, SetClear, SetSafety, ExpireApproval, Uncontrolled
  <1>7. CASE Crash \/ UNCHANGED vars
    BY <1>7 DEF Crash, vars
  <1>. QED  BY <1>3, <1>4, <1>5, <1>6, <1>7 DEF Next

\* After an interrupted broker command nothing is written until a restart.
THEOREM LatchHolds == Spec => LatchBlocksWrites
  <1>1. ASSUME EvidenceInv, [Next]_vars, latch # {}, sent' # sent PROVE FALSE
    <2>1. PICK t \in Tasks : Submit(t)
      BY <1>1, OnlySubmitWrites DEF EvidenceInv, SubmissionInv
    <2>2. call[t].intent[2] = "place"
      BY <1>1, <2>1 DEF Submit, At, EvidenceInv, SubmissionInv, LatchStopsCancels,
                        AfterIntent
    <2>. QED  BY <1>1, <2>1, <2>2 DEF Submit, final_gate, placement_gate, preflight
  <1>2. EvidenceInv /\ [Next]_vars => [latch # {} => sent' = sent]_vars
    BY <1>1
  <1>. QED  BY <1>2, EvidenceInvHolds, PTL DEF Spec, LatchBlocksWrites

\* The controls as they stand at the instant of a write permit it.
THEOREM ControlsGovern == Spec => ControlsGovernWrites
  <1>1. ASSUME EvidenceInv, [Next]_vars, NEW i \in Intents, sent'[i] # sent[i]
        PROVE  WritePermittedNow(i)
    <2>1. PICK t \in Tasks : Submit(t)
      BY <1>1, OnlySubmitWrites DEF EvidenceInv, SubmissionInv
    <2>2. /\ i = call[t].intent
          /\ \A u \in Tasks : At(u, "gate") => u = t
      BY <1>1, <2>1 DEF Submit, At, EvidenceInv, SubmissionInv, WellFormed, TypeOK,
                        CallsHoldLock
    <2>3. final_gate(t) /\ i[2] \in {"place", "cancel"}
      BY <2>1 DEF Submit, Intents
    <2>4. CASE i[2] = "place"
      <3>1. placement_gate(t)
        BY <2>2, <2>3, <2>4 DEF final_gate
      <3>. QED  BY <2>2, <2>4, <3>1 DEF placement_gate, preflight, validate_approval,
                                       WritePermittedNow
    <2>5. CASE i[2] = "cancel"
      <3>1. cancel_gate
        BY <2>2, <2>3, <2>5 DEF final_gate
      <3>. QED  BY <2>5, <3>1 DEF cancel_gate, WritePermittedNow
    <2>. QED  BY <2>3, <2>4, <2>5
  <1>2. EvidenceInv /\ [Next]_vars =>
          [\A i \in Intents : sent'[i] # sent[i] => WritePermittedNow(i)]_vars
    BY <1>1
  <1>. QED  BY <1>2, EvidenceInvHolds, PTL DEF Spec, ControlsGovernWrites

\* save_order by a caller concerns the row of its own intent only.
LEMMA SaveRow ==
    ASSUME WellFormed, NEW t \in Tasks, call[t].pc # "idle", NEW new, NEW next,
           Save(t, new, next), NEW i \in Intents
    PROVE  row'[i] = IF i = call[t].intent THEN new ELSE row[i]
  BY DEF Save, WellFormed, TypeOK, CallsHoldLock

\* An unknown submission is resolved by a state the broker's order was in.
THEOREM UnknownNeedsEvidence == Spec => UnknownResolvedByBroker
  <1>1. ASSUME EvidenceInv, [Next]_vars, NEW i \in Intents,
               row[i].st = "SUBMISSION_UNKNOWN", row'[i].st # "SUBMISSION_UNKNOWN"
        PROVE  row'[i] \in seen[i[1]]
    <2>. USE DEF process, control, store, broker
    <2>a. WellFormed /\ row \in [Intents -> Orders]
      BY <1>1 DEF EvidenceInv, SubmissionInv, WellFormed, TypeOK
    <2>b. row' # row
      BY <1>1
    <2>1. ASSUME NEW t \in Tasks, Proceed(t) PROVE row'[i] \in seen[i[1]]
      <3>a. CallHasEvidence(t) /\ call[t].held \in Orders
        BY <1>1, <2>a DEF EvidenceInv, WellFormed, TypeOK, Calls
      <3>1. CASE SavePending(t)
        <4>1. i # call[t].intent
          BY <1>1, <3>1, <3>a DEF SavePending, At, CallHasEvidence
        <4>. QED  BY <1>1, <2>a, <3>1, <4>1, SaveRow DEF SavePending, At
      <3>2. CASE DenySave(t)
        <4>1. i # call[t].intent
          BY <1>1, <3>2, <3>a DEF DenySave, At, CallHasEvidence
        <4>. QED  BY <1>1, <2>a, <3>2, <4>1, SaveRow DEF DenySave, At
      <3>3. CASE SaveReply(t)
        <4>1. call[t].held \in seen[call[t].intent[1]]
          BY <3>3, <3>a DEF SaveReply, At, CallHasEvidence
        <4>. QED  BY <1>1, <2>a, <3>3, <4>1, SaveRow DEF SaveReply, At
      <3>4. CASE SaveUnknown(t) \/ AuditSave(t)
        <4>. DEFINE new == [call[t].held EXCEPT !.st = "SUBMISSION_UNKNOWN"]
        <4>1. new.st = "SUBMISSION_UNKNOWN"
          BY <3>a DEF Orders
        <4>. HIDE DEF new
        <4>2. call[t].pc # "idle" /\ \E next : Save(t, new, next)
          BY <3>4 DEF SaveUnknown, AuditSave, At, new
        <4>. QED  BY <1>1, <2>a, <4>1, <4>2, SaveRow
      <3>. QED
        BY <2>b, <2>1, <3>1, <3>2, <3>3, <3>4
           DEF Proceed, Admit, GatherEvidence, ReadAccount, Recheck,
               GatherCancelEvidence, SaveIntent, SaveCommand, JournalPending, Submit,
               GateDenies, DenyJournal, Reply, JournalReply, JournalUnknown,
               AuditJournal, RecordAndFinish
    <2>2. ASSUME NEW t \in Tasks, Fail(t) PROVE FALSE
      BY <2>b, <2>2 DEF Fail, CapabilityDenied, UncorrelatedReply, OutcomeUnknown,
                        Interrupted, AuditFails, Abort
    <2>3. ASSUME NEW t \in Tasks, Call(t) PROVE row'[i] \in seen[i[1]]
      BY <2>b, <2>1, <2>2, <2>3 DEF Call, Begin, BeginCancel, RefuseCancel
    <2>4. CASE ReconcileSave
      BY <1>1, <2>a, <2>4 DEF ReconcileSave, EvidenceInv, BrokerHasEvidence
    <2>5. CASE UpdateSave
      BY <1>1, <2>a, <2>5 DEF UpdateSave, EvidenceInv, BrokerHasEvidence
    <2>6. CASE Reconciliation \/ Update
      BY <2>b, <2>4, <2>5, <2>6
         DEF Reconciliation, Update, ReconcileBegin, ReconcileMatch, ReconcileNegative,
             ReconcileJournal, ReconcileAbandon, UpdateBegin, UpdateJournal, UpdateAbandon
    <2>7. ~Broker /\ ~Controls /\ ~Crash /\ ~UNCHANGED vars
      <3>1. ~Broker
        BY <2>b DEF Broker, BrokerPlaces, BrokerCancels, BrokerMoves, Respond, Service
      <3>2. ~Controls
        BY <2>b DEF Controls, SetMode, SetClear, SetSafety, ExpireApproval, Uncontrolled
      <3>. QED  BY <2>b, <3>1, <3>2 DEF Crash, vars
    <2>. QED  BY <1>1, <2>3, <2>6, <2>7 DEF Next
  <1>2. EvidenceInv /\ [Next]_vars =>
          [\A i \in Intents :
              row[i].st = "SUBMISSION_UNKNOWN" /\ row'[i].st # "SUBMISSION_UNKNOWN"
                 => row'[i] \in seen[i[1]]]_vars
    BY <1>1
  <1>. QED  BY <1>2, EvidenceInvHolds, PTL DEF Spec, UnknownResolvedByBroker

=============================================================================
