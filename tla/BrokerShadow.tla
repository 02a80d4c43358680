----------------------------- MODULE BrokerShadow -----------------------------
(***************************************************************************)
(* The broker-shadow runtime (app/broker/shadow_runtime.py) with its broker *)
(* (app/broker/shadow.py) and the deny-all firewall: the real account is    *)
(* read and asked for reviews, every order is denied and then applied to a  *)
(* local ledger whose snapshot, and the execution journal, are durable.     *)
(*                                                                         *)
(* dispatch_proposals, monitor_shadow_positions and reconcile hold one      *)
(* lock, so one of them runs at a time; it is a task with the list of its   *)
(* remaining steps, one per await.  Between two steps the real account may  *)
(* change, health() may run, surveillance may fail, the operator may act,   *)
(* and the step may fail, be cancelled, or lose its process.                *)
(***************************************************************************)
EXTENDS Naturals, Sequences, FiniteSets, SequencesExt

CONSTANTS
    Entries, Exits,    \* proposals that open the position, and that close it
    MaxFaults,         \* bound: failed awaits, cancellations, crashes, account changes
    NoProposal, NoLedger

Proposals == Entries \union Exits

ASSUME ShadowAssumption ==
    /\ Entries \intersect Exits = {}
    /\ NoProposal \notin Proposals
    /\ NoLedger \notin [Proposals -> {"none", "OPEN", "FILLED", "REJECTED"}]
    /\ MaxFaults \in Nat

VARIABLES
    real,       \* the real account: "clean", "noise" (differs, still reconciles), "dirty"
    faults,     \* disturbances left
    proposals,  \* trade_proposals
    intent, command, denied,  \* order_intents, broker_command_intents, firewall denials
    row,        \* orders: the latest row of each intent
    rejects,    \* the intents whose local rejection has its transition record
    saved,      \* the latest ledger snapshot
    ledger,     \* the orders of the ledger in memory
    dirty,      \* _state_dirty
    mem,        \* _initialized, _requires_reconciliation, _journal_healthy
    view,       \* the runtime view's health flags
    controls,   \* what mode, kill switch and safety state permit
    latch,      \* the interrupted-write latch is set
    review,     \* last_review_evidence
    task, probe \* the holder of the operation lock; a running health()

durable == <<proposals, intent, command, denied, row, rejects, saved>>
volatile == <<ledger, dirty, mem, view, latch, review>>
world == <<real, faults>>
vars == <<world, durable, volatile, controls, task, probe>>

NoReview == [p |-> NoProposal, verdict |-> "none"]
NoTask == [op |-> "none", p |-> NoProposal, before |-> "none", todo |-> <<>>]
Empty == [p \in Proposals |-> "none"]
OrdersIn(L) == {p \in Proposals : L[p] # "none"}
Position(L) == (\E p \in Entries : L[p] = "FILLED") /\ ~(\E p \in Exits : L[p] = "FILLED")

-----------------------------------------------------------------------------
(* Health, and what the durable rows prove.                                *)

\* _execution_healthcheck, on the flags it reads.
Healthy(m, v, dirt) ==
    /\ m.initialized /\ ~m.requires /\ m.journal
    /\ saved # NoLedger /\ ~dirt
    /\ v.db /\ v.fresh /\ v.reconciled /\ ~v.unresolved

\* unresolved_intents
Unresolved == {p \in intent : p \notin command \/ row[p] \in {"none", "SUBMITTING", "UNKNOWN"}}

\* The proof _sync_execution_journal demands for a row the ledger does not have.
LocallyRejected(p) == row[p] = "REJECTED_LOCAL" /\ p \in command /\ p \in rejects

-----------------------------------------------------------------------------
(* Steps of a task.                                                        *)

At(step) == task.todo # <<>> /\ Head(task.todo) = step
Todo(rest) == task' = [task EXCEPT !.todo = rest]
Advance == IF Len(task.todo) = 1 THEN task' = NoTask ELSE Todo(Tail(task.todo))
Quiet == UNCHANGED <<world, probe>>

Consume == <<"quote", "persist", "sync", "syncing">>
Dispatching ==
    <<"preflight", "report">> \o Consume
    \o <<"risk", "review", "persist", "before", "after", "save_review">>
    \o Consume
    \o <<"recheck", "intent", "command", "pending", "gate",
         "deny", "apply", "persist", "row", "row_log", "sync", "syncing">>
Rejecting == <<"reject_row", "reject_log">>

\* Mutant: a ledger left unpersisted by a failed write is not flushed.
ReconcilingUnflushed == <<"report", "bind", "sync", "syncing", "finish">>

Reconciling == <<"flush", "report", "bind", "sync", "syncing", "finish">>
Placing == "row_log" \in ToSet(task.todo) /\ "gate" \notin ToSet(task.todo)

\* Mutant: a denial never looks at what the review observed.
DenyForgets ==
    /\ task' = NoTask
    /\ controls' = IF latch THEN "halted" ELSE controls
    /\ UNCHANGED <<mem, view>>

\* ExecutionDenied in _dispatch; the interrupted-write latch stops the runtime as well.
Deny ==
    /\ task' = NoTask
    /\ controls' = IF latch \/ review.verdict = "changed" THEN "halted" ELSE controls
    /\ IF review.verdict = "changed"
       THEN /\ mem' = [mem EXCEPT !.requires = TRUE]
            /\ view' = [view EXCEPT !.reconciled = FALSE, !.exec = FALSE]
       ELSE UNCHANGED <<mem, view>>

Permitted == Healthy(mem, view, dirty) /\ controls = "permit" /\ ~latch

Preflight ==
    /\ At("preflight")
    /\ IF Permitted THEN Advance /\ UNCHANGED <<mem, view, controls>> ELSE Deny
    /\ Quiet /\ UNCHANGED <<durable, ledger, dirty, latch, review>>

\* broker.reconcile: the real account, and the ledger's own dirty flag.
Reconciles == real # "dirty" /\ ~dirty

Report ==
    /\ At("report")
    /\ IF task.op = "dispatch"
       THEN /\ IF Reconciles THEN Advance /\ UNCHANGED <<mem, view, controls>> ELSE Deny
       ELSE /\ IF Reconciles
               THEN Advance /\ UNCHANGED mem
               ELSE Todo(<<"finish">>) /\ mem' = [mem EXCEPT !.journal = FALSE]
            /\ UNCHANGED <<view, controls>>
    /\ Quiet /\ UNCHANGED <<durable, ledger, dirty, latch, review>>

\* consume_quote: the ledger may fill what is open; refused over an unpersisted mutation.
Quote ==
    /\ At("quote")
    /\ ~dirty
    /\ dirty' = TRUE
    /\ \E filled \in SUBSET {p \in Proposals : ledger[p] = "OPEN"} :
         ledger' = [p \in Proposals |-> IF p \in filled THEN "FILLED" ELSE ledger[p]]
    /\ Advance
    /\ Quiet /\ UNCHANGED <<durable, mem, view, controls, latch, review>>

Persist ==
    /\ \/ At("persist")
       \/ At("flush") /\ dirty
       \/ At("bind") /\ saved = NoLedger
    /\ saved' = ledger
    /\ dirty' = FALSE
    /\ Advance
    /\ Quiet
    /\ UNCHANGED <<proposals, intent, command, denied, row, rejects, ledger, mem, view,
                   controls, latch, review>>

NothingToPersist ==
    /\ \/ At("flush") /\ ~dirty
       \/ At("bind") /\ saved # NoLedger
    /\ Advance
    /\ Quiet /\ UNCHANGED <<durable, volatile, controls>>

SyncBegin ==
    /\ At("sync")
    /\ mem' = [mem EXCEPT !.journal = FALSE]
    /\ Advance
    /\ Quiet /\ UNCHANGED <<durable, ledger, dirty, view, controls, latch, review>>

Unsynced == {p \in OrdersIn(ledger) : row[p] # ledger[p]}

\* Every row that is not an order of the ledger was rejected before the broker.
RowsExplained == \A p \in Proposals \ OrdersIn(ledger) : row[p] = "none" \/ LocallyRejected(p)

SyncRow ==
    /\ At("syncing")
    /\ \E p \in Unsynced :
         /\ p \in intent /\ p \in command
         /\ row' = [row EXCEPT ![p] = ledger[p]]
    /\ Quiet
    /\ UNCHANGED <<proposals, intent, command, denied, rejects, saved, volatile, controls, task>>

SyncEnd ==
    /\ At("syncing")
    /\ Unsynced = {}
    /\ RowsExplained
    /\ mem' = [mem EXCEPT !.journal = TRUE]
    /\ Advance
    /\ Quiet /\ UNCHANGED <<durable, ledger, dirty, view, controls, latch, review>>

Risk ==
    /\ At("risk")
    /\ \/ Advance /\ UNCHANGED <<mem, view, controls>>
       \/ Deny
    /\ Quiet /\ UNCHANGED <<durable, ledger, dirty, latch, review>>

\* After the review: risk again on the new quote, an unchanged mode, preflight, approval.
Recheck ==
    /\ At("recheck")
    /\ \/ Permitted /\ Advance /\ UNCHANGED <<mem, view, controls>>
       \/ Deny
    /\ Quiet /\ UNCHANGED <<durable, ledger, dirty, latch, review>>

\* The ledger's own review is a mutation of the ledger.
ReviewLedger ==
    /\ At("review")
    /\ ~dirty
    /\ dirty' = TRUE
    /\ Advance
    /\ Quiet /\ UNCHANGED <<durable, ledger, mem, view, controls, latch, review>>

ReadBefore ==
    /\ At("before")
    /\ task' = [task EXCEPT !.before = real, !.todo = Tail(@)]
    /\ Quiet /\ UNCHANGED <<durable, volatile, controls>>

Verdict(before, after) == IF before = after THEN "ok" ELSE "changed"

\* The broker's review and the reads after it; an error in them leaves no second hash.
ReadAfter ==
    /\ At("after")
    /\ \E v \in {Verdict(task.before, real), "partial"} \union
                (IF Verdict(task.before, real) = "ok" THEN {"refused"} ELSE {}) :
         review' = [p |-> task.p, verdict |-> v]
    /\ Advance
    /\ Quiet /\ UNCHANGED <<durable, ledger, dirty, mem, view, controls, latch>>

\* The evidence row and the review row, then the decision on them.
SaveReview ==
    /\ At("save_review")
    /\ IF review.verdict = "ok" THEN Advance /\ UNCHANGED <<mem, view, controls>> ELSE Deny
    /\ Quiet /\ UNCHANGED <<durable, ledger, dirty, latch, review>>

SaveIntent ==
    /\ At("intent")
    /\ intent' = intent \union {task.p}
    /\ Advance
    /\ Quiet
    /\ UNCHANGED <<proposals, command, denied, row, rejects, saved, volatile, controls>>

SaveCommand ==
    /\ At("command")
    /\ command' = command \union {task.p}
    /\ Advance
    /\ Quiet
    /\ UNCHANGED <<proposals, intent, denied, row, rejects, saved, volatile, controls>>

SavePending ==
    /\ At("pending")
    /\ row' = [row EXCEPT ![task.p] = "SUBMITTING"]
    /\ Advance
    /\ Quiet
    /\ UNCHANGED <<proposals, intent, command, denied, rejects, saved, volatile, controls>>

FinalGate ==
    /\ At("gate")
    /\ \/ Permitted /\ Advance
       \/ Todo(Rejecting)      \* a denied preflight, or risk evidence that expired
    /\ controls' = IF latch THEN "halted" ELSE controls
    /\ Quiet /\ UNCHANGED <<durable, volatile>>

RejectRow ==
    /\ At("reject_row")
    /\ row' = [row EXCEPT ![task.p] = "REJECTED_LOCAL"]
    /\ Advance
    /\ Quiet
    /\ UNCHANGED <<proposals, intent, command, denied, rejects, saved, volatile, controls>>

RejectLog ==
    /\ At("reject_log")
    /\ rejects' = rejects \union {task.p}
    /\ Deny
    /\ Quiet
    /\ UNCHANGED <<proposals, intent, command, denied, row, saved, ledger, dirty, latch, review>>

\* Mutant: the ledger is opened for the order before the denial is on disk.
DenyWriteLater ==
    /\ At("deny")
    /\ ~dirty
    /\ dirty' = TRUE
    /\ Advance
    /\ Quiet /\ UNCHANGED <<durable, ledger, mem, view, controls, latch, review>>

\* place_option_order up to _begin_mutation: the denial needs the durable command.
DenyWrite ==
    /\ At("deny")
    /\ ~dirty
    /\ task.p \in command
    /\ denied' = denied \union {task.p}
    /\ dirty' = TRUE
    /\ Advance
    /\ Quiet
    /\ UNCHANGED <<proposals, intent, command, row, rejects, saved, ledger, mem, view, controls,
                   latch, review>>

\* The command is recorded again (idempotently), then the ledger accepts or rejects.
Apply ==
    /\ At("apply")
    /\ \E s \in {"OPEN", "REJECTED"} : ledger' = [ledger EXCEPT ![task.p] = s]
    /\ Advance
    /\ Quiet /\ UNCHANGED <<durable, dirty, mem, view, controls, latch, review>>

SaveRow ==
    /\ At("row")
    /\ row' = [row EXCEPT ![task.p] = ledger[task.p]]
    /\ Advance
    /\ Quiet
    /\ UNCHANGED <<proposals, intent, command, denied, rejects, saved, volatile, controls>>

LogRow ==
    /\ At("row_log")
    /\ Advance
    /\ Quiet /\ UNCHANGED <<durable, volatile, controls>>

-----------------------------------------------------------------------------
(* Reconciliation, monitoring and the start of a dispatch.                 *)

\* reconcile up to the healthcheck of the database, which may be down.
ReconcileBegin ==
    /\ task = NoTask
    /\ mem' = [mem EXCEPT !.requires = TRUE]
    /\ \E up \in {TRUE, faults = 0} :
         /\ view' = [view EXCEPT !.reconciled = FALSE, !.db = up,
                                !.exec = IF up THEN @ ELSE FALSE]
         /\ task' = IF up THEN [NoTask EXCEPT !.op = "reconcile", !.todo = Reconciling] ELSE NoTask
         /\ faults' = IF up THEN faults ELSE faults - 1
    /\ UNCHANGED <<real, probe, durable, ledger, dirty, controls, latch, review>>

\* Mutant: a journal that was synchronised is enough.
FinishIgnoresIntents ==
    /\ At("finish")
    /\ LET success == mem.journal
           m == [mem EXCEPT !.initialized = @ \/ success, !.requires = ~success]
           v == [view EXCEPT !.unresolved = FALSE, !.reconciled = success]
       IN /\ mem' = m
          /\ view' = [v EXCEPT !.exec = Healthy(m, v, dirty)]
    /\ Advance
    /\ Quiet /\ UNCHANGED <<durable, ledger, dirty, controls, latch, review>>

Finish ==
    /\ At("finish")
    /\ LET open == Unresolved # {}
           success == mem.journal /\ ~open
           m == [mem EXCEPT !.initialized = @ \/ success, !.requires = ~success]
           v == [view EXCEPT !.unresolved = open, !.reconciled = success]
       IN /\ mem' = m
          /\ view' = [v EXCEPT !.exec = Healthy(m, v, dirty)]
    /\ Advance
    /\ Quiet /\ UNCHANGED <<durable, ledger, dirty, controls, latch, review>>

\* scan_current_market with a good surveillance tick, up to the first quote.
Scan ==
    /\ task = NoTask
    /\ IF mem.initialized /\ ~mem.requires
       THEN /\ view' = [view EXCEPT !.fresh = TRUE]
            /\ task' = [NoTask EXCEPT !.op = "monitor", !.todo =
                 (IF Position(ledger) \/ \E p \in Proposals : ledger[p] = "OPEN"
                  THEN Consume ELSE <<>>) \o <<"exits">>]
       ELSE /\ view' = [view EXCEPT !.fresh = FALSE, !.exec = FALSE]
            /\ UNCHANGED task
    /\ Quiet /\ UNCHANGED <<durable, ledger, dirty, mem, controls, latch, review>>

\* _propose_exits, unless a sell order is working, and the refreshed view.
ProposeExits ==
    /\ At("exits")
    /\ \/ UNCHANGED proposals
       \/ /\ Position(ledger)
          /\ ~\E p \in Exits : ledger[p] = "OPEN"
          /\ \E p \in Exits : proposals' = proposals \union {p}
    /\ view' = [view EXCEPT !.exec = Healthy(mem, view, dirty)]
    /\ Advance
    /\ Quiet
    /\ UNCHANGED <<intent, command, denied, row, rejects, saved, ledger, dirty, mem, controls,
                   latch, review>>

\* A proposal of the research queue.
AddProposal ==
    /\ \E p \in Entries \ proposals : proposals' = proposals \union {p}
    /\ Quiet
    /\ UNCHANGED <<intent, command, denied, row, rejects, saved, volatile, controls, task>>

Dispatch ==
    /\ task = NoTask
    /\ view.exec /\ view.reconciled
    /\ \E p \in proposals \ intent :
         task' = [NoTask EXCEPT !.op = "dispatch", !.p = p, !.todo = Dispatching]
    /\ Quiet /\ UNCHANGED <<durable, volatile, controls>>

Abandon ==
    /\ task' = NoTask
    /\ view' = IF task.op = "monitor" THEN [view EXCEPT !.fresh = FALSE, !.exec = FALSE] ELSE view

\* A check that raises: an unpersisted mutation, an order without its command, or a
\* row that the ledger does not have.
Raise ==
    /\ \/ dirty /\ (At("quote") \/ At("review") \/ At("deny"))
       \/ At("syncing") /\ \E p \in Unsynced : p \notin intent \intersect command
       \/ At("syncing") /\ Unsynced = {} /\ ~RowsExplained
    /\ Abandon
    /\ Quiet /\ UNCHANGED <<durable, ledger, dirty, mem, controls, latch, review>>

Step ==
    \/ Preflight \/ Report \/ Quote \/ Persist \/ NothingToPersist
    \/ SyncBegin \/ SyncRow \/ SyncEnd \/ Risk \/ Recheck
    \/ ReviewLedger \/ ReadBefore \/ ReadAfter \/ SaveReview
    \/ SaveIntent \/ SaveCommand \/ SavePending
    \/ FinalGate \/ RejectRow \/ RejectLog
    \/ DenyWrite \/ Apply \/ SaveRow \/ LogRow
    \/ Finish \/ ProposeExits \/ Raise

-----------------------------------------------------------------------------
(* What happens around a task.                                             *)

\* health() takes no lock: what it read may be old when it is written.
HealthRead ==
    /\ probe = "none"
    /\ probe' = IF Unresolved = {} THEN "resolved" ELSE "unresolved"
    /\ UNCHANGED <<world, durable, volatile, controls, task>>

HealthWrite ==
    /\ probe # "none"
    /\ LET v == [view EXCEPT !.db = TRUE, !.unresolved = (probe = "unresolved")]
       IN view' = [v EXCEPT !.exec = Healthy(mem, v, dirty)]
    /\ probe' = "none"
    /\ UNCHANGED <<world, durable, ledger, dirty, mem, controls, latch, review, task>>

RealChanges ==
    /\ real' \in {"clean", "noise", "dirty"} \ {real}
    /\ UNCHANGED <<durable, volatile, controls, task, probe>>

\* Mode, kill switch and safety commands of the operator.
Operator ==
    /\ controls' \in (IF controls = "permit" THEN {"block"} ELSE {"permit"})
    /\ UNCHANGED <<world, durable, volatile, task, probe>>

\* A failed surveillance tick of scan_current_market.
ScanFails ==
    /\ view' = [view EXCEPT !.fresh = FALSE, !.exec = FALSE]
    /\ UNCHANGED <<durable, ledger, dirty, mem, controls, latch, review, task, probe>>

\* An await that fails or times out.
AwaitFails ==
    /\ task # NoTask
    /\ Abandon
    /\ UNCHANGED <<durable, ledger, dirty, mem, controls, latch, review, probe>>

\* Cancellation inside a placement: _record_interrupted_write, whose row is best effort.
PlacementCancelled ==
    /\ Placing
    /\ latch' = TRUE
    /\ controls' = "halted"
    /\ \/ row' = [row EXCEPT ![task.p] = "UNKNOWN"]
       \/ UNCHANGED row
    /\ task' = NoTask
    /\ UNCHANGED <<proposals, intent, command, denied, rejects, saved, ledger, dirty, mem, view,
                   review, probe>>

NewProcess(L) ==
    /\ ledger' = L
    /\ dirty' = FALSE
    /\ mem' = [initialized |-> FALSE, requires |-> TRUE, journal |-> FALSE]
    /\ view' = [db |-> FALSE, fresh |-> FALSE, reconciled |-> FALSE, unresolved |-> FALSE,
                exec |-> FALSE]
    /\ controls' = "block"
    /\ latch' = FALSE
    /\ review' = NoReview
    /\ task' = NoTask
    /\ probe' = "none"

\* create(): the latest snapshot, or a new ledger.
Restart ==
    /\ NewProcess(IF saved = NoLedger THEN Empty ELSE saved)
    /\ UNCHANGED durable

Fault ==
    /\ faults > 0
    /\ faults' = faults - 1
    /\ \/ (ScanFails \/ AwaitFails \/ PlacementCancelled \/ Restart) /\ UNCHANGED real
       \/ RealChanges

Init ==
    /\ real = "clean" /\ faults = MaxFaults
    /\ proposals = {} /\ intent = {} /\ command = {} /\ denied = {} /\ rejects = {}
    /\ row = Empty
    /\ saved = NoLedger
    /\ ledger = Empty /\ dirty = FALSE
    /\ mem = [initialized |-> FALSE, requires |-> TRUE, journal |-> FALSE]
    /\ view = [db |-> FALSE, fresh |-> FALSE, reconciled |-> FALSE, unresolved |-> FALSE,
              exec |-> FALSE]
    /\ controls = "block" /\ latch = FALSE /\ review = NoReview
    /\ task = NoTask /\ probe = "none"

Next ==
    \/ Step \/ ReconcileBegin \/ Scan \/ AddProposal \/ Dispatch
    \/ HealthRead \/ HealthWrite \/ Operator \/ Fault

Spec == Init /\ [][Next]_vars

\* A task that holds the lock is scheduled until it ends.
FairSpec == Spec /\ WF_vars(Step)

-----------------------------------------------------------------------------
\* The abstract specification, with the durable tables as its state.
Journal == INSTANCE ShadowJournal WITH
    Orders <- Proposals,
    intents <- intent, commands <- command, denials <- denied,
    refused <- {p \in Proposals : row[p] = "REJECTED_LOCAL"},
    orders <- IF saved = NoLedger THEN Empty ELSE saved,
    rows <- row

\* The runtime implements ShadowJournal: whatever fails, is cancelled or restarts, the
\* snapshot gains an order only behind its intent, exact command and denial
\* (BROKER_SHADOW.md: "persisted as a `BrokerCommandIntent`, denied, and then applied
\* only to the isolated ShadowLedger"), no order goes back, and a row only
\* says what the snapshot on disk says.
ImplementsJournal == Journal!Spec

\* The journal is called reconciled only if each intent ended in the ledger or in a
\* proven local rejection (until the next dispatch starts to write).
ReconciledIsComplete ==
    [][view'.reconciled /\ ~view.reconciled =>
         \A p \in intent : row[p] \in {ledger[p]} \ {"none"} \/ LocallyRejected(p)]_vars

\* The durable evidence that lets a reconciliation succeed: every intent has its
\* command, and is in the ledger or rejected on record.
Complete == \A p \in intent : p \in command /\ (ledger[p] # "none" \/ LocallyRejected(p))

\* Without further faults, a reconciliation started over complete evidence succeeds: an
\* unpersisted ledger is flushed and an UNKNOWN row of a ledger order is resolved.
Recovers ==
    (task.todo = Reconciling /\ faults = 0 /\ real # "dirty" /\ Complete)
        ~> view.reconciled

\* A dispatch whose review saw the real account change ends in a halt that only an
\* operator lifts (shadow_runtime.py _dispatch), unless an await of it failed first: the
\* evidence and review rows are written between the observation and the halt.
ObservedChangeHalts ==
    [][task.op = "dispatch" /\ task' = NoTask /\ faults' = faults
         /\ review = [p |-> task.p, verdict |-> "changed"] => controls' = "halted"]_vars
=============================================================================
