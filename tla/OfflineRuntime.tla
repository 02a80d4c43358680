--------------------------- MODULE OfflineRuntime ---------------------------
(***************************************************************************)
(* The offline demo: OfflineRuntime (app/demo/runtime.py) over the         *)
(* SimulatedBroker (app/broker/simulated.py), the finite replay session    *)
(* (app/sentinel/offline.py) and the durable execution store.              *)
(*                                                                         *)
(* db is what survives a crash: the proposals, the evidence of each        *)
(* proposal's intent and command, its latest order row, the journaled      *)
(* local denials, the fill rows, the reviewed outcomes and the latest      *)
(* runtime snapshot.  mem is the process: the ledger, the virtual clock,   *)
(* the replay cursor, the quotes consumed and the flags that the health    *)
(* gate reads.  reconcile, step, dispatch_proposals and             *)
(* review_closed_positions hold the runtime's lock, so one operation runs  *)
(* at a time, one action per await; any await may fail, be cancelled, or   *)
(* be the last thing the process did.                                      *)
(*                                                                         *)
(* The view the controller keeps (mode, approvals, kill switch, freshness, *)
(* unresolved_submission) can deny a proposal at any of its gates and is   *)
(* left free.                                                              *)
(***************************************************************************)
EXTENDS LedgerOps, RiskEngine, PositionManager, ClosedTrades

CONSTANTS Candidates,  \* the quote of each event whose research proposes an entry
          Fixture,     \* timestamp groups: [at, quotes], in replay order
          MaxFaults    \* bound on failures, cancellations and crashes

QuotesOf(groups) ==
    UNION {{Fixture[g].quotes[j] : j \in DOMAIN Fixture[g].quotes} : g \in groups}

\* The proposal ids: derived from the event of an entry, the quote of an exit.
entry(e) == <<"entry", e>>
exit(q) == <<"exit", q.id>>

ASSUME RuntimeAssumption ==
    /\ Keys = {entry(e) : e \in DOMAIN Candidates}
                 \cup {exit(q) : q \in QuotesOf(DOMAIN Fixture)}
    /\ Fixture \in Seq([at : Nat, quotes : Seq(Quotes)]) /\ Fixture # <<>>
    /\ Orderly(QuotesOf(DOMAIN Fixture))
    /\ MaxFaults \in Nat
    \* records become available in sequence order, none before it is effective
    /\ \A g \in DOMAIN Fixture :
          /\ g > 1 => Fixture[g].at > Fixture[g - 1].at
          /\ \A j \in DOMAIN Fixture[g].quotes :
                /\ Fixture[g].quotes[j].obs = Fixture[g].at
                /\ Fixture[g].quotes[j].eff <= Fixture[g].at

VARIABLES db, mem, run, faults
vars == <<db, mem, run, faults>>

NoRow == [st |-> "NONE", filled |-> 0]
NoTerms == [side |-> "NONE"]
IdleRun == [op |-> "idle", pc |-> "idle", p |-> "none", i |-> 0]
Operation(op, pc, p) == [op |-> op, pc |-> pc, p |-> p, i |-> 1]
Unsettled == {"SUBMITTING", "SUBMISSION_UNKNOWN"}

-----------------------------------------------------------------------------
Published(L, p) ==
    [st |-> L.orders[L.keys[p]].st, filled |-> L.orders[L.keys[p]].filled]

LedgerOrders(L) == {p \in Keys : L.keys[p] # 0}

Complete(m) == m.cursor = Len(Fixture)
Group(m) == Fixture[m.cursor + 1]

\* PostgresExecutionStore.unresolved_intents
unresolved_intents ==
    {p \in Keys : db.evidence[p] # "none"
                       /\ (db.evidence[p] = "intent" \/ db.row[p].st \in Unsettled \cup {"NONE"})}

\* Durable orders the ledger does not know and no local denial explains.
Missing ==
    {p \in Keys \ LedgerOrders(mem.ledger) :
        /\ db.row[p] # NoRow
        /\ ~(db.row[p] = [st |-> "REJECTED", filled |-> 0] /\ p \in db.denied)}

\* The part of the execution gates that the runtime keeps: its healthcheck, and the
\* interruption latch of the execution service.
healthcheck(m) ==
    /\ ~m.dirty /\ m.ckptOk /\ m.jh /\ ~m.needs /\ m.latch = {}
    /\ ~Complete(m)

\* OfflineRuntimeSnapshot: the ledger and the replay checkpoint in one row.
SnapshotAt(m, cursor) == [ledger |-> m.ledger, cursor |-> cursor, at |-> m.clock]

replay_time(cursor) == Fixture[Max({1, cursor})].at

ConsumedBefore(cursor) == {q.id : q \in QuotesOf(1..cursor)}

\* ReplayMarketDataProvider: the records observed and effective at the clock.
visible_quotes(i, now) ==
    {r \in QuotesOf(DOMAIN Fixture) : r.inst = i /\ r.obs <= now /\ r.eff <= now}

\* The latest of them.
get_option_quote(i, now) ==
    CHOOSE q \in visible_quotes(i, now) :
        \A r \in visible_quotes(i, now) :
            \/ r.eff < q.eff
            \/ r.eff = q.eff /\ r.obs < q.obs
            \/ r.eff = q.eff /\ r.obs = q.obs /\ r.id <= q.id

\* Mutant of Restored: the clock starts at the last whole group.
MutForgetsTime(s) ==
    [ledger |-> s.ledger, cursor |-> s.cursor, clock |-> replay_time(s.cursor),
     consumed |-> ConsumedBefore(s.cursor), dirty |-> FALSE, ckptOk |-> TRUE,
     jh |-> FALSE, needs |-> TRUE, init |-> FALSE, latch |-> {}]

\* OfflineRuntime.create from a durable snapshot.
Restored(s) ==
    [ledger |-> s.ledger, cursor |-> s.cursor,
     clock |-> Max({replay_time(s.cursor), s.at}),
     consumed |-> ConsumedBefore(s.cursor), dirty |-> FALSE, ckptOk |-> TRUE,
     jh |-> FALSE, needs |-> TRUE, init |-> FALSE, latch |-> {}]

\* ShadowLedger.restore_state: no snapshot from the future, no key or fill of an absent
\* order, no quote newer than the snapshot, no discrepancy in the restored books.
ledger_accepts(s, m) ==
    /\ s.at <= m.clock
    /\ \A p \in LedgerOrders(s.ledger) : s.ledger.keys[p] \in DOMAIN s.ledger.orders
    /\ \A j \in DOMAIN s.ledger.fills : s.ledger.fills[j].order \in DOMAIN s.ledger.orders
    /\ \A i \in Instruments : s.ledger.quotes[i] # NoQuote =>
          s.ledger.quotes[i].obs <= s.at /\ s.ledger.quotes[i].eff <= s.at
    /\ invariant_discrepancies(s.ledger) = {}

\* OfflineReplaySession._restore: the clock has not passed the next group, and a
\* completed replay stands at its last time.
session_accepts(m) ==
    /\ m.clock >= replay_time(m.cursor)
    /\ IF Complete(m) THEN m.clock = replay_time(m.cursor) ELSE m.clock <= Group(m).at

FirstSnapshot == [ledger |-> NewLedger, cursor |-> 0, at |-> Fixture[1].at]

Init ==
    /\ db = [proposals |-> [p \in Keys |-> NoTerms],
             evidence |-> [p \in Keys |-> "none"],
             row |-> [p \in Keys |-> NoRow],
             denied |-> {}, fills |-> <<>>, outcomes |-> {}, snap |-> FirstSnapshot]
    /\ mem = Restored(FirstSnapshot)
    /\ run = IdleRun /\ faults = 0

-----------------------------------------------------------------------------
Idle == run.op = "idle"
At(op, pc) == run.op = op /\ run.pc = pc
Goto(pc) == run' = [run EXCEPT !.pc = pc]
Finish == run' = IdleRun

\* Mutant of Failed: an exception leaves the flags as they were.
MutFailed(m) == m

\* step and dispatch_proposals answer any exception with these flags; reconcile
\* has raised _requires_reconciliation before it could fail, and a review sets none.
Failed(m) ==
    IF run.op \in {"reconcile", "review"} THEN m
    ELSE [m EXCEPT !.jh = FALSE, !.needs = TRUE]

\* _persist: the append committed and the process knows it.  A ledger append
\* (SimulatedBroker._persist_state) also clears the broker's dirty flag.
Persist(m, cursor) ==
    /\ db' = [db EXCEPT !.snap = SnapshotAt(m, cursor)]
    /\ mem' = [m EXCEPT !.ckptOk = TRUE]
    /\ UNCHANGED faults

PersistLedger(m) == Persist([m EXCEPT !.dirty = FALSE], m.cursor)

Fault == faults < MaxFaults /\ faults' = faults + 1

-----------------------------------------------------------------------------
\* reconcile

\* Mutant of ReconcileBegin: an unpersisted ledger is not flushed first.
MutNeverFlushes ==
    /\ Idle
    /\ run' = Operation("reconcile", "sync", "none")
    /\ mem' = [mem EXCEPT !.needs = TRUE, !.jh = FALSE]
    /\ UNCHANGED <<db, faults>>

ReconcileBegin ==
    /\ Idle
    /\ LET flush == mem.dirty \/ ~mem.ckptOk
       IN /\ run' = Operation("reconcile", IF flush THEN "flush" ELSE "sync", "none")
          /\ mem' = [mem EXCEPT !.needs = TRUE, !.jh = flush /\ @]
    /\ UNCHANGED <<db, faults>>

Flush ==
    /\ At("reconcile", "flush")
    /\ PersistLedger([mem EXCEPT !.jh = FALSE])
    /\ Goto("sync")

\* A first success writes the checkpoint that makes the runtime initialized.
Settle ==
    /\ At("reconcile", "settle")
    /\ LET success == invariant_discrepancies(mem.ledger) = {} /\ unresolved_intents = {}
       IN IF success /\ ~mem.init
          THEN Goto("first") /\ UNCHANGED mem
          ELSE Finish /\ mem' = [mem EXCEPT !.needs = ~success]
    /\ UNCHANGED <<db, faults>>

FirstCheckpoint ==
    /\ At("reconcile", "first")
    /\ Persist([mem EXCEPT !.init = TRUE, !.needs = FALSE], mem.cursor)
    /\ Finish

-----------------------------------------------------------------------------
\* _sync_execution_journal, of a reconciliation and after every quote

RowsAgree ==
    \A p \in LedgerOrders(mem.ledger) :
        db.evidence[p] = "command" /\ db.row[p] = Published(mem.ledger, p)

SyncOrder(p) ==
    /\ run.pc = "sync"
    /\ p \in LedgerOrders(mem.ledger) /\ db.evidence[p] = "command"
    /\ db.row[p] # Published(mem.ledger, p)
    /\ db' = [db EXCEPT !.row[p] = Published(mem.ledger, p)]
    /\ UNCHANGED <<mem, run, faults>>

\* The fills of the ledger that the journal has not seen; they are saved in order.
unsaved_fills ==
    {j \in DOMAIN mem.ledger.fills : mem.ledger.fills[j] \notin ToSet(db.fills)}

SyncFill ==
    /\ run.pc = "sync" /\ RowsAgree /\ Missing = {}
    /\ unsaved_fills # {}
    /\ db' = [db EXCEPT !.fills = Append(@, mem.ledger.fills[Min(unsaved_fills)])]
    /\ UNCHANGED <<mem, run, faults>>

SyncDone ==
    /\ run.pc = "sync" /\ RowsAgree /\ Missing = {}
    /\ unsaved_fills = {}
    /\ IF run.op = "reconcile"
       THEN mem' = [mem EXCEPT !.jh = TRUE] /\ Goto("settle")
       ELSE /\ mem' = [mem EXCEPT !.jh = TRUE,
                                  !.consumed = @ \cup {Group(mem).quotes[run.i].id}]
            /\ Goto("event")
    /\ UNCHANGED <<db, faults>>

\* The durable journal names an order the ledger never had, or the ledger an
\* order without its exact command.
SyncRefused ==
    /\ run.pc = "sync"
    /\ \/ RowsAgree /\ Missing # {}
       \/ \E p \in LedgerOrders(mem.ledger) : db.evidence[p] # "command"
    /\ mem' = Failed(mem) /\ Finish
    /\ UNCHANGED <<db, faults>>

-----------------------------------------------------------------------------
\* step: one timestamp group of the fixture

StepBegin ==
    /\ Idle /\ mem.init /\ ~mem.needs /\ ~Complete(mem)
    /\ mem.clock <= Group(mem).at
    /\ mem' = [mem EXCEPT !.clock = Group(mem).at]
    /\ run' = Operation("step", "quote", "none")
    /\ UNCHANGED <<db, faults>>

NextQuote == Group(mem).quotes[run.i]
MoreQuotes == run.i <= Len(Group(mem).quotes)

SkipQuote ==
    /\ At("step", "quote") /\ MoreQuotes /\ NextQuote.id \in mem.consumed
    /\ Goto("event")
    /\ UNCHANGED <<db, mem, faults>>

quote_refused ==
    \/ mem.dirty
    \/ observe_raises(mem.ledger, NextQuote, mem.clock)
    \/ accounts(mem.ledger, NextQuote, mem.clock, {}).raised

\* Mutant of ConsumeQuote: the journal is synchronised before the ledger is saved.
MutSyncsFirst ==
    /\ At("step", "quote") /\ MoreQuotes /\ NextQuote.id \notin mem.consumed
    /\ ~quote_refused
    /\ mem' = [mem EXCEPT !.ledger = observe_quote(@, NextQuote, mem.clock, {})]
    /\ Goto("sync")
    /\ UNCHANGED <<db, faults>>

\* The ledger takes the quote, or raises and ends the step.
ConsumeQuote ==
    /\ At("step", "quote") /\ MoreQuotes /\ NextQuote.id \notin mem.consumed
    /\ IF quote_refused
       THEN mem' = Failed(mem) /\ Finish
       ELSE /\ mem' = [mem EXCEPT !.ledger = observe_quote(@, NextQuote, mem.clock, {})]
            /\ Goto("persist")
    /\ UNCHANGED <<db, faults>>

QuotePersisted ==
    /\ At("step", "persist")
    /\ PersistLedger([mem EXCEPT !.jh = FALSE])
    /\ Goto("sync")

entry_terms(q, now) ==
    [side |-> "BUY", inst |-> q.inst, qty |-> 1, limit |-> q.ask, quote |-> q.id, at |-> now]

\* The handler of the quote's event adds the proposals of its research; a replayed
\* event finds the research concluded and adds the same ones again.
EventHandled ==
    /\ At("step", "event")
    /\ db' = [db EXCEPT !.proposals = [p \in Keys |->
                 IF /\ @[p] = NoTerms
                    /\ \E e \in DOMAIN Candidates : p = entry(e) /\ Candidates[e] = NextQuote.id
                 THEN entry_terms(NextQuote, mem.clock) ELSE @[p]]]
    /\ run' = [run EXCEPT !.pc = "quote", !.i = @ + 1]
    /\ UNCHANGED <<mem, faults>>

Checkpoint ==
    /\ At("step", "quote") /\ ~MoreQuotes
    /\ Persist([mem EXCEPT !.cursor = @ + 1], mem.cursor + 1)
    /\ Goto("exits")

-----------------------------------------------------------------------------
\* _propose_exits, once the group is checkpointed

MarketQuote(i) == get_option_quote(i, mem.clock)

\* The positions whose exit is due now: no exit of theirs is working.
ExitsDue ==
    {i \in Instruments :
        /\ mem.ledger.pos[i] # NoPosition
        /\ \A k \in Working(mem.ledger, "SELL") : mem.ledger.orders[k].inst # i
        /\ exit_executable(mem.ledger.pos[i], MarketQuote(i),
                           Expiration[i] - Day(mem.clock), mem.clock)}

exit_terms(i) ==
    [side |-> "SELL", inst |-> i, qty |-> mem.ledger.pos[i].qty, limit |-> MarketQuote(i).bid,
     quote |-> MarketQuote(i).id, at |-> mem.clock]

ProposeExit(i) ==
    /\ At("step", "exits")
    /\ i \in ExitsDue /\ db.proposals[exit(MarketQuote(i))] = NoTerms
    /\ db' = [db EXCEPT !.proposals[exit(MarketQuote(i))] = exit_terms(i)]
    /\ UNCHANGED <<mem, run, faults>>

\* add_proposal raises: the exit of an unchanged quote was proposed by an earlier
\* group, and its content carries the time of that group.
ExitReused ==
    /\ At("step", "exits")
    /\ \E i \in ExitsDue : db.proposals[exit(MarketQuote(i))] \notin {NoTerms, exit_terms(i)}
    /\ mem' = Failed(mem) /\ Finish
    /\ UNCHANGED <<db, faults>>

ExitsDone ==
    /\ At("step", "exits")
    /\ \A i \in ExitsDue : db.proposals[exit(MarketQuote(i))] = exit_terms(i)
    /\ Goto("end")
    /\ UNCHANGED <<db, mem, faults>>

-----------------------------------------------------------------------------
\* dispatch_proposals and the execution service, one proposal at a time

Dispatch(p) ==
    /\ Idle /\ db.evidence[p] = "none" /\ healthcheck(mem)
    /\ db.proposals[p] # NoTerms
    /\ risk_allows(db.proposals[p], account_snapshot(mem.ledger, mem.clock),
                   MarketQuote(db.proposals[p].inst), mem.clock)
    /\ run' = Operation("dispatch", "review", p)
    /\ UNCHANGED <<db, mem, faults>>

Reviewed ==
    /\ At("dispatch", "review")
    /\ PersistLedger(mem)
    /\ Goto(IF review_accepts(mem.ledger, db.proposals[run.p], mem.clock)
            THEN "intent" ELSE "end")

\* Denied by the view or the approval: nothing is durable yet.
DeniedBeforeIntent ==
    /\ At("dispatch", "intent")
    /\ Finish
    /\ UNCHANGED <<db, mem, faults>>

SaveEvidence ==
    /\ \/ At("dispatch", "intent") /\ Goto("command")
          /\ db' = [db EXCEPT !.evidence[run.p] = "intent"]
       \/ At("dispatch", "command") /\ Goto("pending")
          /\ db' = [db EXCEPT !.evidence[run.p] = "command"]
       \/ At("dispatch", "pending") /\ Goto("gate")
          /\ db' = [db EXCEPT !.row[run.p] = [st |-> "SUBMITTING", filled |-> 0]]
    /\ UNCHANGED <<mem, faults>>

Place ==
    /\ At("dispatch", "gate") /\ healthcheck(mem)
    /\ mem' = [mem EXCEPT !.ledger = submit(@, run.p, db.proposals[run.p], mem.clock)]
    /\ Goto("persist")
    /\ UNCHANGED <<db, faults>>

GateDenies ==
    /\ At("dispatch", "gate")
    /\ Goto("deny")
    /\ UNCHANGED <<db, mem, faults>>

RecordDenial ==
    /\ \/ At("dispatch", "deny") /\ Goto("denied")
          /\ db' = [db EXCEPT !.row[run.p].st = "REJECTED"]
       \/ At("dispatch", "denied") /\ Goto("end")
          /\ db' = [db EXCEPT !.denied = @ \cup {run.p}]
    /\ UNCHANGED <<mem, faults>>

OrderPersisted ==
    /\ At("dispatch", "persist")
    /\ PersistLedger(mem)
    /\ Goto("reply")

SaveReply ==
    /\ At("dispatch", "reply")
    /\ db' = [db EXCEPT !.row[run.p] = Published(mem.ledger, run.p)]
    /\ Goto("end")
    /\ UNCHANGED <<mem, faults>>

End == run.pc = "end" /\ Finish /\ UNCHANGED <<db, mem, faults>>

-----------------------------------------------------------------------------
\* review_closed_positions: outcomes of the trades the journal shows completed

derived_outcomes == derive(db.fills, Instruments)

\* The contracts the fills give the order of an intent.
filled_by(fills, p) ==
    Total([j \in DOMAIN fills |-> IF fills[j].key = p THEN fills[j].qty ELSE 0])

\* _derive and tick: the fills account for every order row, no exit oversells, and
\* every recorded outcome is derived again.
reviewable ==
    /\ \A p \in Keys : db.row[p].filled = filled_by(db.fills, p)
    /\ \A i \in Instruments : ~derive_cycles(db.fills, i).oversold
    /\ db.outcomes \subseteq derived_outcomes

ReviewBegin ==
    /\ Idle /\ mem.jh /\ ~mem.needs /\ reviewable
    /\ derived_outcomes # db.outcomes
    /\ run' = Operation("review", "outcomes", "none")
    /\ UNCHANGED <<db, mem, faults>>

RecordOutcome ==
    /\ At("review", "outcomes")
    /\ \E o \in derived_outcomes \ db.outcomes :
          /\ db' = [db EXCEPT !.outcomes = @ \cup {o}]
          /\ Goto(IF db.outcomes \cup {o} = derived_outcomes THEN "end" ELSE "outcomes")
    /\ UNCHANGED <<mem, faults>>

-----------------------------------------------------------------------------
\* What may happen at any await

LedgerPersists == {<<"reconcile", "flush">>, <<"step", "persist">>,
                   <<"dispatch", "review">>, <<"dispatch", "persist">>}
CheckpointPersists == {<<"reconcile", "first">>, <<"step", "quote">>}

\* An append that raised may have committed.  A ledger append leaves the broker
\* dirty, a checkpoint append only the checkpoint flag.
PersistFails ==
    /\ Fault
    /\ <<run.op, run.pc>> \in LedgerPersists \cup CheckpointPersists
    /\ <<run.op, run.pc>> = <<"step", "quote">> => ~MoreQuotes
    /\ LET cursor == IF At("step", "quote") THEN mem.cursor + 1 ELSE mem.cursor
       IN \E s \in {db.snap, SnapshotAt(mem, cursor)} : db' = [db EXCEPT !.snap = s]
    /\ mem' = [Failed(mem) EXCEPT
                 !.ckptOk = FALSE,
                 !.dirty = @ \/ <<run.op, run.pc>> \in LedgerPersists]
    /\ Finish

\* Any other await of the operation fails.
AwaitFails ==
    /\ Fault
    /\ <<run.op, run.pc>> \notin LedgerPersists /\ run.pc \notin {"idle", "first"}
    /\ mem' = Failed(mem) /\ Finish
    /\ UNCHANGED db

\* The dispatching task is cancelled while the broker holds the command or while
\* its answer is saved: the latch, and a best-effort SUBMISSION_UNKNOWN row.
Interrupted ==
    /\ Fault
    /\ run.op = "dispatch" /\ run.pc \in {"persist", "reply", "end"}
    /\ mem.ledger.keys[run.p] # 0
    /\ \E s \in {db.snap, SnapshotAt(mem, mem.cursor)},
          r \in {db.row[run.p], [Published(mem.ledger, run.p) EXCEPT !.st = "SUBMISSION_UNKNOWN"]} :
          db' = [db EXCEPT !.snap = IF run.pc = "persist" THEN s ELSE @, !.row[run.p] = r]
    /\ mem' = [Failed(mem) EXCEPT
                 !.latch = @ \cup {run.p},
                 !.ckptOk = @ /\ run.pc # "persist",
                 !.dirty = @ \/ run.pc = "persist"]
    /\ Finish

\* A runtime is created again from the snapshot, or refuses it for good.
Crash ==
    LET m == Restored(db.snap) IN
    /\ Fault
    /\ mem' = m
    /\ run' = IF ledger_accepts(db.snap, m) /\ session_accepts(m)
              THEN IdleRun ELSE Operation("refused", "idle", "none")
    /\ UNCHANGED db

-----------------------------------------------------------------------------
Reconcile == ReconcileBegin \/ Flush \/ Settle \/ FirstCheckpoint
Sync ==
    \/ \E p \in Keys : SyncOrder(p)
    \/ SyncFill \/ SyncDone \/ SyncRefused
Step ==
    \/ StepBegin \/ SkipQuote \/ ConsumeQuote \/ QuotePersisted \/ EventHandled
    \/ Checkpoint \/ (\E i \in Instruments : ProposeExit(i)) \/ ExitReused \/ ExitsDone
Execute ==
    \/ \E p \in Keys : Dispatch(p)
    \/ Reviewed \/ DeniedBeforeIntent \/ SaveEvidence \/ Place \/ GateDenies
    \/ RecordDenial \/ OrderPersisted \/ SaveReply \/ End
Review == ReviewBegin \/ RecordOutcome
Faults == PersistFails \/ AwaitFails \/ Interrupted \/ Crash

Next == Reconcile \/ Sync \/ Step \/ Execute \/ Review \/ Faults

Spec == Init /\ [][Next]_vars

-----------------------------------------------------------------------------
\* A durable order row or fill row is never ahead of the durable ledger: after a
\* crash at any point the restored ledger still has every order and every fill
\* the execution journal shows, so recovery can only move the journal forward.
JournalNeverAhead ==
    /\ ToSet(db.fills) \subseteq ToSet(db.snap.ledger.fills)
    /\ \A p \in Keys :
          db.row[p].st \in {"OPEN", "PARTIAL", "FILLED"} =>
             /\ p \in LedgerOrders(db.snap.ledger)
             /\ db.row[p].filled <= Published(db.snap.ledger, p).filled

\* Between operations, a runtime that calls its journal healthy and needs no
\* reconciliation has a journal that tells everything the ledger knows: this is
\* what review_closed_positions relies on when it takes the lock, lest it
\* "mistake an in-progress sync for lost fills".
HealthyJournalIsComplete ==
    Idle /\ mem.jh /\ ~mem.needs =>
        /\ mem.ledger = db.snap.ledger /\ mem.cursor = db.snap.cursor
        /\ db.fills = mem.ledger.fills
        /\ RowsAgree /\ Missing = {} /\ unresolved_intents = {}

\* Wherever the process dies, the next one takes up the snapshot it finds: restore_state
\* sees no quote or clock of the future, no reference to an absent order and no discrepancy
\* in the books, and the replay session stands where its cursor says, neither before its
\* last group nor past its next.
RestartIsAccepted ==
    LET m == Restored(db.snap) IN ledger_accepts(db.snap, m) /\ session_accepts(m)

\* The limits of the risk configuration hold of the account itself and not only of the
\* verdicts: whatever waits, fills, is lost and is restored, the money at risk and the
\* instruments held or bid for stay within them, and no day sees more entries placed.
RiskLimitsHold ==
    LET L == mem.ledger
        entered == {k \in DOMAIN L.orders : L.orders[k].side = "BUY"}
        waiting == {k \in entered : L.orders[k].st \in OpenStates}
    IN /\ cost_basis(L) + reserved_buying_power(L) <= Limits.openRisk
       /\ Cardinality({i \in Instruments : L.pos[i].qty > 0} \cup {L.orders[k].inst : k \in waiting})
            <= Limits.positions
       /\ \A d \in {Day(L.orders[k].at) : k \in entered} :
             Cardinality({k \in entered : Day(L.orders[k].at) = d}) <= Limits.entries

\* An outcome once recorded is never contradicted by a later review: no two records
\* share an identity, the journal is in the order of time, in which a review takes the
\* fills, and whenever a review may run the fills account for the orders, no exit
\* oversells and every recorded outcome is derived again.
OutcomesAreFinal ==
    /\ \A o, r \in db.outcomes : o.id = r.id => o = r
    /\ \A j, k \in DOMAIN db.fills : j <= k => db.fills[j].at <= db.fills[k].at
    /\ Idle /\ mem.jh /\ ~mem.needs => reviewable

\* Whenever a review may run, the outcomes derived from the fills alone are in all exactly
\* the profit that the ledger has closed, though the ledger knows average prices only.
OutcomesTellProfit ==
    Idle /\ mem.jh /\ ~mem.needs =>
        \A i \in Instruments :
            MapThenSumSet(LAMBDA o : o.pnl, {o \in derived_outcomes : o.inst = i})
              = mem.ledger.closed[i]

-----------------------------------------------------------------------------
\* The jobs of the controller come round again and the runtime's lock is granted
\* in order of arrival, so an operation that is waiting is not passed for ever;
\* an operation that holds the lock goes on.
Fairness ==
    /\ SF_vars(ReconcileBegin) /\ SF_vars(StepBegin)
    /\ WF_vars(~Idle /\ (Reconcile \/ Sync \/ Step \/ Execute \/ Review))

FairSpec == Spec /\ Fairness

\* Evidence that recovery refuses to interpret: an intent without command, an
\* order of unknown outcome the ledger does not have, a denial without its record.
Stuck == unresolved_intents # {} \/ Missing # {}

\* Faults end, and then the replay is finished, unless the crash left evidence that
\* stops reconciliation; that is the only reason it stops.
ReplayFinishes == <>(Complete(mem) \/ []Stuck)
=============================================================================
