------------------------- MODULE BrokerShadowProofs -------------------------
(***************************************************************************)
(* Broker shadow implements ShadowJournal, for any proposals and any number *)
(* of faults.  The argument is about where the task that holds the lock     *)
(* stands in its list of steps: what is on disk and whether the ledger in   *)
(* memory is ahead of its snapshot is a function of that place.             *)
(***************************************************************************)
EXTENDS BrokerShadow, SequenceTheorems, TLAPS

Monitoring == Consume \o <<"exits">>

StepNames ==
    {"preflight", "report", "quote", "persist", "sync", "syncing", "risk", "review", "before",
     "after", "save_review", "recheck", "intent", "command", "pending", "gate", "deny", "apply",
     "row", "row_log", "reject_row", "reject_log", "flush", "bind", "finish", "exits"}

RowStates == {"none", "SUBMITTING", "UNKNOWN", "REJECTED_LOCAL", "OPEN", "FILLED", "REJECTED"}
Ledgers == [Proposals -> {"none", "OPEN", "FILLED", "REJECTED"}]
Tasks == [op : {"none", "dispatch", "monitor", "reconcile"},
          p : Proposals \union {NoProposal},
          before : {"none", "clean", "noise", "dirty"},
          todo : Seq(StepNames)]

TypeOK ==
    /\ real \in {"clean", "noise", "dirty"}
    /\ faults \in Nat
    /\ proposals \subseteq Proposals /\ intent \subseteq Proposals
    /\ row \in [Proposals -> RowStates]
    /\ saved \in Ledgers \union {NoLedger}
    /\ ledger \in Ledgers
    /\ dirty \in BOOLEAN
    /\ mem \in [initialized : BOOLEAN, requires : BOOLEAN, journal : BOOLEAN]
    /\ view \in [db : BOOLEAN, fresh : BOOLEAN, reconciled : BOOLEAN, unresolved : BOOLEAN,
                 exec : BOOLEAN]
    /\ task \in Tasks

\* The ledger a new process would start from.
Base == IF saved = NoLedger THEN Empty ELSE saved

\* Only an intent has a command, only a command a denial or a row, and only a denied
\* proposal an order; a proposal is denied or refused, not both.
TablesInv ==
    /\ denied \subseteq command /\ command \subseteq intent
    /\ \A p \in Proposals :
          /\ row[p] # "none" => p \in command
          /\ row[p] = "REJECTED_LOCAL" => p \notin denied
          /\ ledger[p] # "none" \/ Base[p] # "none" => p \in denied

\* The ledger is ahead of its snapshot by one mutation at most: some fills, or one
\* order whose denial is on disk.
Fills(L, M) ==
    \E S \in SUBSET {p \in Proposals : L[p] = "OPEN"} :
        M = [p \in Proposals |-> IF p \in S THEN "FILLED" ELSE L[p]]
Adds(L, M) ==
    \E p \in denied, s \in {"OPEN", "REJECTED"} : L[p] = "none" /\ M = [L EXCEPT ![p] = s]
LedgerInv ==
    IF dirty THEN Fills(Base, ledger) \/ Adds(Base, ledger) ELSE ledger = Base

\* While a change that a review saw is not yet followed by the duty to reconcile, the
\* rows are still those of the last synchronisation.
ReviewInv == review.verdict = "changed" /\ ~mem.requires => RowsExplained

-----------------------------------------------------------------------------
(* Where the task stands                                                   *)

Suffix(P, n) == SubSeq(P, n, Len(P))

\* A dispatch before its n-th step.
DispatchAt(n) ==
    /\ task.op = "dispatch" /\ task.p \in Proposals
    /\ task.todo = Suffix(Dispatching, n)
    /\ n <= 18 => task.p \notin intent
    /\ n = 19 => task.p \in intent \ command
    /\ n = 20 => task.p \in command \ denied /\ row[task.p] = "none"
    /\ n \in {21, 22} => task.p \in command \ denied /\ row[task.p] = "SUBMITTING"
    /\ n >= 23 => task.p \in denied /\ row[task.p] # "none"
    /\ n = 23 => dirty /\ ledger = Base /\ Base[task.p] = "none"
    /\ n \in {24, 25} => ledger[task.p] # "none"
    /\ n \notin {1, 2, 4, 9, 14, 23, 24} => ~dirty
    /\ n \in 2..12 => ~mem.requires
    /\ n >= 13 => review.verdict = "ok"
    /\ n \in 7..12 => RowsExplained

RejectAt(n) ==
    /\ task.op = "dispatch" /\ task.p \in Proposals
    /\ task.todo = Suffix(Rejecting, n)
    /\ n = 1 => /\ task.p \in command \ denied /\ row[task.p] = "SUBMITTING"
                /\ review.verdict = "ok"

MonitorAt(n) ==
    /\ task.op = "monitor"
    /\ task.todo = Suffix(Monitoring, n)
    /\ n \in {3, 4} => ~dirty

ReconcileAt(n) ==
    /\ task.op = "reconcile"
    /\ task.todo = Suffix(Reconciling, n)
    /\ n \in 3..5 => ~dirty
    /\ n = 6 /\ mem.journal => Unsynced = {} /\ RowsExplained

TaskInv ==
    \/ task = NoTask
    \/ \E n \in 1..28 : DispatchAt(n)
    \/ \E n \in 1..2 : RejectAt(n)
    \/ \E n \in 1..5 : MonitorAt(n)
    \/ \E n \in 1..6 : ReconcileAt(n)

Inv == TypeOK /\ TablesInv /\ LedgerInv /\ ReviewInv /\ TaskInv

-----------------------------------------------------------------------------
(* The lists of steps                                                      *)

\* The 28 steps of a dispatch.
LEMMA DispatchingSteps ==
    /\ Dispatching \in Seq(StepNames)
    /\ Len(Dispatching) = 28
    /\ Dispatching[1] = "preflight" /\ Dispatching[2] = "report" /\ Dispatching[3] = "quote"
    /\ Dispatching[4] = "persist" /\ Dispatching[5] = "sync" /\ Dispatching[6] = "syncing"
    /\ Dispatching[7] = "risk" /\ Dispatching[8] = "review" /\ Dispatching[9] = "persist"
    /\ Dispatching[10] = "before" /\ Dispatching[11] = "after" /\ Dispatching[12] = "save_review"
    /\ Dispatching[13] = "quote" /\ Dispatching[14] = "persist" /\ Dispatching[15] = "sync"
    /\ Dispatching[16] = "syncing" /\ Dispatching[17] = "recheck" /\ Dispatching[18] = "intent"
    /\ Dispatching[19] = "command" /\ Dispatching[20] = "pending" /\ Dispatching[21] = "gate"
    /\ Dispatching[22] = "deny" /\ Dispatching[23] = "apply" /\ Dispatching[24] = "persist"
    /\ Dispatching[25] = "row" /\ Dispatching[26] = "row_log" /\ Dispatching[27] = "sync"
    /\ Dispatching[28] = "syncing"
  <1>1. Consume \in Seq(StepNames) /\ Len(Consume) = 4
     BY DEF Consume, StepNames
  <1>. QED  BY <1>1 DEF Dispatching, Consume, StepNames

LEMMA DispatchingType == Dispatching \in Seq(StepNames) /\ Len(Dispatching) = 28
  BY DispatchingSteps

LEMMA OtherSteps ==
    /\ Monitoring \in Seq(StepNames) /\ Len(Monitoring) = 5
    /\ Monitoring[1] = "quote" /\ Monitoring[2] = "persist" /\ Monitoring[3] = "sync"
    /\ Monitoring[4] = "syncing" /\ Monitoring[5] = "exits"
    /\ Reconciling \in Seq(StepNames) /\ Len(Reconciling) = 6
    /\ Reconciling[1] = "flush" /\ Reconciling[2] = "report" /\ Reconciling[3] = "bind"
    /\ Reconciling[4] = "sync" /\ Reconciling[5] = "syncing" /\ Reconciling[6] = "finish"
    /\ Rejecting \in Seq(StepNames) /\ Len(Rejecting) = 2
    /\ Rejecting[1] = "reject_row" /\ Rejecting[2] = "reject_log"
  BY DEF Monitoring, Consume, Reconciling, Rejecting, StepNames

\* Where a dispatch has each of its steps.
LEMMA Places ==
    ASSUME NEW n \in 1..28
    PROVE  /\ Dispatching[n] \notin {"exits", "finish", "flush", "bind", "reject_row", "reject_log"}
           /\ Dispatching[n] = "preflight" => n = 1
           /\ Dispatching[n] = "report" => n = 2
           /\ Dispatching[n] = "quote" => n \in {3, 13}
           /\ Dispatching[n] = "persist" => n \in {4, 9, 14, 24}
           /\ Dispatching[n] = "sync" => n \in {5, 15, 27}
           /\ Dispatching[n] = "syncing" => n \in {6, 16, 28}
           /\ Dispatching[n] = "risk" => n = 7
           /\ Dispatching[n] = "review" => n = 8
           /\ Dispatching[n] = "before" => n = 10
           /\ Dispatching[n] = "after" => n = 11
           /\ Dispatching[n] = "save_review" => n = 12
           /\ Dispatching[n] = "recheck" => n = 17
           /\ Dispatching[n] = "intent" => n = 18
           /\ Dispatching[n] = "command" => n = 19
           /\ Dispatching[n] = "pending" => n = 20
           /\ Dispatching[n] = "gate" => n = 21
           /\ Dispatching[n] = "deny" => n = 22
           /\ Dispatching[n] = "apply" => n = 23
           /\ Dispatching[n] = "row" => n = 25
           /\ Dispatching[n] = "row_log" => n = 26
  <1>1. CASE n \in {1, 2, 3, 4}
    BY <1>1, DispatchingSteps
  <1>2. CASE n \in {5, 6, 7, 8}
    BY <1>2, DispatchingSteps
  <1>3. CASE n \in {9, 10, 11, 12}
    BY <1>3, DispatchingSteps
  <1>4. CASE n \in {13, 14, 15, 16}
    BY <1>4, DispatchingSteps
  <1>5. CASE n \in {17, 18, 19, 20}
    BY <1>5, DispatchingSteps
  <1>6. CASE n \in {21, 22, 23, 24}
    BY <1>6, DispatchingSteps
  <1>7. CASE n \in {25, 26, 27, 28}
    BY <1>7, DispatchingSteps
  <1>. QED  BY <1>1, <1>2, <1>3, <1>4, <1>5, <1>6, <1>7

LEMMA OtherPlaces ==
    /\ \A n \in 1..5 : /\ Monitoring[n] \in {"quote", "persist", "sync", "syncing", "exits"}
                       /\ Monitoring[n] = "quote" => n = 1
                       /\ Monitoring[n] = "persist" => n = 2
                       /\ Monitoring[n] = "sync" => n = 3
                       /\ Monitoring[n] = "syncing" => n = 4
                       /\ Monitoring[n] = "exits" => n = 5
    /\ \A n \in 1..6 : /\ Reconciling[n] \in {"flush", "report", "bind", "sync", "syncing", "finish"}
                       /\ Reconciling[n] = "flush" => n = 1
                       /\ Reconciling[n] = "report" => n = 2
                       /\ Reconciling[n] = "bind" => n = 3
                       /\ Reconciling[n] = "sync" => n = 4
                       /\ Reconciling[n] = "syncing" => n = 5
                       /\ Reconciling[n] = "finish" => n = 6
    /\ \A n \in 1..2 : /\ Rejecting[n] \in {"reject_row", "reject_log"}
                       /\ Rejecting[n] = "reject_row" => n = 1
                       /\ Rejecting[n] = "reject_log" => n = 2
  <1>1. \A n \in 1..6 : n \in {1, 2, 3, 4, 5, 6}
    OBVIOUS
  <1>. QED  BY <1>1, OtherSteps

LEMMA SuffixFacts ==
    ASSUME NEW P \in Seq(StepNames), NEW n \in 1..Len(P)
    PROVE  /\ Suffix(P, n) \in Seq(StepNames) /\ Suffix(P, n) # <<>>
           /\ Len(Suffix(P, n)) = Len(P) + 1 - n
           /\ \A i \in 1..(Len(P) + 1 - n) : Suffix(P, n)[i] = P[n + i - 1]
           /\ Head(Suffix(P, n)) = P[n]
           /\ Tail(Suffix(P, n)) = Suffix(P, n + 1)
  <1>1. \A i \in n..Len(P) : P[i] \in StepNames
    BY ElementOfSeq
  <1>2. /\ Suffix(P, n) \in Seq(StepNames)
        /\ Len(Suffix(P, n)) = Len(P) + 1 - n
        /\ \A i \in 1..(Len(P) + 1 - n) : Suffix(P, n)[i] = P[n + i - 1]
    BY <1>1, SubSeqProperties DEF Suffix
  <1>3. Head(Suffix(P, n)) = P[n] /\ Tail(Suffix(P, n)) = Suffix(P, n + 1)
    BY HeadTailOfSubSeq DEF Suffix
  <1>4. Suffix(P, n) # <<>>
    BY <1>2
  <1>. QED  BY <1>2, <1>3, <1>4

LEMMA SuffixWhole ==
    ASSUME NEW P \in Seq(StepNames)
    PROVE  Suffix(P, 1) = P
  BY SubSeqFull DEF Suffix

\* What a step finds and what Advance does, inside one of the lists.
LEMMA StepIn ==
    ASSUME TypeOK, NEW P \in Seq(StepNames), NEW n \in 1..Len(P), task.todo = Suffix(P, n)
    PROVE  /\ \A step : At(step) => P[n] = step
           /\ Advance => IF n = Len(P) THEN task' = NoTask
                         ELSE task' = [task EXCEPT !.todo = Suffix(P, n + 1)]
  <1>1. /\ task.todo # <<>> /\ Head(task.todo) = P[n]
        /\ Tail(task.todo) = Suffix(P, n + 1)
        /\ Len(task.todo) = Len(P) + 1 - n /\ Len(P) \in Nat
    BY SuffixFacts
  <1>2. \A step : At(step) => P[n] = step
    BY <1>1 DEF At
  <1>3. Len(task.todo) = 1 <=> n = Len(P)
    BY <1>1
  <1>. QED  BY <1>1, <1>2, <1>3 DEF Advance, Todo

LEMMA NoTaskType == NoTask \in Tasks /\ NoTask.todo = <<>> /\ NoTask.op = "none"
  BY DEF NoTask, Tasks

\* A step of a task is at one of its places.
LEMMA Where ==
    ASSUME TypeOK, TaskInv, NEW step, At(step)
    PROVE  \/ \E n \in 1..28 : DispatchAt(n) /\ Dispatching[n] = step
           \/ \E n \in 1..2 : RejectAt(n) /\ Rejecting[n] = step
           \/ \E n \in 1..5 : MonitorAt(n) /\ Monitoring[n] = step
           \/ \E n \in 1..6 : ReconcileAt(n) /\ Reconciling[n] = step
  <1>1. task # NoTask
    BY NoTaskType DEF At
  <1>2. ASSUME NEW n \in 1..28, DispatchAt(n) PROVE Dispatching[n] = step
    BY <1>2, StepIn, DispatchingType DEF DispatchAt
  <1>3. ASSUME NEW n \in 1..2, RejectAt(n) PROVE Rejecting[n] = step
    BY <1>3, StepIn, OtherSteps DEF RejectAt
  <1>4. ASSUME NEW n \in 1..5, MonitorAt(n) PROVE Monitoring[n] = step
    BY <1>4, StepIn, OtherSteps DEF MonitorAt
  <1>5. ASSUME NEW n \in 1..6, ReconcileAt(n) PROVE Reconciling[n] = step
    BY <1>5, StepIn, OtherSteps DEF ReconcileAt
  <1>. QED  BY <1>1, <1>2, <1>3, <1>4, <1>5 DEF TaskInv

\* Where each step can be.
LEMMA Located ==
    ASSUME TypeOK, TaskInv
    PROVE  /\ At("preflight") => DispatchAt(1)
           /\ At("report") => DispatchAt(2) \/ ReconcileAt(2)
           /\ At("quote") => DispatchAt(3) \/ DispatchAt(13) \/ MonitorAt(1)
           /\ At("persist") => DispatchAt(4) \/ DispatchAt(9) \/ DispatchAt(14) \/ DispatchAt(24) \/ MonitorAt(2)
           /\ At("sync") => DispatchAt(5) \/ DispatchAt(15) \/ DispatchAt(27) \/ MonitorAt(3) \/ ReconcileAt(4)
           /\ At("syncing") => DispatchAt(6) \/ DispatchAt(16) \/ DispatchAt(28) \/ MonitorAt(4) \/ ReconcileAt(5)
           /\ At("risk") => DispatchAt(7)
           /\ At("review") => DispatchAt(8)
           /\ At("before") => DispatchAt(10)
           /\ At("after") => DispatchAt(11)
           /\ At("save_review") => DispatchAt(12)
           /\ At("recheck") => DispatchAt(17)
           /\ At("intent") => DispatchAt(18)
           /\ At("command") => DispatchAt(19)
           /\ At("pending") => DispatchAt(20)
           /\ At("gate") => DispatchAt(21)
           /\ At("deny") => DispatchAt(22)
           /\ At("apply") => DispatchAt(23)
           /\ At("row") => DispatchAt(25)
           /\ At("row_log") => DispatchAt(26)
           /\ At("exits") => MonitorAt(5)
           /\ At("flush") => ReconcileAt(1)
           /\ At("bind") => ReconcileAt(3)
           /\ At("finish") => ReconcileAt(6)
           /\ At("reject_row") => RejectAt(1)
           /\ At("reject_log") => RejectAt(2)
  <1> DEFINE Found(step) ==
        \/ \E n \in 1..28 : DispatchAt(n) /\ Dispatching[n] = step
        \/ \E n \in 1..2 : RejectAt(n) /\ Rejecting[n] = step
        \/ \E n \in 1..5 : MonitorAt(n) /\ Monitoring[n] = step
        \/ \E n \in 1..6 : ReconcileAt(n) /\ Reconciling[n] = step
  <1> SUFFICES ASSUME NEW step \in StepNames, At(step)
               PROVE  /\ step = "preflight" => DispatchAt(1)
                      /\ step = "report" => DispatchAt(2) \/ ReconcileAt(2)
                      /\ step = "quote" => DispatchAt(3) \/ DispatchAt(13) \/ MonitorAt(1)
                      /\ step = "persist" => DispatchAt(4) \/ DispatchAt(9) \/ DispatchAt(14) \/ DispatchAt(24) \/ MonitorAt(2)
                      /\ step = "sync" => DispatchAt(5) \/ DispatchAt(15) \/ DispatchAt(27) \/ MonitorAt(3) \/ ReconcileAt(4)
                      /\ step = "syncing" => DispatchAt(6) \/ DispatchAt(16) \/ DispatchAt(28) \/ MonitorAt(4) \/ ReconcileAt(5)
                      /\ step = "risk" => DispatchAt(7)
                      /\ step = "review" => DispatchAt(8)
                      /\ step = "before" => DispatchAt(10)
                      /\ step = "after" => DispatchAt(11)
                      /\ step = "save_review" => DispatchAt(12)
                      /\ step = "recheck" => DispatchAt(17)
                      /\ step = "intent" => DispatchAt(18)
                      /\ step = "command" => DispatchAt(19)
                      /\ step = "pending" => DispatchAt(20)
                      /\ step = "gate" => DispatchAt(21)
                      /\ step = "deny" => DispatchAt(22)
                      /\ step = "apply" => DispatchAt(23)
                      /\ step = "row" => DispatchAt(25)
                      /\ step = "row_log" => DispatchAt(26)
                      /\ step = "exits" => MonitorAt(5)
                      /\ step = "flush" => ReconcileAt(1)
                      /\ step = "bind" => ReconcileAt(3)
                      /\ step = "finish" => ReconcileAt(6)
                      /\ step = "reject_row" => RejectAt(1)
                      /\ step = "reject_log" => RejectAt(2)
    BY DEF StepNames
  <1>1. Found(step)
    BY Where
  <1>2. CASE \E n \in 1..28 : DispatchAt(n) /\ Dispatching[n] = step
    BY <1>2, Places DEF StepNames
  <1>3. CASE ~\E n \in 1..28 : DispatchAt(n) /\ Dispatching[n] = step
    BY <1>1, <1>3, OtherPlaces DEF StepNames
  <1>. QED  BY <1>2, <1>3

\* The task after it has advanced.
LEMMA AdvanceMoves ==
    ASSUME TypeOK, Advance
    PROVE  /\ \A n \in 1..28 : DispatchAt(n) =>
                 IF n = 28 THEN task' = NoTask
                 ELSE /\ task' \in Tasks /\ task'.op = "dispatch" /\ task'.p = task.p
                      /\ task'.todo = Suffix(Dispatching, n + 1)
           /\ \A n \in 1..2 : RejectAt(n) =>
                 IF n = 2 THEN task' = NoTask
                 ELSE /\ task' \in Tasks /\ task'.op = "dispatch" /\ task'.p = task.p
                      /\ task'.todo = Suffix(Rejecting, n + 1)
           /\ \A n \in 1..5 : MonitorAt(n) =>
                 IF n = 5 THEN task' = NoTask
                 ELSE /\ task' \in Tasks /\ task'.op = "monitor"
                      /\ task'.todo = Suffix(Monitoring, n + 1)
           /\ \A n \in 1..6 : ReconcileAt(n) =>
                 IF n = 6 THEN task' = NoTask
                 ELSE /\ task' \in Tasks /\ task'.op = "reconcile"
                      /\ task'.todo = Suffix(Reconciling, n + 1)
  <1>1. ASSUME NEW P \in Seq(StepNames), NEW n \in 1..Len(P), task.todo = Suffix(P, n)
        PROVE  IF n = Len(P) THEN task' = NoTask
               ELSE /\ task' \in Tasks /\ task'.op = task.op /\ task'.p = task.p
                    /\ task'.todo = Suffix(P, n + 1)
    <2>1. n # Len(P) => n + 1 \in 1..Len(P) /\ Suffix(P, n + 1) \in Seq(StepNames)
      BY SuffixFacts
    <2>2. IF n = Len(P) THEN task' = NoTask ELSE task' = [task EXCEPT !.todo = Suffix(P, n + 1)]
      BY <1>1, StepIn
    <2>. QED  BY <2>1, <2>2 DEF TypeOK, Tasks
  <1>2. \A n \in 1..28 : DispatchAt(n) =>
            IF n = 28 THEN task' = NoTask
            ELSE /\ task' \in Tasks /\ task'.op = "dispatch" /\ task'.p = task.p
                 /\ task'.todo = Suffix(Dispatching, n + 1)
    <2>1. \A n : DispatchAt(n) => task.op = "dispatch" /\ task.todo = Suffix(Dispatching, n)
      BY DEF DispatchAt
    <2>2. SUFFICES ASSUME NEW n \in 1..28, DispatchAt(n)
                   PROVE  IF n = 28 THEN task' = NoTask
                          ELSE /\ task' \in Tasks /\ task'.op = "dispatch" /\ task'.p = task.p
                               /\ task'.todo = Suffix(Dispatching, n + 1)
      OBVIOUS
    <2>3. /\ Dispatching \in Seq(StepNames) /\ n \in 1..Len(Dispatching)
          /\ task.op = "dispatch" /\ task.todo = Suffix(Dispatching, n)
      BY <2>1, <2>2, DispatchingType
    <2>. QED  BY <1>1, <2>3, DispatchingType
  <1>3. \A n \in 1..2 : RejectAt(n) =>
            IF n = 2 THEN task' = NoTask
            ELSE /\ task' \in Tasks /\ task'.op = "dispatch" /\ task'.p = task.p
                 /\ task'.todo = Suffix(Rejecting, n + 1)
    BY <1>1, OtherSteps DEF RejectAt
  <1>4. \A n \in 1..5 : MonitorAt(n) =>
            IF n = 5 THEN task' = NoTask
            ELSE /\ task' \in Tasks /\ task'.op = "monitor"
                 /\ task'.todo = Suffix(Monitoring, n + 1)
    BY <1>1, OtherSteps DEF MonitorAt
  <1>5. \A n \in 1..6 : ReconcileAt(n) =>
            IF n = 6 THEN task' = NoTask
            ELSE /\ task' \in Tasks /\ task'.op = "reconcile"
                 /\ task'.todo = Suffix(Reconciling, n + 1)
    BY <1>1, OtherSteps DEF ReconcileAt
  <1>. QED  BY <1>2, <1>3, <1>4, <1>5

\* Advancing keeps the type of a task.
LEMMA AdvanceType == ASSUME TypeOK, TaskInv, Advance, task # NoTask PROVE task' \in Tasks
  BY AdvanceMoves, NoTaskType DEF TaskInv

-----------------------------------------------------------------------------
(* Frames                                                                  *)

tables == <<intent, command, denied, row, rejects, saved>>

LEMMA BaseType == ASSUME TypeOK PROVE Base \in Ledgers
  BY DEF TypeOK, Base, Empty, Ledgers

LEMMA FillsNothing == ASSUME NEW L \in Ledgers PROVE Fills(L, L)
  <1>1. {} \in SUBSET {p \in Proposals : L[p] = "OPEN"}
    OBVIOUS
  <1>2. L = [p \in Proposals |-> IF p \in {} THEN "FILLED" ELSE L[p]]
    BY DEF Ledgers
  <1>. QED  BY <1>1, <1>2 DEF Fills

\* Steps that touch neither the tables nor the ledger.
LEMMA QuietKeepsInv ==
    ASSUME Inv, UNCHANGED <<tables, ledger, dirty>>,
           TypeOK', TaskInv', review'.verdict = "changed" /\ ~mem'.requires =>
                                  (review.verdict = "changed" /\ ~mem.requires) \/ RowsExplained
    PROVE  Inv'
  <1>1. TablesInv' /\ LedgerInv'
    BY DEF Inv, TablesInv, LedgerInv, Base, Fills, Adds, tables
  <1>2. RowsExplained' <=> RowsExplained
    BY DEF RowsExplained, OrdersIn, LocallyRejected, tables
  <1>. QED  BY <1>1, <1>2 DEF Inv, ReviewInv

\* ... and leave the task where it stands, or end it.
LEMMA AsideKeepsInv ==
    ASSUME Inv, UNCHANGED <<tables, ledger, dirty>>, TypeOK',
           \/ UNCHANGED <<task, mem, review>>
           \/ task' = NoTask /\ UNCHANGED review /\ (mem'.requires \/ mem' = mem)
    PROVE  Inv'
  <1>1. TaskInv'
    <2>1. CASE task' = NoTask
      BY <2>1 DEF TaskInv
    <2>2. CASE UNCHANGED <<task, mem, review>>
      BY <2>2 DEF Inv, TaskInv, DispatchAt, RejectAt, MonitorAt, ReconcileAt, RowsExplained,
                  Unsynced, OrdersIn, LocallyRejected, Base, tables
    <2>. QED  BY <2>1, <2>2
  <1>. QED  BY <1>1, QuietKeepsInv

LEMMA DenyEnds ==
    ASSUME TypeOK, Deny
    PROVE  /\ task' = NoTask
           /\ mem'.requires \/ mem' = mem
           /\ mem' \in [initialized : BOOLEAN, requires : BOOLEAN, journal : BOOLEAN]
           /\ view' \in [db : BOOLEAN, fresh : BOOLEAN, reconciled : BOOLEAN,
                         unresolved : BOOLEAN, exec : BOOLEAN]
           /\ task' \in Tasks
  BY NoTaskType DEF Deny, TypeOK

LEMMA DeniedKeepsInv ==
    ASSUME Inv, Deny, UNCHANGED <<world, durable, ledger, dirty, review>>
    PROVE  Inv'
  <1>1. TypeOK'
    BY DenyEnds DEF Inv, TypeOK, world, durable
  <1>. QED  BY <1>1, DenyEnds, AsideKeepsInv DEF Inv, durable, tables

\* The last step of a list.
LEMMA LastStep ==
    ASSUME NEW P \in Seq(StepNames), Len(P) > 0
    PROVE  Suffix(P, Len(P)) = <<P[Len(P)]>>
  <1> DEFINE s == Suffix(P, Len(P))
  <1>1. Len(P) \in 1..Len(P) /\ P[Len(P)] \in StepNames
    BY ElementOfSeq
  <1>2. s \in Seq(StepNames) /\ Len(s) = Len(P) + 1 - Len(P) /\ Head(s) = P[Len(P)]
    BY <1>1, SuffixFacts
  <1>4. Len(s) = 1
    BY <1>2
  <1>3. s[1] = P[Len(P)]
    BY <1>2
  <1>5. <<P[Len(P)]>> \in Seq(StepNames)
    BY <1>1
  <1>6. \A i \in 1..Len(s) : s[i] = <<P[Len(P)]>>[i]
    BY <1>3, <1>4
  <1>. QED  BY <1>2, <1>4, <1>5, <1>6, SeqEqual

LEMMA LastSteps == Suffix(Monitoring, 5) = <<"exits">> /\ Suffix(Reconciling, 6) = <<"finish">>
  <1>3. Monitoring \in Seq(StepNames) /\ Len(Monitoring) > 0
    BY OtherSteps
  <1>4. Reconciling \in Seq(StepNames) /\ Len(Reconciling) > 0
    BY OtherSteps
  <1>1. Suffix(Monitoring, Len(Monitoring)) = <<Monitoring[Len(Monitoring)]>>
    BY <1>3, LastStep
  <1>2. Suffix(Reconciling, Len(Reconciling)) = <<Reconciling[Len(Reconciling)]>>
    BY <1>4, LastStep
  <1>. QED  BY <1>1, <1>2, OtherSteps

-----------------------------------------------------------------------------
(* Steps that touch neither the tables nor the ledger                      *)

\* A dispatch goes on, and what its next place needs is known.
LEMMA DispatchGoesOn ==
    ASSUME Inv, Advance, UNCHANGED <<tables, ledger, dirty>>,
           NEW n \in 1..28, DispatchAt(n), n \in {1, 2, 5, 6, 7, 11, 12, 15, 16, 17, 21, 26, 27, 28},
           n = 2 => ~dirty, n = 6 => RowsExplained, n = 12 => review'.verdict = "ok",
           n \notin {11, 12} => UNCHANGED review,
           mem'.requires = mem.requires, n = 1 => ~mem.requires
    PROVE  TaskInv'
  <1>1. CASE n = 28
    BY <1>1, AdvanceMoves DEF Inv, TaskInv
  <1>2. CASE n # 28
    <2>1. /\ n + 1 \in 1..28 /\ task'.op = "dispatch" /\ task'.p = task.p
          /\ task'.todo = Suffix(Dispatching, n + 1)
      BY <1>2, AdvanceMoves DEF Inv
    <2>2. RowsExplained' <=> RowsExplained
      BY DEF RowsExplained, OrdersIn, LocallyRejected, tables
    <2>3. DispatchAt(n + 1)'
      BY <1>2, <2>1, <2>2 DEF DispatchAt, Base, tables
    <2>. QED  BY <2>1, <2>3 DEF TaskInv
  <1>. QED  BY <1>1, <1>2

Mems == [initialized : BOOLEAN, requires : BOOLEAN, journal : BOOLEAN]

LEMMA DispatchStepKeepsInv ==
    ASSUME Inv, Advance, UNCHANGED <<world, durable, ledger, dirty, view>>,
           mem' \in Mems, mem'.requires = mem.requires,
           NEW n \in 1..28, DispatchAt(n), n \in {1, 2, 5, 6, 7, 11, 12, 15, 16, 17, 21, 26, 27, 28},
           n = 2 => ~dirty, n = 6 => RowsExplained, n = 12 => review.verdict = "ok",
           n # 11 => UNCHANGED review, n = 1 => ~mem.requires
    PROVE  Inv'
  <1>1. UNCHANGED <<tables, ledger, dirty>>
    BY DEF durable, tables
  <1>2. TaskInv'
    BY <1>1, DispatchGoesOn
  <1>3. TypeOK'
    BY AdvanceMoves, NoTaskType DEF Inv, TypeOK, world, durable, Mems
  <1>4. n = 11 => RowsExplained
    BY DEF DispatchAt
  <1>. QED  BY <1>1, <1>2, <1>3, <1>4, QuietKeepsInv

\* The same for the steps that monitoring and reconciliation share with it.
LEMMA OtherStepKeepsInv ==
    ASSUME Inv, Advance, UNCHANGED <<world, durable, ledger, dirty, view, review>>,
           mem' \in Mems, mem'.requires = mem.requires,
           \/ MonitorAt(3) \/ MonitorAt(4)
           \/ ReconcileAt(1) /\ ~dirty
           \/ ReconcileAt(2) /\ ~dirty
           \/ ReconcileAt(3) \/ ReconcileAt(4)
           \/ ReconcileAt(5) /\ Unsynced = {} /\ RowsExplained
    PROVE  Inv'
  <1>1. UNCHANGED <<tables, ledger, dirty>>
    BY DEF durable, tables
  <1>2. (RowsExplained' <=> RowsExplained) /\ (Unsynced' = Unsynced)
    BY <1>1 DEF RowsExplained, Unsynced, OrdersIn, LocallyRejected, tables
  <1>3. task' \in Tasks /\ TaskInv'
    <2>1. CASE MonitorAt(3) \/ MonitorAt(4)
      <3>1. MonitorAt(4)' \/ MonitorAt(5)'
        BY <1>1, <2>1, AdvanceMoves DEF Inv, MonitorAt
      <3>. QED  BY <2>1, <3>1, AdvanceMoves DEF Inv, TaskInv
    <2>2. CASE ReconcileAt(1) \/ ReconcileAt(2) \/ ReconcileAt(3) \/ ReconcileAt(4)
      <3>1. task' \in Tasks
        BY <2>2, AdvanceMoves DEF Inv
      <3>2. ReconcileAt(2)' \/ ReconcileAt(3)' \/ ReconcileAt(4)' \/ ReconcileAt(5)'
        BY <1>1, <2>2, AdvanceMoves DEF Inv, ReconcileAt
      <3>. QED  BY <3>1, <3>2 DEF Inv, TaskInv
    <2>3. CASE ReconcileAt(5) /\ Unsynced = {} /\ RowsExplained
      <3>1. task' \in Tasks
        BY <2>3, AdvanceMoves DEF Inv
      <3>2. ReconcileAt(6)'
        BY <1>1, <1>2, <2>3, AdvanceMoves DEF Inv, ReconcileAt
      <3>. QED  BY <3>1, <3>2 DEF Inv, TaskInv
    <2>. QED  BY <2>1, <2>2, <2>3
  <1>4. TypeOK'
    BY <1>3 DEF Inv, TypeOK, world, durable, Mems
  <1>. QED  BY <1>1, <1>3, <1>4, QuietKeepsInv

LEMMA PreflightKeepsInv == ASSUME Inv, Preflight PROVE Inv'
  <1>1. CASE Deny
    BY <1>1, DeniedKeepsInv DEF Preflight, Quiet, world
  <1>2. CASE Permitted /\ Advance /\ UNCHANGED <<mem, view, controls>>
    <2>1. DispatchAt(1) /\ mem \in Mems /\ ~mem.requires
      BY <1>2, Located DEF Preflight, Inv, TypeOK, Mems, Permitted, Healthy
    <2>. QED  BY <1>2, <2>1, DispatchStepKeepsInv DEF Preflight, Quiet
  <1>. QED  BY <1>1, <1>2 DEF Preflight

LEMMA ReportKeepsInv == ASSUME Inv, Report PROVE Inv'
  <1>1. CASE Deny
    BY <1>1, DeniedKeepsInv DEF Report, Quiet, world
  <1>2. mem \in Mems /\ (DispatchAt(2) \/ ReconcileAt(2))
    BY Located DEF Report, Inv, TypeOK, Mems
  <1>3. CASE Advance /\ Reconciles /\ UNCHANGED mem
    <2>1. UNCHANGED <<world, durable, ledger, dirty, view, review>> /\ ~dirty
      BY <1>3 DEF Report, Quiet, Reconciles
    <2>. QED  BY <1>2, <1>3, <2>1, DispatchStepKeepsInv, OtherStepKeepsInv
  <1>4. CASE /\ task.op # "dispatch" /\ Todo(<<"finish">>)
             /\ mem' = [mem EXCEPT !.journal = FALSE]
    <2>1. ReconcileAt(2)
      BY <1>2, <1>4 DEF DispatchAt
    <2>2. task' \in Tasks /\ task'.op = "reconcile" /\ task'.todo = Suffix(Reconciling, 6)
      <3>1. <<"finish">> \in Seq(StepNames)
        BY DEF StepNames
      <3>. QED  BY <1>4, <2>1, <3>1, LastSteps DEF Inv, TypeOK, Tasks, Todo, ReconcileAt
    <2>3. mem' \in Mems /\ ~mem'.journal /\ mem'.requires = mem.requires
      BY <1>2, <1>4 DEF Mems
    <2>4. ReconcileAt(6)'
      BY <2>2, <2>3 DEF ReconcileAt
    <2>5. UNCHANGED <<world, durable, ledger, dirty, view, review>>
      BY <1>4 DEF Report, Quiet
    <2>6. TypeOK' /\ TaskInv'
      BY <2>2, <2>3, <2>4, <2>5 DEF Inv, TypeOK, TaskInv, world, durable, Mems
    <2>. QED  BY <2>3, <2>5, <2>6, QuietKeepsInv DEF durable, tables
  <1>. QED  BY <1>1, <1>3, <1>4 DEF Report

LEMMA NothingToPersistKeepsInv == ASSUME Inv, NothingToPersist PROVE Inv'
  <1>1. mem \in Mems /\ ((ReconcileAt(1) /\ ~dirty) \/ ReconcileAt(3))
    BY Located DEF NothingToPersist, Inv, TypeOK, Mems
  <1>. QED  BY <1>1, OtherStepKeepsInv DEF NothingToPersist, Quiet, volatile

LEMMA SyncBeginKeepsInv == ASSUME Inv, SyncBegin PROVE Inv'
  <1>1. \/ DispatchAt(5) \/ DispatchAt(15) \/ DispatchAt(27)
        \/ MonitorAt(3) \/ ReconcileAt(4)
    BY Located DEF SyncBegin, Inv
  <1>2. mem' \in Mems /\ mem'.requires = mem.requires
    BY DEF SyncBegin, Inv, TypeOK, Mems
  <1>. QED  BY <1>1, <1>2, DispatchStepKeepsInv, OtherStepKeepsInv DEF SyncBegin, Quiet

LEMMA SyncEndKeepsInv == ASSUME Inv, SyncEnd PROVE Inv'
  <1>1. \/ DispatchAt(6) \/ DispatchAt(16) \/ DispatchAt(28)
        \/ MonitorAt(4) \/ ReconcileAt(5)
    BY Located DEF SyncEnd, Inv
  <1>2. mem' \in Mems /\ mem'.requires = mem.requires
    BY DEF SyncEnd, Inv, TypeOK, Mems
  <1>. QED  BY <1>1, <1>2, DispatchStepKeepsInv, OtherStepKeepsInv DEF SyncEnd, Quiet

LEMMA RiskKeepsInv == ASSUME Inv, Risk PROVE Inv'
  <1>1. mem \in Mems /\ DispatchAt(7)
    BY Located DEF Risk, Inv, TypeOK, Mems
  <1>. QED  BY <1>1, DispatchStepKeepsInv, DeniedKeepsInv DEF Risk, Quiet, world

LEMMA RecheckKeepsInv == ASSUME Inv, Recheck PROVE Inv'
  <1>1. mem \in Mems /\ DispatchAt(17)
    BY Located DEF Recheck, Inv, TypeOK, Mems
  <1>. QED  BY <1>1, DispatchStepKeepsInv, DeniedKeepsInv DEF Recheck, Quiet, world

LEMMA ReadBeforeKeepsInv == ASSUME Inv, ReadBefore PROVE Inv'
  <1>1. DispatchAt(10)
    BY Located DEF ReadBefore, Inv
  <1>2. Tail(task.todo) = Suffix(Dispatching, 11) /\ Suffix(Dispatching, 11) \in Seq(StepNames)
    <2>1. 10 \in 1..Len(Dispatching) /\ 11 \in 1..Len(Dispatching) /\ Dispatching \in Seq(StepNames)
      BY DispatchingType
    <2>. QED  BY <1>1, <2>1, SuffixFacts DEF DispatchAt
  <1>3. /\ task' \in Tasks /\ task'.op = task.op /\ task'.p = task.p
        /\ task'.todo = Suffix(Dispatching, 11)
    BY <1>2 DEF ReadBefore, Inv, TypeOK, Tasks
  <1>4. UNCHANGED <<world, durable, volatile>>
    BY DEF ReadBefore, Quiet
  <1>5. DispatchAt(11)'
    BY <1>1, <1>3, <1>4 DEF DispatchAt, durable, volatile, RowsExplained, OrdersIn, LocallyRejected
  <1>6. TypeOK' /\ TaskInv'
    BY <1>3, <1>4, <1>5 DEF Inv, TypeOK, TaskInv, world, durable, volatile
  <1>. QED  BY <1>4, <1>6, QuietKeepsInv DEF durable, volatile, tables

LEMMA ReadAfterKeepsInv == ASSUME Inv, ReadAfter PROVE Inv'
  <1>1. mem \in Mems /\ DispatchAt(11)
    BY Located DEF ReadAfter, Inv, TypeOK, Mems
  <1>. QED  BY <1>1, DispatchStepKeepsInv DEF ReadAfter, Quiet

LEMMA SaveReviewKeepsInv == ASSUME Inv, SaveReview PROVE Inv'
  <1>1. mem \in Mems /\ DispatchAt(12)
    BY Located DEF SaveReview, Inv, TypeOK, Mems
  <1>. QED  BY <1>1, DispatchStepKeepsInv, DeniedKeepsInv DEF SaveReview, Quiet, world

LEMMA FinalGateKeepsInv == ASSUME Inv, FinalGate PROVE Inv'
  <1>1. mem \in Mems /\ DispatchAt(21)
    BY Located DEF FinalGate, Inv, TypeOK, Mems
  <1>2. UNCHANGED <<world, durable, volatile>>
    BY DEF FinalGate, Quiet
  <1>3. CASE Advance
    BY <1>1, <1>2, <1>3, DispatchStepKeepsInv DEF volatile
  <1>4. CASE Todo(Rejecting)
    <2>1. /\ task' \in Tasks /\ task'.op = "dispatch" /\ task'.p = task.p
          /\ task'.todo = Suffix(Rejecting, 1)
      BY <1>1, <1>4, OtherSteps, SuffixWhole DEF Todo, Inv, TypeOK, Tasks, DispatchAt
    <2>2. RejectAt(1)'
      BY <1>1, <1>2, <2>1 DEF DispatchAt, RejectAt, durable, volatile
    <2>3. TypeOK' /\ TaskInv'
      BY <1>2, <2>1, <2>2 DEF Inv, TypeOK, TaskInv, world, durable, volatile
    <2>. QED  BY <1>2, <2>3, QuietKeepsInv DEF durable, volatile, tables
  <1>. QED  BY <1>3, <1>4 DEF FinalGate

LEMMA LogRowKeepsInv == ASSUME Inv, LogRow PROVE Inv'
  <1>1. mem \in Mems /\ DispatchAt(26)
    BY Located DEF LogRow, Inv, TypeOK, Mems
  <1>. QED  BY <1>1, DispatchStepKeepsInv DEF LogRow, Quiet, volatile

-----------------------------------------------------------------------------
(* Steps that change the ledger                                            *)

\* A quote fills working orders of a persisted ledger.
LEMMA QuoteKeepsInv == ASSUME Inv, Quote PROVE Inv'
  <1>1. DispatchAt(3) \/ DispatchAt(13) \/ MonitorAt(1)
    BY Located DEF Quote, Inv
  <1>2. /\ ledger = Base /\ dirty' = TRUE /\ Advance
        /\ UNCHANGED <<world, durable, mem, view, review>>
    BY DEF Quote, Quiet, Inv, LedgerInv
  <1>3. PICK filled \in SUBSET {p \in Proposals : ledger[p] = "OPEN"} :
           ledger' = [p \in Proposals |-> IF p \in filled THEN "FILLED" ELSE ledger[p]]
    BY DEF Quote
  <1>4. Base' = Base /\ (\A p \in Proposals : ledger'[p] # "none" <=> ledger[p] # "none")
    BY <1>2, <1>3 DEF Base, durable
  <1>5. task' \in Tasks /\ TaskInv'
    <2>1. RowsExplained' <=> RowsExplained
      BY <1>2, <1>4 DEF RowsExplained, OrdersIn, LocallyRejected, durable
    <2>2. CASE DispatchAt(3) \/ DispatchAt(13)
      <3>1. DispatchAt(4)' \/ DispatchAt(14)'
        BY <1>2, <1>4, <2>1, <2>2, AdvanceMoves DEF Inv, DispatchAt, durable
      <3>. QED  BY <1>2, <2>2, <3>1, AdvanceMoves DEF Inv, TaskInv
    <2>3. CASE MonitorAt(1)
      <3>1. MonitorAt(2)'
        BY <1>2, <2>3, AdvanceMoves DEF Inv, MonitorAt
      <3>. QED  BY <1>2, <2>3, <3>1, AdvanceMoves DEF Inv, TaskInv
    <2>. QED  BY <1>1, <2>2, <2>3
  <1>6. ledger' \in Ledgers
    BY <1>3 DEF Inv, TypeOK, Ledgers
  <1>7. TypeOK'
    BY <1>2, <1>5, <1>6 DEF Inv, TypeOK, world, durable
  <1>8. TablesInv'
    BY <1>2, <1>4 DEF Inv, TablesInv, durable
  <1>9. LedgerInv'
    <2>1. Fills(Base, ledger')
      BY <1>2, <1>3 DEF Fills
    <2>. QED  BY <1>2, <1>4, <2>1 DEF LedgerInv, Fills
  <1>10. ReviewInv'
    BY <1>2, <1>4 DEF Inv, ReviewInv, RowsExplained, OrdersIn, LocallyRejected, durable
  <1>. QED  BY <1>5, <1>7, <1>8, <1>9, <1>10 DEF Inv

\* The ledger's own review is a mutation that changes no order.
LEMMA ReviewLedgerKeepsInv == ASSUME Inv, ReviewLedger PROVE Inv'
  <1>1. DispatchAt(8)
    BY Located DEF ReviewLedger, Inv
  <1>2. /\ ledger = Base /\ dirty' = TRUE /\ Advance
        /\ UNCHANGED <<world, durable, ledger, mem, view, review>>
    BY DEF ReviewLedger, Quiet, Inv, LedgerInv
  <1>3. Base' = Base /\ (RowsExplained' <=> RowsExplained)
    BY <1>2 DEF Base, durable, RowsExplained, OrdersIn, LocallyRejected
  <1>4. task' \in Tasks /\ TaskInv'
    <2>1. DispatchAt(9)'
      BY <1>1, <1>2, <1>3, AdvanceMoves DEF Inv, DispatchAt, durable
    <2>. QED  BY <1>1, <1>2, <2>1, AdvanceMoves DEF Inv, TaskInv
  <1>5. TypeOK'
    BY <1>2, <1>4 DEF Inv, TypeOK, world, durable
  <1>6. TablesInv' /\ ReviewInv'
    BY <1>2, <1>3 DEF Inv, TablesInv, ReviewInv, durable
  <1>7. LedgerInv'
    <2>2. Fills(Base, Base)
      BY BaseType, FillsNothing DEF Inv
    <2>. QED  BY <1>2, <1>3, <2>2 DEF LedgerInv, Fills
  <1>. QED  BY <1>4, <1>5, <1>6, <1>7 DEF Inv

\* A snapshot: from here on a new process starts from this ledger.
LEMMA PersistKeepsInv == ASSUME Inv, Persist PROVE Inv'
  <1>1. \/ DispatchAt(4) \/ DispatchAt(9) \/ DispatchAt(14) \/ DispatchAt(24)
        \/ MonitorAt(2) \/ ReconcileAt(1) \/ ReconcileAt(3)
    BY Located DEF Persist, Inv
  <1>2. /\ saved' = ledger /\ dirty' = FALSE /\ Advance
        /\ UNCHANGED <<world, proposals, intent, command, denied, row, rejects, ledger, mem, view,
                       review>>
    BY DEF Persist, Quiet
  <1>3. Base' = ledger'
    BY <1>2, ShadowAssumption DEF Base, Inv, TypeOK, Ledgers
  <1>4. RowsExplained' <=> RowsExplained
    BY <1>2 DEF RowsExplained, OrdersIn, LocallyRejected
  <1>5. task' \in Tasks /\ TaskInv'
    <2>1. CASE DispatchAt(4) \/ DispatchAt(9) \/ DispatchAt(14) \/ DispatchAt(24)
      <3>1. DispatchAt(5)' \/ DispatchAt(10)' \/ DispatchAt(15)' \/ DispatchAt(25)'
        BY <1>2, <1>4, <2>1, AdvanceMoves DEF Inv, DispatchAt
      <3>. QED  BY <1>2, <2>1, <3>1, AdvanceMoves DEF Inv, TaskInv
    <2>2. CASE MonitorAt(2) \/ ReconcileAt(1) \/ ReconcileAt(3)
      <3>1. MonitorAt(3)' \/ ReconcileAt(2)' \/ ReconcileAt(4)'
        BY <1>2, <2>2, AdvanceMoves DEF Inv, MonitorAt, ReconcileAt
      <3>. QED  BY <1>2, <2>2, <3>1, AdvanceMoves DEF Inv, TaskInv
    <2>. QED  BY <1>1, <2>1, <2>2
  <1>6. TypeOK'
    BY <1>2, <1>5 DEF Inv, TypeOK, world
  <1>7. TablesInv' /\ LedgerInv' /\ ReviewInv'
    BY <1>2, <1>3, <1>4 DEF Inv, TablesInv, LedgerInv, ReviewInv
  <1>. QED  BY <1>5, <1>6, <1>7 DEF Inv

\* The order enters the ledger in memory, behind its denial.
LEMMA ApplyKeepsInv == ASSUME Inv, Apply PROVE Inv'
  <1>1. DispatchAt(23)
    BY Located DEF Apply, Inv
  <1>2. /\ ledger = Base /\ dirty /\ Base[task.p] = "none" /\ task.p \in denied
        /\ task.p \in Proposals /\ Advance
        /\ UNCHANGED <<world, durable, dirty, mem, view, review>>
    BY <1>1 DEF Apply, Quiet, DispatchAt
  <1>3. PICK s \in {"OPEN", "REJECTED"} : ledger' = [ledger EXCEPT ![task.p] = s]
    BY DEF Apply
  <1>4. Base' = Base
    BY <1>2 DEF Base, durable
  <1>5. ledger' \in Ledgers
    BY <1>3 DEF Inv, TypeOK, Ledgers
  <1>6. task' \in Tasks /\ TaskInv'
    <2>1. DispatchAt(24)'
      BY <1>1, <1>2, <1>3, <1>4, AdvanceMoves DEF Inv, TypeOK, Ledgers, DispatchAt, durable
    <2>. QED  BY <1>1, <1>2, <2>1, AdvanceMoves DEF Inv, TaskInv
  <1>7. TypeOK'
    BY <1>2, <1>5, <1>6 DEF Inv, TypeOK, world, durable
  <1>8. TablesInv'
    BY <1>2, <1>3, <1>4 DEF Inv, TypeOK, Ledgers, TablesInv, durable
  <1>9. LedgerInv'
    <2>1. Adds(Base, ledger')
      BY <1>2, <1>3 DEF Adds
    <2>. QED  BY <1>2, <1>4, <2>1 DEF LedgerInv, Adds, durable
  <1>10. ReviewInv'
    BY <1>1, <1>2 DEF ReviewInv, DispatchAt
  <1>. QED  BY <1>6, <1>7, <1>8, <1>9, <1>10 DEF Inv

-----------------------------------------------------------------------------
(* Steps that write the tables                                             *)

LEMMA SaveIntentKeepsInv == ASSUME Inv, SaveIntent PROVE Inv'
  <1>1. DispatchAt(18)
    BY Located DEF SaveIntent, Inv
  <1>2. /\ intent' = intent \union {task.p} /\ Advance /\ task.p \in Proposals
        /\ UNCHANGED <<world, proposals, command, denied, row, rejects, saved, ledger, dirty, mem,
                       view, review>>
    BY <1>1 DEF SaveIntent, Quiet, volatile, DispatchAt
  <1>3. Base' = Base /\ (RowsExplained' <=> RowsExplained)
    BY <1>2 DEF Base, RowsExplained, OrdersIn, LocallyRejected
  <1>4. task' \in Tasks /\ TaskInv'
    <2>1. DispatchAt(19)'
      BY <1>1, <1>2, AdvanceMoves DEF Inv, TablesInv, DispatchAt
    <2>. QED  BY <1>1, <1>2, <2>1, AdvanceMoves DEF Inv, TaskInv
  <1>5. TypeOK'
    BY <1>2, <1>4 DEF Inv, TypeOK, world
  <1>6. TablesInv' /\ LedgerInv' /\ ReviewInv'
    BY <1>2, <1>3 DEF Inv, TablesInv, LedgerInv, ReviewInv, Adds, Fills
  <1>. QED  BY <1>4, <1>5, <1>6 DEF Inv

LEMMA SaveCommandKeepsInv == ASSUME Inv, SaveCommand PROVE Inv'
  <1>1. DispatchAt(19)
    BY Located DEF SaveCommand, Inv
  <1>2. /\ command' = command \union {task.p} /\ Advance /\ task.p \in intent
        /\ UNCHANGED <<world, proposals, intent, denied, row, rejects, saved, ledger, dirty, mem,
                       view, review>>
    BY <1>1 DEF SaveCommand, Quiet, volatile, DispatchAt
  <1>3. Base' = Base
    BY <1>2 DEF Base
  <1>4. task' \in Tasks /\ TaskInv'
    <2>1. DispatchAt(20)'
      BY <1>1, <1>2, AdvanceMoves DEF Inv, TablesInv, DispatchAt
    <2>. QED  BY <1>1, <1>2, <2>1, AdvanceMoves DEF Inv, TaskInv
  <1>5. TypeOK'
    BY <1>2, <1>4 DEF Inv, TypeOK, world
  <1>6. TablesInv' /\ LedgerInv'
    BY <1>2, <1>3 DEF Inv, TablesInv, LedgerInv, Adds, Fills
  <1>7. ReviewInv'
    BY <1>1, <1>2 DEF ReviewInv, DispatchAt
  <1>. QED  BY <1>4, <1>5, <1>6, <1>7 DEF Inv

LEMMA SavePendingKeepsInv == ASSUME Inv, SavePending PROVE Inv'
  <1>1. DispatchAt(20)
    BY Located DEF SavePending, Inv
  <1>2. /\ row' = [row EXCEPT ![task.p] = "SUBMITTING"] /\ Advance /\ task.p \in command
        /\ task.p \in Proposals
        /\ UNCHANGED <<world, proposals, intent, command, denied, rejects, saved, ledger, dirty,
                       mem, view, review>>
    BY <1>1 DEF SavePending, Quiet, volatile, DispatchAt
  <1>3. Base' = Base
    BY <1>2 DEF Base
  <1>4. task' \in Tasks /\ TaskInv'
    <2>1. DispatchAt(21)'
      BY <1>1, <1>2, AdvanceMoves DEF Inv, TypeOK, DispatchAt
    <2>. QED  BY <1>1, <1>2, <2>1, AdvanceMoves DEF Inv, TaskInv
  <1>5. row' \in [Proposals -> RowStates]
    BY <1>2 DEF Inv, TypeOK, RowStates
  <1>6. TypeOK'
    BY <1>2, <1>4, <1>5 DEF Inv, TypeOK, world
  <1>7. TablesInv' /\ LedgerInv'
    BY <1>2, <1>3 DEF Inv, TypeOK, TablesInv, LedgerInv, Adds, Fills
  <1>8. ReviewInv'
    BY <1>1, <1>2 DEF ReviewInv, DispatchAt
  <1>. QED  BY <1>4, <1>6, <1>7, <1>8 DEF Inv

LEMMA RejectRowKeepsInv == ASSUME Inv, RejectRow PROVE Inv'
  <1>1. RejectAt(1)
    BY Located DEF RejectRow, Inv
  <1>2. /\ row' = [row EXCEPT ![task.p] = "REJECTED_LOCAL"] /\ Advance
        /\ task.p \in command \ denied /\ task.p \in Proposals
        /\ UNCHANGED <<world, proposals, intent, command, denied, rejects, saved, ledger, dirty,
                       mem, view, review>>
    BY <1>1 DEF RejectRow, Quiet, volatile, RejectAt
  <1>3. Base' = Base
    BY <1>2 DEF Base
  <1>4. task' \in Tasks /\ TaskInv'
    <2>1. RejectAt(2)'
      BY <1>1, <1>2, AdvanceMoves DEF Inv, RejectAt
    <2>. QED  BY <1>1, <1>2, <2>1, AdvanceMoves DEF Inv, TaskInv
  <1>5. row' \in [Proposals -> RowStates]
    BY <1>2 DEF Inv, TypeOK, RowStates
  <1>6. TypeOK'
    BY <1>2, <1>4, <1>5 DEF Inv, TypeOK, world
  <1>7. TablesInv' /\ LedgerInv'
    BY <1>2, <1>3 DEF Inv, TypeOK, TablesInv, LedgerInv, Adds, Fills
  <1>8. ReviewInv'
    BY <1>1, <1>2 DEF ReviewInv, RejectAt
  <1>. QED  BY <1>4, <1>6, <1>7, <1>8 DEF Inv

LEMMA RejectLogKeepsInv == ASSUME Inv, RejectLog PROVE Inv'
  <1>1. /\ rejects' = rejects \union {task.p}
        /\ UNCHANGED <<world, proposals, intent, command, denied, row, saved, ledger, dirty, review>>
        /\ task' = NoTask /\ (mem'.requires \/ mem' = mem)
    BY DenyEnds DEF RejectLog, Quiet, Inv
  <1>2. TypeOK'
    BY <1>1, DenyEnds DEF RejectLog, Inv, TypeOK, world
  <1>3. TablesInv' /\ LedgerInv' /\ TaskInv'
    BY <1>1 DEF Inv, TablesInv, LedgerInv, TaskInv, Base, Adds, Fills
  <1>4. RowsExplained => RowsExplained'
    BY <1>1 DEF RowsExplained, OrdersIn, LocallyRejected
  <1>. QED  BY <1>1, <1>2, <1>3, <1>4 DEF Inv, ReviewInv

LEMMA DenyWriteKeepsInv == ASSUME Inv, DenyWrite PROVE Inv'
  <1>1. DispatchAt(22)
    BY Located DEF DenyWrite, Inv
  <1>2. /\ ~dirty /\ dirty' = TRUE /\ denied' = denied \union {task.p} /\ Advance
        /\ task.p \in command \ denied /\ task.p \in Proposals
        /\ UNCHANGED <<world, proposals, intent, command, row, rejects, saved, ledger,
                       mem, view, review>>
    BY <1>1 DEF DenyWrite, Quiet, DispatchAt
  <1>3. Base' = Base /\ ledger = Base
    BY <1>2 DEF Base, Inv, LedgerInv
  <1>4. task' \in Tasks /\ TaskInv'
    <2>1. Base[task.p] = "none"
      BY <1>2 DEF Inv, TablesInv
    <2>2. DispatchAt(23)'
      BY <1>1, <1>2, <1>3, <2>1, AdvanceMoves DEF Inv, DispatchAt
    <2>. QED  BY <1>1, <1>2, <2>2, AdvanceMoves DEF Inv, TaskInv
  <1>5. TypeOK'
    BY <1>2, <1>4 DEF Inv, TypeOK, world
  <1>6. TablesInv'
    BY <1>1, <1>2, <1>3 DEF Inv, TablesInv, DispatchAt
  <1>7. LedgerInv'
    <2>2. Fills(Base, Base)
      BY BaseType, FillsNothing DEF Inv
    <2>. QED  BY <1>2, <1>3, <2>2 DEF LedgerInv, Fills
  <1>8. ReviewInv'
    BY <1>1, <1>2 DEF ReviewInv, DispatchAt
  <1>. QED  BY <1>4, <1>5, <1>6, <1>7, <1>8 DEF Inv

LEMMA SaveRowKeepsInv == ASSUME Inv, SaveRow PROVE Inv'
  <1>1. DispatchAt(25)
    BY Located DEF SaveRow, Inv
  <1>2. /\ row' = [row EXCEPT ![task.p] = ledger[task.p]] /\ Advance
        /\ task.p \in denied /\ task.p \in Proposals
        /\ UNCHANGED <<world, proposals, intent, command, denied, rejects, saved, ledger, dirty,
                       mem, view, review>>
    BY <1>1 DEF SaveRow, Quiet, volatile, DispatchAt
  <1>3. Base' = Base /\ ledger[task.p] \in {"OPEN", "FILLED", "REJECTED"}
    BY <1>1, <1>2 DEF Base, DispatchAt, Inv, TypeOK, Ledgers
  <1>4. task' \in Tasks /\ TaskInv'
    <2>1. DispatchAt(26)'
      BY <1>1, <1>2, <1>3, AdvanceMoves DEF Inv, TypeOK, DispatchAt
    <2>. QED  BY <1>1, <1>2, <2>1, AdvanceMoves DEF Inv, TaskInv
  <1>5. row' \in [Proposals -> RowStates]
    BY <1>2, <1>3 DEF Inv, TypeOK, RowStates
  <1>6. TypeOK'
    BY <1>2, <1>4, <1>5 DEF Inv, TypeOK, world
  <1>7. TablesInv' /\ LedgerInv'
    BY <1>2, <1>3 DEF Inv, TypeOK, TablesInv, LedgerInv, Adds, Fills
  <1>8. ReviewInv'
    BY <1>1, <1>2 DEF ReviewInv, DispatchAt
  <1>. QED  BY <1>4, <1>6, <1>7, <1>8 DEF Inv

\* Synchronisation copies an order of the persisted ledger to its row.
LEMMA SyncRowKeepsInv == ASSUME Inv, SyncRow PROVE Inv'
  <1>1. \/ DispatchAt(6) \/ DispatchAt(16) \/ DispatchAt(28)
        \/ MonitorAt(4) \/ ReconcileAt(5)
    BY Located DEF SyncRow, Inv
  <1>2. UNCHANGED <<world, proposals, intent, command, denied, rejects, saved, ledger, dirty,
                    mem, view, review, task>>
    BY DEF SyncRow, Quiet, volatile
  <1>3. PICK p \in Unsynced : p \in command /\ row' = [row EXCEPT ![p] = ledger[p]]
    BY DEF SyncRow
  <1>4. p \in Proposals /\ ledger[p] \in {"OPEN", "FILLED", "REJECTED"}
    BY DEF Unsynced, OrdersIn, Inv, TypeOK, Ledgers
  <1>5. Base' = Base
    BY <1>2 DEF Base
  <1>6. row' \in [Proposals -> RowStates] /\ row \in [Proposals -> RowStates]
    BY <1>3, <1>4 DEF Inv, TypeOK, RowStates
  <1>7. TypeOK'
    BY <1>2, <1>6 DEF Inv, TypeOK, world
  <1>8. TablesInv' /\ LedgerInv'
    BY <1>2, <1>3, <1>4, <1>5, <1>6 DEF Inv, TablesInv, LedgerInv, Adds, Fills
  <1>9. RowsExplained => RowsExplained'
    BY <1>2, <1>3, <1>4, <1>6 DEF RowsExplained, OrdersIn, LocallyRejected
  <1>10. TaskInv'
    <2>1. CASE DispatchAt(6) \/ DispatchAt(16) \/ DispatchAt(28)
      <3>1. DispatchAt(6)' \/ DispatchAt(16)' \/ DispatchAt(28)'
        BY <1>2, <1>3, <1>4, <1>6, <2>1 DEF DispatchAt
      <3>. QED  BY <3>1 DEF TaskInv
    <2>2. CASE MonitorAt(4) \/ ReconcileAt(5)
      <3>1. MonitorAt(4)' \/ ReconcileAt(5)'
        BY <1>2, <2>2 DEF MonitorAt, ReconcileAt
      <3>. QED  BY <3>1 DEF TaskInv
    <2>. QED  BY <1>1, <2>1, <2>2
  <1>11. ReviewInv'
    BY <1>2, <1>9 DEF Inv, ReviewInv
  <1>. QED  BY <1>7, <1>8, <1>10, <1>11 DEF Inv

LEMMA FinishKeepsInv == ASSUME Inv, Finish PROVE Inv'
  <1>1. ReconcileAt(6)
    BY Located DEF Finish, Inv
  <1>2. /\ Advance /\ UNCHANGED <<world, durable, ledger, dirty, review>>
        /\ mem' = [mem EXCEPT !.initialized = @ \/ (mem.journal /\ ~(Unresolved # {})),
                             !.requires = ~(mem.journal /\ ~(Unresolved # {}))]
    BY DEF Finish, Quiet
  <1>3. task' = NoTask
    BY <1>1, <1>2, AdvanceMoves DEF Inv
  <1>4. mem' \in Mems
    BY <1>2 DEF Inv, TypeOK, Mems
  <1>5. view' \in [db : BOOLEAN, fresh : BOOLEAN, reconciled : BOOLEAN, unresolved : BOOLEAN,
                   exec : BOOLEAN]
    <2>1. \A m, v, d : Healthy(m, v, d) \in BOOLEAN
      BY DEF Healthy
    <2>2. (Unresolved # {}) \in BOOLEAN /\ (mem.journal /\ ~(Unresolved # {})) \in BOOLEAN
      OBVIOUS
    <2>. QED  BY <2>1, <2>2 DEF Finish, Inv, TypeOK
  <1>6. TypeOK' /\ TaskInv'
    BY <1>2, <1>3, <1>4, <1>5, NoTaskType DEF Inv, TypeOK, TaskInv, world, durable, Mems
  <1>7. ~mem'.requires => RowsExplained
    BY <1>1, <1>2 DEF ReconcileAt, Inv, TypeOK
  <1>. QED  BY <1>2, <1>6, <1>7, QuietKeepsInv DEF durable, tables

-----------------------------------------------------------------------------
(* Around a task                                                           *)

LEMMA ReconcileBeginKeepsInv == ASSUME Inv, ReconcileBegin PROVE Inv'
  <1>1. PICK up \in {TRUE, faults = 0} :
           /\ view' = [view EXCEPT !.reconciled = FALSE, !.db = up,
                                  !.exec = IF up THEN @ ELSE FALSE]
           /\ task' = IF up THEN [NoTask EXCEPT !.op = "reconcile", !.todo = Reconciling] ELSE NoTask
           /\ faults' = IF up THEN faults ELSE faults - 1
    BY DEF ReconcileBegin
  <1>2. /\ mem' = [mem EXCEPT !.requires = TRUE]
        /\ UNCHANGED <<real, durable, ledger, dirty, review>>
    BY DEF ReconcileBegin
  <1>3. mem' \in Mems /\ mem'.requires
    BY <1>2 DEF Inv, TypeOK, Mems
  <1>4. faults' \in Nat
    <2>1. CASE up
      BY <1>1, <2>1 DEF Inv, TypeOK
    <2>2. CASE ~up
      <3>1. faults # 0
        <4>1. up = TRUE \/ up = (faults = 0)
          OBVIOUS
        <4>. QED  BY <2>2, <4>1
      <3>. QED  BY <1>1, <2>2, <3>1 DEF Inv, TypeOK
    <2>. QED  BY <2>1, <2>2
  <1>5. task' = NoTask \/ (task'.op = "reconcile" /\ task'.todo = Suffix(Reconciling, 1))
    <2>1. Suffix(Reconciling, 1) = Reconciling
      BY OtherSteps, SuffixWhole
    <2>2. CASE up
      BY <1>1, <2>1, <2>2 DEF NoTask
    <2>3. CASE up = FALSE
      BY <1>1, <2>3
    <2>4. up \in BOOLEAN
      OBVIOUS
    <2>. QED  BY <2>2, <2>3, <2>4
  <1>6. task' \in Tasks
    BY <1>1, OtherSteps, NoTaskType DEF NoTask, Tasks
  <1>7. TaskInv'
    <2>1. task' = NoTask \/ ReconcileAt(1)'
      BY <1>5 DEF ReconcileAt
    <2>. QED  BY <2>1 DEF TaskInv
  <1>8. up \in BOOLEAN
    OBVIOUS
  <1>9. TypeOK'
    BY <1>1, <1>2, <1>3, <1>4, <1>6, <1>8 DEF Inv, TypeOK, durable, Mems
  <1>. QED  BY <1>2, <1>3, <1>7, <1>9, QuietKeepsInv DEF durable, tables

LEMMA ScanKeepsInv == ASSUME Inv, Scan PROVE Inv'
  <1>1. UNCHANGED <<world, durable, ledger, dirty, mem, review>>
    BY DEF Scan, Quiet
  <1>2. view' \in [db : BOOLEAN, fresh : BOOLEAN, reconciled : BOOLEAN, unresolved : BOOLEAN,
                   exec : BOOLEAN]
    BY DEF Scan, Inv, TypeOK
  <1>3. CASE task' = task
    <2>1. TypeOK'
      BY <1>1, <1>2, <1>3 DEF Inv, TypeOK, world, durable
    <2>. QED  BY <1>1, <1>3, <2>1, AsideKeepsInv DEF durable, tables
  <1>4. CASE \E first \in {Consume, <<>>} :
                task' = [NoTask EXCEPT !.op = "monitor", !.todo = first \o <<"exits">>]
    <2>1. <<>> \o <<"exits">> = <<"exits">> /\ <<"exits">> \in Seq(StepNames)
      BY DEF StepNames
    <2>6. Suffix(Monitoring, 1) = Consume \o <<"exits">>
      BY OtherSteps, SuffixWhole DEF Monitoring
    <2>2. PICK k \in {1, 5} :
             task' = [NoTask EXCEPT !.op = "monitor", !.todo = Suffix(Monitoring, k)]
      BY <1>4, <2>1, <2>6, LastSteps
    <2>3. Suffix(Monitoring, k) \in Seq(StepNames)
      BY <2>1, LastSteps, OtherSteps, SuffixWhole
    <2>4. task' \in Tasks /\ MonitorAt(k)'
      <3>1. k \notin {3, 4}
        OBVIOUS
      <3>2. task' \in Tasks /\ task'.op = "monitor" /\ task'.todo = Suffix(Monitoring, k)
        BY <2>2, <2>3 DEF NoTask, Tasks
      <3>. QED  BY <3>1, <3>2 DEF MonitorAt
    <2>5. TypeOK' /\ TaskInv'
      BY <1>1, <1>2, <2>4 DEF Inv, TypeOK, TaskInv, world, durable
    <2>. QED  BY <1>1, <2>5, QuietKeepsInv DEF durable, tables
  <1>. QED  BY <1>3, <1>4 DEF Scan

LEMMA ProposeExitsKeepsInv == ASSUME Inv, ProposeExits PROVE Inv'
  <1>1. MonitorAt(5)
    BY Located DEF ProposeExits, Inv
  <1>2. /\ Advance
        /\ UNCHANGED <<world, intent, command, denied, row, rejects, saved, ledger, dirty, mem,
                       review>>
    BY DEF ProposeExits, Quiet
  <1>3. task' = NoTask
    BY <1>1, <1>2, AdvanceMoves DEF Inv
  <1>4. proposals' \subseteq Proposals
    BY DEF ProposeExits, Inv, TypeOK, Proposals
  <1>5. view' \in [db : BOOLEAN, fresh : BOOLEAN, reconciled : BOOLEAN, unresolved : BOOLEAN,
                   exec : BOOLEAN]
    BY DEF ProposeExits, Inv, TypeOK, Healthy
  <1>6. TypeOK'
    BY <1>2, <1>3, <1>4, <1>5, NoTaskType DEF Inv, TypeOK, world
  <1>. QED  BY <1>2, <1>3, <1>6, AsideKeepsInv DEF tables

LEMMA AddProposalKeepsInv == ASSUME Inv, AddProposal PROVE Inv'
  <1>1. proposals' \subseteq Proposals
    BY DEF AddProposal, Inv, TypeOK, Proposals
  <1>2. TypeOK'
    BY <1>1 DEF AddProposal, Quiet, Inv, TypeOK, world, volatile
  <1>. QED  BY <1>2, AsideKeepsInv DEF AddProposal, tables, volatile

LEMMA DispatchKeepsInv == ASSUME Inv, Dispatch PROVE Inv'
  <1>1. UNCHANGED <<world, durable, volatile>>
    BY DEF Dispatch, Quiet
  <1>2. PICK p \in proposals \ intent :
           task' = [NoTask EXCEPT !.op = "dispatch", !.p = p, !.todo = Dispatching]
    BY DEF Dispatch
  <1>3. p \in Proposals /\ Suffix(Dispatching, 1) = Dispatching
    BY DispatchingType, SuffixWhole DEF Inv, TypeOK
  <1>4. /\ task' \in Tasks /\ task'.op = "dispatch" /\ task'.p = p
        /\ task'.todo = Suffix(Dispatching, 1)
    BY <1>2, <1>3, DispatchingType DEF NoTask, Tasks
  <1>5. DispatchAt(1)'
    BY <1>1, <1>3, <1>4 DEF DispatchAt, durable
  <1>6. TypeOK' /\ TaskInv'
    BY <1>1, <1>4, <1>5 DEF Inv, TypeOK, TaskInv, world, durable, volatile
  <1>. QED  BY <1>1, <1>6, QuietKeepsInv DEF durable, volatile, tables

LEMMA AbandonKeepsInv ==
    ASSUME Inv, Abandon, real' = real, faults' \in Nat,
           UNCHANGED <<durable, ledger, dirty, mem, review>>
    PROVE  Inv'
  <1>1. view' \in [db : BOOLEAN, fresh : BOOLEAN, reconciled : BOOLEAN, unresolved : BOOLEAN,
                   exec : BOOLEAN] /\ task' = NoTask
    BY DEF Abandon, Inv, TypeOK
  <1>2. TypeOK'
    BY <1>1, NoTaskType DEF Inv, TypeOK, durable
  <1>. QED  BY <1>1, <1>2, AsideKeepsInv DEF durable, tables

LEMMA RaiseKeepsInv == ASSUME Inv, Raise PROVE Inv'
  BY AbandonKeepsInv DEF Raise, Quiet, world, Inv, TypeOK

LEMMA HealthReadKeepsInv == ASSUME Inv, HealthRead PROVE Inv'
  <1>1. TypeOK'
    BY DEF HealthRead, Inv, TypeOK, world, durable, volatile
  <1>. QED  BY <1>1, AsideKeepsInv DEF HealthRead, durable, volatile, tables

LEMMA HealthWriteKeepsInv == ASSUME Inv, HealthWrite PROVE Inv'
  <1>1. view' \in [db : BOOLEAN, fresh : BOOLEAN, reconciled : BOOLEAN, unresolved : BOOLEAN,
                   exec : BOOLEAN]
    BY DEF HealthWrite, Inv, TypeOK, Healthy
  <1>2. TypeOK'
    BY <1>1 DEF HealthWrite, Inv, TypeOK, world, durable
  <1>. QED  BY <1>2, AsideKeepsInv DEF HealthWrite, durable, tables

LEMMA OperatorKeepsInv == ASSUME Inv, Operator PROVE Inv'
  <1>1. TypeOK'
    BY DEF Operator, Inv, TypeOK, world, durable, volatile
  <1>. QED  BY <1>1, AsideKeepsInv DEF Operator, durable, volatile, tables

-----------------------------------------------------------------------------
(* Faults                                                                  *)

\* A placement runs from its denial to the transition record of its row.
LEMMA PlacingIsPlaced ==
    ASSUME TypeOK, TaskInv, Placing
    PROVE  \E n \in 22..26 : DispatchAt(n)
  <1>1. /\ task.todo \in Seq(StepNames)
        /\ \E i \in 1..Len(task.todo) : task.todo[i] = "row_log"
        /\ ~\E i \in 1..Len(task.todo) : task.todo[i] = "gate"
    BY DEF Placing, ToSet, TypeOK, Tasks
  <1>2. task # NoTask
    BY <1>1, NoTaskType
  <1>3. ASSUME NEW P \in Seq(StepNames), NEW n \in 1..Len(P), task.todo = Suffix(P, n)
        PROVE  /\ \E j \in n..Len(P) : P[j] = "row_log"
               /\ \A j \in n..Len(P) : P[j] # "gate"
    <2>1. /\ Len(task.todo) = Len(P) + 1 - n /\ Len(P) \in Nat
          /\ \A i \in 1..(Len(P) + 1 - n) : task.todo[i] = P[n + i - 1]
      BY <1>3, SuffixFacts
    <2>2. \E j \in n..Len(P) : P[j] = "row_log"
      <3>1. PICK i \in 1..Len(task.todo) : task.todo[i] = "row_log"
        BY <1>1
      <3>2. n + i - 1 \in n..Len(P) /\ P[n + i - 1] = "row_log"
        BY <2>1, <3>1
      <3>. QED  BY <3>2
    <2>3. ASSUME NEW j \in n..Len(P) PROVE P[j] # "gate"
      <3>1. j - n + 1 \in 1..Len(task.todo) /\ n + (j - n + 1) - 1 = j
        BY <2>1
      <3>2. task.todo[j - n + 1] = P[j]
        BY <2>1, <3>1
      <3>. QED  BY <1>1, <3>1, <3>2
    <2>. QED  BY <2>2, <2>3
  <1>4. ASSUME NEW n \in 1..2, RejectAt(n) PROVE FALSE
    <2>1. \E j \in n..2 : Rejecting[j] = "row_log"
      BY <1>3, <1>4, OtherSteps DEF RejectAt
    <2>. QED  BY <2>1, OtherPlaces
  <1>5. ASSUME NEW n \in 1..5, MonitorAt(n) PROVE FALSE
    <2>1. \E j \in n..5 : Monitoring[j] = "row_log"
      BY <1>3, <1>5, OtherSteps DEF MonitorAt
    <2>. QED  BY <2>1, OtherPlaces
  <1>6. ASSUME NEW n \in 1..6, ReconcileAt(n) PROVE FALSE
    <2>1. \E j \in n..6 : Reconciling[j] = "row_log"
      BY <1>3, <1>6, OtherSteps DEF ReconcileAt
    <2>. QED  BY <2>1, OtherPlaces
  <1>7. PICK n \in 1..28 : DispatchAt(n)
    BY <1>2, <1>4, <1>5, <1>6 DEF TaskInv
  <1>8. (\E j \in n..28 : Dispatching[j] = "row_log") /\ (\A j \in n..28 : Dispatching[j] # "gate")
    BY <1>3, <1>7, DispatchingType DEF DispatchAt
  <1>9. n <= 26
    <2>1. PICK j \in n..28 : Dispatching[j] = "row_log"
      BY <1>8
    <2>2. j = 26
      BY <2>1, Places
    <2>. QED  BY <2>2
  <1>10. n > 21
    <2>1. Dispatching[21] = "gate"
      BY DispatchingSteps
    <2>. QED  BY <1>8, <2>1
  <1>. QED  BY <1>7, <1>9, <1>10

\* What a cancelled placement leaves behind.
LEMMA Cancelled ==
    ASSUME Inv, PlacementCancelled
    PROVE  /\ task.p \in command /\ task.p \in Proposals
           /\ row[task.p] \notin {"none", "REJECTED_LOCAL"}
           /\ review.verdict = "ok"
  <1>1. PICK n \in 22..26 : DispatchAt(n)
    BY PlacingIsPlaced DEF PlacementCancelled, Inv
  <1>2. CASE n = 22
    BY <1>1, <1>2 DEF DispatchAt
  <1>3. CASE n # 22
    <2>1. n >= 23
      BY <1>3
    <2>. QED  BY <1>1, <2>1 DEF DispatchAt, Inv, TablesInv
  <1>. QED  BY <1>2, <1>3

LEMMA PlacementCancelledKeepsInv ==
    ASSUME Inv, PlacementCancelled, real' = real, faults' \in Nat
    PROVE  Inv'
  <1>1. /\ task' = NoTask
        /\ UNCHANGED <<proposals, intent, command, denied, rejects, saved, ledger, dirty, mem, view,
                       review>>
        /\ row' = [row EXCEPT ![task.p] = "UNKNOWN"] \/ row' = row
    BY DEF PlacementCancelled
  <1>2. Base' = Base
    BY <1>1 DEF Base
  <1>3. row' \in [Proposals -> RowStates] /\ row \in [Proposals -> RowStates]
    BY <1>1 DEF Inv, TypeOK, RowStates
  <1>4. TypeOK' /\ TaskInv'
    BY <1>1, <1>3, NoTaskType DEF Inv, TypeOK, TaskInv
  <1>5. TablesInv' /\ LedgerInv'
    BY <1>1, <1>2, <1>3, Cancelled DEF Inv, TablesInv, LedgerInv, Adds, Fills
  <1>6. ReviewInv'
    BY <1>1, Cancelled DEF ReviewInv
  <1>. QED  BY <1>4, <1>5, <1>6 DEF Inv

LEMMA RestartKeepsInv ==
    ASSUME Inv, Restart, real' = real, faults' \in Nat
    PROVE  Inv'
  <1>1. /\ ledger' = Base /\ dirty' = FALSE /\ task' = NoTask /\ review' = NoReview
        /\ mem' \in Mems
        /\ view' \in [db : BOOLEAN, fresh : BOOLEAN, reconciled : BOOLEAN, unresolved : BOOLEAN,
                      exec : BOOLEAN]
        /\ UNCHANGED durable
    BY DEF Restart, NewProcess, Base, Mems
  <1>2. Base' = Base /\ Base \in Ledgers
    BY <1>1, BaseType DEF Base, durable, Inv
  <1>3. TypeOK' /\ TaskInv'
    BY <1>1, <1>2, NoTaskType DEF Inv, TypeOK, TaskInv, durable, Mems
  <1>4. TablesInv' /\ LedgerInv'
    BY <1>1, <1>2 DEF Inv, TablesInv, LedgerInv, durable
  <1>5. ReviewInv'
    BY <1>1 DEF ReviewInv, NoReview
  <1>. QED  BY <1>3, <1>4, <1>5 DEF Inv

LEMMA FaultKeepsInv == ASSUME Inv, Fault PROVE Inv'
  <1>1. faults' \in Nat
    BY DEF Fault, Inv, TypeOK
  <1>2. CASE ScanFails /\ UNCHANGED real
    <2>1. view' \in [db : BOOLEAN, fresh : BOOLEAN, reconciled : BOOLEAN, unresolved : BOOLEAN,
                     exec : BOOLEAN]
      BY <1>2 DEF ScanFails, Inv, TypeOK
    <2>2. TypeOK'
      BY <1>1, <1>2, <2>1 DEF ScanFails, Inv, TypeOK, durable
    <2>. QED  BY <1>2, <2>2, AsideKeepsInv DEF ScanFails, durable, tables
  <1>3. CASE AwaitFails /\ UNCHANGED real
    BY <1>1, <1>3, AbandonKeepsInv DEF AwaitFails
  <1>4. CASE PlacementCancelled /\ UNCHANGED real
    BY <1>1, <1>4, PlacementCancelledKeepsInv
  <1>5. CASE Restart /\ UNCHANGED real
    BY <1>1, <1>5, RestartKeepsInv
  <1>6. CASE RealChanges
    <2>1. TypeOK'
      BY <1>1, <1>6 DEF RealChanges, Inv, TypeOK, durable, volatile
    <2>. QED  BY <1>6, <2>1, AsideKeepsInv DEF RealChanges, durable, volatile, tables
  <1>. QED  BY <1>2, <1>3, <1>4, <1>5, <1>6 DEF Fault

-----------------------------------------------------------------------------
(* The invariant                                                           *)

LEMMA InitEstablishesInv == Init => Inv
  <1> SUFFICES ASSUME Init PROVE Inv
    OBVIOUS
  <1>1. Base = Empty /\ Empty \in Ledgers /\ Empty \in [Proposals -> RowStates]
    BY DEF Init, Base, Empty, Ledgers, RowStates
  <1>2. TypeOK /\ TaskInv
    BY <1>1, NoTaskType, ShadowAssumption DEF Init, TypeOK, TaskInv
  <1>3. TablesInv /\ LedgerInv
    BY <1>1 DEF Init, TablesInv, LedgerInv, Empty
  <1>4. ReviewInv
    BY DEF Init, ReviewInv, NoReview
  <1>. QED  BY <1>2, <1>3, <1>4 DEF Inv

LEMMA StutterKeepsInv == ASSUME Inv, UNCHANGED vars PROVE Inv'
  <1>1. TypeOK'
    BY DEF Inv, TypeOK, vars, world, durable, volatile
  <1>. QED  BY <1>1, AsideKeepsInv DEF vars, world, durable, volatile, tables

LEMMA NextKeepsInv == Inv /\ [Next]_vars => Inv'
  <1> SUFFICES ASSUME Inv, [Next]_vars PROVE Inv'
    OBVIOUS
  <1>1. CASE Step
    BY <1>1, PreflightKeepsInv, ReportKeepsInv, QuoteKeepsInv, PersistKeepsInv,
       NothingToPersistKeepsInv, SyncBeginKeepsInv, SyncRowKeepsInv, SyncEndKeepsInv, RiskKeepsInv,
       RecheckKeepsInv, ReviewLedgerKeepsInv, ReadBeforeKeepsInv, ReadAfterKeepsInv,
       SaveReviewKeepsInv, SaveIntentKeepsInv, SaveCommandKeepsInv, SavePendingKeepsInv,
       FinalGateKeepsInv, RejectRowKeepsInv, RejectLogKeepsInv, DenyWriteKeepsInv, ApplyKeepsInv,
       SaveRowKeepsInv, LogRowKeepsInv, FinishKeepsInv, ProposeExitsKeepsInv, RaiseKeepsInv
       DEF Step
  <1>2. CASE UNCHANGED vars
    BY <1>2, StutterKeepsInv
  <1>. QED  BY <1>1, <1>2, ReconcileBeginKeepsInv, ScanKeepsInv, AddProposalKeepsInv,
               DispatchKeepsInv, HealthReadKeepsInv, HealthWriteKeepsInv, OperatorKeepsInv,
               FaultKeepsInv DEF Next

\* Broker shadow keeps its books at every place of every task: intent before command
\* before denial before order, and a ledger at most one mutation ahead of its snapshot.
THEOREM BrokerShadowInvariant == Spec => []Inv
  BY InitEstablishesInv, NextKeepsInv, PTL DEF Spec

-----------------------------------------------------------------------------
(* The refinement                                                          *)

Refused == {p \in Proposals : row[p] = "REJECTED_LOCAL"}

\* A row that is neither taken from nor turned into a local rejection refuses nothing new.
LEMMA RefusedSame ==
    ASSUME NEW p \in Proposals, NEW s, row \in [Proposals -> RowStates],
           row' = [row EXCEPT ![p] = s], s # "REJECTED_LOCAL", row[p] # "REJECTED_LOCAL"
    PROVE  Refused' = Refused
  BY DEF Refused

LEMMA JournalStutters == ASSUME UNCHANGED tables PROVE UNCHANGED Journal!vars
  BY DEF tables, Journal!vars, Journal!journal

LEMMA SaveIntentRefines == ASSUME Inv, SaveIntent PROVE Journal!Next
  <1>1. task.p \in Proposals \ intent /\ intent' = intent \union {task.p}
        /\ UNCHANGED <<command, denied, row, saved>>
    BY Located DEF SaveIntent, DispatchAt, Inv
  <1>2. Journal!Intend(task.p)
    BY <1>1 DEF Journal!Intend
  <1>. QED  BY <1>1, <1>2 DEF Journal!Next, Journal!Write

LEMMA SaveCommandRefines == ASSUME Inv, SaveCommand PROVE Journal!Next
  <1>1. /\ task.p \in Proposals /\ task.p \in intent \ command
        /\ command' = command \union {task.p}
        /\ UNCHANGED <<intent, denied, row, saved>>
    BY Located DEF SaveCommand, DispatchAt, Inv
  <1>2. Journal!Command(task.p)
    BY <1>1 DEF Journal!Command
  <1>. QED  BY <1>1, <1>2 DEF Journal!Next, Journal!Write

LEMMA SavePendingRefines == ASSUME Inv, SavePending PROVE Journal!Next
  <1>1. /\ task.p \in Proposals /\ task.p \in command /\ row[task.p] = "none"
        /\ row' = [row EXCEPT ![task.p] = "SUBMITTING"]
        /\ UNCHANGED <<intent, command, denied, saved>>
    BY Located DEF SavePending, DispatchAt, Inv
  <1>2. Refused' = Refused
    BY <1>1, RefusedSame DEF Inv, TypeOK
  <1>3. Journal!Pend(task.p)
    BY <1>1, <1>2 DEF Journal!Pend, Journal!Row, Journal!journal, Refused
  <1>. QED  BY <1>1, <1>3 DEF Journal!Next

LEMMA RejectRowRefines == ASSUME Inv, RejectRow PROVE Journal!Next
  <1>1. /\ task.p \in Proposals /\ task.p \in command \ denied /\ row[task.p] = "SUBMITTING"
        /\ row' = [row EXCEPT ![task.p] = "REJECTED_LOCAL"]
        /\ UNCHANGED <<intent, command, denied, saved>>
    BY Located DEF RejectRow, RejectAt, Inv
  <1>2. task.p \notin Refused /\ Refused' = Refused \union {task.p}
    BY <1>1 DEF Inv, TypeOK, Refused
  <1>3. Journal!Refuse(task.p) /\ Journal!Row(task.p, "REJECTED_LOCAL")
    BY <1>1, <1>2 DEF Journal!Refuse, Journal!Row, Refused
  <1>. QED  BY <1>1, <1>3 DEF Journal!Next, Journal!Write, Journal!Refuse, Journal!Row

LEMMA DenyWriteRefines == ASSUME Inv, DenyWrite PROVE Journal!Next
  <1>1. /\ task.p \in Proposals /\ task.p \in command \ denied /\ row[task.p] = "SUBMITTING"
        /\ denied' = denied \union {task.p}
        /\ UNCHANGED <<intent, command, row, saved>>
    BY Located DEF DenyWrite, DispatchAt, Inv
  <1>2. Journal!Deny(task.p)
    BY <1>1 DEF Journal!Deny
  <1>. QED  BY <1>1, <1>2 DEF Journal!Next, Journal!Write

LEMMA PersistRefines == ASSUME Inv, Persist PROVE [Journal!Next]_(Journal!vars)
  <1>1. Base' = ledger /\ UNCHANGED <<intent, command, denied, row>>
    BY ShadowAssumption DEF Persist, Base, Inv, TypeOK, Ledgers
  <1>2. Journal!journal' = Journal!journal
    BY <1>1 DEF Journal!journal
  <1>3. CASE ~dirty
    BY <1>1, <1>2, <1>3 DEF Inv, LedgerInv, Journal!vars, Base
  <1>4. CASE Fills(Base, ledger)
    <2>1. Journal!Fill
      BY <1>1, <1>2, <1>4 DEF Journal!Fill, Fills, Base
    <2>. QED  BY <2>1 DEF Journal!Next
  <1>5. CASE Adds(Base, ledger)
    <2>1. PICK p \in denied : \E s \in {"OPEN", "REJECTED"} :
             Base[p] = "none" /\ ledger = [Base EXCEPT ![p] = s]
      BY <1>5 DEF Adds
    <2>2. p \in Proposals
      BY DEF Inv, TypeOK, TablesInv
    <2>3. Journal!Apply(p)
      BY <1>1, <1>2, <2>1 DEF Journal!Apply, Base
    <2>. QED  BY <2>2, <2>3 DEF Journal!Next
  <1>. QED  BY <1>3, <1>4, <1>5 DEF Inv, LedgerInv

\* A row is written from a ledger that is on disk.
LEMMA ConfirmRefines ==
    ASSUME Inv, ~dirty, NEW p \in Proposals, ledger[p] # "none",
           row' = [row EXCEPT ![p] = ledger[p]], UNCHANGED <<intent, command, denied, saved>>
    PROVE  Journal!Next
  <1>1. ledger = Base /\ Base' = Base
    BY DEF Inv, LedgerInv, Base
  <1>2. row[p] # "REJECTED_LOCAL" /\ ledger[p] # "REJECTED_LOCAL"
    BY DEF Inv, TypeOK, TablesInv, Ledgers
  <1>3. Refused' = Refused
    BY <1>2, RefusedSame DEF Inv, TypeOK
  <1>4. Journal!Confirm(p)
    BY <1>1, <1>3 DEF Journal!Confirm, Journal!Row, Journal!journal, Refused, Base
  <1>. QED  BY <1>4 DEF Journal!Next

LEMMA SaveRowRefines == ASSUME Inv, SaveRow PROVE Journal!Next
  <1>1. ~dirty /\ task.p \in Proposals /\ ledger[task.p] # "none"
    BY Located DEF SaveRow, DispatchAt, Inv
  <1>. QED  BY <1>1, ConfirmRefines DEF SaveRow

LEMMA SyncRowRefines == ASSUME Inv, SyncRow PROVE Journal!Next
  <1>1. ~dirty
    <2>1. \/ DispatchAt(6) \/ DispatchAt(16) \/ DispatchAt(28)
          \/ MonitorAt(4) \/ ReconcileAt(5)
      BY Located DEF SyncRow, Inv
    <2>. QED  BY <2>1 DEF DispatchAt, MonitorAt, ReconcileAt
  <1>2. PICK p \in Unsynced : row' = [row EXCEPT ![p] = ledger[p]]
    BY DEF SyncRow
  <1>3. p \in Proposals /\ ledger[p] # "none"
    BY DEF Unsynced, OrdersIn
  <1>. QED  BY <1>1, <1>2, <1>3, ConfirmRefines DEF SyncRow

LEMMA CancelRefines == ASSUME Inv, PlacementCancelled PROVE [Journal!Next]_(Journal!vars)
  <1>1. UNCHANGED <<intent, command, denied, rejects, saved>>
    BY DEF PlacementCancelled
  <1>2. CASE row' = [row EXCEPT ![task.p] = "UNKNOWN"]
    <2>1. Refused' = Refused /\ task.p \in command \ Refused /\ task.p \in Proposals
      BY <1>2, Cancelled, RefusedSame DEF Inv, TypeOK, Refused
    <2>2. Journal!Doubt(task.p)
      BY <1>1, <1>2, <2>1, Cancelled DEF Journal!Doubt, Journal!Row, Journal!journal, Refused
    <2>. QED  BY <2>1, <2>2 DEF Journal!Next
  <1>3. CASE UNCHANGED row
    BY <1>1, <1>3, JournalStutters DEF tables
  <1>. QED  BY <1>2, <1>3 DEF PlacementCancelled

\* The steps that write no table but the transition record of a rejection.
LEMMA StepRefines == ASSUME Inv, Step PROVE [Journal!Next]_(Journal!vars)
  <1>1. CASE \/ Preflight \/ Report \/ Quote \/ NothingToPersist \/ SyncBegin \/ SyncEnd
             \/ Risk \/ Recheck \/ ReviewLedger \/ ReadBefore \/ ReadAfter \/ SaveReview
             \/ FinalGate \/ Apply \/ LogRow \/ Finish \/ Raise
    <2>1. UNCHANGED durable
      BY <1>1 DEF Preflight, Report, Quote, NothingToPersist, SyncBegin, SyncEnd, Risk, Recheck,
                  ReviewLedger, ReadBefore, ReadAfter, SaveReview, FinalGate, Apply, LogRow,
                  Finish, Raise
    <2>. QED  BY <2>1, JournalStutters DEF durable, tables
  <1>2. CASE RejectLog \/ ProposeExits
    BY <1>2 DEF RejectLog, ProposeExits, Journal!vars, Journal!journal
  <1>. QED  BY <1>1, <1>2, SaveIntentRefines, SaveCommandRefines, SavePendingRefines,
               RejectRowRefines, DenyWriteRefines, PersistRefines, SaveRowRefines, SyncRowRefines
               DEF Step

LEMMA NextRefines == Inv /\ [Next]_vars => [Journal!Next]_(Journal!vars)
  <1> SUFFICES ASSUME Inv, [Next]_vars PROVE [Journal!Next]_(Journal!vars)
    OBVIOUS
  <1>1. CASE ReconcileBegin \/ Scan \/ Dispatch \/ HealthRead \/ HealthWrite \/ Operator
    <2>1. UNCHANGED durable
      BY <1>1 DEF ReconcileBegin, Scan, Dispatch, HealthRead, HealthWrite, Operator
    <2>. QED  BY <2>1, JournalStutters DEF durable, tables
  <1>2. CASE AddProposal \/ UNCHANGED vars
    BY <1>2, JournalStutters DEF AddProposal, tables, vars, durable
  <1>3. CASE Fault
    <2>1. CASE ScanFails \/ AwaitFails \/ Restart \/ RealChanges
      <3>1. UNCHANGED durable
        BY <2>1 DEF ScanFails, AwaitFails, Restart, RealChanges
      <3>. QED  BY <3>1, JournalStutters DEF durable, tables
    <2>. QED  BY <1>3, <2>1, CancelRefines DEF Fault
  <1>. QED  BY <1>1, <1>2, <1>3, StepRefines DEF Next

LEMMA InitRefines == Init => Journal!Init
  BY DEF Init, Journal!Init, Journal!JournalInit, Empty

\* Whatever fails, is cancelled or restarts, the durable tables of broker shadow behave as
\* ShadowJournal says: the snapshot gains an order only behind its intent, exact command and
\* denial, and a row says what the snapshot says.
THEOREM ShadowImplementsJournal == Spec => ImplementsJournal
  <1>1. Spec => Journal!Spec
    BY BrokerShadowInvariant, InitRefines, NextRefines, PTL DEF Spec, Journal!Spec
  <1>. QED  BY <1>1 DEF ImplementsJournal

-----------------------------------------------------------------------------
(* What a reconciliation and a halt say                                    *)

\* Only the end of a reconciliation calls the journal reconciled.
LEMMA OnlyFinishReconciles ==
    ASSUME Inv, [Next]_vars, view'.reconciled, ~view.reconciled
    PROVE  Finish
  <1> DEFINE Views == [db : BOOLEAN, fresh : BOOLEAN, reconciled : BOOLEAN, unresolved : BOOLEAN,
                       exec : BOOLEAN]
  <1>1. view \in Views
    BY DEF Inv, TypeOK
  <1>2. ASSUME Deny \/ UNCHANGED view \/ Abandon \/ ScanFails PROVE FALSE
    BY <1>1, <1>2 DEF Deny, Abandon, ScanFails
  <1>3. CASE Step
    BY <1>1, <1>2, <1>3 DEF Step, Preflight, Report, Quote, Persist, NothingToPersist,
       SyncBegin, SyncRow, SyncEnd, Risk, Recheck, ReviewLedger, ReadBefore, ReadAfter, SaveReview,
       SaveIntent, SaveCommand, SavePending, FinalGate, RejectRow, RejectLog, DenyWrite, Apply,
       SaveRow, LogRow, ProposeExits, Raise, volatile
  <1>4. CASE ReconcileBegin \/ Scan \/ HealthWrite
    BY <1>1, <1>4 DEF ReconcileBegin, Scan, HealthWrite
  <1>5. CASE AddProposal \/ Dispatch \/ HealthRead \/ Operator \/ UNCHANGED vars
    BY <1>2, <1>5 DEF AddProposal, Dispatch, HealthRead, Operator, vars, volatile
  <1>6. CASE Fault
    <2>1. CASE PlacementCancelled \/ RealChanges
      BY <1>2, <2>1 DEF PlacementCancelled, RealChanges, volatile
    <2>2. CASE Restart
      BY <2>2 DEF Restart, NewProcess
    <2>. QED  BY <1>2, <1>6, <2>1, <2>2 DEF Fault, AwaitFails
  <1>. QED  BY <1>3, <1>4, <1>5, <1>6 DEF Next

\* When reconcile() reports success, every order intent has ended: its row repeats its
\* order in the ledger, or it is a local rejection with its command and its record.
THEOREM ReconciliationIsComplete == Spec => ReconciledIsComplete
  <1> DEFINE Ended == \A p \in intent : row[p] \in {ledger[p]} \ {"none"} \/ LocallyRejected(p)
             Done == view'.reconciled /\ ~view.reconciled => Ended
  <1>1. Inv /\ [Next]_vars => [Done]_vars
    <2> SUFFICES ASSUME Inv, [Next]_vars, view'.reconciled, ~view.reconciled PROVE Ended
      OBVIOUS
    <2>1. Finish
      BY OnlyFinishReconciles
    <2>2. ReconcileAt(6)
      BY <2>1, Located DEF Finish, Inv
    <2>3. mem.journal /\ Unresolved = {}
      BY <2>1 DEF Finish, Inv, TypeOK
    <2>4. Unsynced = {} /\ RowsExplained
      BY <2>2, <2>3 DEF ReconcileAt
    <2>5. ASSUME NEW p \in intent PROVE row[p] \in {ledger[p]} \ {"none"} \/ LocallyRejected(p)
      <3>1. p \in Proposals /\ row[p] # "none"
        BY <2>3 DEF Unresolved, Inv, TypeOK
      <3>. QED  BY <2>4, <3>1 DEF Unsynced, RowsExplained, OrdersIn
    <2>. QED  BY <2>5
  <1>2. Spec => [][Done]_vars
    BY <1>1, BrokerShadowInvariant, PTL DEF Spec
  <1>. QED  BY <1>2 DEF ReconciledIsComplete

\* A denied or finished dispatch that saw the change has halted.
LEMMA DispatchEndsHalted ==
    ASSUME Inv, Step, task.op = "dispatch", task' = NoTask, review.verdict = "changed"
    PROVE  controls' = "halted"
  <1>1. task # NoTask /\ ~MonitorAt(5) /\ ~ReconcileAt(6) /\ ~ReconcileAt(2)
    BY NoTaskType DEF MonitorAt, ReconcileAt
  <1>2. ASSUME NEW n \in 1..27, DispatchAt(n), Advance PROVE FALSE
    <2>1. n \in 1..28 /\ n # 28
      OBVIOUS
    <2>2. task'.op = "dispatch"
      BY <1>2, <2>1, AdvanceMoves DEF Inv
    <2>. QED  BY <2>2, NoTaskType
  <1>3. ~DispatchAt(28) /\ ~RejectAt(1)
    BY DEF DispatchAt, RejectAt
  <1>4. CASE Deny
    BY <1>4 DEF Deny
  <1>5. CASE Preflight \/ Report \/ Risk \/ Recheck \/ SaveReview \/ RejectLog
    <2>1. CASE Advance /\ ~RejectLog
      BY <1>1, <1>2, <1>5, <2>1, Located
         DEF Inv, Preflight, Report, Risk, Recheck, SaveReview
    <2>. QED  BY <1>4, <1>5, <2>1 DEF Preflight, Report, Risk, Recheck, SaveReview, RejectLog
  <1>6. CASE Quote \/ Persist \/ NothingToPersist \/ SyncBegin \/ SyncEnd
    <2>1. Advance
      BY <1>6 DEF Quote, Persist, NothingToPersist, SyncBegin, SyncEnd
    <2>2. \/ \E n \in 1..28 : DispatchAt(n)
          \/ MonitorAt(1) \/ MonitorAt(2) \/ MonitorAt(3) \/ MonitorAt(4)
          \/ ReconcileAt(1) \/ ReconcileAt(3) \/ ReconcileAt(4) \/ ReconcileAt(5)
      BY <1>6, Located DEF Inv, Quote, Persist, NothingToPersist, SyncBegin, SyncEnd
    <2>3. \E n \in 1..28 : DispatchAt(n)
      BY <2>2 DEF MonitorAt, ReconcileAt
    <2>. QED  BY <1>2, <1>3, <2>1, <2>3
  <1>7. CASE ReviewLedger \/ ReadAfter \/ SaveIntent \/ SaveCommand \/ SavePending \/ RejectRow
             \/ DenyWrite \/ Apply \/ SaveRow \/ LogRow
    <2>1. Advance
      BY <1>7 DEF ReviewLedger, ReadAfter, SaveIntent, SaveCommand, SavePending, RejectRow,
                  DenyWrite, Apply, SaveRow, LogRow
    <2>2. (\E n \in 1..28 : DispatchAt(n)) \/ RejectAt(1)
      BY <1>7, Located DEF Inv, ReviewLedger, ReadAfter, SaveIntent, SaveCommand, SavePending,
                  RejectRow, DenyWrite, Apply, SaveRow, LogRow
    <2>. QED  BY <1>2, <1>3, <2>1, <2>2
  <1>8. CASE SyncRow
    BY <1>1, <1>8 DEF SyncRow
  <1>9. CASE ReadBefore \/ FinalGate
    <2>1. CASE Todo(Rejecting) \/ ReadBefore
      <3>1. task'.op = "dispatch"
        BY <2>1 DEF Todo, ReadBefore, Inv, TypeOK, Tasks
      <3>. QED  BY <3>1, NoTaskType
    <2>2. CASE FinalGate /\ Advance
      BY <1>2, <2>2, Located DEF Inv, FinalGate
    <2>. QED  BY <1>9, <2>1, <2>2 DEF FinalGate
  <1>10. CASE Finish \/ ProposeExits
    BY <1>1, <1>10, Located DEF Inv, Finish, ProposeExits
  <1>11. CASE Raise
    <2>1. \A p \in Unsynced : p \in intent \intersect command
      BY DEF Unsynced, OrdersIn, Inv, TablesInv
    <2>2. ASSUME At("syncing") PROVE RowsExplained
      <3>1. DispatchAt(6) \/ DispatchAt(16)
        BY <1>3, <2>2, Located DEF Inv, MonitorAt, ReconcileAt
      <3>2. DispatchAt(6) /\ ~mem.requires
        BY <3>1 DEF DispatchAt
      <3>. QED  BY <3>2 DEF Inv, ReviewInv
    <2>3. ASSUME At("quote") \/ At("review") \/ At("deny") PROVE ~dirty
      <3>1. DispatchAt(3) \/ DispatchAt(13) \/ DispatchAt(8) \/ DispatchAt(22)
        BY <2>3, Located DEF Inv, MonitorAt
      <3>. QED  BY <3>1 DEF DispatchAt
    <2>. QED  BY <1>11, <2>1, <2>2, <2>3 DEF Raise
  <1>. QED  BY <1>5, <1>6, <1>7, <1>8, <1>9, <1>10, <1>11 DEF Step

\* A dispatch whose review saw the real account change never ends, short of a fault, without
\* the halt: no check between the observation and the denial can raise instead.
THEOREM ChangeSeenHalts == Spec => ObservedChangeHalts
  <1> DEFINE Halts == task.op = "dispatch" /\ task' = NoTask /\ faults' = faults
                        /\ review = [p |-> task.p, verdict |-> "changed"] => controls' = "halted"
  <1>1. Inv /\ [Next]_vars => [Halts]_vars
    <2> SUFFICES ASSUME Inv, [Next]_vars, task.op = "dispatch", task' = NoTask, faults' = faults,
                        review.verdict = "changed"
                 PROVE  controls' = "halted"
      OBVIOUS
    <2>1. task # NoTask
      BY NoTaskType
    <2>2. ~Fault
      BY DEF Fault, Inv, TypeOK
    <2>3. ~(ReconcileBegin \/ Scan \/ AddProposal \/ Dispatch \/ HealthRead \/ HealthWrite \/ Operator)
      BY <2>1 DEF ReconcileBegin, Scan, AddProposal, Dispatch, HealthRead, HealthWrite, Operator
    <2>4. ~UNCHANGED vars
      BY <2>1 DEF vars
    <2>. QED  BY <2>2, <2>3, <2>4, DispatchEndsHalted DEF Next
  <1>2. Spec => [][Halts]_vars
    BY <1>1, BrokerShadowInvariant, PTL DEF Spec
  <1>. QED  BY <1>2 DEF ObservedChangeHalts
=============================================================================
