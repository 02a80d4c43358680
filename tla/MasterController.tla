-------------------------- MODULE MasterController --------------------------
(***************************************************************************)
(* MasterController (app/controller/master.py), the asyncio supervisor,    *)
(* with the application lifespan that starts and closes it and the         *)
(* dashboard controls that act on the same RuntimeView.                    *)
(*                                                                         *)
(* Everything the controller runs is a callback under a deadline           *)
(* (_run_bounded): the reconciliation, three health probes, the health     *)
(* job (health_once itself, run by its own loop) and the periodic jobs.    *)
(* A callback that misses its deadline is cancelled but may run on for as  *)
(* long as it likes and may still write to the view.                       *)
(*                                                                         *)
(* The health window is SafetyController's subject: here Window is 0 and   *)
(* every reading of the clock is 0, so two good evaluations make NORMAL.   *)
(***************************************************************************)
EXTENDS SafetyState

CONSTANTS
    Jobs,      \* names of the periodic jobs other than health
    Slow,      \* the callbacks that may miss their deadline
    Faulty,    \* those that may return FALSE or raise
    Writes     \* <<key, field>>: the fields of the view each callback writes

Probes == {"database", "broker", "execution"}
Loops  == Jobs \union {"health"}
Keys   == {"reconciliation"} \union Probes \union Loops

ASSUME JobsAssumption == Jobs \intersect ({"reconciliation", "health"} \union Probes) = {}
ASSUME SlowAssumption == Slow \subseteq Keys /\ Faulty \subseteq Keys
ASSUME WritesAssumption ==
    Writes \subseteq Keys \X {"reconciled", "exec", "fresh", "unresolved"}

VARIABLES
    phase,       \* where start, stop and the lifespan around them stand
    stop,        \* _stop
    owned,       \* the instance lock is held
    cb,          \* the task of each key in _active_callbacks, see Tasks
    timedOut,    \* _timed_out_callbacks
    view,        \* the fields of RuntimeView the controller reads or writes
    controller,  \* view.safety
    killClear,   \* the disabled-file does not exist
    recon,       \* who holds _reconcile_lock and waits
    health,      \* the health evaluation under _health_lock
    loop         \* the task of each _job_loop

vars == <<phase, stop, owned, cb, timedOut, view, controller, killClear,
          recon, health, loop>>

Results == {"true", "false", "error", "cancelled"}

\* "cancelling": asked to cancel, still running.  A finished task keeps its
\* result until its waiter resumes.
Tasks == {"none", "running", "cancelling"} \union Results

Active(k) == cb[k] \in {"running", "cancelling"}
AnyActive == \E k \in Keys : Active(k)

\* last_safety_evidence: at most one evidence.
Views == [reconciled : BOOLEAN, exec : BOOLEAN, db : BOOLEAN, broker : BOOLEAN,
          fresh : BOOLEAN, unresolved : BOOLEAN, evidence : {{}} \union {{e} : e \in Evidence}]

IdleHealth == [pc |-> "idle", owner |-> "loop", got |-> [k \in Probes |-> "wait"]]

-----------------------------------------------------------------------------
(* The timeout latch                                                       *)

\* environment_matches compares two immutable bindings that agree.
safety_evidence(v, db, br, ex) ==
    [database_writable |-> db, broker_state_known |-> br,
     reconciled |-> v.reconciled, market_data_fresh |-> v.fresh,
     account_data_fresh |-> br, execution_service_healthy |-> ex,
     kill_switch_clear |-> killClear, environment_matches |-> TRUE,
     unresolved_submission |-> v.unresolved]

enforced_view(v, late) ==
    LET w == [v EXCEPT !.reconciled = FALSE, !.exec = FALSE,
                       !.db = @ /\ "database" \notin late,
                       !.broker = @ /\ "broker" \notin late]
    IN  IF late = {} THEN v
        ELSE [w EXCEPT !.evidence = {safety_evidence(w, w.db, w.broker, FALSE)}]

enforced_safety(c, late) == IF late = {} THEN c ELSE emergency_stop(c)

\* _enforce_timeout_latch after the handler has made v and c of view and safety
EnforceLatch(v, c, late) ==
    /\ view' = enforced_view(v, late)
    /\ controller' = enforced_safety(c, late)

\* Cancelled tasks run on; a result nobody waits for any more is dropped.
CancelTasks(keys) ==
    [k \in Keys |-> IF k \notin keys THEN cb[k]
                    ELSE IF Active(k) THEN "cancelling" ELSE "none"]

Disabled(c) == degrade(c, "ENTRY_DISABLED")

-----------------------------------------------------------------------------
(* Callbacks (external): what runs inside _run_bounded                     *)

Waited(k) ==
    CASE k = "reconciliation" -> recon # "idle"
      [] k \in Probes -> health.pc \in {"probe", "execution"} /\ health.got[k] = "wait"
      [] OTHER -> loop[k] = "await"

\* The task ends; completed() re-imposes the latch whatever it returned.
CallbackEnds(k, r) ==
    /\ Active(k)
    /\ r = "cancelled" => cb[k] = "cancelling"
    /\ r \in {"false", "error"} => k \in Faulty
    /\ cb' = [cb EXCEPT ![k] = IF Waited(k) THEN r ELSE "none"]
    /\ EnforceLatch(view, controller, timedOut)
    /\ UNCHANGED <<phase, stop, owned, timedOut, killClear, recon, health, loop>>

\* A running callback, late or not, changes the shared view.
CallbackWrites(k, field, b) ==
    /\ Active(k)
    /\ view' = [view EXCEPT ![field] = b]
    /\ UNCHANGED <<phase, stop, owned, cb, timedOut, controller, killClear,
                   recon, health, loop>>

-----------------------------------------------------------------------------
(* Reconciliation                                                          *)

\* start() continues with its health evaluation; the dashboard request returns.
ReconcileDone ==
    /\ recon' = "idle"
    /\ health' = IF recon = "start"
                 THEN [IdleHealth EXCEPT !.pc = "begin", !.owner = "start"] ELSE health

\* Mutant of ReconcileReturns: the latch is not consulted after the await.
MutReconcileReturns ==
    LET ok == cb["reconciliation"] = "true" IN
    /\ recon # "idle"
    /\ cb["reconciliation"] \in {"true", "false", "error"}
    /\ cb' = [cb EXCEPT !["reconciliation"] = "none"]
    /\ view' = [view EXCEPT !.reconciled = ok]
    /\ controller' = IF ok THEN controller ELSE Disabled(controller)
    /\ ReconcileDone
    /\ UNCHANGED <<phase, stop, owned, timedOut, killClear, loop>>

ReconcileReturns ==
    LET ok == cb["reconciliation"] = "true" /\ timedOut = {} IN
    /\ recon # "idle"
    /\ cb["reconciliation"] \in {"true", "false", "error"}
    /\ cb' = [cb EXCEPT !["reconciliation"] = "none"]
    /\ EnforceLatch([view EXCEPT !.reconciled = ok],
                    IF ok THEN controller ELSE Disabled(controller), timedOut)
    /\ ReconcileDone
    /\ UNCHANGED <<phase, stop, owned, timedOut, killClear, loop>>

\* The callback was cancelled by stop(): so is the request that waits for it.
ReconcileCancelled ==
    /\ recon # "idle"
    /\ cb["reconciliation"] = "cancelled"
    /\ cb' = [cb EXCEPT !["reconciliation"] = "none"]
    /\ recon' = "idle"
    /\ UNCHANGED <<phase, stop, owned, timedOut, view, controller, killClear, health, loop>>

ReconcileDeadline ==
    /\ recon # "idle"
    /\ Active("reconciliation")
    /\ timedOut' = timedOut \union {"reconciliation"}
    /\ cb' = [cb EXCEPT !["reconciliation"] = "cancelling"]
    /\ EnforceLatch(view, Disabled(controller), timedOut')
    /\ ReconcileDone
    /\ UNCHANGED <<phase, stop, owned, killClear, loop>>

\* The dashboard's reconcile control.
Serving == phase \in {"running", "stopping", "incomplete"}

ForceReconcile ==
    /\ phase = "running"
    /\ recon = "idle"
    /\ timedOut = {}
    /\ ~stop
    /\ ~Active("reconciliation")
    /\ view' = [view EXCEPT !.reconciled = FALSE]
    /\ cb' = [cb EXCEPT !["reconciliation"] = "running"]
    /\ recon' = "dashboard"
    /\ UNCHANGED <<phase, stop, owned, timedOut, controller, killClear, health, loop>>

\* Refused by the latch, by a callback that is still running or by shutdown; the
\* latter cancels the request.
ForceReconcileRefused ==
    /\ Serving
    /\ recon = "idle"
    /\ timedOut # {} \/ stop \/ Active("reconciliation")
    /\ EnforceLatch([view EXCEPT !.reconciled = FALSE],
                    IF timedOut = {} /\ stop THEN controller ELSE Disabled(controller),
                    timedOut)
    /\ UNCHANGED <<phase, stop, owned, cb, timedOut, killClear, recon, health, loop>>

\* The request's own task is cancelled while it waits.
RequestCancelled ==
    /\ recon = "dashboard"
    /\ cb' = CancelTasks({"reconciliation"})
    /\ recon' = "idle"
    /\ UNCHANGED <<phase, stop, owned, timedOut, view, controller, killClear, health, loop>>

-----------------------------------------------------------------------------
(* Health                                                                  *)

\* An evaluation inside a cancelled health job makes no further progress.
HealthAlive == health.owner = "loop" => cb["health"] = "running"

\* _safe_health_check for a set of probes: one that timed out is not run again
\* and one whose last callback still runs fails.
StartProbes(keys, c) ==
    LET late == keys \intersect timedOut
        busy == {k \in keys \ timedOut : Active(k)} IN
    /\ cb' = [k \in Keys |-> IF k \in keys \ (late \union busy) THEN "running" ELSE cb[k]]
    /\ health' = [health EXCEPT !.pc = IF "execution" \in keys THEN "execution" ELSE "probe",
                    !.got = [k \in Probes |-> IF k \in late \union busy THEN "bad" ELSE @[k]]]
    /\ EnforceLatch(view, IF busy = {} THEN c ELSE Disabled(c),
                    IF late = {} THEN {} ELSE timedOut)
    /\ UNCHANGED <<phase, stop, owned, timedOut, killClear, recon, loop>>

\* The kill file is honoured before any probe.
HealthBegin ==
    /\ health.pc = "begin"
    /\ HealthAlive
    /\ StartProbes({"database", "broker"},
                   IF killClear THEN controller ELSE emergency_stop(controller))

HealthExecution ==
    /\ health.pc = "probe"
    /\ HealthAlive
    /\ \A k \in {"database", "broker"} : health.got[k] # "wait"
    /\ StartProbes({"execution"}, controller)

ProbeReturns(k) ==
    /\ HealthAlive
    /\ Waited(k)
    /\ cb[k] \in {"true", "false", "error"}
    /\ cb' = [cb EXCEPT ![k] = "none"]
    /\ health' = [health EXCEPT !.got[k] = IF cb[k] = "true" THEN "ok" ELSE "bad"]
    /\ controller' = IF cb[k] = "error" THEN Disabled(controller) ELSE controller
    /\ UNCHANGED <<phase, stop, owned, timedOut, view, killClear, recon, loop>>

\* Mutant of ProbeDeadline: the cancelled probe is awaited without a bound.
MutProbeDeadline(k) ==
    /\ HealthAlive
    /\ Waited(k)
    /\ cb[k] = "running"
    /\ cb' = [cb EXCEPT ![k] = "cancelling"]
    /\ UNCHANGED <<phase, stop, owned, timedOut, view, controller, killClear,
                   recon, health, loop>>

ProbeDeadline(k) ==
    /\ HealthAlive
    /\ Waited(k)
    /\ Active(k)
    /\ timedOut' = timedOut \union {k}
    /\ cb' = [cb EXCEPT ![k] = "cancelling"]
    /\ health' = [health EXCEPT !.got[k] = "bad"]
    /\ EnforceLatch(view, Disabled(controller), timedOut')
    /\ UNCHANGED <<phase, stop, owned, killClear, recon, loop>>

\* Mutant of HealthFinish: a failed execution probe returns early, so the
\* evidence is stored but never observed.
MutHealthFinish ==
    LET Good(k) == health.got[k] = "ok"
        ex == Good("execution") /\ timedOut = {}
        e == safety_evidence(view, Good("database"), Good("broker"), ex) IN
    /\ health.pc = "execution"
    /\ HealthAlive
    /\ health.got["execution"] # "wait"
    /\ EnforceLatch([view EXCEPT !.exec = ex, !.evidence = {e}],
                    IF ex THEN observe(controller, e, 0, FALSE) ELSE controller, timedOut)
    /\ health' = IdleHealth
    /\ IF health.owner = "start"
       THEN /\ phase' = "running"
            /\ loop' = [j \in Loops |-> "sleep"]
            /\ UNCHANGED cb
       ELSE /\ cb' = [cb EXCEPT !["health"] = "true"]
            /\ UNCHANGED <<phase, loop>>
    /\ UNCHANGED <<stop, owned, timedOut, killClear, recon>>

\* Evidence from the probes and from the view as it is now; then observe().
HealthFinish ==
    LET Good(k) == health.got[k] = "ok"
        ex == Good("execution") /\ timedOut = {}
        v == [enforced_view(view, timedOut) EXCEPT !.exec = ex]
        e == safety_evidence(v, Good("database"), Good("broker"), ex)
        w == [v EXCEPT !.db = Good("database"), !.broker = Good("broker"), !.evidence = {e}]
        c == enforced_safety(controller, timedOut) IN
    /\ health.pc = "execution"
    /\ HealthAlive
    /\ health.got["execution"] # "wait"
    /\ EnforceLatch(w, observe(c, e, 0, FALSE), timedOut)
    /\ health' = IdleHealth
    /\ IF health.owner = "start"
       THEN /\ phase' = "running"
            /\ loop' = [j \in Loops |-> "sleep"]
            /\ UNCHANGED cb
       ELSE /\ cb' = [cb EXCEPT !["health"] = "true"]
            /\ UNCHANGED <<phase, loop>>
    /\ UNCHANGED <<stop, owned, timedOut, killClear, recon>>

\* The health job was cancelled by its deadline or by stop(): the cancellation
\* reaches the probes and the job ends.
HealthAborted ==
    /\ cb["health"] = "cancelling"
    /\ cb' = [CancelTasks(Probes) EXCEPT !["health"] = "none"]
    /\ health' = IdleHealth
    /\ EnforceLatch(view, controller, timedOut)
    /\ UNCHANGED <<phase, stop, owned, timedOut, killClear, recon, loop>>

-----------------------------------------------------------------------------
(* Job loops                                                               *)

JobStarts(j) ==
    /\ loop[j] = "sleep"
    /\ cb' = [cb EXCEPT ![j] = "running"]
    /\ loop' = [loop EXCEPT ![j] = "await"]
    /\ health' = IF j = "health" THEN [IdleHealth EXCEPT !.pc = "begin"] ELSE health
    /\ UNCHANGED <<phase, stop, owned, timedOut, view, controller, killClear, recon>>

JobReturns(j) ==
    /\ loop[j] = "await"
    /\ cb[j] \in {"true", "false", "error"}
    /\ cb' = [cb EXCEPT ![j] = "none"]
    /\ loop' = [loop EXCEPT ![j] = "sleep"]
    /\ controller' = IF cb[j] = "error" THEN Disabled(controller) ELSE controller
    /\ UNCHANGED <<phase, stop, owned, timedOut, view, killClear, recon, health>>

\* Mutant of JobDeadline: the loop sleeps and runs the job again.
MutJobDeadline(j) ==
    /\ loop[j] = "await"
    /\ Active(j)
    /\ timedOut' = timedOut \union {j}
    /\ cb' = [cb EXCEPT ![j] = "cancelling"]
    /\ loop' = [loop EXCEPT ![j] = "sleep"]
    /\ EnforceLatch(view, Disabled(controller), timedOut')
    /\ UNCHANGED <<phase, stop, owned, killClear, recon, health>>

\* The loop ends: an interrupted job is never replayed.
JobDeadline(j) ==
    /\ loop[j] = "await"
    /\ Active(j)
    /\ timedOut' = timedOut \union {j}
    /\ cb' = [cb EXCEPT ![j] = "cancelling"]
    /\ loop' = [loop EXCEPT ![j] = "ended"]
    /\ EnforceLatch(view, Disabled(controller), timedOut')
    /\ UNCHANGED <<phase, stop, owned, killClear, recon, health>>

-----------------------------------------------------------------------------
(* start, stop and the lifespan                                            *)

Start ==
    /\ phase = "new"
    /\ phase' = "starting"
    /\ owned' = TRUE
    /\ view' = [view EXCEPT !.reconciled = FALSE]
    /\ cb' = [cb EXCEPT !["reconciliation"] = "running"]
    /\ recon' = "start"
    /\ UNCHANGED <<stop, timedOut, controller, killClear, health, loop>>

\* Another process holds the instance lock.
StartRefused ==
    /\ phase = "new"
    /\ phase' = "failed"
    /\ UNCHANGED <<stop, owned, cb, timedOut, view, controller, killClear,
                   recon, health, loop>>

\* The lifespan task is cancelled inside start().
StartCancelled ==
    /\ phase = "starting"
    /\ phase' = "aborting"
    /\ cb' = CancelTasks({"reconciliation"} \union Probes)
    /\ recon' = "idle"
    /\ health' = IdleHealth
    /\ UNCHANGED <<stop, owned, timedOut, view, controller, killClear, loop>>

StartAborts ==
    /\ phase = "aborting"
    /\ phase' = "failed"
    /\ owned' = AnyActive
    /\ controller' = IF AnyActive THEN emergency_stop(controller) ELSE controller
    /\ UNCHANGED <<stop, cb, timedOut, view, killClear, recon, health, loop>>

\* close(): after the application has run or failed to start, and again after an
\* incomplete stop.  A reconcile request still waits for its cancelled callback.
Stop ==
    /\ phase \in {"running", "failed", "incomplete"}
    /\ phase' = "stopping"
    /\ stop' = TRUE
    /\ controller' = emergency_stop(controller)
    /\ loop' = [j \in Loops |-> "ended"]
    /\ cb' = [k \in Keys |-> IF Active(k) THEN "cancelling"
                             ELSE IF k \in Loops THEN "none" ELSE cb[k]]
    /\ UNCHANGED <<owned, timedOut, view, killClear, recon, health>>

\* Mutants of StopEnds: only the callbacks of the loops are looked at, or stop
\* waits for all of them without a bound.
MutStopForgetsRequests ==
    LET busy == \E k \in Loops : Active(k) IN
    /\ phase = "stopping"
    /\ phase' = IF busy THEN "incomplete" ELSE "stopped"
    /\ owned' = (owned /\ busy)
    /\ controller' = IF busy THEN emergency_stop(controller) ELSE controller
    /\ UNCHANGED <<stop, cb, timedOut, view, killClear, recon, health, loop>>

MutStopWaits ==
    /\ phase = "stopping"
    /\ ~AnyActive
    /\ phase' = "stopped"
    /\ owned' = FALSE
    /\ UNCHANGED <<stop, cb, timedOut, view, controller, killClear, recon, health, loop>>

\* All callbacks have ended, or the wait for them has timed out.
StopEnds ==
    /\ phase = "stopping"
    /\ phase' = IF AnyActive THEN "incomplete" ELSE "stopped"
    /\ owned' = (owned /\ AnyActive)
    /\ controller' = IF AnyActive THEN emergency_stop(controller) ELSE controller
    /\ UNCHANGED <<stop, cb, timedOut, view, killClear, recon, health, loop>>

-----------------------------------------------------------------------------
(* Operator                                                                *)

Controlled == UNCHANGED <<phase, stop, owned, cb, timedOut, view, recon, health, loop>>

SetKillFile(b) == killClear' = b /\ UNCHANGED controller /\ Controlled

DashboardStop ==
    /\ phase = "running"
    /\ killClear' = FALSE
    /\ controller' = emergency_stop(controller)
    /\ Controlled

DashboardPause ==
    /\ phase = "running"
    /\ controller' = pause_entries(controller)
    /\ UNCHANGED killClear /\ Controlled

\* Uses the evidence of the last evaluation, however old it is.
DashboardResume ==
    /\ phase = "running"
    /\ \E e \in view.evidence : controller' = resume_entries(controller, e, 0, FALSE)
    /\ UNCHANGED killClear /\ Controlled

-----------------------------------------------------------------------------

Init ==
    /\ phase = "new" /\ stop = FALSE /\ owned = FALSE
    /\ cb = [k \in Keys |-> "none"]
    /\ timedOut = {}
    /\ \E fresh \in BOOLEAN :
          view = [reconciled |-> FALSE, exec |-> FALSE, db |-> FALSE, broker |-> FALSE,
                  fresh |-> fresh, unresolved |-> TRUE, evidence |-> {}]
    /\ controller \in {Startup, emergency_stop(Startup)}
    /\ killClear \in BOOLEAN
    /\ recon = "idle" /\ health = IdleHealth
    /\ loop = [j \in Loops |-> "none"]

Callback ==
    \E k \in Keys \ {"health"} :
       \/ \E r \in Results : CallbackEnds(k, r)
       \/ \E w \in Writes, b \in BOOLEAN : w[1] = k /\ CallbackWrites(k, w[2], b)

Reconcile ==
    \/ ReconcileReturns \/ ReconcileCancelled
    \/ "reconciliation" \in Slow /\ ReconcileDeadline
    \/ ForceReconcile \/ ForceReconcileRefused \/ RequestCancelled

Health ==
    \/ HealthBegin \/ HealthExecution \/ HealthFinish \/ HealthAborted
    \/ \E k \in Probes : ProbeReturns(k)
    \/ \E k \in Probes \intersect Slow : ProbeDeadline(k)

JobLoops ==
    \/ \E j \in Loops : JobStarts(j) \/ JobReturns(j)
    \/ \E j \in Loops \intersect Slow : JobDeadline(j)

Lifespan == Start \/ StartRefused \/ StartCancelled \/ StartAborts \/ Stop \/ StopEnds

Operator ==
    \/ \E b \in BOOLEAN : SetKillFile(b)
    \/ DashboardStop \/ DashboardPause \/ DashboardResume

Next == Callback \/ Reconcile \/ Health \/ JobLoops \/ Lifespan \/ Operator

Spec == Init /\ [][Next]_vars

\* The event loop runs every task that is ready and every timer fires.  Nothing
\* is assumed of the slow callbacks, which may run for ever; the others end.
Deadline(k) ==
    IF k = "reconciliation" THEN ReconcileDeadline
    ELSE IF k \in Probes THEN ProbeDeadline(k) ELSE JobDeadline(k)

Fairness ==
    /\ WF_vars(ReconcileReturns \/ ReconcileCancelled)
    /\ WF_vars(HealthBegin \/ HealthExecution \/ HealthFinish \/ HealthAborted)
    /\ \A k \in Probes : WF_vars(ProbeReturns(k))
    /\ \A j \in Loops : WF_vars(JobStarts(j) \/ JobReturns(j))
    /\ \A k \in Slow : WF_vars(Deadline(k))
    /\ \A k \in Keys \ (Slow \union {"health"}) : WF_vars(\E r \in Results : CallbackEnds(k, r))
    /\ WF_vars(StartAborts \/ StopEnds)

FairSpec == Spec /\ Fairness

-----------------------------------------------------------------------------
(* Properties                                                              *)

TypeOK ==
    /\ phase \in {"new", "starting", "aborting", "failed", "running", "stopping",
                  "stopped", "incomplete"}
    /\ stop \in BOOLEAN /\ owned \in BOOLEAN /\ killClear \in BOOLEAN
    /\ cb \in [Keys -> Tasks]
    /\ timedOut \subseteq Keys
    /\ view \in Views
    /\ controller \in Controllers
    /\ recon \in {"idle", "start", "dashboard"}
    /\ health \in [pc : {"idle", "begin", "probe", "execution"}, owner : {"start", "loop"},
                   got : [Probes -> {"wait", "ok", "bad"}]]
    /\ loop \in [Loops -> {"none", "sleep", "await", "ended"}]

\* "Timed-out operations latch HALTED and cannot restore health with a late
\* result" (ADR-013): from the first missed deadline on the runtime is HALTED,
\* and once no callback is left running neither a late result nor a late write
\* has restored the reconciliation or execution evidence.
LatchHalts ==
    timedOut # {} =>
        /\ controller.state = "HALTED"
        /\ ~AnyActive => ~view.reconciled /\ ~view.exec

\* "Shutdown cannot release its instance lock until all tracked callbacks
\* terminate" (ADR-013), nor can a failed start.
LockCoversCallbacks == AnyActive => owned

\* NORMAL always rests on complete evidence of the last evaluation, whatever
\* pauses, resumes and refused reconciliations came in between.
NormalRestsOnEvidence ==
    controller.state = "NORMAL" =>
        \E e \in view.evidence : permits_normal(e)

\* What is under way in each phase.
PhaseInv ==
    /\ phase = "new" => timedOut = {} /\ recon = "idle" /\ ~owned
    /\ phase \in {"starting", "running"} => owned
    /\ phase \in {"new", "starting"} => \A j \in Loops : loop[j] = "none"
    /\ recon = "start" => phase = "starting" /\ health.pc = "idle"
    /\ health.pc # "idle" => IF health.owner = "start" THEN phase = "starting"
                              ELSE Active("health")
    /\ \A j \in Loops : loop[j] \in {"sleep", "await"} => phase = "running"
    /\ \A j \in Loops \intersect timedOut : loop[j] = "ended"

MasterInv ==
    /\ TypeOK
    /\ PhaseInv
    /\ LatchHalts
    /\ LockCoversCallbacks
    /\ NormalRestsOnEvidence

\* A callback that missed its deadline may have crossed a durable-write boundary:
\* it is never started again by a loop, a probe or a reconcile request.
NeverReplayed ==
    [][\A k \in timedOut : ~Active(k) => ~Active(k)']_vars

\* No caller of the controller passes a manual clearance: nothing the dashboard,
\* the health loop or a job does ends a halt within the process.
HaltIsFinal == [][controller.state = "HALTED" => controller'.state = "HALTED"]_vars

\* No callback, however long it runs, keeps stop() from ending.
StopIsBounded == phase = "stopping" ~> phase \in {"stopped", "incomplete"}

\* The kill file stops the runtime as long as the application runs: the health
\* loop either comes round again or has already latched HALTED by missing a
\* deadline.
KillFileHonoured ==
    phase = "running" /\ ~killClear
        ~> controller.state = "HALTED" \/ killClear \/ phase # "running"
=============================================================================
