---------------------------- MODULE MarketResearch ----------------------------
(***************************************************************************)
(* The market-event research queue (app/strategy/live_research.py), the     *)
(* candidate worker it drives (app/strategy/runtime.py) and the reasoning   *)
(* pipeline with its decision policy (app/reasoning/), composed with the    *)
(* surveillance worker of LiveReads.  The two are separate periodic jobs    *)
(* that meet only in the audit tables: surveillance appends events, the     *)
(* queue researches the oldest one its cursor has not passed.               *)
(***************************************************************************)
EXTENDS LiveReads

CONSTANTS
    Underlying,     \* the equity stream research reads
    MaxRecords,     \* the queue's maximum_records
    StaleAfter,     \* app.runtime.stale_market_data_seconds
    Lookback,       \* limits.bar_lookback_seconds
    PolicyAge,      \* profile.maximum_quote_age_seconds
    SkepticRequired \* profile.skeptic_required

ASSUME ResearchAssumption ==
    /\ Underlying \in Streams \ OptionStreams
    /\ {MaxRecords, StaleAfter, Lookback, PolicyAge} \subseteq Nat
    /\ MaxRecords > 0
    /\ SkepticRequired \in BOOLEAN

VARIABLES
    cursor,    \* event_sequence of the latest queue checkpoint
    runs,      \* candidate_runs with an event key, in append order
    baseline,  \* the latest candidate_features row with a baseline key
    visible,   \* view.proposals: the events whose proposal is shown
    job        \* the queue's tick: [pc, ev, t0, cur, prev, option, out]

durableResearch == <<cursor, runs, baseline>>
researchVars == <<cursor, runs, baseline, visible, job>>
vars == <<now, faults, liveReadVars, researchVars>>

NoJob == [pc |-> "idle", ev |-> 0, t0 |-> 0, cur |-> NoObs, prev |-> NoObs,
          option |-> NoObs, out |-> "NONE"]

Terminal == {"WAIT", "PROPOSED"}

\* The records of an event, and the status of the last one.
RunsOf(e) == {k \in DOMAIN runs : runs[k].ev = e}
Latest(e) == IF RunsOf(e) = {} THEN "NONE" ELSE runs[Max(RunsOf(e))].status

Fresh(q, at) == at - q.eff \in 0..StaleAfter
Available(q, at) == q.eff <= at /\ q.obs <= at
Record(e, status) == runs' = Append(runs, [ev |-> e, status |-> status])

-----------------------------------------------------------------------------
(* Pure parts of the candidate worker and the policy.                      *)

\* The measured-change gate: the stored baseline, or two bars when it cannot be compared.
MeasuredChange(prev, cur, bars) ==
    IF prev # NoObs /\ prev # cur /\ prev.eff < cur.eff /\ cur.eff - prev.eff <= Lookback
    THEN prev.val # cur.val
    ELSE bars

\* AttentionMapper.map for the surveillance stage: it never declares a trade worthy.
Attention(score) ==
    CASE score < 25 -> "BACKGROUND"
      [] score \in 25..49 -> "WATCH"
      [] OTHER -> "CANDIDATE"

\* DecisionPolicyEvaluator.evaluate, on the requirements the models decide.
PolicyProceeds(m, quote, at) ==
    /\ m.decision = "PASS"
    /\ m.confident
    /\ m.evidence
    /\ at - quote.obs <= PolicyAge
    /\ SkepticRequired => ~m.conflict

\* ReasoningPipeline.run: the situation may abstain, the selection may find no contract,
\* and the judge's direction must be the one of the contract it selects.
PipelineProceeds(m, quote, at) ==
    /\ m.bias \in {"BULLISH", "BEARISH"}
    /\ m.contract
    /\ PolicyProceeds(m, quote, at)
    /\ m.dir = m.bias

\* What the model roles and the contract selector may answer.
ModelOutputs ==
    [bias : {"BULLISH", "BEARISH", "NONE"}, contract : BOOLEAN, conflict : BOOLEAN,
     decision : {"PASS", "WATCH"}, dir : {"BULLISH", "BEARISH"},
     confident : BOOLEAN, evidence : BOOLEAN]

-----------------------------------------------------------------------------
(* The queue's tick up to the worker.                                      *)

\* list_payloads returns the newest MaxRecords rows; a full page that does not
\* reach the cursor cannot prove that nothing older is pending.
WindowExceeded == Len(events) >= MaxRecords /\ Len(events) - MaxRecords + 1 > cursor

\* _verify_snapshot: the event's observation is stored and holds this very event.
SnapshotVerified(e) ==
    \E k \in DOMAIN snapshots : snapshots[k] = events[e] /\ snapshots[k].at <= now

\* _event: the row is an event of the surveillance worker, recorded after it took effect.
ValidEvent(e) == events[e].kind \in Kinds \ {"none"} /\ events[e].quote.eff <= events[e].at

\* _cursor: a checkpoint must name an event that is at its place in the journal.
ValidCursor == cursor > 0 => cursor \in DOMAIN events /\ ValidEvent(cursor)

\* Mutant: the newest event first.
PendingNewest(e) ==
    /\ ~WindowExceeded
    /\ cursor < e
    /\ e = Len(events)
    /\ SnapshotVerified(e)

\* The oldest event after the cursor, once its provenance is verified.
Pending(e) ==
    /\ ValidCursor
    /\ ~WindowExceeded
    /\ e = cursor + 1
    /\ e <= Len(events)
    /\ ValidEvent(e)
    /\ events[e].at <= now
    /\ SnapshotVerified(e)

-----------------------------------------------------------------------------
(* CandidateResearchWorker.on_event.                                       *)

Finish(out) == job' = [NoJob EXCEPT !.pc = "outcome", !.ev = job.ev, !.out = out]

\* Mutant: an attempt that left only its STARTED row is refused.
OnEventRefuses ==
    /\ job.pc = "idle"
    /\ \E e \in DOMAIN events :
         /\ Pending(e)
         /\ Latest(e) = "NONE"
         /\ Record(e, "STARTED")
         /\ job' = [NoJob EXCEPT !.pc = "quote", !.ev = e, !.t0 = now]
    /\ UNCHANGED <<cursor, baseline, visible>>

\* An attempt that left only its STARTED row is closed, not repeated.
OnEvent ==
    /\ job.pc = "idle"
    /\ \E e \in DOMAIN events :
         /\ Pending(e)
         /\ CASE Latest(e) = "NONE" ->
                   /\ Record(e, "STARTED")
                   /\ job' = [NoJob EXCEPT !.pc = "quote", !.ev = e, !.t0 = now]
              [] Latest(e) = "STARTED" ->
                   /\ Record(e, "WAIT")
                   /\ job' = [NoJob EXCEPT !.pc = "verify", !.ev = e, !.out = "WAIT"]
              [] OTHER ->
                   /\ job' = [NoJob EXCEPT !.pc = "verify", !.ev = e, !.out = Latest(e)]
                   /\ UNCHANGED runs
    /\ UNCHANGED <<cursor, baseline, visible>>

\* The underlying quote and the stored baseline, both read as of the event.
ReadUnderlying ==
    /\ job.pc = "quote"
    /\ \E q \in QuotesOf[Underlying] :
         LET cutoff == events[job.ev].at
             usable == Available(q, cutoff) /\ Fresh(q, job.t0)
                         /\ (baseline # NoObs => Available(baseline, cutoff))
         IN IF usable
            THEN /\ job' = [job EXCEPT !.pc = "features", !.cur = q, !.prev = baseline]
                 /\ baseline' = IF baseline = NoObs \/ q.eff > baseline.eff THEN q ELSE baseline
            ELSE /\ Finish("WAIT")
                 /\ UNCHANGED baseline
    /\ UNCHANGED <<cursor, runs, visible>>

\* The measured-change gate, then the surveillance score.  A market event refers to
\* snapshots only, so _source_facts finds no document and adds nothing to the gate.
ScoreFeatures ==
    /\ job.pc = "features"
    /\ \E candidate \in
         {/\ MeasuredChange(job.prev, job.cur, bars)
          /\ Attention(score) = "CANDIDATE" :
            bars \in BOOLEAN, score \in {24, 25, 49, 50, 100}} :
         IF candidate
         THEN job' = [job EXCEPT !.pc = "chain", !.cur = NoObs, !.prev = NoObs]
         ELSE Finish("WAIT")
    /\ UNCHANGED <<durableResearch, visible>>

\* The option chain is filtered by the clock read at the start of the attempt.
ReadChain ==
    /\ job.pc = "chain"
    /\ \E s \in OptionStreams : \E q \in QuotesOf[s] :
         IF Available(q, events[job.ev].at) /\ Fresh(q, job.t0)
         THEN job' = [job EXCEPT !.pc = "reason", !.option = q, !.t0 = 0]
         ELSE Finish("WAIT")
    /\ UNCHANGED <<durableResearch, visible>>

Reason ==
    /\ job.pc = "reason"
    /\ \E proceed \in {PipelineProceeds(m, job.option, now) : m \in ModelOutputs} :
         IF proceed THEN job' = [job EXCEPT !.pc = "propose"] ELSE Finish("WAIT")
    /\ UNCHANGED <<durableResearch, visible>>

\* The selected quote may have become stale while the models ran.
Propose ==
    /\ job.pc = "propose"
    /\ Finish(IF Fresh(job.option, now) THEN "PROPOSED" ELSE "WAIT")
    /\ UNCHANGED <<durableResearch, visible>>

\* A timeout or an exception inside the attempt becomes a WAIT outcome.
AttemptFails ==
    /\ job.pc \in {"quote", "features", "chain", "reason", "propose"}
    /\ Finish("WAIT")
    /\ UNCHANGED <<durableResearch, visible>>

RecordOutcome ==
    /\ job.pc = "outcome"
    /\ Record(job.ev, job.out)
    /\ job' = [job EXCEPT !.pc = "verify"]
    /\ UNCHANGED <<cursor, baseline, visible>>

-----------------------------------------------------------------------------
(* The queue after the worker.                                             *)

\* _verify_research_result: the stored record of the event says what the worker says.
ResultVerified == Latest(job.ev) = job.out /\ job.out \in Terminal

AdvanceCursor ==
    /\ job.pc = "verify"
    /\ IF ResultVerified
       THEN /\ cursor' = job.ev
            /\ job' = IF job.out = "PROPOSED" THEN [job EXCEPT !.pc = "return"] ELSE NoJob
       ELSE /\ job' = NoJob
            /\ UNCHANGED cursor
    /\ UNCHANGED <<runs, baseline, visible>>

ShowProposal ==
    /\ job.pc = "return"
    /\ visible' = visible \union {job.ev}
    /\ job' = NoJob
    /\ UNCHANGED durableResearch

JobInterrupted ==
    /\ job.pc # "idle"
    /\ job' = NoJob
    /\ UNCHANGED <<durableResearch, visible>>

ResearchStep ==
    \/ OnEvent \/ ReadUnderlying \/ ScoreFeatures \/ ReadChain
    \/ Reason \/ Propose \/ AttemptFails \/ RecordOutcome
    \/ AdvanceCursor \/ ShowProposal

-----------------------------------------------------------------------------
Tick ==
    /\ now < MaxTime
    /\ now' = now + 1
    /\ UNCHANGED <<faults, liveReadVars, researchVars>>

Fault ==
    /\ faults > 0
    /\ faults' = faults - 1
    /\ UNCHANGED now
    /\ \/ TickInterrupted /\ UNCHANGED researchVars
       \/ JobInterrupted /\ UNCHANGED liveReadVars
       \/ /\ ProcessLost
          /\ job' = NoJob
          /\ visible' = {}
          /\ UNCHANGED durableResearch

Surveillance == TickStep /\ UNCHANGED <<now, faults, researchVars>>
Research == ResearchStep /\ UNCHANGED <<now, faults, liveReadVars>>

Init ==
    /\ LiveReadsInit
    /\ now = 0
    /\ faults = MaxFaults
    /\ cursor = 0
    /\ runs = <<>>
    /\ baseline = NoObs
    /\ visible = {}
    /\ job = NoJob

Next == Tick \/ Fault \/ Surveillance \/ Research

Spec == Init /\ [][Next]_vars

\* Both jobs are run again after every interval, so an enabled step is taken.
FairSpec == Spec /\ WF_vars(Surveillance) /\ WF_vars(Research)

-----------------------------------------------------------------------------
\* Repair is complete: whenever the worker's memory is restored, every stored
\* observation has its event row, except the one whose event is being written
\* (live_reads.py: a snapshot contains its event before the event is committed).
NoEventLost ==
    restored =>
        \A k \in DOMAIN snapshots :
            \/ snapshots[k].kind = "none"
            \/ snapshots[k] \in ToSet(events)
            \/ scan.pc = "event" /\ k = Len(snapshots)

\* A value that differs from the one stored before it in the same stream is never
\* stored without an event, whatever was lost from memory in between.
ChangesReported ==
    \A i, j \in DOMAIN snapshots :
        /\ i < j
        /\ snapshots[i].stream = snapshots[j].stream
        /\ \A k \in (i + 1)..(j - 1) : snapshots[k].stream # snapshots[i].stream
        /\ Changed(snapshots[i].quote, snapshots[j].quote)
        => snapshots[j].kind # "none"

\* The cursor has passed an event only with exactly one terminal candidate record
\* of it on disk, provider work is started at most once for an event however often
\* the tick is cut off and retried, and what the operator is shown is a recorded
\* proposal.
CursorProven ==
    /\ \A i, j \in DOMAIN runs :
         runs[i].status = "STARTED" /\ runs[j].status = "STARTED" /\ runs[i].ev = runs[j].ev
         => i = j
    /\ \A e \in 1..cursor :
         \E k \in DOMAIN runs : {j \in RunsOf(e) : runs[j].status \in Terminal} = {k}
    /\ \A e \in visible : e <= cursor /\ Latest(e) = "PROPOSED"

\* Every recorded event is researched in the end, unless the backlog fills the
\* queue's window, which the queue reports on every tick and never shortens.
EventsResearched == []<>(cursor = Len(events) \/ WindowExceeded)
=============================================================================
