------------------------- MODULE MarketResearchProofs -------------------------
(***************************************************************************)
(* Surveillance and research lose nothing, for any watched streams, quotes, *)
(* limits and number of faults: memory rebuilt from the stored rows is the  *)
(* memory that was lost, every change has its event, and the cursor passes  *)
(* an event only behind its one terminal record.                            *)
(***************************************************************************)
EXTENDS MarketResearch, SequenceTheorems, WellFoundedInduction, TLAPS

ScanPcs == {"idle", "restore", "read", "persist", "event"}
Scans == [pc : ScanPcs, cutoff : Nat, got : Seq(Quote), i : Nat, page : 0..2, rows : SUBSET Nat]

ReadsType ==
    /\ now \in Nat
    /\ snapshots \in Seq(Observations) /\ events \in Seq(Observations)
    /\ previous \in [Streams -> Observations \union {NoObs}]
    /\ restored \in BOOLEAN
    /\ scan \in Scans

\* Every stream is stored in the order of its quotes, none of them from the future.
OrderInv ==
    /\ \A k \in DOMAIN snapshots : snapshots[k].at <= now
    /\ \A i, j \in DOMAIN snapshots :
          i < j /\ snapshots[i].stream = snapshots[j].stream =>
              /\ ~MovedBackward(snapshots[i].quote, snapshots[j].quote)
              /\ snapshots[i].at <= snapshots[j].at

\* The event row of a stored observation is written, if it needs one.
Reported(k) == snapshots[k].kind = "none" \/ snapshots[k] \in ToSet(events)

\* previous[s] is the last observation of s among the first n stored ones.
Remembers(s, n) ==
    \/ previous[s] = NoObs /\ \A k \in 1..n : snapshots[k].stream # s
    \/ \E k \in 1..n : /\ snapshots[k].stream = s /\ previous[s] = snapshots[k]
                       /\ \A j \in 1..n : snapshots[j].stream = s => j <= k

\* What memory and the event rows cover once memory is restored: all but the
\* observation whose event is being written.
Settled == IF scan.pc = "event" THEN Len(snapshots) - 1 ELSE Len(snapshots)

MemoryInv == restored => \A k \in 1..Settled : Reported(k)
MemoryIsLast == restored => \A s \in Streams : Remembers(s, Settled)

\* The rows that a restoration has read.
Done == IF scan.page = 0 THEN {} ELSE RowsUpTo(scan.page) \ scan.rows

\* While rows are read newest first, page by page: every row read has its event, and a
\* stream with a row read is remembered by its last one.
RestoreInv ==
    scan.pc = "restore" =>
        /\ ~restored
        /\ scan.page = 0 => scan.rows = {}
        /\ scan.rows \subseteq RowsUpTo(scan.page)
        /\ \A j \in scan.rows : \A k \in DOMAIN snapshots \ scan.rows :
              snapshots[k].stream = snapshots[j].stream => j < k
        /\ \A k \in Done : Reported(k)
        /\ \A s \in Streams :
              \/ previous[s] = NoObs /\ \A k \in Done : snapshots[k].stream # s
              \/ \E k \in Done : /\ snapshots[k].stream = s /\ previous[s] = snapshots[k]
                                 /\ \A j \in DOMAIN snapshots : snapshots[j].stream = s => j <= k

\* Where the tick stands.
ScanInv ==
    /\ scan.pc \in {"read", "persist", "event"} => restored /\ Len(scan.got) <= Len(Watch)
    /\ scan.pc \in {"persist", "event"} => Len(scan.got) = Len(Watch)
    /\ scan.i >= 1
    /\ scan.pc = "event" => Len(snapshots) >= 1

ReadsInv ==
    /\ ReadsType /\ OrderInv /\ ChangesReported
    /\ MemoryInv /\ MemoryIsLast /\ RestoreInv /\ ScanInv

-----------------------------------------------------------------------------
(* Research.                                                               *)

JobPcs == {"idle", "quote", "features", "chain", "reason", "propose", "outcome", "verify",
           "return"}
Attempting == {"quote", "features", "chain", "reason", "propose", "outcome"}
IsTerminal(k) == runs[k].status \in Terminal

ResearchType ==
    /\ cursor \in Nat
    /\ runs \in Seq([ev : Nat, status : {"STARTED"} \union Terminal])
    /\ DOMAIN job = {"pc", "ev", "t0", "cur", "prev", "option", "out"}
    /\ job.pc \in JobPcs

\* An event has one STARTED record at most, then one terminal record at most.
RunsInv ==
    \A i, j \in DOMAIN runs : runs[i].ev = runs[j].ev =>
        /\ (IsTerminal(i) <=> IsTerminal(j)) => i = j
        /\ IsTerminal(i) /\ ~IsTerminal(j) => j < i

\* The cursor has passed only events with a terminal record; an attempt
\* in progress is at the next event, which it has started and not concluded.
CursorInv ==
    /\ \A e \in 1..cursor : \E k \in RunsOf(e) : IsTerminal(k)
    /\ job.pc \in Attempting \union {"verify"} => job.ev = cursor + 1
    /\ job.pc \in Attempting =>
          RunsOf(job.ev) # {} /\ \A k \in RunsOf(job.ev) : ~IsTerminal(k)
    /\ job.pc = "outcome" => job.out \in Terminal
    /\ job.pc = "return" => /\ job.ev \in 1..cursor
                            /\ \E k \in RunsOf(job.ev) : runs[k].status = "PROPOSED"
    /\ \A e \in visible : e \in 1..cursor /\ \E k \in RunsOf(e) : runs[k].status = "PROPOSED"

ResearchInv == ResearchType /\ RunsInv /\ CursorInv

-----------------------------------------------------------------------------
(* The largest element, and sequences that grow.                           *)

LEMMA MaxIsMember ==
    ASSUME NEW n \in Nat, NEW S \in SUBSET (1..n), S # {}
    PROVE  Max(S) \in S /\ \A y \in S : y <= Max(S)
  <1> DEFINE T == {n - k : k \in S}
  <1>1. T \subseteq Nat /\ T # {}
    <2>1. PICK k : k \in S
      OBVIOUS
    <2>2. n - k \in T
      BY <2>1
    <2>3. \A x \in T : x \in Nat
      OBVIOUS
    <2>4. QED
      BY <2>2, <2>3
  <1>2. PICK x \in T : \A y \in T : ~(<<y, x>> \in OpToRel(<, Nat))
    BY <1>1, NatLessThanWellFounded, WFMin
  <1>3. PICK m \in S : x = n - m
    OBVIOUS
  <1>4. \A y \in S : m >= y
    <2>1. SUFFICES ASSUME NEW y \in S, ~(m >= y) PROVE FALSE
      OBVIOUS
    <2>2. n - y \in T /\ n - y \in Nat /\ x \in Nat /\ n - y < x
      BY <1>3, <2>1
    <2>3. <<n - y, x>> \in OpToRel(<, Nat)
      BY <2>2 DEF OpToRel
    <2>4. QED
      BY <1>2, <2>2, <2>3
  <1>5. Max(S) \in S /\ \A y \in S : Max(S) >= y
    BY <1>4 DEF Max
  <1>6. QED
    BY <1>5

LEMMA Grown ==
    ASSUME NEW T, NEW s \in Seq(T), NEW e \in T, NEW t, t = Append(s, e)
    PROVE  /\ t \in Seq(T)
           /\ Len(s) \in Nat /\ Len(t) = Len(s) + 1
           /\ DOMAIN s = 1..Len(s) /\ DOMAIN t = 1..(Len(s) + 1)
           /\ \A k \in DOMAIN s : t[k] = s[k] /\ k \in DOMAIN t /\ k \in Nat
           /\ t[Len(s) + 1] = e
  BY AppendProperties, LenProperties

\* Writing the event of an observation.
LEMMA EnsureEventWrites ==
    ASSUME NEW log \in Seq(Observations), NEW obs \in Observations
    PROVE  /\ EnsureEvent(log, obs) \in Seq(Observations)
           /\ ToSet(log) \subseteq ToSet(EnsureEvent(log, obs))
           /\ obs.kind = "none" \/ obs \in ToSet(EnsureEvent(log, obs))
  <1>1. CASE obs.kind = "none" \/ obs \in ToSet(log)
    BY <1>1 DEF EnsureEvent
  <1>2. CASE ~(obs.kind = "none" \/ obs \in ToSet(log))
    <2> DEFINE t == Append(log, obs)
    <2>1. EnsureEvent(log, obs) = t
      BY <1>2 DEF EnsureEvent
    <2>2. /\ t \in Seq(Observations)
          /\ DOMAIN t = 1..(Len(log) + 1) /\ Len(log) \in Nat
          /\ \A k \in DOMAIN log : t[k] = log[k] /\ k \in DOMAIN t
          /\ t[Len(log) + 1] = obs
      BY Grown
    <2> HIDE DEF t
    <2>3. ToSet(log) \subseteq ToSet(t) /\ obs \in ToSet(t)
      BY <2>2 DEF ToSet
    <2>4. QED
      BY <2>1, <2>2, <2>3
  <1>3. QED
    BY <1>1, <1>2

-----------------------------------------------------------------------------
(* Records of research.                                                    *)

LEMMA LatestIsLast ==
    ASSUME ResearchType, RunsInv, NEW e
    PROVE  /\ Latest(e) = "NONE" => RunsOf(e) = {}
           /\ Latest(e) = "STARTED" =>
                 RunsOf(e) # {} /\ \A k \in RunsOf(e) : ~IsTerminal(k)
           /\ Latest(e) \in {"NONE", "STARTED"} \union Terminal
           /\ Latest(e) \in Terminal =>
                 \E k \in RunsOf(e) : runs[k].status = Latest(e)
           /\ \A k \in RunsOf(e) : IsTerminal(k) => Latest(e) = runs[k].status
  <1>0. DOMAIN runs = 1..Len(runs) /\ Len(runs) \in Nat
    BY LenProperties DEF ResearchType
  <1>1. ASSUME NEW k \in DOMAIN runs PROVE runs[k].status \in {"STARTED"} \union Terminal
    <2>1. runs[k] \in [ev : Nat, status : {"STARTED"} \union Terminal]
      BY ElementOfSeq, <1>0 DEF ResearchType
    <2>2. QED
      BY <2>1
  <1>2. CASE RunsOf(e) = {}
    BY <1>2 DEF Latest, Terminal
  <1>3. CASE RunsOf(e) # {}
    <2> DEFINE m == Max(RunsOf(e))
    <2>1. RunsOf(e) \in SUBSET (1..Len(runs))
      BY <1>0 DEF RunsOf
    <2>2. m \in RunsOf(e) /\ \A y \in RunsOf(e) : y <= m
      BY <1>0, <1>3, <2>1, MaxIsMember
    <2>3. Latest(e) = runs[m].status
      BY <1>3 DEF Latest
    <2> HIDE DEF m
    <2>4. m \in DOMAIN runs /\ runs[m].ev = e
      BY <2>2 DEF RunsOf
    <2>5. ASSUME NEW k \in RunsOf(e), IsTerminal(k) PROVE k = m
      <3>1. k \in DOMAIN runs /\ runs[k].ev = runs[m].ev /\ k <= m /\ k \in Nat /\ m \in Nat
        BY <1>0, <2>2, <2>4, <2>5 DEF RunsOf
      <3>2. ~(m < k)
        BY <3>1
      <3>3. QED
        BY <2>4, <2>5, <3>1, <3>2 DEF RunsInv
    <2>6. QED
      BY <1>1, <1>3, <2>2, <2>3, <2>4, <2>5 DEF IsTerminal, Terminal
  <1>4. QED
    BY <1>2, <1>3

\* The next record of an event: STARTED when it has none, terminal when it has one and
\* that is not terminal.
LEMMA RecordKeepsRuns ==
    ASSUME ResearchType, RunsInv, NEW e \in Nat, NEW status \in {"STARTED"} \union Terminal,
           Record(e, status),
           IF status \in Terminal THEN \A k \in RunsOf(e) : ~IsTerminal(k) ELSE RunsOf(e) = {}
    PROVE  /\ runs' \in Seq([ev : Nat, status : {"STARTED"} \union Terminal])
           /\ RunsInv'
           /\ \A d : RunsOf(d) \subseteq RunsOf(d)'
           /\ \A d : \A k \in RunsOf(d) : runs'[k] = runs[k]
           /\ \A d : d # e => RunsOf(d)' = RunsOf(d)
           /\ \E k \in RunsOf(e)' : /\ runs'[k].status = status
                                    /\ RunsOf(e)' = RunsOf(e) \union {k}
  <1> DEFINE R == [ev : Nat, status : {"STARTED"} \union Terminal]
             new == [ev |-> e, status |-> status]
  <1>n. PICK n : n = Len(runs) + 1
    OBVIOUS
  <1>0. new \in R /\ runs \in Seq(R) /\ runs' = Append(runs, new)
    BY DEF ResearchType, Record
  <1> HIDE DEF R
  <1>1. /\ runs' \in Seq(R)
        /\ Len(runs) \in Nat
        /\ DOMAIN runs = 1..Len(runs) /\ DOMAIN runs' = 1..n
        /\ \A k \in DOMAIN runs : runs'[k] = runs[k] /\ k \in DOMAIN runs' /\ k \in Nat
        /\ runs'[n] = new
    BY <1>0, <1>n, Grown
  <1>2. /\ n \in Nat /\ n \notin DOMAIN runs /\ n \in DOMAIN runs'
        /\ DOMAIN runs' = DOMAIN runs \union {n}
        /\ \A k \in DOMAIN runs : k < n
    BY <1>1, <1>n
  <1>3. runs'[n].ev = e /\ runs'[n].status = status
    BY <1>1
  <1> HIDE DEF new
  <1>4. RunsOf(e)' = RunsOf(e) \union {n}
    BY <1>1, <1>2, <1>3 DEF RunsOf
  <1>5. ASSUME NEW d, d # e PROVE RunsOf(d)' = RunsOf(d)
    BY <1>1, <1>2, <1>3, <1>5 DEF RunsOf
  <1>6. \A k \in DOMAIN runs : IsTerminal(k)' <=> IsTerminal(k)
    BY <1>1 DEF IsTerminal
  <1>7. IsTerminal(n)' <=> status \in Terminal
    BY <1>3 DEF IsTerminal
  <1>8. RunsInv'
    <2>1. SUFFICES ASSUME NEW i \in DOMAIN runs', NEW j \in DOMAIN runs', runs'[i].ev = runs'[j].ev
                   PROVE  /\ (IsTerminal(i)' <=> IsTerminal(j)') => i = j
                          /\ IsTerminal(i)' /\ ~IsTerminal(j)' => j < i
      BY DEF RunsInv
    <2>2. CASE i \in DOMAIN runs /\ j \in DOMAIN runs
      BY <1>1, <1>6, <2>1, <2>2 DEF RunsInv
    <2>3. CASE i = n /\ j = n
      BY <2>3
    <2>4. CASE i = n /\ j \in DOMAIN runs
      <3>1. j \in RunsOf(e) /\ j < n
        BY <1>1, <1>2, <1>3, <2>1, <2>4 DEF RunsOf
      <3>2. status \in Terminal /\ ~IsTerminal(j)
        BY <3>1
      <3>3. QED
        BY <1>6, <1>7, <2>4, <3>1, <3>2
    <2>5. CASE j = n /\ i \in DOMAIN runs
      <3>1. i \in RunsOf(e) /\ i < n
        BY <1>1, <1>2, <1>3, <2>1, <2>5 DEF RunsOf
      <3>2. status \in Terminal /\ ~IsTerminal(i)
        BY <3>1
      <3>3. QED
        BY <1>6, <1>7, <2>5, <3>1, <3>2
    <2>6. QED
      BY <1>2, <2>2, <2>3, <2>4, <2>5
  <1>9. \A d : RunsOf(d) \subseteq RunsOf(d)' /\ \A k \in RunsOf(d) : runs'[k] = runs[k]
    BY <1>1 DEF RunsOf
  <1>10. \E k \in RunsOf(e)' : runs'[k].status = status /\ RunsOf(e)' = RunsOf(e) \union {k}
    BY <1>3, <1>4
  <1>11. QED
    BY <1>1, <1>5, <1>8, <1>9, <1>10 DEF R

-----------------------------------------------------------------------------
(* Steps of the queue and of the worker.                                   *)

LEMMA NoJobIsIdle ==
    /\ DOMAIN NoJob = {"pc", "ev", "t0", "cur", "prev", "option", "out"}
    /\ NoJob.pc = "idle"
  BY DEF NoJob

\* A tick that ends or is cut off, with or without the process.
LEMMA JobEnds ==
    ASSUME ResearchInv, job' = NoJob, visible' \subseteq visible, UNCHANGED <<cursor, runs>>
    PROVE  ResearchInv'
  <1>1. ResearchType'
    BY NoJobIsIdle DEF ResearchInv, ResearchType, JobPcs
  <1>2. RunsInv'
    BY DEF ResearchInv, RunsInv, IsTerminal
  <1>3. \A e : RunsOf(e)' = RunsOf(e)
    BY DEF RunsOf
  <1>4. CursorInv'
    BY <1>3, NoJobIsIdle DEF ResearchInv, CursorInv, IsTerminal, Attempting
  <1>5. QED
    BY <1>1, <1>2, <1>4 DEF ResearchInv

\* Nothing but the place of the attempt changes.
LEMMA JobMoves ==
    ASSUME ResearchInv, UNCHANGED <<cursor, runs, visible>>,
           job.pc \in Attempting, job'.pc \in Attempting, job'.ev = job.ev,
           DOMAIN job' = DOMAIN job, job'.pc = "outcome" => job'.out \in Terminal
    PROVE  ResearchInv'
  <1>1. ResearchType'
    BY DEF ResearchInv, ResearchType, JobPcs, Attempting
  <1>2. RunsInv'
    BY DEF ResearchInv, RunsInv, IsTerminal
  <1>3. \A e : RunsOf(e)' = RunsOf(e)
    BY DEF RunsOf
  <1>4. CursorInv'
    BY <1>3 DEF ResearchInv, CursorInv, IsTerminal, Attempting
  <1>5. QED
    BY <1>1, <1>2, <1>4 DEF ResearchInv

LEMMA FinishMoves ==
    ASSUME ResearchInv, UNCHANGED <<cursor, runs, visible>>, job.pc \in Attempting,
           NEW out \in Terminal, Finish(out)
    PROVE  ResearchInv'
  <1>1. /\ DOMAIN job' = DOMAIN NoJob
        /\ job'.pc = "outcome" /\ job'.ev = job.ev /\ job'.out = out
    BY DEF Finish, NoJob
  <1>2. DOMAIN job' = DOMAIN job
    BY <1>1, NoJobIsIdle DEF ResearchInv, ResearchType
  <1>3. QED
    BY <1>1, <1>2, JobMoves DEF Attempting

LEMMA AttemptStep ==
    ASSUME ResearchInv,
           ReadUnderlying \/ ScoreFeatures \/ ReadChain \/ Reason \/ Propose \/ AttemptFails
    PROVE  ResearchInv'
  <1>0. /\ "WAIT" \in Terminal /\ "PROPOSED" \in Terminal
        /\ {"pc", "ev"} \subseteq DOMAIN job
    BY DEF Terminal, ResearchInv, ResearchType
  <1>1. CASE ReadUnderlying
    <2>1. UNCHANGED <<cursor, runs, visible>> /\ job.pc = "quote"
      BY <1>1 DEF ReadUnderlying
    <2>2. \/ Finish("WAIT")
          \/ \E q : job' = [job EXCEPT !.pc = "features", !.cur = q, !.prev = baseline]
      BY <1>1 DEF ReadUnderlying
    <2>3. CASE Finish("WAIT")
      BY <1>0, <2>1, <2>3, FinishMoves DEF Attempting
    <2>4. CASE \E q : job' = [job EXCEPT !.pc = "features", !.cur = q, !.prev = baseline]
      <3>1. job'.pc = "features" /\ job'.ev = job.ev /\ DOMAIN job' = DOMAIN job
        BY <1>0, <2>4
      <3>2. QED
        BY <2>1, <3>1, JobMoves DEF Attempting
    <2>5. QED
      BY <2>2, <2>3, <2>4
  <1>2. CASE ScoreFeatures
    <2>1. UNCHANGED <<cursor, runs, visible>> /\ job.pc = "features"
      BY <1>2 DEF ScoreFeatures, durableResearch
    <2>2. \/ Finish("WAIT")
          \/ job' = [job EXCEPT !.pc = "chain", !.cur = NoObs, !.prev = NoObs]
      BY <1>2 DEF ScoreFeatures
    <2>3. CASE Finish("WAIT")
      BY <1>0, <2>1, <2>3, FinishMoves DEF Attempting
    <2>4. CASE job' = [job EXCEPT !.pc = "chain", !.cur = NoObs, !.prev = NoObs]
      <3>1. job'.pc = "chain" /\ job'.ev = job.ev /\ DOMAIN job' = DOMAIN job
        BY <1>0, <2>4
      <3>2. QED
        BY <2>1, <3>1, JobMoves DEF Attempting
    <2>5. QED
      BY <2>2, <2>3, <2>4
  <1>3. CASE ReadChain
    <2>1. UNCHANGED <<cursor, runs, visible>> /\ job.pc = "chain"
      BY <1>3 DEF ReadChain, durableResearch
    <2>2. \/ Finish("WAIT")
          \/ \E q : job' = [job EXCEPT !.pc = "reason", !.option = q, !.t0 = 0]
      BY <1>3 DEF ReadChain
    <2>3. CASE Finish("WAIT")
      BY <1>0, <2>1, <2>3, FinishMoves DEF Attempting
    <2>4. CASE \E q : job' = [job EXCEPT !.pc = "reason", !.option = q, !.t0 = 0]
      <3>1. job'.pc = "reason" /\ job'.ev = job.ev /\ DOMAIN job' = DOMAIN job
        BY <1>0, <2>4
      <3>2. QED
        BY <2>1, <3>1, JobMoves DEF Attempting
    <2>5. QED
      BY <2>2, <2>3, <2>4
  <1>4. CASE Reason
    <2>1. UNCHANGED <<cursor, runs, visible>> /\ job.pc = "reason"
      BY <1>4 DEF Reason, durableResearch
    <2>2. Finish("WAIT") \/ job' = [job EXCEPT !.pc = "propose"]
      BY <1>4 DEF Reason
    <2>3. CASE Finish("WAIT")
      BY <1>0, <2>1, <2>3, FinishMoves DEF Attempting
    <2>4. CASE job' = [job EXCEPT !.pc = "propose"]
      <3>1. job'.pc = "propose" /\ job'.ev = job.ev /\ DOMAIN job' = DOMAIN job
        BY <1>0, <2>4
      <3>2. QED
        BY <2>1, <3>1, JobMoves DEF Attempting
    <2>5. QED
      BY <2>2, <2>3, <2>4
  <1>5. CASE Propose
    <2>1. UNCHANGED <<cursor, runs, visible>> /\ job.pc = "propose"
      BY <1>5 DEF Propose, durableResearch
    <2>2. Finish("WAIT") \/ Finish("PROPOSED")
      BY <1>5 DEF Propose
    <2>3. QED
      BY <1>0, <2>1, <2>2, FinishMoves DEF Attempting
  <1>6. CASE AttemptFails
    <2>1. UNCHANGED <<cursor, runs, visible>> /\ job.pc \in Attempting /\ Finish("WAIT")
      BY <1>6 DEF AttemptFails, durableResearch, Attempting
    <2>2. QED
      BY <1>0, <2>1, FinishMoves
  <1>7. QED
    BY <1>1, <1>2, <1>3, <1>4, <1>5, <1>6

\* A record of the next event is appended and the tick goes on with it.
LEMMA RecordStep ==
    ASSUME ResearchInv, NEW e \in Nat, e = cursor + 1,
           NEW status \in {"STARTED"} \union Terminal, Record(e, status),
           IF status \in Terminal THEN \A k \in RunsOf(e) : ~IsTerminal(k) ELSE RunsOf(e) = {},
           UNCHANGED <<cursor, visible>>, DOMAIN job' = DOMAIN job, job'.ev = e,
           job'.pc = IF status \in Terminal THEN "verify" ELSE "quote"
    PROVE  ResearchInv'
  <1>1. ResearchType /\ RunsInv /\ CursorInv
    BY DEF ResearchInv
  <1>2. /\ runs' \in Seq([ev : Nat, status : {"STARTED"} \union Terminal])
        /\ RunsInv'
        /\ \A d : RunsOf(d) \subseteq RunsOf(d)'
        /\ \A d : \A k \in RunsOf(d) : runs'[k] = runs[k]
        /\ \A d : d # e => RunsOf(d)' = RunsOf(d)
        /\ \E k \in RunsOf(e)' : /\ runs'[k].status = status
                                 /\ RunsOf(e)' = RunsOf(e) \union {k}
    BY <1>1, RecordKeepsRuns
  <1>3. ResearchType'
    BY <1>1, <1>2 DEF ResearchType, JobPcs
  <1>4. \A d \in 1..cursor : \E k \in RunsOf(d)' : IsTerminal(k)'
    BY <1>1, <1>2 DEF CursorInv, IsTerminal
  <1>5. \A d \in visible : d \in 1..cursor /\ \E k \in RunsOf(d)' : runs'[k].status = "PROPOSED"
    BY <1>1, <1>2 DEF CursorInv
  <1>6. ASSUME job'.pc \in Attempting
        PROVE  RunsOf(e)' # {} /\ \A k \in RunsOf(e)' : ~IsTerminal(k)'
    <2>1. status \notin Terminal /\ RunsOf(e) = {}
      BY <1>6 DEF Attempting
    <2>2. QED
      BY <1>2, <2>1 DEF IsTerminal
  <1>7. CursorInv'
    BY <1>4, <1>5, <1>6 DEF CursorInv, Attempting
  <1>8. QED
    BY <1>2, <1>3, <1>7 DEF ResearchInv

LEMMA OnEventStep == ASSUME ResearchInv, OnEvent PROVE ResearchInv'
  <1>1. PICK e : /\ Pending(e)
         /\ CASE Latest(e) = "NONE" ->
                   /\ Record(e, "STARTED")
                   /\ job' = [NoJob EXCEPT !.pc = "quote", !.ev = e, !.t0 = now]
              [] Latest(e) = "STARTED" ->
                   /\ Record(e, "WAIT")
                   /\ job' = [NoJob EXCEPT !.pc = "verify", !.ev = e, !.out = "WAIT"]
              [] OTHER ->
                   /\ job' = [NoJob EXCEPT !.pc = "verify", !.ev = e, !.out = Latest(e)]
                   /\ UNCHANGED runs
    BY DEF OnEvent
  <1>2. UNCHANGED <<cursor, visible>>
    BY DEF OnEvent
  <1>3. e = cursor + 1 /\ e \in Nat
    BY <1>1 DEF Pending, ResearchInv, ResearchType
  <1>4. ResearchType /\ RunsInv /\ CursorInv /\ "WAIT" \in Terminal /\ "STARTED" \notin Terminal
    BY DEF ResearchInv, Terminal
  <1>5. /\ Latest(e) = "NONE" => RunsOf(e) = {}
        /\ Latest(e) = "STARTED" => \A k \in RunsOf(e) : ~IsTerminal(k)
    BY <1>4, LatestIsLast
  <1>d. DOMAIN NoJob = DOMAIN job
    BY <1>4, NoJobIsIdle DEF ResearchType
  <1>6. CASE Latest(e) = "NONE"
    <2>1. Record(e, "STARTED") /\ job' = [NoJob EXCEPT !.pc = "quote", !.ev = e, !.t0 = now]
      BY <1>1, <1>6
    <2>2. job'.pc = "quote" /\ job'.ev = e /\ DOMAIN job' = DOMAIN NoJob
      BY <2>1 DEF NoJob
    <2>3. QED
      BY <1>2, <1>3, <1>4, <1>5, <1>6, <1>d, <2>1, <2>2, RecordStep
  <1>7. CASE Latest(e) = "STARTED"
    <2>1. Record(e, "WAIT") /\ job' = [NoJob EXCEPT !.pc = "verify", !.ev = e, !.out = "WAIT"]
      BY <1>1, <1>7
    <2>2. job'.pc = "verify" /\ job'.ev = e /\ DOMAIN job' = DOMAIN NoJob
      BY <2>1 DEF NoJob
    <2>3. QED
      BY <1>2, <1>3, <1>4, <1>5, <1>7, <1>d, <2>1, <2>2, RecordStep
  <1>8. CASE Latest(e) \notin {"NONE", "STARTED"}
    <2>1. UNCHANGED runs /\ job' = [NoJob EXCEPT !.pc = "verify", !.ev = e, !.out = Latest(e)]
      BY <1>1, <1>8
    <2>2. job'.pc = "verify" /\ job'.ev = e /\ DOMAIN job' = DOMAIN NoJob
      BY <2>1 DEF NoJob
    <2>3. ResearchType' /\ RunsInv' /\ \A d : RunsOf(d)' = RunsOf(d)
      BY <1>2, <1>4, <1>d, <2>1, <2>2 DEF ResearchType, JobPcs, RunsInv, IsTerminal, RunsOf
    <2>4. CursorInv'
      BY <1>2, <1>3, <1>4, <2>1, <2>2, <2>3 DEF CursorInv, IsTerminal, Attempting
    <2>5. QED
      BY <2>3, <2>4 DEF ResearchInv
  <1>9. QED
    BY <1>6, <1>7, <1>8

LEMMA RecordOutcomeStep == ASSUME ResearchInv, RecordOutcome PROVE ResearchInv'
  <1>1. /\ job.pc = "outcome" /\ Record(job.ev, job.out) /\ UNCHANGED <<cursor, visible>>
        /\ job' = [job EXCEPT !.pc = "verify"]
    BY DEF RecordOutcome
  <1>2. {"pc", "ev"} \subseteq DOMAIN job /\ cursor \in Nat
    BY DEF ResearchInv, ResearchType
  <1>3. job'.pc = "verify" /\ job'.ev = job.ev /\ DOMAIN job' = DOMAIN job
    BY <1>1, <1>2
  <1>4. /\ job.ev = cursor + 1 /\ job.out \in Terminal
        /\ \A k \in RunsOf(job.ev) : ~IsTerminal(k)
    BY <1>1 DEF ResearchInv, CursorInv, Attempting
  <1>5. QED
    BY <1>1, <1>2, <1>3, <1>4, RecordStep

LEMMA AdvanceCursorStep == ASSUME ResearchInv, AdvanceCursor PROVE ResearchInv'
  <1>1. job.pc = "verify" /\ UNCHANGED <<runs, visible>>
    BY DEF AdvanceCursor
  <1>2. CASE ~ResultVerified
    BY <1>1, <1>2, JobEnds DEF AdvanceCursor
  <1>3. CASE ResultVerified
    <2>1. /\ cursor' = job.ev
          /\ job' = IF job.out = "PROPOSED" THEN [job EXCEPT !.pc = "return"] ELSE NoJob
      BY <1>3 DEF AdvanceCursor
    <2>2. ResearchType /\ RunsInv /\ CursorInv /\ cursor \in Nat /\ {"pc", "ev"} \subseteq DOMAIN job
      BY DEF ResearchInv, ResearchType
    <2>3. job.ev = cursor + 1 /\ job.ev \in Nat
      BY <1>1, <2>2 DEF CursorInv
    <2>4. PICK k \in RunsOf(job.ev) : runs[k].status = job.out /\ job.out \in Terminal
      BY <1>3, <2>2, LatestIsLast DEF ResultVerified
    <2>5. /\ DOMAIN job' = DOMAIN job
          /\ job'.pc \in {"return", "idle"}
          /\ job'.pc = "return" => job'.ev = job.ev /\ job.out = "PROPOSED"
      BY <2>1, <2>2, NoJobIsIdle DEF ResearchType
    <2>6. ResearchType' /\ RunsInv' /\ \A d : RunsOf(d)' = RunsOf(d)
      BY <1>1, <2>1, <2>2, <2>3, <2>5 DEF ResearchType, JobPcs, RunsInv, IsTerminal, RunsOf
    <2>7. \A d \in 1..cursor' : d \in 1..cursor \/ d = job.ev
      BY <2>1, <2>2, <2>3
    <2>8. \A d \in 1..cursor' : \E j \in RunsOf(d)' : IsTerminal(j)'
      BY <1>1, <2>2, <2>4, <2>6, <2>7 DEF CursorInv, IsTerminal
    <2>9. \A d \in 1..cursor : d \in 1..cursor'
      BY <2>1, <2>2, <2>3
    <2>10. job'.pc = "return" => /\ job'.ev \in 1..cursor'
                                 /\ \E j \in RunsOf(job.ev)' : runs'[j].status = "PROPOSED"
      <3>1. RunsOf(job.ev)' = {j \in DOMAIN runs : runs[j].ev = job'.ev}
        BY <1>1 DEF RunsOf
      <3>2. RunsOf(job.ev) = {j \in DOMAIN runs : runs[j].ev = job.ev}
        BY DEF RunsOf
      <3>3. QED
        BY <3>1, <3>2, <1>1, <2>1, <2>2, <2>3, <2>4, <2>5, <2>6
    <2>11. \A d \in visible' : /\ d \in 1..cursor'
                               /\ \E j \in RunsOf(d)' : runs'[j].status = "PROPOSED"
      BY <1>1, <2>2, <2>6, <2>9 DEF CursorInv
    <2>12. CursorInv'
      BY <2>5, <2>8, <2>10, <2>11 DEF CursorInv, Attempting
    <2>13. QED
      BY <2>6, <2>12 DEF ResearchInv
  <1>4. QED
    BY <1>2, <1>3

LEMMA ShowProposalStep == ASSUME ResearchInv, ShowProposal PROVE ResearchInv'
  <1>1. /\ job.pc = "return" /\ visible' = visible \union {job.ev} /\ job' = NoJob
        /\ UNCHANGED <<cursor, runs>>
    BY DEF ShowProposal, durableResearch
  <1>2. ResearchType' /\ RunsInv' /\ \A d : RunsOf(d)' = RunsOf(d)
    BY <1>1, NoJobIsIdle DEF ResearchInv, ResearchType, JobPcs, RunsInv, IsTerminal, RunsOf
  <1>3. CursorInv'
    BY <1>1, <1>2, NoJobIsIdle DEF ResearchInv, CursorInv, IsTerminal, Attempting
  <1>4. QED
    BY <1>2, <1>3 DEF ResearchInv

LEMMA ResearchStepKeeps == ASSUME ResearchInv, ResearchStep PROVE ResearchInv'
  BY OnEventStep, AttemptStep, RecordOutcomeStep, AdvanceCursorStep, ShowProposalStep
  DEF ResearchStep

-----------------------------------------------------------------------------
(* Steps of the surveillance tick.                                         *)

LEMMA IdleFacts ==
    /\ Idle \in Scans /\ Idle.pc = "idle" /\ Idle.i = 1
    /\ Idle.got = <<>> /\ Idle.page = 0 /\ Idle.rows = {}
  <1>1. <<>> \in Seq(Quote)
    BY EmptySeq
  <1>2. QED
    BY <1>1 DEF Idle, Scans, ScanPcs

LEMMA BeginFacts ==
    ASSUME NEW c \in Nat, NEW new, new = [Idle EXCEPT !.pc = "read", !.cutoff = c]
    PROVE  new \in Scans /\ new.pc = "read" /\ new.i = 1 /\ Len(new.got) = 0
  <1>1. Len(<<>>) = 0
    BY EmptySeq
  <1>2. /\ new \in Scans /\ new.pc = "read"
        /\ new.i = Idle.i /\ new.got = Idle.got
    BY IdleFacts DEF Scans, ScanPcs
  <1>3. QED
    BY <1>1, <1>2, IdleFacts

LEMMA RestoreFacts ==
    ASSUME NEW new, new = [Idle EXCEPT !.pc = "restore"]
    PROVE  new \in Scans /\ new.pc = "restore" /\ new.i = 1 /\ new.page = 0 /\ new.rows = {}
  <1>1. /\ new \in Scans /\ new.pc = "restore"
        /\ new.i = Idle.i /\ new.page = Idle.page /\ new.rows = Idle.rows
    BY IdleFacts DEF Scans, ScanPcs
  <1>2. QED
    BY <1>1, IdleFacts

LEMMA StoredFacts ==
    ASSUME ReadsType
    PROVE  /\ Len(snapshots) \in Nat /\ DOMAIN snapshots = 1..Len(snapshots)
           /\ \A k \in DOMAIN snapshots :
                 /\ k \in Nat /\ k \in 1..Len(snapshots)
                 /\ snapshots[k] \in Observations /\ snapshots[k] # NoObs
                 /\ snapshots[k].stream \in Streams /\ snapshots[k].at \in Nat
                 /\ snapshots[k].quote \in Quote
                 /\ snapshots[k].quote.eff \in Nat /\ snapshots[k].quote.obs \in Nat
  <1>1. Len(snapshots) \in Nat /\ DOMAIN snapshots = 1..Len(snapshots)
    BY LenProperties DEF ReadsType
  <1>2. ASSUME NEW k \in DOMAIN snapshots PROVE snapshots[k] \in Observations
    BY <1>1, <1>2, ElementOfSeq DEF ReadsType
  <1>3. ASSUME NEW o \in Observations
        PROVE  /\ o # NoObs /\ o.stream \in Streams /\ o.at \in Nat /\ o.quote \in Quote
               /\ o.quote.eff \in Nat /\ o.quote.obs \in Nat
    <2>1. o # NoObs /\ o.stream \in Streams /\ o.at \in Nat /\ o.quote \in Quote
      BY LiveReadsAssumption DEF Observations
    <2>2. QED
      BY <2>1, LiveReadsAssumption
  <1>4. QED
    BY <1>1, <1>2, <1>3

\* The stored rows stand still while the clock may go on.
LEMMA RowsStand ==
    ASSUME ReadsType, OrderInv, ChangesReported, UNCHANGED snapshots, now' \in Nat, now <= now'
    PROVE  OrderInv' /\ ChangesReported'
  <1>1. \A k \in DOMAIN snapshots : snapshots[k].at <= now'
    BY StoredFacts DEF ReadsType, OrderInv
  <1>2. OrderInv'
    BY <1>1 DEF OrderInv, MovedBackward
  <1>3. ChangesReported'
    BY DEF ChangesReported, Changed
  <1>4. QED
    BY <1>2, <1>3

\* Nothing is remembered any more.
LEMMA ForgetStep ==
    ASSUME ReadsInv, restored' = FALSE, scan' = Idle, UNCHANGED <<now, snapshots, events>>,
           previous' \in [Streams -> Observations \union {NoObs}]
    PROVE  ReadsInv'
  <1>1. ReadsType'
    BY IdleFacts DEF ReadsInv, ReadsType
  <1>2. OrderInv' /\ ChangesReported'
    BY RowsStand DEF ReadsInv, ReadsType
  <1>3. MemoryInv' /\ MemoryIsLast' /\ RestoreInv' /\ ScanInv'
    BY IdleFacts DEF MemoryInv, MemoryIsLast, RestoreInv, ScanInv
  <1>4. QED
    BY <1>1, <1>2, <1>3 DEF ReadsInv

LEMMA AbortStep ==
    ASSUME ReadsInv, AbortTick, UNCHANGED <<now, snapshots, events, previous>>
    PROVE  ReadsInv'
  BY ForgetStep DEF AbortTick, ReadsInv, ReadsType

\* The tick moves on within its restored part, event rows being added.
LEMMA MoveOn ==
    ASSUME ReadsInv, UNCHANGED <<now, snapshots, previous, restored>>,
           events' \in Seq(Observations), ToSet(events) \subseteq ToSet(events'),
           scan.pc # "event", scan'.pc \notin {"event", "restore"}, scan' \in Scans, ScanInv'
    PROVE  ReadsInv'
  <1>1. ReadsType'
    BY DEF ReadsInv, ReadsType
  <1>2. OrderInv' /\ ChangesReported'
    BY RowsStand DEF ReadsInv, ReadsType
  <1>3. Settled = Len(snapshots) /\ Settled' = Len(snapshots)
    BY DEF Settled
  <1>4. MemoryInv'
    <2>1. \A k : Reported(k) => Reported(k)'
      BY DEF Reported
    <2>2. QED
      BY <1>3, <2>1 DEF ReadsInv, MemoryInv
  <1>5. MemoryIsLast'
    BY <1>3 DEF ReadsInv, MemoryIsLast, Remembers
  <1>6. RestoreInv'
    BY DEF RestoreInv
  <1>7. QED
    BY <1>1, <1>2, <1>4, <1>5, <1>6 DEF ReadsInv

LEMMA TickBeginStep == ASSUME ReadsInv, UNCHANGED now, TickBegin PROVE ReadsInv'
  <1>1. scan.pc = "idle" /\ UNCHANGED <<snapshots, events, restored>> /\ now \in Nat
    BY DEF TickBegin, durableReads, ReadsInv, ReadsType
  <1>2. CASE restored
    <2>1. scan' = [Idle EXCEPT !.pc = "read", !.cutoff = now] /\ UNCHANGED previous
      BY <1>2 DEF TickBegin
    <2>2. scan' \in Scans /\ scan'.pc = "read" /\ scan'.i = 1 /\ Len(scan'.got) = 0
      BY <1>1, <2>1, BeginFacts
    <2>3. Len(Watch) \in Nat
      BY LiveReadsAssumption, LenProperties
    <2>4. ScanInv'
      BY <1>1, <1>2, <2>2, <2>3 DEF ScanInv
    <2>5. events' \in Seq(Observations) /\ ToSet(events) \subseteq ToSet(events')
      BY <1>1 DEF ReadsInv, ReadsType
    <2>6. QED
      BY <1>1, <2>1, <2>2, <2>4, <2>5, MoveOn
  <1>3. CASE ~restored
    <2>1. scan' = [Idle EXCEPT !.pc = "restore"] /\ previous' = Forgotten
      BY <1>3 DEF TickBegin
    <2>2. /\ scan' \in Scans /\ scan'.pc = "restore" /\ scan'.i = 1 /\ scan'.page = 0
          /\ scan'.rows = {}
      BY <2>1, RestoreFacts
    <2>3. ReadsType'
      BY <1>1, <2>1, <2>2 DEF ReadsInv, ReadsType, Forgotten
    <2>4. OrderInv' /\ ChangesReported'
      BY <1>1, RowsStand DEF ReadsInv, ReadsType
    <2>5. MemoryInv' /\ MemoryIsLast' /\ ScanInv'
      BY <1>1, <1>3, <2>2 DEF MemoryInv, MemoryIsLast, ScanInv
    <2>6. RestoreInv'
      BY <1>1, <1>3, <2>1, <2>2 DEF RestoreInv, Done, Forgotten
    <2>7. QED
      BY <2>3, <2>4, <2>5, <2>6 DEF ReadsInv
  <1>4. QED
    BY <1>2, <1>3

LEMMA ReadStep ==
    ASSUME ReadsInv, UNCHANGED now, ReadQuote \/ Revalidate \/ TickEnd PROVE ReadsInv'
  <1>1. UNCHANGED <<snapshots, events, previous>> /\ scan.pc \in {"read", "persist"}
    BY DEF ReadQuote, Revalidate, TickEnd, durableReads
  <1>2. /\ scan \in Scans /\ scan.got \in Seq(Quote) /\ scan.i \in Nat /\ scan.i >= 1 /\ restored
        /\ Len(scan.got) <= Len(Watch)
    BY <1>1 DEF ReadsInv, ReadsType, ScanInv, Scans
  <1>3. events' \in Seq(Observations) /\ ToSet(events) \subseteq ToSet(events')
    BY <1>1 DEF ReadsInv, ReadsType
  <1>4. CASE AbortTick
    BY <1>1, <1>4, AbortStep
  <1>5. CASE ReadQuote /\ ~AbortTick
    <2>1. PICK q \in QuotesOf[Watch[Len(scan.got) + 1]] :
            scan' = [scan EXCEPT !.got = Append(@, q)] /\ UNCHANGED restored
      BY <1>5 DEF ReadQuote
    <2>2. scan.pc = "read" /\ Len(scan.got) < Len(Watch)
      BY <1>5 DEF ReadQuote
    <2>3. Len(scan.got) \in Nat /\ Len(Watch) \in Nat
      BY <1>2, LenProperties, LiveReadsAssumption
    <2>4. Watch[Len(scan.got) + 1] \in Streams
      BY <2>2, <2>3, LiveReadsAssumption, ElementOfSeq
    <2>5. q \in Quote
      BY <2>1, <2>4 DEF Quote
    <2> DEFINE g == Append(scan.got, q)
    <2>6. g \in Seq(Quote) /\ Len(g) = Len(scan.got) + 1
      BY <1>2, <2>5, Grown
    <2>7. scan' = [scan EXCEPT !.got = g]
      BY <2>1
    <2> HIDE DEF g
    <2>8. scan' \in Scans /\ scan'.pc = "read" /\ scan'.i = scan.i /\ scan'.got = g
      BY <1>2, <2>2, <2>6, <2>7 DEF Scans
    <2>9. ScanInv'
      BY <1>2, <2>1, <2>2, <2>3, <2>6, <2>8 DEF ScanInv
    <2>10. QED
      BY <1>1, <1>3, <2>1, <2>2, <2>8, <2>9, MoveOn
  <1>6. CASE Revalidate /\ ~AbortTick
    <2>1. scan' = [scan EXCEPT !.pc = "persist"] /\ UNCHANGED restored
      BY <1>6 DEF Revalidate
    <2>2. Len(scan.got) = Len(Watch)
      BY <1>6 DEF Revalidate
    <2>3. scan' \in Scans /\ scan'.pc = "persist" /\ scan'.i = scan.i /\ scan'.got = scan.got
      BY <1>2, <2>1 DEF Scans, ScanPcs
    <2>4. ScanInv'
      BY <1>2, <2>1, <2>2, <2>3 DEF ScanInv
    <2>5. QED
      BY <1>1, <1>3, <2>1, <2>3, <2>4, MoveOn
  <1>7. CASE TickEnd
    <2>1. scan' = Idle /\ UNCHANGED restored
      BY <1>7 DEF TickEnd
    <2>2. ScanInv'
      BY <2>1, IdleFacts DEF ScanInv
    <2>3. QED
      BY <1>1, <1>3, <2>1, <2>2, IdleFacts, MoveOn
  <1>8. QED
    BY <1>4, <1>5, <1>6, <1>7

-----------------------------------------------------------------------------
(* Restoration: two tables, newest row first.                              *)

LEMMA RestorePageStep == ASSUME ReadsInv, UNCHANGED now, RestorePage PROVE ReadsInv'
  <1>1. /\ scan.pc = "restore" /\ scan.rows = {}
        /\ UNCHANGED <<snapshots, events, previous>>
    BY DEF RestorePage, durableReads
  <1>2. scan \in Scans /\ scan.page \in 0..2 /\ now \in Nat /\ scan.i \in Nat
    BY DEF ReadsInv, ReadsType, Scans
  <1>3. CASE AbortTick
    BY <1>1, <1>3, AbortStep
  <1>r. RestoreInv /\ ~restored /\ Len(snapshots) \in Nat /\ DOMAIN snapshots = 1..Len(snapshots)
    BY <1>1, StoredFacts DEF ReadsInv, RestoreInv
  <1>o. OrderInv' /\ ChangesReported'
    BY <1>1, RowsStand DEF ReadsInv, ReadsType
  <1>4. CASE scan.page + 1 > 2
    <2>1. restored' = TRUE /\ scan' = [Idle EXCEPT !.pc = "read", !.cutoff = now]
      BY <1>4 DEF RestorePage
    <2>2. scan' \in Scans /\ scan'.pc = "read" /\ scan'.i = 1 /\ Len(scan'.got) = 0
      BY <1>2, <2>1, BeginFacts
    <2>3. ReadsType'
      BY <1>1, <2>1, <2>2 DEF ReadsInv, ReadsType
    <2>4. Len(Watch) \in Nat
      BY LiveReadsAssumption, LenProperties
    <2>5. RestoreInv' /\ ScanInv'
      BY <2>1, <2>2, <2>4 DEF RestoreInv, ScanInv
    <2>6. Done = 1..Len(snapshots) /\ Settled' = Len(snapshots)
      <3>1. scan.page = 2 /\ RowsUpTo(2) = DOMAIN snapshots
        BY <1>2, <1>4 DEF RowsUpTo
      <3>2. Done = 1..Len(snapshots)
        BY <1>1, <1>r, <3>1 DEF Done
      <3>3. QED
        BY <1>1, <2>2, <3>2 DEF Settled
    <2>7. MemoryInv'
      BY <1>1, <1>r, <2>6 DEF MemoryInv, RestoreInv, Reported
    <2>8. MemoryIsLast'
      <3>1. ASSUME NEW s \in Streams PROVE Remembers(s, Len(snapshots))
        BY <1>1, <1>r, <2>6 DEF RestoreInv, Remembers
      <3>2. QED
        BY <1>1, <2>6, <3>1 DEF MemoryIsLast, Remembers
    <2>9. QED
      BY <1>o, <2>3, <2>5, <2>7, <2>8 DEF ReadsInv
  <1>5. CASE ~(scan.page + 1 > 2) /\ ~AbortTick
    <2> DEFINE p == scan.page + 1
               new == IF p = 1 THEN RowsUpTo(1) ELSE RowsUpTo(2) \ RowsUpTo(1)
    <2>1. scan' = [scan EXCEPT !.page = p, !.rows = new] /\ UNCHANGED restored
      BY <1>5 DEF RestorePage
    <2>2. p \in 0..2 /\ p \in {1, 2} /\ new \in SUBSET Nat
      BY <1>2, <1>5, <1>r DEF RowsUpTo
    <2> HIDE DEF new
    <2>3. /\ scan' \in Scans /\ scan'.pc = "restore" /\ scan'.i = scan.i
          /\ scan'.page = p /\ scan'.rows = new
      BY <1>1, <1>2, <2>1, <2>2 DEF Scans
    <2>4. ReadsType'
      BY <1>1, <2>1, <2>3 DEF ReadsInv, ReadsType
    <2>5. MemoryInv' /\ MemoryIsLast' /\ ScanInv'
      BY <1>1, <1>r, <2>1, <2>3 DEF MemoryInv, MemoryIsLast, ScanInv, ReadsInv
    <2>6. \A n : RowsUpTo(n)' = RowsUpTo(n)
      BY <1>1 DEF RowsUpTo
    <2>7. Done' = Done
      <3>1. CASE p = 1
        <4>1. Done = {}
          BY <1>2, <3>1 DEF Done
        <4>2. Done' = RowsUpTo(1) \ new
          BY <2>3, <2>6, <3>1 DEF Done
        <4>3. QED
          BY <3>1, <4>1, <4>2 DEF new
      <3>2. CASE p = 2
        <4>1. Done = RowsUpTo(1)
          BY <1>1, <1>2, <3>2 DEF Done
        <4>2. Done' = RowsUpTo(2) \ new
          BY <2>3, <2>6, <3>2 DEF Done
        <4>3. new = RowsUpTo(2) \ RowsUpTo(1) /\ RowsUpTo(1) \subseteq RowsUpTo(2)
          BY <3>2 DEF new, RowsUpTo
        <4>4. QED
          BY <4>1, <4>2, <4>3
      <3>3. QED
        BY <2>2, <3>1, <3>2
    <2>8. new \subseteq RowsUpTo(p)
      BY <2>2 DEF new
    <2>9. ASSUME NEW j \in new, NEW k \in DOMAIN snapshots \ new
          PROVE  snapshots[k].stream # snapshots[j].stream
      <3>1. CASE p = 1
        BY <2>9, <3>1 DEF new, RowsUpTo
      <3>2. CASE p = 2
        BY <2>9, <3>2 DEF new, RowsUpTo
      <3>3. QED
        BY <2>2, <3>1, <3>2
    <2>10. RestoreInv'
      <3>1. ~restored' /\ scan'.page # 0
        BY <1>r, <2>1, <2>2, <2>3
      <3>2. scan'.rows \subseteq RowsUpTo(scan.page)'
        BY <2>3, <2>6, <2>8 DEF RowsUpTo
      <3>3. \A k \in Done' : Reported(k)'
        BY <1>1, <1>r, <2>7 DEF RestoreInv, Reported
      <3>4. ASSUME NEW s \in Streams
            PROVE  \/ previous'[s] = NoObs /\ \A k \in Done' : snapshots'[k].stream # s
                   \/ \E k \in Done' :
                        /\ snapshots'[k].stream = s /\ previous'[s] = snapshots'[k]
                        /\ \A j \in DOMAIN snapshots' : snapshots'[j].stream = s => j <= k
        BY <1>1, <1>r, <2>7 DEF RestoreInv
      <3>5. QED
        BY <1>1, <2>3, <2>9, <3>1, <3>2, <3>3, <3>4 DEF RestoreInv
    <2>11. QED
      BY <1>o, <2>4, <2>5, <2>10 DEF ReadsInv
  <1>6. QED
    BY <1>3, <1>4, <1>5

\* A row of a stream that is already remembered is not more recent.
LEMMA OlderIsNotMoreRecent ==
    ASSUME ReadsType, OrderInv, NEW k \in DOMAIN snapshots, NEW m \in DOMAIN snapshots, k < m,
           snapshots[k].stream = snapshots[m].stream
    PROVE  ~MoreRecent(snapshots[k], snapshots[m])
  <1> DEFINE a == snapshots[k]
             b == snapshots[m]
  <1>1. ~MovedBackward(a.quote, b.quote) /\ a.at <= b.at
    BY DEF OrderInv
  <1>2. /\ a.quote.eff \in Nat /\ a.quote.obs \in Nat /\ a.at \in Nat
        /\ b.quote.eff \in Nat /\ b.quote.obs \in Nat /\ b.at \in Nat
    BY StoredFacts
  <1> HIDE DEF a, b
  <1>3. ~MoreRecent(a, b)
    BY <1>1, <1>2 DEF MovedBackward, MoreRecent
  <1>4. QED
    BY <1>3 DEF a, b

LEMMA RestoreRowStep == ASSUME ReadsInv, UNCHANGED now, RestoreRow PROVE ReadsInv'
  <1>1. scan.pc = "restore" /\ scan.rows # {} /\ UNCHANGED snapshots
    BY DEF RestoreRow
  <1>r. /\ RestoreInv /\ ~restored /\ Len(snapshots) \in Nat
        /\ DOMAIN snapshots = 1..Len(snapshots)
        /\ scan \in Scans /\ scan.page \in 0..2 /\ scan.page # 0
        /\ scan.rows \subseteq RowsUpTo(scan.page)
    BY <1>1, StoredFacts DEF ReadsInv, RestoreInv, ReadsType, Scans
  <1>k. PICK k : k = Max(scan.rows)
    OBVIOUS
  <1>2. k \in scan.rows /\ (\A y \in scan.rows : y <= k) /\ k \in DOMAIN snapshots /\ k \in Nat
    <2>1. scan.rows \in SUBSET (1..Len(snapshots))
      BY <1>r DEF RowsUpTo
    <2>2. k \in scan.rows /\ \A y \in scan.rows : y <= k
      BY <1>1, <1>k, <1>r, <2>1, MaxIsMember
    <2>3. QED
      BY <1>r, <2>1, <2>2
  <1> DEFINE obs == snapshots[k]
             s == obs.stream
             known == previous[s]
  <1>3. obs \in Observations /\ s \in Streams /\ obs # NoObs
    BY <1>2, StoredFacts DEF ReadsInv
  <1>4. CASE AbortTick /\ UNCHANGED <<previous, events>>
    BY <1>1, <1>4, AbortStep
  <1>5. CASE Authentic(obs)
    <2>1. /\ previous' = IF known = NoObs \/ MoreRecent(obs, known)
                         THEN [previous EXCEPT ![s] = obs] ELSE previous
          /\ events' = EnsureEvent(events, obs)
          /\ scan' = [scan EXCEPT !.rows = @ \ {k}]
          /\ UNCHANGED restored
      BY <1>5, <1>k DEF RestoreRow
    <2>2. /\ scan' \in Scans /\ scan'.pc = "restore" /\ scan'.i = scan.i
          /\ scan'.page = scan.page /\ scan'.rows = scan.rows \ {k}
      BY <1>1, <1>r, <2>1 DEF Scans
    <2>3. /\ events' \in Seq(Observations) /\ ToSet(events) \subseteq ToSet(events')
          /\ obs.kind = "none" \/ obs \in ToSet(events')
      BY <1>3, <2>1, EnsureEventWrites DEF ReadsInv, ReadsType
    <2>4. ReadsType'
      BY <1>1, <1>3, <2>1, <2>2, <2>3 DEF ReadsInv, ReadsType
    <2>5. MemoryInv' /\ MemoryIsLast' /\ ScanInv'
      BY <1>1, <1>r, <2>1, <2>2 DEF MemoryInv, MemoryIsLast, ScanInv, ReadsInv
    <2>6. OrderInv' /\ ChangesReported'
      BY <1>1, RowsStand DEF ReadsInv, ReadsType
    <2>7. \A n : RowsUpTo(n)' = RowsUpTo(n)
      BY <1>1 DEF RowsUpTo
    <2>8. Done' = Done \union {k} /\ k \notin Done /\ Done \subseteq DOMAIN snapshots
      <3>1. Done = RowsUpTo(scan.page) \ scan.rows /\ RowsUpTo(scan.page) \subseteq DOMAIN snapshots
        BY <1>r DEF Done, RowsUpTo
      <3>2. Done' = RowsUpTo(scan.page) \ (scan.rows \ {k})
        BY <1>1, <1>r, <2>2 DEF Done, RowsUpTo
      <3>3. QED
        BY <1>2, <1>r, <3>1, <3>2
    <2>9. \A j \in scan'.rows : \A i \in DOMAIN snapshots \ scan'.rows :
            snapshots[i].stream = snapshots[j].stream => j < i
      <3>1. SUFFICES ASSUME NEW j \in scan.rows, j # k,
                            NEW i \in DOMAIN snapshots, i \notin scan.rows \/ i = k,
                            snapshots[i].stream = snapshots[j].stream
                     PROVE  j < i
        BY <2>2
      <3>2. CASE i = k
        <4>1. j <= k /\ j \in Nat /\ k \in Nat
          BY <1>2, <1>r, <3>1 DEF RowsUpTo
        <4>2. QED
          BY <3>1, <3>2, <4>1
      <3>3. CASE i \notin scan.rows
        BY <1>1, <1>r, <3>1, <3>3 DEF RestoreInv
      <3>4. QED
        BY <3>1, <3>2, <3>3
    <2>10. \A j \in Done' : Reported(j)'
      <3>1. \A j \in Done : Reported(j)
        BY <1>1, <1>r DEF RestoreInv
      <3>2. QED
        BY <1>1, <2>3, <2>8, <3>1 DEF Reported
    \* The stream of the row that was read.
    <2>11. \E m \in Done' : /\ snapshots[m].stream = s /\ previous'[s] = snapshots[m]
                            /\ \A j \in DOMAIN snapshots : snapshots[j].stream = s => j <= m
      <3>0. previous \in [Streams -> Observations \union {NoObs}]
        BY DEF ReadsInv, ReadsType
      <3>1. CASE known = NoObs
        <4>1. previous'[s] = obs
          BY <1>3, <2>1, <3>0, <3>1
        <4>2. \A j \in Done : snapshots[j].stream # s
          <5>1. \A j \in Done : snapshots[j] # NoObs
            BY <2>8, StoredFacts DEF ReadsInv
          <5>2. QED
            BY <1>1, <1>3, <1>r, <3>1, <5>1 DEF RestoreInv
        <4>3. ASSUME NEW j \in DOMAIN snapshots, snapshots[j].stream = s PROVE j <= k
          <5>1. j \in RowsUpTo(scan.page)
            BY <1>2, <1>r, <4>3 DEF RowsUpTo
          <5>2. j \in scan.rows
            BY <1>r, <4>2, <4>3, <5>1 DEF Done
          <5>3. QED
            BY <1>2, <5>2
        <4>4. QED
          BY <2>8, <4>1, <4>3
      <3>2. CASE known # NoObs
        <4>1. PICK m \in Done : /\ snapshots[m].stream = s /\ known = snapshots[m]
                                /\ \A j \in DOMAIN snapshots : snapshots[j].stream = s => j <= m
          BY <1>1, <1>3, <1>r, <3>2 DEF RestoreInv
        <4>2. k < m /\ m \in DOMAIN snapshots
          <5>1. k <= m /\ k # m /\ m \in DOMAIN snapshots
            BY <1>2, <2>8, <4>1
          <5>2. QED
            BY <1>2, <1>r, <5>1
        <4>3. ~MoreRecent(obs, known)
          BY <1>2, <4>1, <4>2, OlderIsNotMoreRecent DEF ReadsInv
        <4>4. previous' = previous
          BY <2>1, <3>2, <4>3
        <4>5. QED
          BY <2>8, <4>1, <4>4
      <3>3. QED
        BY <3>1, <3>2
    <2>12. ASSUME NEW t \in Streams
           PROVE  \/ previous'[t] = NoObs /\ \A j \in Done' : snapshots[j].stream # t
                  \/ \E m \in Done' :
                        /\ snapshots[m].stream = t /\ previous'[t] = snapshots[m]
                        /\ \A j \in DOMAIN snapshots : snapshots[j].stream = t => j <= m
      <3>1. CASE t = s
        BY <2>11, <3>1
      <3>2. CASE t # s
        <4>1. previous'[t] = previous[t]
          BY <2>1, <3>2 DEF ReadsInv, ReadsType
        <4>2. \/ previous[t] = NoObs /\ \A j \in Done : snapshots[j].stream # t
              \/ \E m \in Done :
                    /\ snapshots[m].stream = t /\ previous[t] = snapshots[m]
                    /\ \A j \in DOMAIN snapshots : snapshots[j].stream = t => j <= m
          BY <1>1, <1>r DEF RestoreInv
        <4>3. snapshots[k].stream # t
          BY <3>2
        <4>4. QED
          BY <2>8, <4>1, <4>2, <4>3
      <3>3. QED
        BY <3>1, <3>2
    <2>13. RestoreInv'
      <3>1. scan'.rows \subseteq RowsUpTo(scan.page)'
        BY <1>1, <1>r, <2>2 DEF RowsUpTo
      <3>2. QED
        BY <1>1, <1>r, <2>1, <2>2, <2>9, <2>10, <2>12, <3>1 DEF RestoreInv
    <2>14. QED
      BY <2>4, <2>5, <2>6, <2>13 DEF ReadsInv
  <1>6. QED
    BY <1>4, <1>5, <1>k DEF RestoreRow

-----------------------------------------------------------------------------
(* Persisting an observation and its event.                                *)

LEMMA KindIsKnown == ASSUME NEW prev, NEW q PROVE EventKind(prev, q) \in Kinds
  BY DEF EventKind, Kinds

\* A change within the baseline's age is an event, and a stale baseline is one too.
LEMMA ChangeIsEvent ==
    ASSUME NEW prev, NEW q, prev # NoObs, Changed(prev.quote, q),
           q.eff \in Nat, prev.quote.eff \in Nat
    PROVE  EventKind(prev, q) # "none"
  <1>1. CASE q.eff - prev.quote.eff > MaxBaselineAge
    BY <1>1 DEF EventKind
  <1>2. CASE ~(q.eff - prev.quote.eff > MaxBaselineAge)
    <2>1. q.eff - prev.quote.eff <= MaxBaselineAge
      BY <1>2, LiveReadsAssumption
    <2>2. QED
      BY <1>2, <2>1 DEF EventKind
  <1>3. QED
    BY <1>1, <1>2

\* A new observation that follows the remembered one.
LEMMA StoreStep ==
    ASSUME ReadsInv, scan.pc = "persist", NEW s \in Streams, NEW q \in Quote,
           previous[s] # NoObs => ~MovedBackward(previous[s].quote, q),
           snapshots' = Append(snapshots, Observation(s, q)),
           scan' = [scan EXCEPT !.pc = "event"],
           UNCHANGED <<now, events, previous, restored>>
    PROVE  ReadsInv'
  <1> DEFINE o == Observation(s, q)
  <1>n. PICK n : n = Len(snapshots)
    OBVIOUS
  <1>1. /\ o \in Observations /\ o.stream = s /\ o.quote = q /\ o.at = now
        /\ o.kind = EventKind(previous[s], q)
    BY KindIsKnown DEF Observation, Observations, ReadsInv, ReadsType
  <1>q. q.eff \in Nat /\ q.obs \in Nat /\ now \in Nat
    BY LiveReadsAssumption DEF ReadsInv, ReadsType
  <1> HIDE DEF o
  <1>2. /\ snapshots' \in Seq(Observations)
        /\ n \in Nat /\ Len(snapshots') = n + 1
        /\ DOMAIN snapshots = 1..n /\ DOMAIN snapshots' = 1..(n + 1)
        /\ \A k \in 1..n : snapshots'[k] = snapshots[k] /\ k \in Nat /\ k \in 1..(n + 1)
        /\ snapshots'[n + 1] = o
    BY <1>1, <1>n, Grown DEF o, ReadsInv, ReadsType
  <1>3. /\ scan' \in Scans /\ scan'.pc = "event" /\ scan'.i = scan.i /\ scan'.got = scan.got
    BY DEF ReadsInv, ReadsType, Scans, ScanPcs
  <1>4. ReadsType'
    BY <1>2, <1>3 DEF ReadsInv, ReadsType
  <1>5. restored /\ RestoreInv' /\ ScanInv'
    BY <1>2, <1>3 DEF ReadsInv, RestoreInv, ScanInv
  <1>6. Settled = n /\ Settled' = n
    BY <1>2, <1>3, <1>n DEF Settled
  <1>7. MemoryInv'
    BY <1>2, <1>5, <1>6 DEF ReadsInv, MemoryInv, Reported
  <1>8. ASSUME NEW t \in Streams
        PROVE  \/ previous[t] = NoObs /\ \A k \in 1..n : snapshots[k].stream # t
               \/ \E k \in 1..n : /\ snapshots[k].stream = t /\ previous[t] = snapshots[k]
                                  /\ \A j \in 1..n : snapshots[j].stream = t => j <= k
    BY <1>5, <1>6 DEF ReadsInv, MemoryIsLast, Remembers
  <1>9. MemoryIsLast'
    <2>1. ASSUME NEW t \in Streams
          PROVE  \/ previous'[t] = NoObs /\ \A k \in 1..n : snapshots'[k].stream # t
                 \/ \E k \in 1..n : /\ snapshots'[k].stream = t /\ previous'[t] = snapshots'[k]
                                    /\ \A j \in 1..n : snapshots'[j].stream = t => j <= k
      BY <1>2, <1>8
    <2>2. QED
      BY <1>6, <2>1 DEF MemoryIsLast, Remembers
  \* What is stored of the stream, if anything, ends with what is remembered.
  <1>10. ASSUME NEW i \in 1..n, snapshots[i].stream = s
         PROVE  \E m \in 1..n : /\ snapshots[m].stream = s /\ previous[s] = snapshots[m]
                                /\ previous[s] # NoObs /\ i <= m
                                /\ \A j \in 1..n : snapshots[j].stream = s => j <= m
    BY <1>2, <1>8, <1>10, StoredFacts DEF ReadsInv
  <1>11. OrderInv'
    <2>1. \A k \in 1..(n + 1) : snapshots'[k].at <= now
      <3>1. \A k \in 1..n : snapshots[k].at <= now
        BY <1>2 DEF ReadsInv, OrderInv
      <3>2. \A k \in 1..(n + 1) : k \in 1..n \/ k = n + 1
        BY <1>2
      <3>3. QED
        BY <1>1, <1>2, <1>q, <3>1, <3>2
    <2>2. ASSUME NEW i \in 1..n, snapshots[i].stream = s
          PROVE  ~MovedBackward(snapshots[i].quote, q) /\ snapshots[i].at <= now
      <3>1. PICK m \in 1..n : /\ snapshots[m].stream = s /\ previous[s] = snapshots[m]
                              /\ previous[s] # NoObs /\ i <= m
        BY <1>10, <2>2
      <3>2. ~MovedBackward(snapshots[m].quote, q)
        BY <3>1
      <3>3. i = m \/ ~MovedBackward(snapshots[i].quote, snapshots[m].quote)
        BY <1>2, <2>2, <3>1 DEF ReadsInv, OrderInv
      <3>4. /\ snapshots[i].quote.eff \in Nat /\ snapshots[i].quote.obs \in Nat
            /\ snapshots[m].quote.eff \in Nat /\ snapshots[m].quote.obs \in Nat
        BY <1>2, StoredFacts DEF ReadsInv
      <3>5. ~MovedBackward(snapshots[i].quote, q)
        BY <1>q, <3>2, <3>3, <3>4 DEF MovedBackward
      <3>6. QED
        BY <1>2, <3>5 DEF ReadsInv, OrderInv
    <2>3. ASSUME NEW i \in 1..(n + 1), NEW j \in 1..(n + 1), i < j,
                 snapshots'[i].stream = snapshots'[j].stream
          PROVE  /\ ~MovedBackward(snapshots'[i].quote, snapshots'[j].quote)
                 /\ snapshots'[i].at <= snapshots'[j].at
      <3>1. i \in 1..n /\ snapshots'[i] = snapshots[i]
        BY <1>2, <2>3
      <3>2. CASE j \in 1..n
        <4>1. snapshots'[j] = snapshots[j]
          BY <1>2, <3>2
        <4>2. QED
          BY <1>2, <2>3, <3>1, <3>2, <4>1 DEF ReadsInv, OrderInv
      <3>3. CASE j = n + 1
        <4>1. snapshots'[j] = o /\ snapshots[i].stream = s
          BY <1>1, <1>2, <2>3, <3>1, <3>3
        <4>2. QED
          BY <1>1, <2>2, <3>1, <4>1
      <3>4. QED
        BY <1>2, <3>2, <3>3
    <2>4. QED
      BY <1>2, <2>1, <2>3 DEF OrderInv, MovedBackward
  <1>12. ChangesReported'
    <2>0. DOMAIN snapshots' = 1..(n + 1)
      BY <1>2
    <2>1. SUFFICES ASSUME NEW i \in 1..(n + 1), NEW j \in 1..(n + 1), i < j,
                          snapshots'[i].stream = snapshots'[j].stream,
                          \A k \in (i + 1)..(j - 1) :
                             snapshots'[k].stream # snapshots'[i].stream,
                          Changed(snapshots'[i].quote, snapshots'[j].quote)
                   PROVE  snapshots'[j].kind # "none"
      BY <2>0, Zenon DEF ChangesReported, Changed
    <2>2. i \in 1..n /\ snapshots'[i] = snapshots[i]
      BY <1>2, <2>1
    <2>3. CASE j \in 1..n
      <3>1. snapshots'[j] = snapshots[j] /\ \A k \in (i + 1)..(j - 1) : snapshots'[k] = snapshots[k]
        BY <1>2, <2>2, <2>3
      <3>2. QED
        BY <1>2, <2>1, <2>2, <2>3, <3>1 DEF ReadsInv, ChangesReported
    <2>4. CASE j = n + 1
      <3>1. snapshots'[j] = o /\ snapshots[i].stream = s
        BY <1>1, <1>2, <2>1, <2>2, <2>4
      <3>2. PICK m \in 1..n : /\ snapshots[m].stream = s /\ previous[s] = snapshots[m]
                              /\ previous[s] # NoObs /\ i <= m
        BY <1>10, <2>2, <3>1
      <3>3. i = m
        <4>1. SUFFICES ASSUME i # m PROVE FALSE
          OBVIOUS
        <4>2. m \in (i + 1)..(j - 1) /\ snapshots'[m] = snapshots[m]
          BY <1>2, <2>2, <2>4, <3>2, <4>1
        <4>3. QED
          BY <2>1, <2>2, <3>1, <3>2, <4>2
      <3>4. Changed(previous[s].quote, q) /\ previous[s].quote.eff \in Nat
        BY <1>1, <1>2, <2>1, <2>2, <3>1, <3>2, <3>3, StoredFacts DEF ReadsInv
      <3>5. EventKind(previous[s], q) # "none"
        BY <1>q, <3>2, <3>4, ChangeIsEvent
      <3>6. QED
        BY <1>1, <3>1, <3>5
    <2>5. QED
      BY <1>2, <2>3, <2>4
  <1>13. QED
    BY <1>4, <1>5, <1>7, <1>9, <1>11, <1>12 DEF ReadsInv

LEMMA PersistSnapshotStep == ASSUME ReadsInv, UNCHANGED now, PersistSnapshot PROVE ReadsInv'
  <1> DEFINE s == Watch[scan.i]
             q == scan.got[scan.i]
             known == previous[s]
  <1>1. scan.pc = "persist" /\ scan.i <= Len(Watch) /\ UNCHANGED previous
    BY DEF PersistSnapshot
  <1>2. /\ scan \in Scans /\ scan.i \in Nat /\ scan.i >= 1 /\ scan.got \in Seq(Quote)
        /\ restored /\ Len(scan.got) = Len(Watch)
    BY <1>1 DEF ReadsInv, ReadsType, ScanInv, Scans
  <1>3. s \in Streams /\ q \in Quote
    <2>1. Len(Watch) \in Nat /\ Watch \in Seq(Streams)
      BY LiveReadsAssumption, LenProperties
    <2>2. scan.i \in 1..Len(Watch) /\ scan.i \in 1..Len(scan.got)
      BY <1>1, <1>2, <2>1
    <2>3. QED
      BY <1>2, <2>1, <2>2, ElementOfSeq
  <1>4. \/ AbortTick /\ UNCHANGED <<snapshots, events>>
        \/ /\ Stored(s, q) # {}
           /\ events' = EnsureEvent(events, snapshots[Max(Stored(s, q))])
           /\ scan' = [scan EXCEPT !.i = @ + 1]
           /\ UNCHANGED <<snapshots, restored>>
        \/ /\ known # NoObs => ~MovedBackward(known.quote, q)
           /\ snapshots' = Append(snapshots, Observation(s, q))
           /\ scan' = [scan EXCEPT !.pc = "event"]
           /\ UNCHANGED <<events, restored>>
    BY DEF PersistSnapshot, durableReads
  <1>5. CASE AbortTick /\ UNCHANGED <<snapshots, events>>
    BY <1>1, <1>5, AbortStep
  <1>6. CASE /\ Stored(s, q) # {}
             /\ events' = EnsureEvent(events, snapshots[Max(Stored(s, q))])
             /\ scan' = [scan EXCEPT !.i = @ + 1]
             /\ UNCHANGED <<snapshots, restored>>
    <2>1. snapshots[Max(Stored(s, q))] \in Observations
      <3>1. Len(snapshots) \in Nat /\ DOMAIN snapshots = 1..Len(snapshots)
        BY StoredFacts DEF ReadsInv
      <3>2. Stored(s, q) \in SUBSET (1..Len(snapshots))
        BY <3>1 DEF Stored
      <3>3. Max(Stored(s, q)) \in 1..Len(snapshots)
        BY <1>6, <3>1, <3>2, MaxIsMember
      <3>4. QED
        BY <3>3, ElementOfSeq DEF ReadsInv, ReadsType
    <2>2. events' \in Seq(Observations) /\ ToSet(events) \subseteq ToSet(events')
      BY <1>6, <2>1, EnsureEventWrites DEF ReadsInv, ReadsType
    <2>3. /\ scan' \in Scans /\ scan'.pc = "persist" /\ scan'.i = scan.i + 1
          /\ scan'.got = scan.got
      BY <1>1, <1>2, <1>6 DEF Scans
    <2>4. ScanInv'
      BY <1>2, <1>6, <2>3 DEF ScanInv
    <2>5. QED
      BY <1>1, <1>6, <2>2, <2>3, <2>4, MoveOn
  <1>7. CASE /\ known # NoObs => ~MovedBackward(known.quote, q)
             /\ snapshots' = Append(snapshots, Observation(s, q))
             /\ scan' = [scan EXCEPT !.pc = "event"]
             /\ UNCHANGED <<events, restored>>
    BY <1>1, <1>3, <1>7, StoreStep
  <1>8. QED
    BY <1>4, <1>5, <1>6, <1>7

LEMMA PersistEventStep == ASSUME ReadsInv, UNCHANGED now, PersistEvent PROVE ReadsInv'
  <1>n. PICK n : n = Len(snapshots)
    OBVIOUS
  <1> DEFINE obs == snapshots[n]
  <1>1. /\ scan.pc = "event" /\ UNCHANGED <<snapshots, restored>>
        /\ events' = EnsureEvent(events, obs)
        /\ previous' = [previous EXCEPT ![obs.stream] = obs]
        /\ scan' = [scan EXCEPT !.pc = "persist", !.i = @ + 1]
    BY <1>n DEF PersistEvent, Last
  <1>2. n \in Nat /\ n >= 1 /\ DOMAIN snapshots = 1..n
    BY <1>1, <1>n, StoredFacts DEF ReadsInv, ScanInv
  <1>3. obs \in Observations /\ obs.stream \in Streams
    BY <1>2, StoredFacts DEF ReadsInv
  <1>4. /\ events' \in Seq(Observations) /\ ToSet(events) \subseteq ToSet(events')
        /\ obs.kind = "none" \/ obs \in ToSet(events')
    BY <1>1, <1>3, EnsureEventWrites DEF ReadsInv, ReadsType
  <1>5. /\ scan \in Scans /\ scan.i \in Nat /\ scan.i >= 1
        /\ restored /\ Len(scan.got) = Len(Watch) /\ Len(scan.got) <= Len(Watch)
    BY <1>1 DEF ReadsInv, ReadsType, ScanInv, Scans
  <1>6. /\ scan' \in Scans /\ scan'.pc = "persist" /\ scan'.i = scan.i + 1
        /\ scan'.got = scan.got
    <2>1. PICK m \in Nat : m = scan.i + 1
      BY <1>5
    <2>2. scan' = [scan EXCEPT !.pc = "persist", !.i = m]
      BY <1>1, <2>1
    <2>3. QED
      BY <1>5, <2>1, <2>2 DEF Scans, ScanPcs
  <1>7. ReadsType'
    BY <1>1, <1>3, <1>4, <1>6 DEF ReadsInv, ReadsType
  <1>8. OrderInv' /\ ChangesReported'
    BY <1>1, RowsStand DEF ReadsInv, ReadsType
  <1>9. RestoreInv' /\ ScanInv'
    BY <1>1, <1>5, <1>6 DEF RestoreInv, ScanInv
  <1>10. Settled = n - 1 /\ Settled' = n
    BY <1>1, <1>6, <1>n DEF Settled
  <1>11. \A k \in 1..n : k \in 1..(n - 1) \/ k = n
    BY <1>2
  <1>12. MemoryInv'
    <2>1. \A k \in 1..(n - 1) : Reported(k)
      BY <1>5, <1>10 DEF ReadsInv, MemoryInv
    <2>2. \A k \in 1..n : Reported(k)'
      BY <1>1, <1>4, <1>11, <2>1 DEF Reported
    <2>3. QED
      BY <1>10, <2>2 DEF MemoryInv
  <1>13. MemoryIsLast'
    <2>1. ASSUME NEW t \in Streams
          PROVE  \/ previous'[t] = NoObs /\ \A k \in 1..n : snapshots[k].stream # t
                 \/ \E k \in 1..n : /\ snapshots[k].stream = t /\ previous'[t] = snapshots[k]
                                    /\ \A j \in 1..n : snapshots[j].stream = t => j <= k
      <3>1. CASE t = obs.stream
        <4>1. previous'[t] = snapshots[n] /\ n \in 1..n /\ \A j \in 1..n : j <= n
          BY <1>1, <1>2, <1>3, <3>1 DEF ReadsInv, ReadsType
        <4>2. QED
          BY <3>1, <4>1
      <3>2. CASE t # obs.stream
        <4>1. previous'[t] = previous[t]
          BY <1>1, <3>2 DEF ReadsInv, ReadsType
        <4>2. \/ previous[t] = NoObs /\ \A k \in 1..(n - 1) : snapshots[k].stream # t
              \/ \E k \in 1..(n - 1) :
                    /\ snapshots[k].stream = t /\ previous[t] = snapshots[k]
                    /\ \A j \in 1..(n - 1) : snapshots[j].stream = t => j <= k
          BY <1>5, <1>10 DEF ReadsInv, MemoryIsLast, Remembers
        <4>3. \A k \in 1..(n - 1) : k \in 1..n
          BY <1>2
        <4>4. QED
          BY <1>11, <3>2, <4>1, <4>2, <4>3
      <3>3. QED
        BY <3>1, <3>2
    <2>2. QED
      BY <1>1, <1>10, <2>1 DEF MemoryIsLast, Remembers
  <1>14. QED
    BY <1>7, <1>8, <1>9, <1>12, <1>13 DEF ReadsInv

-----------------------------------------------------------------------------
(* The whole.                                                              *)

Inv == ReadsInv /\ ResearchInv

LEMMA InvInit == Init => Inv
  <1> SUFFICES ASSUME Init PROVE Inv
    OBVIOUS
  <1> USE DEF Init, LiveReadsInit
  <1>1. \A T : <<>> \in Seq(T) /\ Len(<<>>) = 0 /\ DOMAIN <<>> = {}
    BY EmptySeq
  <1>2. ReadsType
    BY <1>1, IdleFacts DEF ReadsType, Forgotten
  <1>3. OrderInv /\ ChangesReported
    BY <1>1 DEF OrderInv, ChangesReported
  <1>4. MemoryInv /\ MemoryIsLast /\ RestoreInv /\ ScanInv
    BY IdleFacts DEF MemoryInv, MemoryIsLast, RestoreInv, ScanInv
  <1>5. ResearchType
    BY <1>1, NoJobIsIdle DEF ResearchType, JobPcs
  <1>6. RunsInv /\ CursorInv
    BY <1>1, NoJobIsIdle DEF RunsInv, CursorInv, Attempting
  <1>7. QED
    BY <1>2, <1>3, <1>4, <1>5, <1>6 DEF Inv, ReadsInv, ResearchInv

LEMMA ReadsStand ==
    ASSUME ReadsInv, UNCHANGED liveReadVars, now' \in Nat, now <= now'
    PROVE  ReadsInv'
  <1>1. UNCHANGED <<snapshots, events, previous, restored, scan>>
    BY DEF liveReadVars
  <1>2. OrderInv' /\ ChangesReported'
    BY <1>1, RowsStand DEF ReadsInv
  <1>3. ReadsType' /\ ScanInv'
    BY <1>1 DEF ReadsInv, ReadsType, ScanInv
  <1>4. MemoryInv' /\ MemoryIsLast'
    BY <1>1 DEF ReadsInv, MemoryInv, MemoryIsLast, Settled, Reported, Remembers
  <1>5. RestoreInv'
    BY <1>1 DEF ReadsInv, RestoreInv, Done, RowsUpTo, Reported
  <1>6. QED
    BY <1>2, <1>3, <1>4, <1>5 DEF ReadsInv

LEMMA ResearchStands == ASSUME ResearchInv, UNCHANGED researchVars PROVE ResearchInv'
  <1>1. UNCHANGED <<cursor, runs, baseline, visible, job>>
    BY DEF researchVars
  <1>2. QED
    BY <1>1 DEF ResearchInv, ResearchType, RunsInv, CursorInv, RunsOf, IsTerminal

LEMMA InvNext == Inv /\ [Next]_vars => Inv'
  <1> SUFFICES ASSUME Inv, [Next]_vars PROVE Inv'
    OBVIOUS
  <1>0. ReadsInv /\ ResearchInv /\ now \in Nat /\ now <= now
    BY DEF Inv, ReadsInv, ReadsType
  <1>1. CASE Tick
    BY <1>0, <1>1, ReadsStand, ResearchStands DEF Tick, Inv
  <1>2. CASE Fault
    <2>1. UNCHANGED now
      BY <1>2 DEF Fault
    <2>2. CASE TickInterrupted /\ UNCHANGED researchVars
      <3>1. AbortTick /\ UNCHANGED <<snapshots, events, previous>>
        BY <2>2 DEF TickInterrupted, durableReads
      <3>2. QED
        BY <1>0, <2>1, <2>2, <3>1, AbortStep, ResearchStands DEF Inv
    <2>3. CASE JobInterrupted /\ UNCHANGED liveReadVars
      <3>1. job' = NoJob /\ visible' \subseteq visible /\ UNCHANGED <<cursor, runs>>
        BY <2>3 DEF JobInterrupted, durableResearch
      <3>2. QED
        BY <1>0, <2>1, <2>3, <3>1, JobEnds, ReadsStand DEF Inv
    <2>4. CASE ProcessLost /\ job' = NoJob /\ visible' = {} /\ UNCHANGED durableResearch
      <3>1. job' = NoJob /\ visible' \subseteq visible /\ UNCHANGED <<cursor, runs>>
        BY <2>4 DEF durableResearch
      <3>2. /\ restored' = FALSE /\ scan' = Idle /\ UNCHANGED <<snapshots, events>>
            /\ previous' \in [Streams -> Observations \union {NoObs}]
        BY <2>4 DEF ProcessLost, durableReads, Forgotten
      <3>3. QED
        BY <1>0, <2>1, <3>1, <3>2, JobEnds, ForgetStep DEF Inv
    <2>5. QED
      BY <1>2, <2>2, <2>3, <2>4 DEF Fault
  <1>3. CASE Surveillance
    <2>1. TickStep /\ UNCHANGED now /\ UNCHANGED researchVars
      BY <1>3 DEF Surveillance
    <2>2. ReadsInv'
      BY <1>0, <2>1, TickBeginStep, RestorePageStep, RestoreRowStep, ReadStep,
         PersistSnapshotStep, PersistEventStep DEF TickStep
    <2>3. QED
      BY <1>0, <2>1, <2>2, ResearchStands DEF Inv
  <1>4. CASE Research
    BY <1>0, <1>4, ResearchStepKeeps, ReadsStand DEF Research, Inv
  <1>5. CASE UNCHANGED vars
    BY <1>0, <1>5, ReadsStand, ResearchStands DEF vars, Inv
  <1>6. QED
    BY <1>1, <1>2, <1>3, <1>4, <1>5 DEF Next

\* The invariant of surveillance and research.
THEOREM ResearchInvariant == Spec => []Inv
  BY InvInit, InvNext, PTL DEF Spec

\* Once memory is restored every stored observation has its event row, whatever tick was
\* cut off between the two writes (app/sentinel/live_reads.py).
THEOREM EventsAreRepaired == Spec => []NoEventLost
  <1>1. Inv => NoEventLost
    <2>1. SUFFICES ASSUME Inv, restored, NEW k \in DOMAIN snapshots,
                          ~(scan.pc = "event" /\ k = Len(snapshots))
                   PROVE  Reported(k)
      BY DEF NoEventLost, Reported
    <2>2. Len(snapshots) \in Nat /\ k \in 1..Len(snapshots)
      BY StoredFacts DEF Inv, ReadsInv
    <2>3. k \in 1..Settled
      BY <2>1, <2>2 DEF Settled
    <2>4. QED
      BY <2>1, <2>3 DEF Inv, ReadsInv, MemoryInv
  <1>2. QED
    BY <1>1, ResearchInvariant, PTL

\* A changed value is never stored without an event: the memory that a restart rebuilds,
\* newest row first, is the memory that was lost.
THEOREM ChangesAreReported == Spec => []ChangesReported
  BY ResearchInvariant, PTL DEF Inv, ReadsInv

\* The cursor passes an event only behind its one terminal record, an event is researched
\* once, and only recorded proposals are shown (app/strategy/live_research.py).
THEOREM CursorIsProven == Spec => []CursorProven
  <1>1. Inv => CursorProven
    <2> SUFFICES ASSUME Inv PROVE CursorProven
      OBVIOUS
    <2>0. ResearchType /\ RunsInv /\ CursorInv
      BY DEF Inv, ResearchInv
    <2>1. \A i, j \in DOMAIN runs :
            runs[i].status = "STARTED" /\ runs[j].status = "STARTED" /\ runs[i].ev = runs[j].ev
            => i = j
      BY <2>0 DEF RunsInv, IsTerminal, Terminal
    <2>2. ASSUME NEW e \in 1..cursor
          PROVE  \E k \in DOMAIN runs : {j \in RunsOf(e) : runs[j].status \in Terminal} = {k}
      <3>1. PICK k \in RunsOf(e) : IsTerminal(k)
        BY <2>0, <2>2 DEF CursorInv
      <3>2. k \in DOMAIN runs /\ \A j \in RunsOf(e) : IsTerminal(j) => j = k
        BY <2>0, <3>1 DEF RunsInv, RunsOf
      <3>3. {j \in RunsOf(e) : runs[j].status \in Terminal} = {k}
        BY <3>1, <3>2 DEF IsTerminal
      <3>4. QED
        BY <3>2, <3>3
    <2>3. ASSUME NEW e \in visible PROVE e <= cursor /\ Latest(e) = "PROPOSED"
      <3>1. e \in 1..cursor /\ cursor \in Nat
        BY <2>0, <2>3 DEF CursorInv, ResearchType
      <3>2. PICK k \in RunsOf(e) : runs[k].status = "PROPOSED"
        BY <2>0, <2>3 DEF CursorInv
      <3>3. Latest(e) = runs[k].status
        BY <2>0, <3>2, LatestIsLast DEF IsTerminal, Terminal
      <3>4. QED
        BY <3>1, <3>2, <3>3
    <2>4. QED
      BY <2>1, <2>2, <2>3 DEF CursorProven
  <1>2. QED
    BY <1>1, ResearchInvariant, PTL
=============================================================================
