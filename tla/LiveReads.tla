------------------------------ MODULE LiveReads ------------------------------
(***************************************************************************)
(* The current-market surveillance worker (app/sentinel/live_reads.py).     *)
(* A tick reads one quote per watched stream, validates all of them twice,  *)
(* and persists each as a snapshot that already contains its event; the     *)
(* event row is a second write.  A tick may be interrupted at every await;  *)
(* the next one rebuilds its memory from the snapshots and repairs the      *)
(* event rows that are missing.                                             *)
(*                                                                         *)
(* A quote is [eff, obs, val]: when it took effect, when the provider saw   *)
(* it, and the measured value ("unknown" when the provider gave none).      *)
(***************************************************************************)
EXTENDS Integers, Sequences, FiniteSets, SequencesExt

CONSTANTS
    Watch,          \* the streams in the order a tick reads them
    OptionStreams,  \* the streams stored in option_snapshots
    QuotesOf,       \* stream -> the quotes the provider may answer with
    MaxQuoteAge,    \* limits.maximum_quote_age_seconds
    MaxBaselineAge, \* limits.maximum_baseline_age_seconds
    MaxRecovery,    \* limits.maximum_recovery_snapshots
    MaxTime,        \* bound: the clock stops there
    MaxFaults,      \* bound: interrupted awaits and crashes
    NoObs

Streams == ToSet(Watch)

Quote == UNION {QuotesOf[s] : s \in Streams}
Kinds == {"none", "MARKET_BASELINE", "MARKET_MEASURED_CHANGE"}
Observations == [stream : Streams, quote : Quote, kind : Kinds, at : Nat]

ASSUME LiveReadsAssumption ==
    /\ Watch \in Seq(Streams) /\ IsInjective(Watch)
    /\ OptionStreams \subseteq Streams
    /\ DOMAIN QuotesOf = Streams
    /\ \A q \in Quote : q.eff \in Nat /\ q.obs \in Nat /\ q.eff <= q.obs
    /\ NoObs \notin Observations
    /\ {MaxQuoteAge, MaxBaselineAge, MaxRecovery, MaxTime, MaxFaults} \subseteq Nat

VARIABLES
    now,        \* the clock
    faults,     \* faults left
    snapshots,  \* market_snapshots and option_snapshots, in append order
    events,     \* sentinel_events of this provider, in append order
    previous,   \* _previous: the latest observation of each stream
    restored,   \* _restored
    scan        \* the running tick: [pc, cutoff, got, i, page, rows]

durableReads == <<snapshots, events>>
liveReadVars == <<snapshots, events, previous, restored, scan>>

Idle == [pc |-> "idle", cutoff |-> 0, got |-> <<>>, i |-> 1, page |-> 0, rows |-> {}]
Forgotten == [s \in Streams |-> NoObs]

-----------------------------------------------------------------------------
(* What a quote must satisfy, and what an observation means.               *)

ValidQuote(q, cutoff) ==
    /\ q.obs <= cutoff
    /\ now - q.eff <= MaxQuoteAge

Changed(old, new) ==
    "unknown" \notin {old.val, new.val} /\ old.val # new.val

MovedBackward(old, q) == q.eff < old.eff \/ q.obs < old.obs

\* Mutant: the pages are newest first, and the last row read wins.
MoreRecentLastRow(a, b) == a.quote.eff <= b.quote.eff

\* _recency as a lexicographic order on (effective_at, observed_at, created_at).
MoreRecent(a, b) ==
    \/ a.quote.eff > b.quote.eff
    \/ a.quote.eff = b.quote.eff /\ a.quote.obs > b.quote.obs
    \/ a.quote.eff = b.quote.eff /\ a.quote.obs = b.quote.obs /\ a.at > b.at

EventKind(prev, q) ==
    CASE prev = NoObs -> "MARKET_BASELINE"
      [] prev # NoObs /\ q.eff - prev.quote.eff > MaxBaselineAge -> "MARKET_BASELINE"
      [] prev # NoObs /\ q.eff - prev.quote.eff <= MaxBaselineAge
           /\ Changed(prev.quote, q) -> "MARKET_MEASURED_CHANGE"
      [] OTHER -> "none"

Observation(s, q) ==
    [stream |-> s, quote |-> q, kind |-> EventKind(previous[s], q), at |-> now]

Stored(s, q) == {k \in DOMAIN snapshots : snapshots[k].stream = s /\ snapshots[k].quote = q}

\* _ensure_event: the event has the observation's identity, so it is written once.
EnsureEvent(log, obs) ==
    IF obs.kind = "none" \/ obs \in ToSet(log) THEN log ELSE Append(log, obs)

-----------------------------------------------------------------------------
(* The tick.                                                               *)

\* Mutant: a failed tick leaves _restored set.
AbortTickKeepsMemory ==
    /\ UNCHANGED restored
    /\ scan' = Idle

AbortTick ==
    /\ restored' = FALSE
    /\ scan' = Idle

TickBegin ==
    /\ scan.pc = "idle"
    /\ IF restored
       THEN /\ scan' = [Idle EXCEPT !.pc = "read", !.cutoff = now]
            /\ UNCHANGED previous
       ELSE /\ scan' = [Idle EXCEPT !.pc = "restore"]
            /\ previous' = Forgotten
    /\ UNCHANGED <<durableReads, restored>>

\* The snapshots of the tables up to the p-th one.
RowsUpTo(p) ==
    {k \in DOMAIN snapshots : p = 2 \/ snapshots[k].stream \notin OptionStreams}

RestorePage ==
    /\ scan.pc = "restore"
    /\ scan.rows = {}
    /\ LET p == scan.page + 1 IN
       IF p > 2
       THEN /\ restored' = TRUE
            /\ scan' = [Idle EXCEPT !.pc = "read", !.cutoff = now]
       ELSE IF Cardinality(RowsUpTo(p)) > MaxRecovery
       THEN AbortTick
       ELSE /\ scan' = [scan EXCEPT !.page = p,
                            !.rows = IF p = 1 THEN RowsUpTo(1) ELSE RowsUpTo(2) \ RowsUpTo(1)]
            /\ UNCHANGED restored
    /\ UNCHANGED <<durableReads, previous>>

\* The stored row is one this worker can have written.
Authentic(obs) ==
    /\ obs.stream \in Streams
    /\ obs.quote.eff <= obs.quote.obs
    /\ obs.quote.obs <= obs.at
    /\ obs.at <= now

RestoreRow ==
    /\ scan.pc = "restore"
    /\ scan.rows # {}
    /\ LET k == Max(scan.rows)
           obs == snapshots[k]
           known == previous[obs.stream]
       IN IF Authentic(obs)
          THEN /\ previous' = IF known = NoObs \/ MoreRecent(obs, known)
                              THEN [previous EXCEPT ![obs.stream] = obs] ELSE previous
               /\ events' = EnsureEvent(events, obs)
               /\ scan' = [scan EXCEPT !.rows = @ \ {k}]
               /\ UNCHANGED restored
          ELSE AbortTick /\ UNCHANGED <<previous, events>>
    /\ UNCHANGED snapshots

ReadQuote ==
    /\ scan.pc = "read"
    /\ Len(scan.got) < Len(Watch)
    /\ \E q \in QuotesOf[Watch[Len(scan.got) + 1]] :
         IF ValidQuote(q, scan.cutoff)
         THEN scan' = [scan EXCEPT !.got = Append(@, q)] /\ UNCHANGED restored
         ELSE AbortTick
    /\ UNCHANGED <<durableReads, previous>>

\* A slow later request must not make an earlier quote look fresh.
Revalidate ==
    /\ scan.pc = "read"
    /\ Len(scan.got) = Len(Watch)
    /\ IF \A q \in ToSet(scan.got) : ValidQuote(q, scan.cutoff)
       THEN scan' = [scan EXCEPT !.pc = "persist"] /\ UNCHANGED restored
       ELSE AbortTick
    /\ UNCHANGED <<durableReads, previous>>

PersistSnapshot ==
    /\ scan.pc = "persist"
    /\ scan.i <= Len(Watch)
    /\ LET s == Watch[scan.i]
           q == scan.got[scan.i]
           known == previous[s]
       IN \/ /\ known # NoObs
             /\ \/ MovedBackward(known.quote, q)
                \/ /\ Stored(s, q) = {}
                   /\ Changed(known.quote, q) /\ q.eff = known.quote.eff
             /\ AbortTick
             /\ UNCHANGED durableReads
          \/ /\ known # NoObs => ~MovedBackward(known.quote, q)
             /\ Stored(s, q) # {}
             /\ events' = EnsureEvent(events, snapshots[Max(Stored(s, q))])
             /\ scan' = [scan EXCEPT !.i = @ + 1]
             /\ UNCHANGED <<snapshots, restored>>
          \/ /\ known # NoObs => /\ ~MovedBackward(known.quote, q)
                                /\ ~(Changed(known.quote, q) /\ q.eff = known.quote.eff)
             /\ Stored(s, q) = {}
             /\ snapshots' = Append(snapshots, Observation(s, q))
             /\ scan' = [scan EXCEPT !.pc = "event"]
             /\ UNCHANGED <<events, restored>>
    /\ UNCHANGED previous

PersistEvent ==
    /\ scan.pc = "event"
    /\ LET obs == Last(snapshots)
       IN /\ events' = EnsureEvent(events, obs)
          /\ previous' = [previous EXCEPT ![obs.stream] = obs]
    /\ scan' = [scan EXCEPT !.pc = "persist", !.i = @ + 1]
    /\ UNCHANGED <<snapshots, restored>>

TickEnd ==
    /\ scan.pc = "persist"
    /\ scan.i > Len(Watch)
    /\ scan' = Idle
    /\ UNCHANGED <<durableReads, previous, restored>>

\* A deadline, a cancellation or a failed call at an await; a write that was
\* committed although its caller saw an error is a fault at the next await.
TickInterrupted ==
    /\ scan.pc # "idle"
    /\ AbortTick
    /\ UNCHANGED <<durableReads, previous>>

TickStep ==
    \/ TickBegin \/ RestorePage \/ RestoreRow \/ ReadQuote \/ Revalidate
    \/ PersistSnapshot \/ PersistEvent \/ TickEnd

ProcessLost ==
    /\ previous' = Forgotten
    /\ restored' = FALSE
    /\ scan' = Idle
    /\ UNCHANGED durableReads

LiveReadsInit ==
    /\ snapshots = <<>>
    /\ events = <<>>
    /\ previous = Forgotten
    /\ restored = FALSE
    /\ scan = Idle
=============================================================================
