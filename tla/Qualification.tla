---------------------------- MODULE Qualification -----------------------------
(***************************************************************************)
(* Broker-shadow qualification (app/qualification/service.py, evaluator.py): *)
(* finalised sessions are appended, and an evaluation over all of them and  *)
(* over an audit of the execution tables says whether the shadow period      *)
(* qualifies.  The tables are written meanwhile by submissions               *)
(* (CommandJournal), and record_session may be called concurrently.          *)
(*                                                                         *)
(* A day has three instants: before the open, the regular session, after    *)
(* the close.  A command carries the time it was built, before its rows are *)
(* written.                                                                *)
(***************************************************************************)
EXTENDS CommandJournal, Sequences, SequencesExt

CONSTANTS
    Recorders,          \* concurrent calls of record_session
    Deviating,          \* bound: the dates whose evidence may deviate
    Days, Holidays,     \* the calendar: consecutive dates from 0, and those without a session
    Required,           \* required_regular_sessions (the code insists on at least 5)
    ScanLimit,          \* limit of the scan of stored sessions
    MaxSessions,        \* bound on appended sessions
    MaxParallel,        \* bound on commands built and recorders in flight
    Accounts, Catalogs, \* account fingerprints, capability catalogue hashes
    None

ASSUME QualificationAssumption ==
    /\ Required \in Nat \ {0} /\ ScanLimit \in Nat \ {0} /\ MaxSessions \in Nat
    /\ Days = 0 .. Cardinality(Days) - 1 /\ Holidays \subseteq Days /\ Deviating \subseteq Days

VARIABLES
    now,        \* the clock
    stamp,      \* created_at of each command built so far
    sessions,   \* qualification_session_summaries
    task        \* the record_session calls in flight

vars == <<journal, now, stamp, sessions, task>>

PreMarket(d) == 3 * d + 1
Regular(d) == 3 * d + 2
PostMarket(d) == 3 * d + 3
Date(t) == (t - 1) \div 3

NoTask == [pc |-> "idle"]

-----------------------------------------------------------------------------
(* Evidence.                                                               *)

\* Complete evidence for date d that declares the commands of that date.
Complete(d, id) ==
    LET mine == {o \in commands : Date(stamp[o]) = d}
    IN [id |-> id, date |-> d, created |-> now,
        premarket |-> PreMarket(d), close |-> PostMarket(d),
        account |-> CHOOSE a \in Accounts : TRUE, catalog |-> CHOOSE h \in Catalogs : TRUE,
        authenticated |-> TRUE, reviewed |-> FALSE, covered |-> TRUE, funded |-> FALSE,
        snapshots |-> TRUE, linked |-> TRUE, counterfactuals |-> TRUE, reconciled |-> TRUE,
        exercised |-> d = 0,
        natural |-> {o \in mine : stamp[o] = Regular(d)},
        plumbing |-> {o \in mine : stamp[o] # Regular(d)}]

\* What a caller may hand in: complete evidence, or evidence with one deviation.
Evidence(d, id) ==
    LET e == Complete(d, id)
    IN {e, [e EXCEPT !.premarket = Regular(d)], [e EXCEPT !.close = Regular(d)],
        [e EXCEPT !.authenticated = FALSE], [e EXCEPT !.covered = FALSE],
        [e EXCEPT !.funded = TRUE], [e EXCEPT !.snapshots = FALSE],
        [e EXCEPT !.linked = FALSE], [e EXCEPT !.counterfactuals = FALSE],
        [e EXCEPT !.reconciled = FALSE],
        [e EXCEPT !.natural = {}], [e EXCEPT !.plumbing = {}],
        [e EXCEPT !.natural = {}, !.plumbing = @ \union e.natural]}
       \union {[e EXCEPT !.account = a] : a \in Accounts}
       \union {[e EXCEPT !.catalog = h, !.reviewed = b] :
                 h \in Catalogs \ {e.catalog}, b \in BOOLEAN}

\* _load_sessions: a repeated identity is dropped and makes the scan invalid.
Loaded(rows) == ToSet(rows)
Invalid(rows) ==
    \/ Len(rows) = ScanLimit
    \/ \E i, j \in DOMAIN rows : i # j /\ rows[i].id = rows[j].id

-----------------------------------------------------------------------------
(* The audit of the execution tables, on the rows it has read.             *)

Declared(S) == UNION {s.natural \union s.plumbing : s \in S}

\* Mutant: only commands of the regular session are searched for.
InAnySessionRegular(o, S) == \E s \in S : stamp[o] = Regular(s.date)

\* _in_any_session
InAnySession(o, S) == \E s \in S : s.premarket <= stamp[o] /\ stamp[o] <= s.created

Undeclared(S, read) == {o \in read.commands : InAnySession(o, S)} \ Declared(S)

\* The denial that the command needs.
IsDenied(o, read) == o \in read.commands /\ o \in read.denials

InRegularWindow(o, s) == Regular(s.date) <= stamp[o] /\ stamp[o] <= s.close
OnSessionDate(o, s) == Date(stamp[o]) = s.date

CommandComplete(o, s, read) ==
    /\ o \in read.commands
    /\ o \in s.natural => InRegularWindow(o, s)
    /\ o \in s.plumbing => OnSessionDate(o, s)
    /\ o \in read.intents
    /\ IsDenied(o, read)

\* _audit: issues, commands whose whole path is proven, and denied commands.
Audit(S, read) ==
    LET declaredBy(o) == {s \in S : o \in s.natural \union s.plumbing}
        complete == {o \in Declared(S) : \A s \in declaredBy(o) : CommandComplete(o, s, read)}
    IN [issues |-> \/ \E o \in Declared(S) : Cardinality(declaredBy(o)) > 1
                   \/ complete # Declared(S)
                   \/ Undeclared(S, read) # {}
                   \/ \E s \in S : ~s.linked,
        denied |-> {o \in Declared(S) : IsDenied(o, read)}]

-----------------------------------------------------------------------------
(* The evaluator.                                                          *)

\* Mutant: two sessions of one date are counted as one.
CalendarIssuesOnce(S) ==
    \E s \in S :
        s.date \in Holidays \/ s.premarket >= Regular(s.date) \/ s.close < PostMarket(s.date)

\* _calendar_issues
CalendarIssues(S) ==
    \/ \E s, t \in S : s.id # t.id /\ s.date = t.date
    \/ \E s \in S :
        s.date \in Holidays \/ s.premarket >= Regular(s.date) \/ s.close < PostMarket(s.date)

\* _coverage_failures: the three health streams span the regular session.
CoverageFailures(S) == \E s \in S : s.date \notin Holidays /\ ~s.covered

Before(s, t) == s.date < t.date \/ (s.date = t.date /\ s.id < t.id)

\* Drift between neighbours in date order that the later one does not call reviewed.
DriftUnreviewed(S) ==
    \E s, t \in S :
        /\ Before(s, t) /\ ~\E m \in S : Before(s, m) /\ Before(m, t)
        /\ s.catalog # t.catalog /\ ~t.reviewed

Verdict(fail, pending) == IF fail THEN "FAIL" ELSE IF pending THEN "PENDING" ELSE "PASS"

\* The stored records and the days they cover.
RecordGates(S, invalid) ==
    [session_record_integrity |-> Verdict(invalid, S = {}),
     full_regular_sessions |->
         Verdict(CalendarIssues(S), Cardinality({s.date : s \in S}) < Required)]

IdentityGates(S) ==
    [same_account_continuity |-> Verdict(Cardinality({s.account : s \in S}) > 1, S = {}),
     authenticated_mcp_capabilities |->
         Verdict(DriftUnreviewed(S) \/ \E s \in S : ~s.authenticated, S = {}),
     continuous_health_coverage |-> Verdict(CoverageFailures(S), S = {})]

AccountGates(S) ==
    [real_account_unfunded |-> Verdict(\E s \in S : s.funded, S = {}),
     real_shadow_account_separation |-> Verdict(\E s \in S : ~s.snapshots, S = {})]

\* audit is {} for evidence evaluated alone.
CommandGates(S, audit) ==
    LET pending == audit = {} \/ Declared(S) = {}
    IN [exact_command_audit |-> Verdict(~pending /\ \E a \in audit : a.issues, pending),
        shadow_write_firewall |->
            Verdict(~pending /\ \E a \in audit : a.denied # Declared(S), pending),
        live_policy_counterfactuals |->
            Verdict(Declared(S) # {} /\ \E s \in S : ~s.counterfactuals, Declared(S) = {})]

\* The recoveries that must have been exercised once, and the end of every day.
PeriodGates(S) ==
    [exercised_recovery |-> Verdict(FALSE, ~\E s \in S : s.exercised),
     reconciliation_and_incidents |-> Verdict(\E s \in S : ~s.reconciled, S = {})]

\* The verdicts of all gates, group by group.
Gates(S, invalid, audit) ==
    {RecordGates(S, invalid), IdentityGates(S), AccountGates(S), CommandGates(S, audit),
     PeriodGates(S)}

FatalGates == {"session_record_integrity", "full_regular_sessions",
    "authenticated_mcp_capabilities", "continuous_health_coverage", "real_account_unfunded",
    "real_shadow_account_separation", "reconciliation_and_incidents"}

Failed(gates) == UNION {{g \in DOMAIN group : group[g] = "FAIL"} : group \in gates}

\* _status, over at least one session
Status(gates) ==
    IF Failed(gates) # {} THEN "FAILED"
    ELSE IF \E group \in gates : \E g \in DOMAIN group : group[g] = "PENDING"
    THEN "IN_PROGRESS" ELSE "PASSED"

-----------------------------------------------------------------------------
(* record_session, one action per await.                                   *)

At(r, pc) == task[r].pc = pc
Move(r, t) == task' = [task EXCEPT ![r] = t]

\* Fresh evidence of a past close, or the same evidence handed in a second time.
Offered ==
    LET used == {sessions[i].id : i \in DOMAIN sessions}
                  \union {task[q].evidence.id : q \in {q \in Recorders : At(q, "append")}}
        id == CHOOSE n \in 1 .. Cardinality(used) + 1 : n \notin used
    IN UNION {IF d \in Deviating THEN Evidence(d, id) ELSE {Complete(d, id)} :
                d \in {d \in Days : PostMarket(d) <= now}}
       \union {task[q].evidence : q \in {q \in Recorders : At(q, "append")}}

\* The stored sessions do not already hold this one, and on its own it is not flawed.
Acceptable(e, rows) ==
    /\ ~Invalid(rows)
    /\ \A s \in Loaded(rows) : s.id # e.id /\ s.date # e.date
    /\ FatalGates \intersect Failed(Gates({e}, FALSE, {})) = {}

Room ==
    Cardinality({r \in Recorders : ~At(r, "idle")}) + Cardinality({o \in Orders : stamp[o] # None})
        < MaxParallel

\* The scan and the checks, which a refused call ends; the append is still to come.
Check(r) ==
    /\ At(r, "idle") /\ Room
    /\ \E e \in Offered :
         /\ Acceptable(e, sessions)
         /\ Move(r, [pc |-> "append", evidence |-> e])
    /\ UNCHANGED <<journal, now, stamp, sessions>>

AppendSession(r) ==
    /\ At(r, "append")
    /\ Len(sessions) < MaxSessions
    /\ sessions' = Append(sessions, task[r].evidence)
    /\ Move(r, [pc |-> "load"])
    /\ UNCHANGED <<journal, now, stamp>>

\* status(): the sessions, then the tables in the order of table_names.
LoadSessions(r) ==
    /\ At(r, "load")
    /\ Move(r, [pc |-> "intents", rows |-> sessions, began |-> commands])
    /\ UNCHANGED <<journal, now, stamp, sessions>>

ReadIntents(r) ==
    /\ At(r, "intents")
    /\ Move(r, [pc |-> "commands", rows |-> task[r].rows, began |-> task[r].began,
                intents |-> intents])
    /\ UNCHANGED <<journal, now, stamp, sessions>>

ReadCommands(r) ==
    /\ At(r, "commands")
    /\ Move(r, [pc |-> "denials", rows |-> task[r].rows, began |-> task[r].began,
                intents |-> task[r].intents, commands |-> commands])
    /\ UNCHANGED <<journal, now, stamp, sessions>>

\* The last table, and the evaluation of everything read.
ReadDenials(r) ==
    /\ At(r, "denials")
    /\ LET t == task[r]
           S == Loaded(t.rows)
           read == [intents |-> t.intents, commands |-> t.commands, denials |-> denials]
       IN Move(r, [pc |-> "report", rows |-> t.rows, began |-> t.began,
                   status |-> Status(Gates(S, Invalid(t.rows), {Audit(S, read)}))])
    /\ UNCHANGED <<journal, now, stamp, sessions>>

\* The row of qualification_runs, which nothing reads back, and the return.
AppendReport(r) ==
    /\ At(r, "report")
    /\ Move(r, NoTask)
    /\ UNCHANGED <<journal, now, stamp, sessions>>

\* A failed await, a cancellation or a crash.
Abandon(r) ==
    /\ ~At(r, "idle")
    /\ Move(r, NoTask)
    /\ UNCHANGED <<journal, now, stamp, sessions>>

-----------------------------------------------------------------------------
\* execute builds and stamps the command before it writes any row of it.
Build(o) ==
    /\ stamp[o] = None /\ Room
    /\ stamp' = [stamp EXCEPT ![o] = now]
    /\ UNCHANGED <<journal, now, sessions, task>>

Submit(o) ==
    /\ stamp[o] # None
    /\ Submission(o)
    /\ UNCHANGED <<now, stamp, sessions, task>>

Tick ==
    /\ now < 3 * Cardinality(Days)
    /\ now' = now + 1
    /\ UNCHANGED <<journal, stamp, sessions, task>>

Init ==
    /\ JournalInit
    /\ now = 1
    /\ stamp = [o \in Orders |-> None]
    /\ sessions = <<>>
    /\ task = [r \in Recorders |-> NoTask]

Next ==
    \/ Tick
    \/ \E o \in Orders : Build(o) \/ Submit(o)
    \/ \E r \in Recorders :
         \/ Check(r) \/ AppendSession(r) \/ LoadSessions(r) \/ ReadIntents(r)
         \/ ReadCommands(r) \/ ReadDenials(r) \/ AppendReport(r) \/ Abandon(r)

Spec == Init /\ [][Next]_vars

-----------------------------------------------------------------------------
Reports == {task[r] : r \in {r \in Recorders : At(r, "report")}}

\* A PASSED report rests on enough distinct full days of one account, and every command on
\* disk when its audit began that was built inside a window it counts is declared by
\* exactly one of its sessions, has its intent, and was denied and never refused: table
\* reads that interleave with submissions and with other recorders cannot hide one.
PassedIsProven ==
    \A report \in Reports : report.status = "PASSED" =>
        LET S == Loaded(report.rows)
        IN /\ Cardinality({s.date : s \in S} \ Holidays) >= Required
           /\ Cardinality({s.account : s \in S}) = 1
           /\ Declared(S) # {}
           /\ \A o \in report.began :
                (\E s \in S : s.premarket <= stamp[o] /\ stamp[o] <= s.created) =>
                    /\ Cardinality({s \in S : o \in s.natural \union s.plumbing}) = 1
                    /\ o \in intents \intersect denials
                    /\ o \notin refused

\* record_session checks for the date and the identity before it appends, with awaits in
\* between: two calls can finalise one session.  Every evaluation that sees both rows
\* fails, so the race is never counted as evidence.
RaceIsCaught ==
    \A report \in Reports :
        (\E i, j \in DOMAIN report.rows :
            i # j /\ (report.rows[i].date = report.rows[j].date
                      \/ report.rows[i].id = report.rows[j].id))
        => report.status = "FAILED"
=============================================================================
