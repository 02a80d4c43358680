-------------------------- MODULE QualificationProofs -------------------------
(***************************************************************************)
(* What a qualification report promises, for any calendar, limits, commands *)
(* and number of concurrent recorders: a PASSED report cannot have lost a   *)
(* command to the interleaving of its table reads with submissions, and no  *)
(* report counts a session that two recorders finalised.                    *)
(***************************************************************************)
EXTENDS Qualification, FiniteSetTheorems, SequenceTheorems, TLAPS

\* The tables only hold what a submission built and stamped, in the order it writes them.
TablesInv ==
    /\ commands \subseteq intents /\ intents \subseteq Orders
    /\ denials \intersect refused = {}
    /\ stamp = [o \in Orders |-> stamp[o]]
    /\ \A o \in intents : stamp[o] # None

Listed(rows) == \E T : rows \in Seq(T)

\* What a recorder knows of the tables at its place in the audit.  A later table was read
\* later, so it covers every command that was on disk when the audit began.
Audited(t) ==
    /\ t.pc \in {"intents", "commands", "denials", "report"} =>
          Listed(t.rows) /\ t.began \subseteq commands
    /\ t.pc \in {"commands", "denials"} => t.intents \subseteq intents
    /\ t.pc = "denials" => t.began \subseteq t.commands /\ t.commands \subseteq commands

RecordersInv ==
    /\ task = [r \in Recorders |-> task[r]]
    /\ Listed(sessions)
    /\ \A r \in Recorders : Audited(task[r])

\* What a report of these rows says, with the refusals left to the tables.
Proven(t) ==
    t.status = "PASSED" =>
        LET S == Loaded(t.rows)
        IN /\ Cardinality({s.date : s \in S} \ Holidays) >= Required
           /\ Cardinality({s.account : s \in S}) = 1
           /\ Declared(S) # {}
           /\ \A o \in t.began : InAnySession(o, S) =>
                /\ Cardinality({s \in S : o \in s.natural \union s.plumbing}) = 1
                /\ o \in intents /\ o \in denials

Caught(t) ==
    (\E i, j \in DOMAIN t.rows :
        i # j /\ (t.rows[i].date = t.rows[j].date \/ t.rows[i].id = t.rows[j].id))
    => t.status = "FAILED"

ReportsInv == \A r \in Recorders : At(r, "report") => Proven(task[r]) /\ Caught(task[r])

Inv == TablesInv /\ RecordersInv /\ ReportsInv

-----------------------------------------------------------------------------
(* The evaluator.                                                          *)

\* A status is PASSED only when no gate fails or is pending, and FAILED when one fails.
LEMMA StatusIsUnanimous ==
    ASSUME NEW gates
    PROVE  /\ Status(gates) = "PASSED" =>
                 \A group \in gates : \A g \in DOMAIN group : group[g] \notin {"FAIL", "PENDING"}
           /\ (\E group \in gates : \E g \in DOMAIN group : group[g] = "FAIL")
                 => Status(gates) = "FAILED"
  <1>1. \A group \in gates : \A g \in DOMAIN group : group[g] = "FAIL" => g \in Failed(gates)
    BY DEF Failed
  <1>2. QED
    BY <1>1 DEF Status

LEMMA VerdictPasses ==
    ASSUME NEW fail \in BOOLEAN, NEW pending \in BOOLEAN
    PROVE  /\ Verdict(fail, pending) \notin {"FAIL", "PENDING"} => ~fail /\ ~pending
           /\ fail => Verdict(fail, pending) = "FAIL"
  BY DEF Verdict

LEMMA RecordGatesPass ==
    ASSUME NEW S, NEW invalid \in BOOLEAN, NEW audit,
           Status(Gates(S, invalid, audit)) = "PASSED"
    PROVE  /\ S # {}
           /\ ~CalendarIssues(S)
           /\ ~(Cardinality({s.date : s \in S}) < Required)
  <1> DEFINE group == RecordGates(S, invalid)
  <1>1. group \in Gates(S, invalid, audit)
    BY DEF Gates
  <1>2. \A g \in DOMAIN group : group[g] \notin {"FAIL", "PENDING"}
    BY <1>1, StatusIsUnanimous
  <1> DEFINE short == Cardinality({s.date : s \in S}) < Required
  <1>3. /\ Verdict(invalid, S = {}) \notin {"FAIL", "PENDING"}
        /\ Verdict(CalendarIssues(S), short) \notin {"FAIL", "PENDING"}
    BY <1>2 DEF RecordGates
  <1>4. CalendarIssues(S) \in BOOLEAN
    BY DEF CalendarIssues
  <1>5. QED
    BY <1>3, <1>4 DEF Verdict

LEMMA IdentityGatesPass ==
    ASSUME NEW S, NEW invalid \in BOOLEAN, NEW audit,
           Status(Gates(S, invalid, audit)) = "PASSED"
    PROVE  ~(Cardinality({s.account : s \in S}) > 1)
  <1> DEFINE group == IdentityGates(S)
  <1>1. group \in Gates(S, invalid, audit)
    BY DEF Gates
  <1>2. \A g \in DOMAIN group : group[g] \notin {"FAIL", "PENDING"}
    BY <1>1, StatusIsUnanimous
  <1> DEFINE many == Cardinality({s.account : s \in S}) > 1
  <1>3. Verdict(many, S = {}) \notin {"FAIL", "PENDING"}
    BY <1>2 DEF IdentityGates
  <1>4. QED
    BY <1>3 DEF Verdict

LEMMA CommandGatesPass ==
    ASSUME NEW S, NEW invalid \in BOOLEAN, NEW a,
           Status(Gates(S, invalid, {a})) = "PASSED"
    PROVE  Declared(S) # {} /\ ~a.issues
  <1> DEFINE group == CommandGates(S, {a})
  <1>1. group \in Gates(S, invalid, {a})
    BY DEF Gates
  <1>2. \A g \in DOMAIN group : group[g] \notin {"FAIL", "PENDING"}
    BY <1>1, StatusIsUnanimous
  <1> DEFINE pending == {a} = {} \/ Declared(S) = {}
  <1>3. Verdict(~pending /\ \E b \in {a} : b.issues, pending) \notin {"FAIL", "PENDING"}
    BY <1>2 DEF CommandGates
  <1>4. QED
    BY <1>3 DEF Verdict

\* What a clean audit says of a command on the rows it was given.
LEMMA CleanAudit ==
    ASSUME NEW S, NEW read, ~Audit(S, read).issues,
           NEW o \in read.commands, InAnySession(o, S)
    PROVE  /\ \E s \in S : o \in s.natural \union s.plumbing
           /\ ~(Cardinality({s \in S : o \in s.natural \union s.plumbing}) > 1)
           /\ o \in read.intents /\ o \in read.denials
  <1> DEFINE declaredBy(p) == {s \in S : p \in s.natural \union s.plumbing}
             complete == {p \in Declared(S) : \A s \in declaredBy(p) : CommandComplete(p, s, read)}
  <1>1. /\ ~\E p \in Declared(S) : Cardinality(declaredBy(p)) > 1
        /\ complete = Declared(S)
        /\ Undeclared(S, read) = {}
    BY DEF Audit
  <1>2. o \in Declared(S)
    BY <1>1 DEF Undeclared
  <1>3. PICK s \in S : o \in s.natural \union s.plumbing
    BY <1>2 DEF Declared
  <1>4. CommandComplete(o, s, read)
    BY <1>1, <1>2, <1>3
  <1>5. ~(Cardinality(declaredBy(o)) > 1)
    BY <1>1, <1>2
  <1>6. QED
    BY <1>3, <1>4, <1>5 DEF CommandComplete, IsDenied

-----------------------------------------------------------------------------
(* The rows a report rests on are finitely many.                           *)

LEMMA FiniteImage ==
    ASSUME NEW n \in Nat, NEW f, DOMAIN f = 1 .. n
    PROVE  IsFiniteSet({f[i] : i \in 1 .. n})
  <1> DEFINE T == {f[i] : i \in 1 .. n}
             g == [i \in 1 .. n |-> f[i]]
  <1>1. g \in Surjection(1 .. n, T)
    BY DEF Surjection
  <1>2. IsFiniteSet(1 .. n)
    BY FS_Interval
  <1>3. QED
    BY <1>1, <1>2, FS_Surjection

LEMMA RowsAreFinite ==
    ASSUME NEW rows, Listed(rows)
    PROVE  /\ IsFiniteSet(Loaded(rows))
           /\ IsFiniteSet({s.date : s \in Loaded(rows)})
           /\ IsFiniteSet({s.account : s \in Loaded(rows)})
  <1>1. PICK T : rows \in Seq(T)
    BY DEF Listed
  <1>2. Len(rows) \in Nat /\ DOMAIN rows = 1 .. Len(rows)
    BY <1>1, LenProperties
  <1> DEFINE n == Len(rows)
             dates == [i \in 1 .. n |-> rows[i].date]
             accounts == [i \in 1 .. n |-> rows[i].account]
  <1>3. IsFiniteSet({rows[i] : i \in 1 .. n})
    BY <1>2, FiniteImage
  <1>4. IsFiniteSet({dates[i] : i \in 1 .. n}) /\ IsFiniteSet({accounts[i] : i \in 1 .. n})
    BY <1>2, FiniteImage
  <1>5. /\ {s.date : s \in Loaded(rows)} = {dates[i] : i \in 1 .. n}
        /\ {s.account : s \in Loaded(rows)} = {accounts[i] : i \in 1 .. n}
        /\ Loaded(rows) = {rows[i] : i \in 1 .. n}
    BY <1>2 DEF Loaded, ToSet
  <1>6. QED
    BY <1>3, <1>4, <1>5

\* A finite set with a member and no more than one is a singleton.
LEMMA ExactlyOne ==
    ASSUME NEW S, IsFiniteSet(S), S # {}, ~(Cardinality(S) > 1)
    PROVE  Cardinality(S) = 1
  BY FS_CardinalityType, FS_EmptySet

-----------------------------------------------------------------------------
(* The invariant.                                                          *)

LEMMA QualificationInit == Init => Inv
  <1> SUFFICES ASSUME Init PROVE Inv
    OBVIOUS
  <1> USE DEF Init, JournalInit, NoTask
  <1>1. TablesInv
    BY DEF TablesInv
  <1>2. Listed(sessions)
    BY EmptySeq DEF Listed
  <1>3. RecordersInv
    BY <1>2 DEF RecordersInv, Audited
  <1>4. ReportsInv
    BY DEF ReportsInv, At
  <1>5. QED
    BY <1>1, <1>3, <1>4 DEF Inv

\* The two properties follow: a denied command is not a refused one.
LEMMA ReportsAreSafe == Inv => PassedIsProven /\ RaceIsCaught
  <1> SUFFICES ASSUME Inv PROVE PassedIsProven /\ RaceIsCaught
    OBVIOUS
  <1>1. \A t \in Reports : Proven(t) /\ Caught(t)
    BY DEF Inv, ReportsInv, Reports
  <1>2. \A o : o \in denials => o \notin refused
    BY DEF Inv, TablesInv
  <1>3. PassedIsProven
    BY <1>1, <1>2 DEF PassedIsProven, Proven, InAnySession
  <1>4. QED
    BY <1>1, <1>3 DEF RaceIsCaught, Caught

\* The evaluation: what it reports is proven by the rows it read.
LEMMA EvaluationIsProven ==
    ASSUME NEW t, NEW u, Listed(t.rows), t.began \subseteq t.commands,
           t.intents \subseteq intents,
           u.rows = t.rows, u.began = t.began,
           u.status = Status(Gates(Loaded(t.rows), Invalid(t.rows),
                        {Audit(Loaded(t.rows), [intents |-> t.intents, commands |-> t.commands,
                                                denials |-> denials])}))
    PROVE  Proven(u) /\ Caught(u)
  <1> DEFINE S == Loaded(t.rows)
             read == [intents |-> t.intents, commands |-> t.commands, denials |-> denials]
             gates == Gates(S, Invalid(t.rows), {Audit(S, read)})
  <1>0. Invalid(t.rows) \in BOOLEAN
    BY DEF Invalid
  <1>f. /\ IsFiniteSet(S)
        /\ IsFiniteSet({s.date : s \in S})
        /\ IsFiniteSet({s.account : s \in S})
    BY RowsAreFinite
  <1>1. ASSUME u.status = "PASSED"
        PROVE  /\ Cardinality({s.date : s \in S} \ Holidays) >= Required
               /\ Cardinality({s.account : s \in S}) = 1
               /\ Declared(S) # {}
               /\ \A o \in t.began : InAnySession(o, S) =>
                    /\ Cardinality({s \in S : o \in s.natural \union s.plumbing}) = 1
                    /\ o \in intents /\ o \in denials
    <2>0. Status(gates) = "PASSED"
      BY <1>1
    <2> HIDE DEF S, read
    <2>1. /\ S # {} /\ ~CalendarIssues(S)
          /\ ~(Cardinality({s.date : s \in S}) < Required)
      BY <1>0, <2>0, RecordGatesPass
    <2>2. Cardinality({s.date : s \in S} \ Holidays) >= Required
      <3>1. {s.date : s \in S} \ Holidays = {s.date : s \in S}
        BY <2>1 DEF CalendarIssues
      <3>2. Cardinality({s.date : s \in S}) \in Nat
        BY <1>f, FS_CardinalityType
      <3> DEFINE n == Cardinality({s.date : s \in S})
      <3>3. n \in Nat /\ ~(n < Required) /\ Required \in Nat
        BY <2>1, <3>2, QualificationAssumption
      <3> HIDE DEF n
      <3>4. n >= Required
        BY <3>3
      <3>5. QED
        BY <3>1, <3>4 DEF n
    <2>3. Cardinality({s.account : s \in S}) = 1
      <3>1. ~(Cardinality({s.account : s \in S}) > 1)
        BY <1>0, <2>0, IdentityGatesPass
      <3>2. {s.account : s \in S} # {}
        BY <2>1
      <3>3. QED
        BY <1>f, <3>1, <3>2, ExactlyOne
    <2>4. Declared(S) # {} /\ ~Audit(S, read).issues
      BY <1>0, <2>0, CommandGatesPass
    <2>5. ASSUME NEW o \in t.began, InAnySession(o, S)
          PROVE  /\ Cardinality({s \in S : o \in s.natural \union s.plumbing}) = 1
                 /\ o \in intents /\ o \in denials
      <3> DEFINE D == {s \in S : o \in s.natural \union s.plumbing}
      <3>1. o \in read.commands
        BY DEF read
      <3>2. /\ \E s \in S : o \in s.natural \union s.plumbing
            /\ ~(Cardinality(D) > 1)
            /\ o \in read.intents /\ o \in read.denials
        BY <2>4, <2>5, <3>1, CleanAudit
      <3>3. IsFiniteSet(D)
        BY <1>f, FS_Subset
      <3>4. D # {}
        BY <3>2
      <3> HIDE DEF D
      <3>5. Cardinality(D) = 1
        BY <3>2, <3>3, <3>4, ExactlyOne
      <3>6. QED
        BY <3>2, <3>5 DEF read, D
    <2>6. QED
      BY <2>2, <2>3, <2>4, <2>5
  <1>2. ASSUME NEW i \in DOMAIN t.rows, NEW j \in DOMAIN t.rows, i # j,
               t.rows[i].date = t.rows[j].date \/ t.rows[i].id = t.rows[j].id
        PROVE  u.status = "FAILED"
    <2>1. Invalid(t.rows) \/ CalendarIssues(S)
      <3>1. t.rows[i] \in S /\ t.rows[j] \in S
        BY <1>2 DEF Loaded, ToSet
      <3>2. QED
        BY <1>2, <3>1 DEF Invalid, CalendarIssues
    <2> DEFINE group == RecordGates(S, Invalid(t.rows))
    <2>2. group \in gates
      BY DEF Gates
    <2>3. /\ "session_record_integrity" \in DOMAIN group
          /\ "full_regular_sessions" \in DOMAIN group
          /\ Invalid(t.rows) => group["session_record_integrity"] = "FAIL"
          /\ CalendarIssues(S) => group["full_regular_sessions"] = "FAIL"
      BY DEF RecordGates, Verdict
    <2>4. \E g \in DOMAIN group : group[g] = "FAIL"
      BY <2>1, <2>3
    <2>5. QED
      BY <2>2, <2>4, StatusIsUnanimous
  <1>3. QED
    BY <1>1, <1>2 DEF Proven, Caught

-----------------------------------------------------------------------------
(* Steps.                                                                  *)

\* What happens to the tables while a recorder waits: rows are added, a denied command is
\* never refused, and no command on disk is stamped again.
Grows ==
    /\ intents \subseteq intents' /\ commands \subseteq commands' /\ denials \subseteq denials'
    /\ \A o \in commands : stamp'[o] = stamp[o]

\* The tables grow and the recorders wait.
LEMMA TableStep ==
    ASSUME Inv, Grows, TablesInv', UNCHANGED <<sessions, task>>
    PROVE  Inv'
  <1> USE DEF Inv
  <1>1. RecordersInv'
    <2>1. ASSUME NEW r \in Recorders PROVE Audited(task[r])'
      <3>1. Audited(task[r])
        BY DEF RecordersInv
      <3>2. QED
        BY <3>1 DEF Grows, Audited
    <2>2. QED
      BY <2>1 DEF RecordersInv, Listed
  <1>2. ASSUME NEW r \in Recorders, At(r, "report")'
        PROVE  Proven(task[r])' /\ Caught(task[r])'
    <2>1. At(r, "report") /\ task'[r] = task[r]
      BY <1>2 DEF At
    <2>2. Proven(task[r]) /\ Caught(task[r]) /\ task[r].began \subseteq commands
      BY <2>1 DEF ReportsInv, RecordersInv, Audited, At
    <2> DEFINE t == task[r]
    <2>3. \A o \in t.began : InAnySession(o, Loaded(t.rows))' <=> InAnySession(o, Loaded(t.rows))
      BY <2>1, <2>2 DEF Grows, InAnySession
    <2>4. Proven(task[r])'
      BY <2>1, <2>2, <2>3 DEF Grows, Proven
    <2>5. Caught(task[r])'
      BY <2>1, <2>2 DEF Caught
    <2>6. QED
      BY <2>4, <2>5
  <1>3. ReportsInv'
    BY <1>2 DEF ReportsInv
  <1>4. QED
    BY <1>1, <1>3

\* One recorder moves to t and the tables stand still.
LEMMA RecorderStep ==
    ASSUME Inv, NEW r \in Recorders, NEW t,
           UNCHANGED <<journal, now, stamp>>, Listed(sessions'),
           Move(r, t), Audited(t), t.pc = "report" => Proven(t) /\ Caught(t)
    PROVE  Inv'
  <1> USE DEF Inv
  <1>1. /\ task' = [q \in Recorders |-> task'[q]]
        /\ task'[r] = t
        /\ \A q \in Recorders \ {r} : task'[q] = task[q]
    BY DEF Move, RecordersInv
  <1>2. TablesInv'
    BY DEF TablesInv, journal
  <1>3. RecordersInv'
    <2>1. ASSUME NEW q \in Recorders PROVE Audited(task[q])'
      <3>1. Audited(task'[q])
        BY <1>1 DEF RecordersInv
      <3>2. QED
        BY <3>1 DEF journal, Audited
    <2>2. QED
      BY <1>1, <2>1 DEF RecordersInv, Listed
  <1>4. ASSUME NEW q \in Recorders, At(q, "report")'
        PROVE  Proven(task[q])' /\ Caught(task[q])'
    <2>1. Proven(task'[q]) /\ Caught(task'[q])
      BY <1>1, <1>4 DEF ReportsInv, At
    <2>2. QED
      BY <2>1 DEF Proven, Caught, InAnySession, journal
  <1>5. QED
    BY <1>2, <1>3, <1>4 DEF ReportsInv

LEMMA BuildStep == ASSUME Inv, NEW o \in Orders, Build(o) PROVE Inv'
  <1>1. /\ UNCHANGED <<intents, commands, denials, refused, sessions, task>>
        /\ stamp[o] = None /\ stamp' = [stamp EXCEPT ![o] = now]
    BY DEF Build, journal
  <1>2. \A p \in intents : stamp'[p] = stamp[p]
    BY <1>1 DEF Inv, TablesInv
  <1>3. TablesInv'
    BY <1>1, <1>2 DEF Inv, TablesInv
  <1>4. Grows
    BY <1>1, <1>2 DEF Grows, Inv, TablesInv
  <1>5. QED
    BY <1>1, <1>3, <1>4, TableStep

LEMMA SubmitStep == ASSUME Inv, NEW o \in Orders, Submit(o) PROVE Inv'
  <1>1. stamp[o] # None /\ Submission(o) /\ UNCHANGED <<stamp, sessions, task>>
    BY DEF Submit
  <1>2. TablesInv'
    BY <1>1 DEF Submission, Intend, Command, Refuse, Deny, Inv, TablesInv
  <1>3. Grows
    BY <1>1 DEF Submission, Intend, Command, Refuse, Deny, Grows
  <1>4. QED
    BY <1>1, <1>2, <1>3, TableStep

LEMMA AuditSteps ==
    ASSUME Inv, NEW r \in Recorders,
           LoadSessions(r) \/ ReadIntents(r) \/ ReadCommands(r) \/ ReadDenials(r)
    PROVE  Inv'
  <1>0. Listed(sessions) /\ Audited(task[r])
    BY DEF Inv, RecordersInv
  <1>1. CASE LoadSessions(r)
    <2> DEFINE t == [pc |-> "intents", rows |-> sessions, began |-> commands]
    <2>1. Move(r, t) /\ UNCHANGED <<journal, now, stamp>> /\ sessions' = sessions
      BY <1>1 DEF LoadSessions
    <2>2. Audited(t) /\ t.pc # "report"
      BY <1>0 DEF Audited
    <2>3. QED
      BY <1>0, <2>1, <2>2, RecorderStep
  <1>2. CASE ReadIntents(r)
    <2> DEFINE t == [pc |-> "commands", rows |-> task[r].rows, began |-> task[r].began,
                     intents |-> intents]
    <2>1. /\ Move(r, t) /\ UNCHANGED <<journal, now, stamp>> /\ sessions' = sessions
          /\ task[r].pc = "intents"
      BY <1>2 DEF ReadIntents, At
    <2>2. Audited(t) /\ t.pc # "report"
      BY <1>0, <2>1 DEF Audited
    <2>3. QED
      BY <1>0, <2>1, <2>2, RecorderStep
  <1>3. CASE ReadCommands(r)
    <2> DEFINE t == [pc |-> "denials", rows |-> task[r].rows, began |-> task[r].began,
                     intents |-> task[r].intents, commands |-> commands]
    <2>1. /\ Move(r, t) /\ UNCHANGED <<journal, now, stamp>> /\ sessions' = sessions
          /\ task[r].pc = "commands"
      BY <1>3 DEF ReadCommands, At
    <2>2. Audited(t) /\ t.pc # "report"
      BY <1>0, <2>1 DEF Audited
    <2>3. QED
      BY <1>0, <2>1, <2>2, RecorderStep
  <1>4. CASE ReadDenials(r)
    <2> DEFINE t == task[r]
               S == Loaded(t.rows)
               read == [intents |-> t.intents, commands |-> t.commands, denials |-> denials]
               verdict == Status(Gates(S, Invalid(t.rows), {Audit(S, read)}))
               u == [pc |-> "report", rows |-> t.rows, began |-> t.began, status |-> verdict]
    <2>1. /\ Move(r, u) /\ UNCHANGED <<journal, now, stamp>> /\ sessions' = sessions
          /\ t.pc = "denials"
      BY <1>4 DEF ReadDenials, At
    <2>2. /\ Listed(t.rows) /\ t.began \subseteq commands /\ t.began \subseteq t.commands
          /\ t.intents \subseteq intents
      BY <1>0, <2>1 DEF Audited
    <2>3. Proven(u) /\ Caught(u)
      BY <2>2, EvaluationIsProven
    <2>4. Audited(u)
      BY <2>2 DEF Audited
    <2> HIDE DEF u
    <2>5. QED
      BY <1>0, <2>1, <2>3, <2>4, RecorderStep
  <1>5. QED
    BY <1>1, <1>2, <1>3, <1>4

LEMMA RecordSteps ==
    ASSUME Inv, NEW r \in Recorders,
           Check(r) \/ AppendSession(r) \/ AppendReport(r) \/ Abandon(r)
    PROVE  Inv'
  <1>0. Listed(sessions)
    BY DEF Inv, RecordersInv
  <1>1. CASE Check(r)
    <2>1. PICK e \in Offered : Move(r, [pc |-> "append", evidence |-> e])
      BY <1>1 DEF Check
    <2>2. UNCHANGED <<journal, now, stamp>> /\ sessions' = sessions
      BY <1>1 DEF Check
    <2> DEFINE t == [pc |-> "append", evidence |-> e]
    <2>3. Audited(t) /\ t.pc # "report"
      BY DEF Audited
    <2>4. QED
      BY <1>0, <2>1, <2>2, <2>3, RecorderStep
  <1>2. CASE AppendSession(r)
    <2> DEFINE e == task[r].evidence
               t == [pc |-> "load"]
    <2>1. Move(r, t) /\ UNCHANGED <<journal, now, stamp>> /\ sessions' = Append(sessions, e)
      BY <1>2 DEF AppendSession
    <2>2. PICK T : sessions \in Seq(T)
      BY <1>0 DEF Listed
    <2>3. sessions \in Seq(T \union {e})
      BY <2>2, SeqMonotonic
    <2>4. Append(sessions, e) \in Seq(T \union {e})
      BY <2>3, AppendProperties
    <2>5. Listed(sessions')
      BY <2>1, <2>4 DEF Listed
    <2>6. Audited(t) /\ t.pc # "report"
      BY DEF Audited
    <2>7. QED
      BY <2>1, <2>5, <2>6, RecorderStep
  <1>3. CASE AppendReport(r) \/ Abandon(r)
    <2>1. Move(r, NoTask) /\ UNCHANGED <<journal, now, stamp>> /\ sessions' = sessions
      BY <1>3 DEF AppendReport, Abandon
    <2>2. Audited(NoTask) /\ NoTask.pc # "report"
      BY DEF Audited, NoTask
    <2>3. QED
      BY <1>0, <2>1, <2>2, RecorderStep
  <1>4. QED
    BY <1>1, <1>2, <1>3

LEMMA QualificationNext == Inv /\ [Next]_vars => Inv'
  <1> SUFFICES ASSUME Inv, [Next]_vars PROVE Inv'
    OBVIOUS
  <1>1. ASSUME UNCHANGED <<journal, stamp, sessions, task>> PROVE Inv'
    <2>1. TablesInv' /\ Grows
      BY <1>1 DEF Inv, TablesInv, Grows, journal
    <2>2. QED
      BY <1>1, <2>1, TableStep
  <1>2. CASE Tick
    BY <1>1, <1>2 DEF Tick
  <1>3. CASE UNCHANGED vars
    BY <1>1, <1>3 DEF vars
  <1>4. CASE \E o \in Orders : Build(o) \/ Submit(o)
    BY <1>4, BuildStep, SubmitStep
  <1>5. CASE \E r \in Recorders :
               \/ Check(r) \/ AppendSession(r) \/ LoadSessions(r) \/ ReadIntents(r)
               \/ ReadCommands(r) \/ ReadDenials(r) \/ AppendReport(r) \/ Abandon(r)
    BY <1>5, AuditSteps, RecordSteps
  <1>6. QED
    BY <1>2, <1>3, <1>4, <1>5 DEF Next

\* The qualification invariant: what the tables hold, what each recorder knows of them at
\* its place in the audit, and what each report says.
THEOREM QualificationInvariant == Spec => []Inv
  BY QualificationInit, QualificationNext, PTL DEF Spec

\* A PASSED report has found and proven every command on disk when its audit began, in
\* spite of submissions and recorders between its reads (app/qualification/service.py).
THEOREM PassedReportsAreProven == Spec => []PassedIsProven
  BY QualificationInvariant, ReportsAreSafe, PTL

\* A session that two concurrent record_session calls finalise fails every evaluation that
\* sees both rows.
THEOREM DoubleFinalisationFails == Spec => []RaceIsCaught
  BY QualificationInvariant, ReportsAreSafe, PTL
=============================================================================
