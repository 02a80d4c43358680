---------------------------- MODULE OAuthBootstrap ----------------------------
(***************************************************************************)
(* The protected OAuth records (app/security/credential_store.py and the    *)
(* storage half of app/broker/mcp_session.py) and the interactive setup     *)
(* that renews them (app/broker/oauth_bootstrap.py).  The setup runs in a   *)
(* process of its own, beside a service that reads the same records.        *)
(*                                                                         *)
(* A grant is an access token with its lifetime in whole seconds; the       *)
(* clock counts ticks, Second of them to a second, so that the roundings    *)
(* of the code are visible.  A file is replaced by a worker thread, which   *)
(* a timeout of the task that waits for it does not stop.                   *)
(***************************************************************************)
EXTENDS Integers, Sequences, FiniteSets

CONSTANTS
    Second,         \* ticks in one second
    Lifetimes,      \* expires_in values the server may grant
    Registrations,  \* client registrations the server may issue
    MaxTime,        \* bound: the clock stops there
    MaxAttempts,    \* bound: setups that are started
    None

ASSUME BootstrapAssumption ==
    /\ Second \in Nat \ {0}
    /\ Lifetimes \subseteq Nat
    /\ {MaxTime, MaxAttempts} \subseteq Nat
    /\ None \notin Registrations

VARIABLES
    now,       \* the clock
    tokens,    \* the "-tokens" record: None or [saved, left], with the history
               \* fields att and reg (its setup), dies (end of the grant), late
    client,    \* the "-client" record: None or a registration
    writer,    \* the running replace of a record: None or [key, value]
    boot,      \* the setup: [pc, orig, reg, prepared, launched, answer, recv, life, left, at]
    attempts,  \* setups started so far
    proven     \* history: the setups whose authenticated handshake completed

bootVars == <<tokens, client, writer, boot, attempts, proven>>

NoSetup == [pc |-> "idle", orig |-> None, reg |-> None, prepared |-> FALSE,
            launched |-> FALSE, answer |-> None, recv |-> 0, life |-> 0, left |-> 0, at |-> 0]

-----------------------------------------------------------------------------
(* Reading the records.                                                    *)

\* get_tokens: the lifetime that remains, rounded down, never negative.
Remaining(rec) ==
    LET ticks == rec.left * Second - (now - rec.saved)
    IN IF ticks < 0 THEN 0 ELSE ticks \div Second

\* require_service_credentials
ServiceCredentials ==
    /\ tokens # None
    /\ client # None
    /\ Remaining(tokens) > 0

\* A whole number of seconds that covers the elapsed ticks.
Ceiling(ticks) == (ticks + Second - 1) \div Second

-----------------------------------------------------------------------------
(* The setup.                                                              *)

\* Every exception becomes one controlled failure; what is staged is dropped.
SetupFails == boot' = NoSetup

AuthorizeBegin ==
    /\ boot.pc = "idle"
    /\ writer = None
    /\ attempts < MaxAttempts
    /\ attempts' = attempts + 1
    /\ boot' = [NoSetup EXCEPT !.pc = "register", !.orig = client, !.reg = client]
    /\ UNCHANGED <<tokens, client, writer, proven>>

\* The SDK keeps a registration it was given, or obtains one; the staged
\* storage refuses another one in place of a saved one.
Register ==
    /\ boot.pc = "register"
    /\ \E r \in Registrations :
         IF boot.orig \notin {None, r}
         THEN SetupFails
         ELSE boot' = [boot EXCEPT !.pc = "consent", !.reg = r]
    /\ UNCHANGED <<tokens, client, writer, attempts, proven>>

\* LoopbackCallback.prepare stores the state to compare with; the browser is
\* sent to the local /authorize page, which redirects once.
Prepare ==
    /\ boot.pc = "consent"
    /\ ~boot.prepared
    /\ boot' = [boot EXCEPT !.prepared = TRUE]
    /\ UNCHANGED <<tokens, client, writer, attempts, proven>>

Launch ==
    /\ boot.pc = "consent"
    /\ boot.prepared /\ ~boot.launched
    /\ boot' = [boot EXCEPT !.launched = TRUE]
    /\ UNCHANGED <<tokens, client, writer, attempts, proven>>

\* _route on the callback path: only a request with this setup's state is
\* heard, and only the first answer sets the result.  The state is known to
\* the browser that followed the redirect and to nobody else.
Answer ==
    /\ boot.pc = "consent"
    /\ boot.launched
    /\ boot.answer = None
    /\ \E a \in {"code", "denied"} : boot' = [boot EXCEPT !.answer = a]
    /\ UNCHANGED <<tokens, client, writer, attempts, proven>>

\* The token response is staged with the time it arrived.
Exchange ==
    /\ boot.pc = "consent"
    /\ \/ /\ boot.answer = "code"
          /\ \E life \in Lifetimes :
               boot' = [boot EXCEPT !.pc = "handshake", !.recv = now, !.life = life]
       \/ boot.answer = "denied" /\ SetupFails
    /\ UNCHANGED <<tokens, client, writer, attempts, proven>>

\* The authenticated MCP handshake; a 403 is not answered with new scopes.
Handshake ==
    /\ boot.pc = "handshake"
    /\ boot' = [boot EXCEPT !.pc = "commit"]
    /\ proven' = proven \union {attempts}
    /\ UNCHANGED <<tokens, client, writer, attempts>>

\* Mutant: the time since the tokens arrived is not charged.
CommitWholeLifetime ==
    /\ boot.pc = "commit"
    /\ IF boot.life <= 0
       THEN SetupFails
       ELSE boot' = [boot EXCEPT !.pc = IF boot.orig = None THEN "client" ELSE "tokens",
                                 !.left = boot.life, !.at = now]
    /\ UNCHANGED <<tokens, client, writer, attempts, proven>>

\* Mutant: the tokens are stored before the client.
CommitTokensFirst ==
    /\ boot.pc = "commit"
    /\ LET left == boot.life - Ceiling(now - boot.recv)
       IN IF left <= 0
          THEN SetupFails
          ELSE boot' = [boot EXCEPT !.pc = "tokens", !.left = left, !.at = now]
    /\ UNCHANGED <<tokens, client, writer, attempts, proven>>

\* _StagedStorage.commit: charge the time since the tokens arrived, refuse an
\* expired grant, then store the client if there was none, then the tokens.
Commit ==
    /\ boot.pc = "commit"
    /\ LET left == boot.life - Ceiling(now - boot.recv)
       IN IF left <= 0
          THEN SetupFails
          ELSE boot' = [boot EXCEPT !.pc = IF boot.orig = None THEN "client" ELSE "tokens",
                                    !.left = left, !.at = now]
    /\ UNCHANGED <<tokens, client, writer, attempts, proven>>

SaveClient ==
    /\ boot.pc = "client"
    /\ writer' = [key |-> "client", value |-> boot.reg]
    /\ boot' = [boot EXCEPT !.pc = "clientSaving"]
    /\ UNCHANGED <<tokens, client, attempts, proven>>

\* saved_at is read before the thread starts; late is the time since the
\* lifetime was charged, which is spent on storing the client.
SaveTokens ==
    /\ boot.pc = "tokens"
    /\ writer' = [key |-> "tokens",
                  value |-> [saved |-> now, left |-> boot.left, att |-> attempts, reg |-> boot.reg,
                             dies |-> boot.recv + boot.life * Second,
                             late |-> now - boot.at]]
    /\ boot' = [boot EXCEPT !.pc = "tokensSaving"]
    /\ UNCHANGED <<tokens, client, attempts, proven>>

\* WindowsDpapiCredentialStore.save: a complete temporary file replaces the
\* record in one step, also when nobody waits for the thread any more.
FileReplaced ==
    /\ writer # None
    /\ writer' = None
    /\ \/ /\ writer.key = "client"
          /\ client' = writer.value
          /\ boot' = IF boot.pc = "clientSaving" THEN [boot EXCEPT !.pc = "tokens"] ELSE boot
          /\ UNCHANGED tokens
       \/ /\ writer.key = "tokens"
          /\ tokens' = writer.value
          /\ boot' = IF boot.pc = "tokensSaving" THEN [boot EXCEPT !.pc = "require"] ELSE boot
          /\ UNCHANGED client
    /\ UNCHANGED <<attempts, proven>>

\* The setup reports success only after it read back usable credentials.
RequireStored ==
    /\ boot.pc = "require"
    /\ boot' = NoSetup
    /\ UNCHANGED <<tokens, client, writer, attempts, proven>>

\* The deadline, a refused request, or a failed call at any await.
SetupInterrupted ==
    /\ boot.pc # "idle"
    /\ SetupFails
    /\ UNCHANGED <<tokens, client, writer, attempts, proven>>

\* The process is gone or the save failed: the record keeps its old content.
SetupLost ==
    /\ boot.pc # "idle" \/ writer # None
    /\ SetupFails
    /\ writer' = None
    /\ UNCHANGED <<tokens, client, attempts, proven>>

SetupStep ==
    \/ AuthorizeBegin \/ Register \/ Prepare \/ Launch \/ Answer \/ Exchange \/ Handshake
    \/ Commit \/ SaveClient \/ SaveTokens \/ FileReplaced \/ RequireStored
    \/ SetupInterrupted \/ SetupLost

\* Nothing stored, a registration alone (a setup was cut off between the two
\* records), or what an earlier setup stored.
BootstrapInit ==
    /\ now = 0
    /\ client \in {None} \union Registrations
    /\ tokens \in {None} \union
         {[saved |-> 0, left |-> life, att |-> 0, reg |-> client, dies |-> life * Second, late |-> 0] :
            life \in Lifetimes}
    /\ client = None => tokens = None
    /\ writer = None
    /\ boot = NoSetup
    /\ attempts = 0
    /\ proven = {0}
=============================================================================
