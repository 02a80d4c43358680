--------------------------- MODULE McpSessionProofs ---------------------------
(***************************************************************************)
(* What the session promises of its requests, for any clock, lifetimes,     *)
(* tasks and number of operations: no request carries a token beyond its    *)
(* grant, credentials are replaced only by a setup that proved them, and a  *)
(* call that leaves the process rests on the last complete listing.         *)
(***************************************************************************)
EXTENDS McpSession, SequenceTheorems, TLAPS

Grants == [saved : Nat, left : Nat, att : Nat, reg : {None} \union Registrations, dies : Nat,
           late : Nat]
SetupPcs == {"idle", "register", "consent", "handshake", "commit", "client", "clientSaving",
             "tokens", "tokensSaving", "require"}
Setups == [pc : SetupPcs, orig : {None} \union Registrations, reg : {None} \union Registrations,
           prepared : BOOLEAN, launched : BOOLEAN, answer : {None, "code", "denied"},
           recv : Nat, life : Nat, left : Nat, at : Nat]
Operations == [pc : {"idle", "list", "page", "call", "send", "reply", "close", "closing"},
               name : Tools \union {None}, page : Nat, got : SUBSET Tool]

BootType ==
    /\ now \in Nat /\ attempts \in Nat
    /\ client \in {None} \union Registrations
    /\ boot \in Setups

SessionType ==
    /\ open \in BOOLEAN /\ used \in BOOLEAN
    /\ discovered \subseteq Tool /\ listing \subseteq Tool
    /\ queue \in Seq(Workers)
    /\ op \in [Workers -> Operations]

\* A record that is dated no later than now and promises no more than was granted.
Sound(g) == g \in Grants /\ g.saved <= now /\ g.saved + g.left * Second <= g.dies + g.late

GrantInv ==
    /\ tokens = None \/ Sound(tokens)
    /\ writer = None \/ writer.key = "client" \/ (writer.key = "tokens" /\ Sound(writer.value))
    /\ boot.recv <= now /\ boot.at <= now
    /\ boot.pc \in {"client", "clientSaving", "tokens"} =>
          boot.at + boot.left * Second <= boot.recv + boot.life * Second

\* Who may replace which record, and with what.
WriterInv ==
    writer # None =>
        /\ boot.pc \in {"idle", "clientSaving", "tokensSaving"}
        /\ writer.key = "client" => client = None /\ writer.value \in Registrations
        /\ writer.key = "tokens" => writer.value.att \in proven /\ writer.value.reg = client

SetupInv ==
    /\ boot.pc \in {"register", "consent", "handshake", "commit", "client", "clientSaving"} =>
          boot.orig = client
    /\ boot.pc \in {"consent", "handshake", "commit", "client", "clientSaving"} =>
          boot.reg \in Registrations /\ boot.orig \in {None, boot.reg}
    /\ boot.pc \in {"commit", "client", "clientSaving", "tokens"} => attempts \in proven
    /\ boot.pc \in {"client", "clientSaving"} => client = None
    /\ boot.pc = "clientSaving" => writer.key = "client" /\ writer.value = boot.reg
    /\ boot.pc = "tokensSaving" => writer.key = "tokens"
    /\ boot.pc = "tokens" => boot.reg = client

-----------------------------------------------------------------------------
\* The operation lock: a task stands in its queue once while it has an operation, and
\* one that is past the lock stands first.
Inside(t) == op[t].pc \in {"page", "send", "reply", "closing"}

LockInv ==
    /\ \A i, j \in 1..Len(queue) : queue[i] = queue[j] => i = j
    /\ \A t \in Workers : op[t].pc # "idle" <=> \E i \in 1..Len(queue) : queue[i] = t
    /\ \A t \in Workers : Inside(t) => queue # <<>> /\ queue[1] = t

CallInv ==
    /\ open => used
    /\ discovered \subseteq listing
    /\ \A t \in Tasks :
          /\ op[t].pc \notin {"close", "closing"}
          /\ op[t].pc \in {"call", "send"} => op[t].name \in Allowed
          /\ op[t].pc = "send" =>
                open /\ \E tool \in listing : tool.name = op[t].name /\ tool.safe
    /\ op[Owner].pc \in {"idle", "close", "closing"}

BootInv == BootType /\ GrantInv /\ WriterInv /\ SetupInv
SessionInv == SessionType /\ LockInv /\ CallInv /\ LifetimeKept

-----------------------------------------------------------------------------
(* Rounding                                                                *)

LEMMA Division ==
    ASSUME NEW x \in Int, NEW S \in Nat \ {0}
    PROVE  (x \div S) \in Int /\ S * (x \div S) <= x /\ x < S * (x \div S) + S
  OBVIOUS

\* What is charged for a span covers it.
LEMMA CeilingCovers ==
    ASSUME NEW x \in Nat
    PROVE  Ceiling(x) \in Nat /\ x <= Ceiling(x) * Second
  <1>1. Second \in Nat \ {0} /\ x + Second - 1 \in Nat
    BY BootstrapAssumption
  <1>2. x <= ((x + Second - 1) \div Second) * Second
    BY <1>1, Division
  <1>3. (x + Second - 1) \div Second \in Nat
    BY <1>1, Division
  <1>. QED  BY <1>2, <1>3 DEF Ceiling

\* Credentials that the service accepts have a whole second left.
LEMMA AcceptedIsAlive ==
    ASSUME BootInv, ServiceCredentials, tokens # None
    PROVE  now + Second <= tokens.dies + tokens.late
  <1> DEFINE ticks == tokens.left * Second - (now - tokens.saved)
  <1>1. Sound(tokens) /\ now \in Nat /\ Second \in Nat \ {0}
    BY BootstrapAssumption DEF BootInv, GrantInv, BootType
  <1>2. ticks \in Int /\ tokens.left * Second \in Nat
    BY <1>1 DEF Sound, Grants
  <1>3. ticks >= 0 /\ ticks \div Second > 0
    BY <1>2 DEF ServiceCredentials, Remaining
  <1>4. ticks >= Second
    BY <1>1, <1>2, <1>3, Division
  <1>. QED  BY <1>1, <1>2, <1>4 DEF Sound, Grants

-----------------------------------------------------------------------------
(* The setup                                                               *)

LEMMA NoSetupType == NoSetup \in Setups /\ NoSetup.pc = "idle" /\ NoSetup.recv = 0 /\ NoSetup.at = 0
  BY DEF NoSetup, Setups, SetupPcs

\* A setup that ends, whatever becomes of its writer.
LEMMA EndKeepsBootInv ==
    ASSUME BootInv, boot' = NoSetup, UNCHANGED <<now, tokens, client, attempts, proven>>,
           writer' = writer \/ writer' = None
    PROVE  BootInv'
  BY NoSetupType DEF BootInv, BootType, GrantInv, Sound, WriterInv, SetupInv

LEMMA TickKeepsBootInv == ASSUME BootInv, Tick PROVE BootInv'
  <1>1. now' = now + 1 /\ UNCHANGED bootVars /\ now \in Nat
    BY DEF Tick, BootInv, BootType
  <1>2. \A g : Sound(g) => Sound(g)'
    BY <1>1 DEF Sound, Grants
  <1>3. GrantInv'
    BY <1>1, <1>2 DEF BootInv, BootType, Setups, GrantInv, bootVars
  <1>. QED  BY <1>1, <1>3 DEF BootInv, BootType, WriterInv, SetupInv, bootVars

\* A step of the setup that only moves it along.
LEMMA MoveKeepsGrants ==
    ASSUME BootInv, UNCHANGED <<now, tokens, writer>>, boot' \in Setups,
           boot'.recv <= now, boot'.at <= now,
           boot'.pc \in {"client", "clientSaving", "tokens"} =>
              boot'.at + boot'.left * Second <= boot'.recv + boot'.life * Second
    PROVE  GrantInv'
  BY DEF BootInv, GrantInv, Sound

LEMMA AuthorizeBeginKeepsBootInv == ASSUME BootInv, AuthorizeBegin, now' = now PROVE BootInv'
  <1>1. /\ boot' \in Setups /\ boot'.pc = "register" /\ boot'.orig = client /\ boot'.reg = client
        /\ boot'.recv = 0 /\ boot'.at = 0
    BY DEF AuthorizeBegin, NoSetup, Setups, SetupPcs, BootInv, BootType
  <1>2. writer = None /\ UNCHANGED <<now, tokens, client, writer, proven>> /\ attempts' = attempts + 1
    BY DEF AuthorizeBegin
  <1>3. GrantInv'
    BY <1>1, <1>2, MoveKeepsGrants DEF BootInv, BootType
  <1>. QED  BY <1>1, <1>2, <1>3 DEF BootInv, BootType, WriterInv, SetupInv

LEMMA RegisterKeepsBootInv == ASSUME BootInv, Register, now' = now PROVE BootInv'
  <1>1. CASE SetupFails
    BY <1>1, EndKeepsBootInv DEF Register, SetupFails
  <1>2. CASE ~SetupFails
    <2>1. PICK r \in Registrations :
             boot.orig \in {None, r} /\ boot' = [boot EXCEPT !.pc = "consent", !.reg = r]
      BY <1>2 DEF Register
    <2>2. /\ boot' \in Setups /\ boot'.pc = "consent" /\ boot'.orig = boot.orig /\ boot'.reg = r
          /\ boot'.recv = boot.recv /\ boot'.at = boot.at /\ boot.pc = "register"
      BY <2>1 DEF Register, Setups, SetupPcs, BootInv, BootType
    <2>3. UNCHANGED <<now, tokens, client, writer, attempts, proven>>
      BY DEF Register
    <2>4. GrantInv'
      BY <2>2, <2>3, MoveKeepsGrants DEF BootInv, GrantInv
    <2>. QED  BY <2>1, <2>2, <2>3, <2>4 DEF BootInv, BootType, WriterInv, SetupInv
  <1>. QED  BY <1>1, <1>2

\* The browser's part changes nothing but its own marks.
LEMMA ConsentKeepsBootInv == ASSUME BootInv, Prepare \/ Launch \/ Answer, now' = now PROVE BootInv'
  <1>1. /\ boot' \in Setups /\ boot.pc = "consent" /\ boot'.pc = "consent"
        /\ boot'.orig = boot.orig /\ boot'.reg = boot.reg
        /\ boot'.recv = boot.recv /\ boot'.at = boot.at
    BY DEF Prepare, Launch, Answer, Setups, SetupPcs, BootInv, BootType
  <1>2. UNCHANGED <<now, tokens, client, writer, attempts, proven>>
    BY DEF Prepare, Launch, Answer
  <1>3. GrantInv'
    BY <1>1, <1>2, MoveKeepsGrants DEF BootInv, GrantInv
  <1>. QED  BY <1>1, <1>2, <1>3 DEF BootInv, BootType, WriterInv, SetupInv

LEMMA ExchangeKeepsBootInv == ASSUME BootInv, Exchange, now' = now PROVE BootInv'
  <1>1. CASE SetupFails
    BY <1>1, EndKeepsBootInv DEF Exchange, SetupFails
  <1>2. CASE ~SetupFails
    <2>1. PICK life \in Lifetimes :
             boot' = [boot EXCEPT !.pc = "handshake", !.recv = now, !.life = life]
      BY <1>2 DEF Exchange
    <2>2. /\ boot' \in Setups /\ boot'.pc = "handshake" /\ boot'.orig = boot.orig
          /\ boot'.reg = boot.reg
          /\ boot'.recv = now /\ boot'.at = boot.at /\ boot.pc = "consent"
      BY <2>1, BootstrapAssumption DEF Exchange, Setups, SetupPcs, BootInv, BootType
    <2>3. UNCHANGED <<now, tokens, client, writer, attempts, proven>>
      BY DEF Exchange
    <2>4. GrantInv'
      BY <2>2, <2>3, MoveKeepsGrants DEF BootInv, BootType, GrantInv
    <2>. QED  BY <2>2, <2>3, <2>4 DEF BootInv, BootType, WriterInv, SetupInv
  <1>. QED  BY <1>1, <1>2

LEMMA HandshakeKeepsBootInv == ASSUME BootInv, Handshake, now' = now PROVE BootInv'
  <1>1. /\ boot' \in Setups /\ boot'.pc = "commit" /\ boot'.orig = boot.orig
        /\ boot'.reg = boot.reg
        /\ boot'.recv = boot.recv /\ boot'.at = boot.at /\ boot.pc = "handshake"
    BY DEF Handshake, Setups, SetupPcs, BootInv, BootType
  <1>2. UNCHANGED <<now, tokens, client, writer, attempts>> /\ proven' = proven \union {attempts}
    BY DEF Handshake
  <1>3. GrantInv'
    BY <1>1, <1>2, MoveKeepsGrants DEF BootInv, GrantInv
  <1>. QED  BY <1>1, <1>2, <1>3 DEF BootInv, BootType, WriterInv, SetupInv

\* The lifetime that is left is charged in full for the time since the grant arrived.
LEMMA CommitKeepsBootInv == ASSUME BootInv, Commit, now' = now PROVE BootInv'
  <1> DEFINE left == boot.life - Ceiling(now - boot.recv)
  <1>1. CASE SetupFails
    BY <1>1, EndKeepsBootInv DEF Commit, SetupFails
  <1>2. CASE ~SetupFails
    <2>1. /\ ~(left <= 0) /\ boot.pc = "commit"
          /\ boot' = [boot EXCEPT !.pc = IF boot.orig = None THEN "client" ELSE "tokens",
                                  !.left = left, !.at = now]
      BY <1>2 DEF Commit
    <2>2. now - boot.recv \in Nat /\ boot.life \in Nat /\ now \in Nat /\ boot.recv \in Nat
      BY DEF BootInv, BootType, GrantInv, Setups
    <2>3. Ceiling(now - boot.recv) \in Nat
          /\ now - boot.recv <= Ceiling(now - boot.recv) * Second
      BY <2>2, CeilingCovers
    <2>4. left \in Nat
      BY <2>1, <2>2, <2>3
    <2>5. /\ boot' \in Setups /\ boot'.pc \in {"client", "tokens"} /\ boot'.orig = boot.orig
          /\ boot'.pc = "client" <=> boot.orig = None
          /\ boot'.reg = boot.reg /\ boot'.recv = boot.recv /\ boot'.at = now
          /\ boot'.left = left /\ boot'.life = boot.life
      BY <2>1, <2>2, <2>4 DEF Setups, SetupPcs, BootInv, BootType
    <2>6. UNCHANGED <<now, tokens, client, writer, attempts, proven>>
      BY DEF Commit
    <2>7. now + left * Second <= boot.recv + boot.life * Second
      <3>1. left * Second = boot.life * Second - Ceiling(now - boot.recv) * Second
        BY <2>2, <2>3, BootstrapAssumption
      <3>2. /\ boot.life * Second \in Nat /\ Ceiling(now - boot.recv) * Second \in Nat
        BY <2>2, <2>3, BootstrapAssumption
      <3>. QED  BY <2>2, <2>3, <3>1, <3>2
    <2>8. GrantInv'
      BY <2>2, <2>5, <2>6, <2>7, MoveKeepsGrants DEF BootInv, GrantInv
    <2>. QED  BY <2>1, <2>5, <2>6, <2>8 DEF BootInv, BootType, WriterInv, SetupInv
  <1>. QED  BY <1>1, <1>2

LEMMA SaveClientKeepsBootInv == ASSUME BootInv, SaveClient, now' = now PROVE BootInv'
  <1>1. /\ boot' \in Setups /\ boot'.pc = "clientSaving" /\ boot'.orig = boot.orig
        /\ boot'.reg = boot.reg /\ boot'.recv = boot.recv /\ boot'.at = boot.at
        /\ boot'.left = boot.left /\ boot'.life = boot.life /\ boot.pc = "client"
    BY DEF SaveClient, Setups, SetupPcs, BootInv, BootType
  <1>2. /\ UNCHANGED <<now, tokens, client, attempts, proven>>
        /\ writer'.key = "client" /\ writer'.value = boot.reg
    BY DEF SaveClient
  <1>3. GrantInv'
    BY <1>1, <1>2 DEF BootInv, GrantInv, Sound
  <1>. QED  BY <1>1, <1>2, <1>3 DEF BootInv, BootType, WriterInv, SetupInv

\* What is stored promises no more than the grant and the time spent on the client.
LEMMA SaveTokensKeepsBootInv == ASSUME BootInv, SaveTokens, now' = now PROVE BootInv'
  <1> DEFINE g == [saved |-> now, left |-> boot.left, att |-> attempts, reg |-> boot.reg,
                   dies |-> boot.recv + boot.life * Second, late |-> now - boot.at]
  <1>1. /\ boot' \in Setups /\ boot'.pc = "tokensSaving" /\ boot'.orig = boot.orig
        /\ boot'.reg = boot.reg /\ boot'.recv = boot.recv /\ boot'.at = boot.at
        /\ boot'.left = boot.left /\ boot'.life = boot.life /\ boot.pc = "tokens"
    BY DEF SaveTokens, Setups, SetupPcs, BootInv, BootType
  <1>2. /\ UNCHANGED <<now, tokens, client, attempts, proven>>
        /\ writer'.key = "tokens" /\ writer'.value = g
    BY DEF SaveTokens
  <1>3. /\ now \in Nat /\ boot.recv \in Nat /\ boot.life \in Nat /\ boot.left \in Nat
        /\ boot.at \in Nat /\ boot.at <= now /\ attempts \in Nat
        /\ boot.reg \in {None} \union Registrations
    BY DEF BootInv, BootType, GrantInv, Setups
  <1>4. boot.life * Second \in Nat /\ boot.left * Second \in Nat
    BY <1>3, BootstrapAssumption
  <1>5. g \in Grants
    BY <1>3, <1>4 DEF Grants
  <1>6. boot.at + boot.left * Second <= boot.recv + boot.life * Second
    BY <1>1 DEF BootInv, GrantInv
  <1>7. g.saved <= now /\ g.saved + g.left * Second <= g.dies + g.late
    BY <1>3, <1>4, <1>6
  <1>8. Sound(g)
    BY <1>5, <1>7 DEF Sound
  <1>9. GrantInv'
    BY <1>1, <1>2, <1>8 DEF BootInv, GrantInv, Sound
  <1>10. g.att \in proven /\ g.reg = client
    BY <1>1 DEF BootInv, SetupInv
  <1>. QED  BY <1>1, <1>2, <1>9, <1>10 DEF BootInv, BootType, WriterInv, SetupInv

LEMMA FileReplacedKeepsBootInv == ASSUME BootInv, FileReplaced, now' = now PROVE BootInv'
  <1>1. /\ writer # None /\ writer' = None /\ UNCHANGED <<now, attempts, proven>>
        /\ boot.pc \in {"idle", "clientSaving", "tokensSaving"}
    BY DEF FileReplaced, BootInv, WriterInv
  <1>2. CASE writer.key = "client" /\ client' = writer.value
    <2>1. /\ UNCHANGED tokens
          /\ boot' = IF boot.pc = "clientSaving" THEN [boot EXCEPT !.pc = "tokens"] ELSE boot
      BY <1>2 DEF FileReplaced
    <2>2. boot.pc # "tokensSaving" /\ client' \in Registrations
      BY <1>1, <1>2 DEF BootInv, SetupInv, WriterInv
    <2>3. CASE boot.pc = "idle"
      BY <1>1, <1>2, <2>1, <2>2, <2>3 DEF BootInv, BootType, GrantInv, Sound, WriterInv, SetupInv
    <2>4. CASE boot.pc = "clientSaving"
      <3>1. /\ boot' \in Setups /\ boot'.pc = "tokens" /\ boot'.reg = boot.reg
            /\ boot'.recv = boot.recv /\ boot'.at = boot.at /\ boot'.left = boot.left
            /\ boot'.life = boot.life
        BY <2>1, <2>4 DEF Setups, SetupPcs, BootInv, BootType
      <3>2. client' = boot.reg
        BY <1>2, <2>4 DEF BootInv, SetupInv
      <3>. QED  BY <1>1, <2>1, <2>2, <2>4, <3>1, <3>2
                DEF BootInv, BootType, GrantInv, Sound, WriterInv, SetupInv
    <2>. QED  BY <1>1, <2>2, <2>3, <2>4
  <1>3. CASE writer.key = "tokens" /\ tokens' = writer.value
    <2>1. /\ UNCHANGED client
          /\ boot' = IF boot.pc = "tokensSaving" THEN [boot EXCEPT !.pc = "require"] ELSE boot
      BY <1>3 DEF FileReplaced
    <2>2. boot.pc # "clientSaving" /\ Sound(tokens')
      BY <1>1, <1>3 DEF BootInv, SetupInv, GrantInv
    <2>3. CASE boot.pc = "idle"
      BY <1>1, <1>3, <2>1, <2>2, <2>3 DEF BootInv, BootType, GrantInv, Sound, WriterInv, SetupInv
    <2>4. CASE boot.pc = "tokensSaving"
      <3>1. boot' \in Setups /\ boot'.pc = "require" /\ boot'.recv = boot.recv /\ boot'.at = boot.at
        BY <2>1, <2>4 DEF Setups, SetupPcs, BootInv, BootType
      <3>. QED  BY <1>1, <2>1, <2>2, <2>4, <3>1
                DEF BootInv, BootType, GrantInv, Sound, WriterInv, SetupInv
    <2>. QED  BY <1>1, <2>2, <2>3, <2>4
  <1>. QED  BY <1>2, <1>3 DEF FileReplaced

LEMMA SetupKeepsBootInv == ASSUME BootInv, Setup PROVE BootInv'
  <1>1. now' = now
    BY DEF Setup
  <1>2. CASE RequireStored \/ SetupInterrupted \/ SetupLost
    BY <1>1, <1>2, EndKeepsBootInv DEF RequireStored, SetupInterrupted, SetupLost, SetupFails
  <1>. QED  BY <1>1, <1>2, AuthorizeBeginKeepsBootInv, RegisterKeepsBootInv, ConsentKeepsBootInv,
               ExchangeKeepsBootInv, HandshakeKeepsBootInv, CommitKeepsBootInv,
               SaveClientKeepsBootInv, SaveTokensKeepsBootInv, FileReplacedKeepsBootInv
               DEF Setup, SetupStep

-----------------------------------------------------------------------------
(* The operation lock                                                      *)

LEMMA RemoveFacts ==
    ASSUME NEW q \in Seq(Workers), NEW i \in 1..Len(q)
    PROVE  /\ RemoveAt(q, i) \in Seq(Workers)
           /\ Len(RemoveAt(q, i)) = Len(q) - 1
           /\ \A j \in 1..(Len(q) - 1) : RemoveAt(q, i)[j] = IF j < i THEN q[j] ELSE q[j + 1]
  <1> DEFINE l == SubSeq(q, 1, i - 1)
             r == SubSeq(q, i + 1, Len(q))
  <1>1. Len(q) \in Nat /\ \A j \in 1..Len(q) : q[j] \in Workers
    BY ElementOfSeq, LenProperties
  <1>2. /\ l \in Seq(Workers) /\ Len(l) = i - 1
        /\ \A j \in 1..(i - 1) : l[j] = q[j]
    <2>1. 1 \in Int /\ i - 1 \in Int /\ (\A j \in 1..(i - 1) : q[j] \in Workers)
      BY <1>1
    <2>. QED  BY <1>1, <2>1, SubSeqProperties
  <1>3. /\ r \in Seq(Workers) /\ Len(r) = Len(q) - i
        /\ \A j \in 1..(Len(q) - i) : r[j] = q[i + j]
    <2>1. i + 1 \in Int /\ Len(q) \in Int /\ (\A j \in (i + 1)..Len(q) : q[j] \in Workers)
      BY <1>1
    <2>. QED  BY <1>1, <2>1, SubSeqProperties
  <1>7. RemoveAt(q, i) = l \o r
    BY DEF RemoveAt
  <1>. HIDE DEF l, r
  <1>4. /\ l \o r \in Seq(Workers) /\ Len(l \o r) = Len(l) + Len(r)
        /\ \A j \in 1..(Len(l) + Len(r)) : (l \o r)[j] = IF j <= Len(l) THEN l[j] ELSE r[j - Len(l)]
    BY <1>2, <1>3, ConcatProperties
  <1>5. Len(l \o r) = Len(q) - 1
    BY <1>1, <1>2, <1>3, <1>4
  <1>6. ASSUME NEW j \in 1..(Len(q) - 1) PROVE (l \o r)[j] = IF j < i THEN q[j] ELSE q[j + 1]
    <2>1. CASE j < i
      BY <1>1, <1>2, <1>3, <1>4, <2>1
    <2>2. CASE ~(j < i)
      <3>1. (l \o r)[j] = r[j - (i - 1)]
        BY <1>1, <1>2, <1>3, <1>4, <2>2
      <3>2. j - (i - 1) \in 1..(Len(q) - i) /\ i + (j - (i - 1)) = j + 1
        BY <1>1, <2>2
      <3>. QED  BY <1>3, <2>2, <3>1, <3>2
    <2>. QED  BY <2>1, <2>2
  <1>. QED  BY <1>4, <1>5, <1>6, <1>7

\* A task that leaves takes only its own place.
LEMMA LeaveKeepsLock ==
    ASSUME SessionType, LockInv, NEW t \in Workers, Leave(t)
    PROVE  /\ LockInv' /\ queue' \in Seq(Workers) /\ op' \in [Workers -> Operations]
           /\ op'[t] = Free
           /\ \A u \in Workers \ {t} : op'[u] = op[u]
  <1>1. PICK i \in DOMAIN queue : queue[i] = t /\ queue' = RemoveAt(queue, i)
    BY DEF Leave
  <1>2. queue \in Seq(Workers) /\ Len(queue) \in Nat /\ i \in 1..Len(queue)
    BY LenProperties DEF SessionType
  <1>3. /\ queue' \in Seq(Workers) /\ Len(queue') = Len(queue) - 1
        /\ \A j \in 1..(Len(queue) - 1) : queue'[j] = IF j < i THEN queue[j] ELSE queue[j + 1]
    BY <1>1, <1>2, RemoveFacts
  <1>4. /\ op' \in [Workers -> Operations] /\ op'[t] = Free
        /\ \A u \in Workers \ {t} : op'[u] = op[u]
    BY DEF Leave, SessionType, Free, Operations
  <1>5. \A j, k \in 1..Len(queue) : queue[j] = queue[k] => j = k
    BY DEF LockInv
  <1>6. ASSUME NEW j \in 1..Len(queue'), NEW k \in 1..Len(queue'), queue'[j] = queue'[k]
        PROVE  j = k
    <2> DEFINE Old(m) == IF m < i THEN m ELSE m + 1
    <2>1. j \in 1..(Len(queue) - 1) /\ k \in 1..(Len(queue) - 1)
      BY <1>3
    <2>2. Old(j) \in 1..Len(queue) /\ Old(k) \in 1..Len(queue)
      BY <1>2, <2>1
    <2>3. queue'[j] = queue[Old(j)] /\ queue'[k] = queue[Old(k)]
      BY <1>3, <2>1
    <2>4. Old(j) = Old(k)
      BY <1>5, <1>6, <2>2, <2>3
    <2>. QED  BY <1>2, <2>1, <2>4
  <1>7. ASSUME NEW u \in Workers
        PROVE  (\E j \in 1..Len(queue') : queue'[j] = u)
                  <=> (u # t /\ \E j \in 1..Len(queue) : queue[j] = u)
    <2>1. ASSUME NEW j \in 1..Len(queue'), queue'[j] = u
          PROVE  u # t /\ \E k \in 1..Len(queue) : queue[k] = u
      <3> DEFINE k == IF j < i THEN j ELSE j + 1
      <3>1. k \in 1..Len(queue) /\ k # i /\ queue[k] = u
        BY <1>2, <1>3, <2>1
      <3>. QED  BY <1>1, <1>2, <1>5, <3>1
    <2>2. ASSUME NEW k \in 1..Len(queue), queue[k] = u, u # t
          PROVE  \E j \in 1..Len(queue') : queue'[j] = u
      <3> DEFINE j == IF k < i THEN k ELSE k - 1
      <3>1. k # i
        BY <1>1, <2>2
      <3>2. j \in 1..Len(queue') /\ queue'[j] = u
        BY <1>2, <1>3, <2>2, <3>1
      <3>. QED  BY <3>2
    <2>. QED  BY <2>1, <2>2
  <1>8. ASSUME NEW u \in Workers PROVE op'[u].pc # "idle" <=> \E j \in 1..Len(queue') : queue'[j] = u
    <2>1. CASE u = t
      BY <1>4, <1>7, <2>1 DEF Free
    <2>2. CASE u # t
      BY <1>4, <1>7, <2>2 DEF LockInv
    <2>. QED  BY <2>1, <2>2
  <1>9. ASSUME NEW u \in Workers, op'[u].pc \in {"page", "send", "reply", "closing"}
        PROVE  queue' # <<>> /\ queue'[1] = u
    <2>1. u # t
      BY <1>4, <1>9 DEF Free
    <2>2. queue[1] = u
      BY <1>4, <1>9, <2>1 DEF LockInv, Inside
    <2>3. i # 1 /\ Len(queue') >= 1
      BY <1>1, <1>2, <1>3, <2>1, <2>2
    <2>4. queue'[1] = u
      BY <1>2, <1>3, <2>2, <2>3
    <2>. QED  BY <2>3, <2>4, <1>3
  <1>10. LockInv'
    BY <1>6, <1>8, <1>9 DEF LockInv, Inside
  <1>. QED  BY <1>3, <1>4, <1>10

\* A task that asks for the lock is last in its queue.
LEMMA QueueKeepsLock ==
    ASSUME SessionType, LockInv, NEW t \in Workers, op[t].pc = "idle",
           queue' = Append(queue, t), op' \in [Workers -> Operations],
           op'[t].pc \in {"list", "call", "close"}, \A u \in Workers \ {t} : op'[u] = op[u]
    PROVE  LockInv' /\ queue' \in Seq(Workers)
  <1>1. queue \in Seq(Workers) /\ Len(queue) \in Nat
    BY LenProperties DEF SessionType
  <1>2. /\ queue' \in Seq(Workers) /\ Len(queue') = Len(queue) + 1
        /\ queue'[Len(queue) + 1] = t
        /\ \A j \in 1..Len(queue) : queue'[j] = queue[j]
    BY <1>1, AppendProperties
  <1>3. \A j \in 1..Len(queue) : queue[j] # t
    BY DEF LockInv
  <1>4. \A j, k \in 1..Len(queue') : queue'[j] = queue'[k] => j = k
    <2>1. \A j \in 1..Len(queue') : j \in 1..Len(queue) \/ j = Len(queue) + 1
      BY <1>1, <1>2
    <2>. QED  BY <1>2, <1>3, <2>1 DEF LockInv
  <1>5. ASSUME NEW u \in Workers PROVE op'[u].pc # "idle" <=> \E j \in 1..Len(queue') : queue'[j] = u
    <2>1. CASE u = t
      BY <1>1, <1>2, <2>1
    <2>2. CASE u # t
      <3>1. (\E j \in 1..Len(queue') : queue'[j] = u) <=> (\E j \in 1..Len(queue) : queue[j] = u)
        BY <1>1, <1>2, <2>2
      <3>. QED  BY <2>2, <3>1 DEF LockInv
    <2>. QED  BY <2>1, <2>2
  <1>6. ASSUME NEW u \in Workers, op'[u].pc \in {"page", "send", "reply", "closing"}
        PROVE  queue' # <<>> /\ queue'[1] = u
    <2>1. u # t
      BY <1>6
    <2>2. queue # <<>> /\ queue[1] = u
      BY <1>6, <2>1 DEF LockInv, Inside
    <2>3. Len(queue) >= 1
      BY <1>1, <2>2, EmptySeq
    <2>. QED  BY <1>1, <1>2, <2>2, <2>3
  <1>. QED  BY <1>2, <1>4, <1>5, <1>6 DEF LockInv, Inside

\* The holder of the lock goes on.
LEMMA HoldKeepsLock ==
    ASSUME SessionType, LockInv, NEW t \in Workers, Holder = t \/ Inside(t), op[t].pc # "idle",
           queue' = queue, op'[t].pc # "idle", \A u \in Workers \ {t} : op'[u] = op[u]
    PROVE  LockInv'
  <1>1. queue # <<>> /\ queue[1] = t
    <2>1. queue # <<>>
      <3>1. \E i \in 1..Len(queue) : queue[i] = t
        BY DEF LockInv
      <3>. QED  BY <3>1
    <2>2. CASE Holder = t
      BY <2>1, <2>2, HeadTailProperties DEF Holder, SessionType
    <2>3. CASE Inside(t)
      BY <2>3 DEF LockInv
    <2>. QED  BY <2>1, <2>2, <2>3
  <1>. QED  BY <1>1 DEF LockInv, Inside

\* One task at a time is past the lock.
LEMMA Alone ==
    ASSUME SessionType, LockInv, NEW t \in Workers, NEW u \in Workers, Inside(u),
           Inside(t) \/ Holder = t
    PROVE  t = u
  <1>1. queue # <<>> /\ queue[1] = u
    BY DEF LockInv
  <1>2. Holder = queue[1]
    BY <1>1 DEF Holder, SessionType
  <1>. QED  BY <1>1, <1>2 DEF LockInv

-----------------------------------------------------------------------------
(* The session                                                             *)

LEMMA TaskNames == \A t \in Tasks : t \in Workers /\ t # Owner
  BY SessionAssumption DEF Workers

\* A task that leaves, with the catalogue it may have changed while it held the lock.
LEMMA LeaveKeepsSessionInv ==
    ASSUME SessionInv, NEW t \in Workers, Leave(t), UNCHANGED <<open, used>>,
           \/ UNCHANGED <<discovered, listing>>
           \/ /\ Holder = t \/ Inside(t)
              /\ discovered' \subseteq listing' /\ listing' \subseteq Tool
    PROVE  SessionInv'
  <1>1. /\ LockInv' /\ queue' \in Seq(Workers) /\ op' \in [Workers -> Operations]
        /\ op'[t] = Free /\ \A u \in Workers \ {t} : op'[u] = op[u]
    BY LeaveKeepsLock DEF SessionInv
  <1>2. SessionType'
    BY <1>1 DEF SessionInv, SessionType
  <1>3. LifetimeKept'
    BY DEF Leave, SessionInv, LifetimeKept
  <1>4. CallInv'
    <2>1. (open => used)' /\ (discovered \subseteq listing)'
      BY DEF SessionInv, CallInv
    <2>2. ASSUME NEW u \in Tasks
          PROVE  /\ op'[u].pc \notin {"close", "closing"}
                 /\ op'[u].pc \in {"call", "send"} => op'[u].name \in Allowed
                 /\ op'[u].pc = "send" =>
                       open' /\ \E tool \in listing' : tool.name = op'[u].name /\ tool.safe
      <3>1. CASE u = t
        BY <1>1, <3>1 DEF Free
      <3>2. CASE u # t
        <4>1. u \in Workers /\ op'[u] = op[u]
          BY <1>1, <3>2, TaskNames
        <4>2. op[u].pc = "send" => UNCHANGED listing
          BY <3>2, <4>1, Alone DEF SessionInv, Inside
        <4>. QED  BY <4>1, <4>2 DEF SessionInv, CallInv
      <3>. QED  BY <3>1, <3>2
    <2>3. op'[Owner].pc \in {"idle", "close", "closing"}
      BY <1>1 DEF Free, SessionInv, CallInv, Workers
    <2>. QED  BY <2>1, <2>2, <2>3 DEF CallInv
  <1>. QED  BY <1>1, <1>2, <1>3, <1>4 DEF SessionInv

\* A task that goes on under the lock, or asks for it, and what its new state needs.
LEMMA MoveKeepsSessionInv ==
    ASSUME SessionInv, NEW t \in Workers, op' \in [Workers -> Operations],
           \A u \in Workers \ {t} : op'[u] = op[u],
           LockInv', queue' \in Seq(Workers), LifetimeKept', used' = used,
           open' \in BOOLEAN, open' => open,
           discovered' \subseteq listing', listing' \subseteq Tool,
           UNCHANGED <<open, listing>> \/ Holder = t,
           t \in Tasks => /\ op'[t].pc \notin {"close", "closing"}
                          /\ op'[t].pc \in {"call", "send"} => op'[t].name \in Allowed
                          /\ op'[t].pc = "send" =>
                                open' /\ \E tool \in listing' : tool.name = op'[t].name /\ tool.safe,
           t = Owner => op'[t].pc \in {"idle", "close", "closing"}
    PROVE  SessionInv'
  <1>1. SessionType'
    BY DEF SessionInv, SessionType
  <1>2. CallInv'
    <2>1. (open => used)' /\ (discovered \subseteq listing)'
      BY DEF SessionInv, CallInv
    <2>2. ASSUME NEW u \in Tasks
          PROVE  /\ op'[u].pc \notin {"close", "closing"}
                 /\ op'[u].pc \in {"call", "send"} => op'[u].name \in Allowed
                 /\ op'[u].pc = "send" =>
                       open' /\ \E tool \in listing' : tool.name = op'[u].name /\ tool.safe
      <3>1. CASE u = t
        BY <3>1
      <3>2. CASE u # t
        <4>1. u \in Workers /\ op'[u] = op[u]
          BY <3>2, TaskNames
        <4>2. op[u].pc = "send" => UNCHANGED <<open, listing>>
          BY <3>2, <4>1, Alone DEF SessionInv, Inside
        <4>. QED  BY <4>1, <4>2 DEF SessionInv, CallInv
      <3>. QED  BY <3>1, <3>2
    <2>3. op'[Owner].pc \in {"idle", "close", "closing"}
      BY DEF SessionInv, CallInv, Workers
    <2>. QED  BY <2>1, <2>2, <2>3 DEF CallInv
  <1>. QED  BY <1>1, <1>2 DEF SessionInv

\* What Go does to one operation.
LEMMA GoMoves ==
    ASSUME SessionType, NEW t \in Workers, NEW pc \in {"list", "page", "send", "reply", "close", "closing"},
           Go(t, pc)
    PROVE  /\ op' \in [Workers -> Operations] /\ op'[t].pc = pc /\ op'[t].name = op[t].name
           /\ \A u \in Workers \ {t} : op'[u] = op[u]
  BY DEF Go, SessionType, Operations

LEMMA EnterKeepsSessionInv == ASSUME SessionInv, Enter PROVE SessionInv'
  <1>1. ~used /\ used' = TRUE /\ UNCHANGED <<discovered, queue, op, ops, listing, wire>>
        /\ open' \in BOOLEAN
    BY DEF Enter
  <1>2. ~open /\ \A t \in Tasks : op[t].pc # "send"
    BY <1>1 DEF SessionInv, CallInv
  <1>. QED  BY <1>1, <1>2 DEF SessionInv, SessionType, LockInv, Inside, CallInv, LifetimeKept

LEMMA CloseBeginKeepsSessionInv == ASSUME SessionInv, CloseBegin PROVE SessionInv'
  <1>1. /\ op[Owner].pc = "idle" /\ queue' = Append(queue, Owner) /\ Go(Owner, "close")
        /\ UNCHANGED <<open, used, discovered, listing, wire>>
        /\ Owner \in Workers /\ Owner \notin Tasks
    BY SessionAssumption DEF CloseBegin, Workers
  <1>2. /\ op' \in [Workers -> Operations] /\ op'[Owner].pc = "close"
        /\ \A u \in Workers \ {Owner} : op'[u] = op[u]
    BY <1>1, GoMoves DEF SessionInv
  <1>3. LockInv' /\ queue' \in Seq(Workers)
    BY <1>1, <1>2, QueueKeepsLock DEF SessionInv
  <1>4. LifetimeKept' /\ open \in BOOLEAN /\ discovered \subseteq listing /\ listing \subseteq Tool
    BY <1>1 DEF SessionInv, LifetimeKept, SessionType, CallInv
  <1>. QED  BY <1>1, <1>2, <1>3, <1>4, MoveKeepsSessionInv

LEMMA CloseKeepsSessionInv == ASSUME SessionInv, Close PROVE SessionInv'
  <1>1. /\ op[Owner].pc = "close" /\ Holder = Owner /\ open' = FALSE /\ discovered' = {}
        /\ Go(Owner, "closing") /\ UNCHANGED <<used, queue, listing, wire>>
        /\ Owner \in Workers /\ Owner \notin Tasks
    BY SessionAssumption DEF Close, Workers
  <1>2. /\ op' \in [Workers -> Operations] /\ op'[Owner].pc = "closing"
        /\ \A u \in Workers \ {Owner} : op'[u] = op[u]
    BY <1>1, GoMoves DEF SessionInv
  <1>3. LockInv' /\ queue' \in Seq(Workers)
    BY <1>1, <1>2, HoldKeepsLock DEF SessionInv, SessionType
  <1>4. LifetimeKept' /\ listing' \subseteq Tool
    BY <1>1 DEF SessionInv, LifetimeKept, SessionType
  <1>. QED  BY <1>1, <1>2, <1>3, <1>4, MoveKeepsSessionInv

LEMMA RenewKeepsSessionInv == ASSUME SessionInv, Renew PROVE SessionInv'
  BY DEF Renew, SessionInv, SessionType, LockInv, Inside, CallInv, LifetimeKept

LEMMA BeginKeepsSessionInv ==
    ASSUME SessionInv, NEW t \in Tasks, ListBegin(t) \/ CallBegin(t)
    PROVE  SessionInv'
  <1>1. /\ t \in Workers /\ t # Owner /\ op[t].pc = "idle" /\ queue' = Append(queue, t)
        /\ UNCHANGED <<open, used, discovered, listing, wire>>
    BY TaskNames DEF ListBegin, CallBegin
  <1>2. /\ op' \in [Workers -> Operations] /\ op'[t].pc \in {"list", "call"}
        /\ op'[t].pc = "call" => op'[t].name \in Allowed
        /\ \A u \in Workers \ {t} : op'[u] = op[u]
    <2>1. CASE ListBegin(t)
      BY <1>1, <2>1, GoMoves DEF ListBegin, SessionInv
    <2>2. CASE CallBegin(t)
      <3>1. PICK name \in Allowed : op' = [op EXCEPT ![t].pc = "call", ![t].name = name]
        BY <2>2 DEF CallBegin
      <3> DEFINE new == [op[t] EXCEPT !.pc = "call", !.name = name]
      <3>2. op \in [Workers -> Operations] /\ op[t] \in Operations /\ name \in Tools
        BY <1>1, SessionAssumption DEF SessionInv, SessionType
      <3>3. new \in Operations /\ new.pc = "call" /\ new.name = name
        BY <3>2 DEF Operations
      <3>4. op' = [op EXCEPT ![t] = new]
        BY <1>1, <3>1, <3>2
      <3>. QED  BY <1>1, <3>2, <3>3, <3>4
    <2>. QED  BY <2>1, <2>2
  <1>3. LockInv' /\ queue' \in Seq(Workers)
    BY <1>1, <1>2, QueueKeepsLock DEF SessionInv
  <1>4. LifetimeKept' /\ open \in BOOLEAN /\ discovered \subseteq listing /\ listing \subseteq Tool
    BY <1>1 DEF SessionInv, LifetimeKept, SessionType, CallInv
  <1>. QED  BY <1>1, <1>2, <1>3, <1>4, MoveKeepsSessionInv

LEMMA ListClearKeepsSessionInv ==
    ASSUME SessionInv, NEW t \in Tasks, ListClear(t)
    PROVE  SessionInv'
  <1>1. /\ t \in Workers /\ t # Owner /\ op[t].pc = "list" /\ Holder = t /\ UNCHANGED <<open, used>>
    BY TaskNames DEF ListClear
  <1>2. CASE Leave(t)
    <2>1. \/ UNCHANGED <<discovered, listing>>
          \/ discovered' = {} /\ listing' = {}
      BY DEF ListClear
    <2>. QED  BY <1>1, <1>2, <2>1, LeaveKeepsSessionInv
  <1>3. CASE ~Leave(t)
    <2>1. Go(t, "page") /\ UNCHANGED <<queue, wire>> /\ discovered' = {} /\ listing' = {}
      BY <1>3 DEF ListClear
    <2>2. /\ op' \in [Workers -> Operations] /\ op'[t].pc = "page"
          /\ \A u \in Workers \ {t} : op'[u] = op[u]
      BY <1>1, <2>1, GoMoves DEF SessionInv
    <2>3. LockInv' /\ queue' \in Seq(Workers)
      BY <1>1, <2>1, <2>2, HoldKeepsLock DEF SessionInv, SessionType
    <2>4. LifetimeKept' /\ open \in BOOLEAN
      BY <2>1 DEF SessionInv, LifetimeKept, SessionType
    <2>. QED  BY <1>1, <2>1, <2>2, <2>3, <2>4, MoveKeepsSessionInv
  <1>. QED  BY <1>2, <1>3

LEMMA ListPageKeepsSessionInv ==
    ASSUME SessionInv, NEW t \in Tasks, ListPage(t)
    PROVE  SessionInv'
  <1>1. /\ t \in Workers /\ t # Owner /\ op[t].pc = "page" /\ Inside(t) /\ UNCHANGED <<open, used>>
    BY TaskNames DEF ListPage, Inside
  <1>2. PICK page \in {{}} \union {{x} : x \in Tool} : \E more \in BOOLEAN :
           LET got == op[t].got \union page
           IN \/ Leave(t) /\ UNCHANGED <<discovered, listing>>
              \/ /\ op' = [op EXCEPT ![t].page = @ + 1, ![t].got = got]
                 /\ UNCHANGED <<queue, discovered, listing, wire>>
              \/ discovered' = got /\ listing' = got /\ Leave(t)
    BY DEF ListPage
  <1>3. op[t].got \union page \subseteq Tool
    BY <1>1 DEF SessionInv, SessionType, Operations
  <1>4. CASE Leave(t) /\ UNCHANGED <<discovered, listing>>
    BY <1>1, <1>4, LeaveKeepsSessionInv
  <1>5. CASE /\ discovered' = op[t].got \union page /\ listing' = op[t].got \union page /\ Leave(t)
    BY <1>1, <1>3, <1>5, LeaveKeepsSessionInv
  <1>6. CASE /\ op' = [op EXCEPT ![t].page = @ + 1, ![t].got = op[t].got \union page]
             /\ UNCHANGED <<queue, discovered, listing, wire>>
    <2>1. /\ op' \in [Workers -> Operations] /\ op'[t].pc = "page"
          /\ \A u \in Workers \ {t} : op'[u] = op[u]
      <3> DEFINE new == [op[t] EXCEPT !.page = @ + 1, !.got = op[t].got \union page]
      <3>1. op \in [Workers -> Operations] /\ op[t] \in Operations
        BY <1>1 DEF SessionInv, SessionType
      <3>4. op[t].page + 1 \in Nat
        BY <3>1 DEF Operations
      <3> DEFINE got == op[t].got \union page
      <3>5. got \in SUBSET Tool
        BY <1>3
      <3>. HIDE DEF got
      <3>6. [op[t] EXCEPT !.page = @ + 1, !.got = got] \in Operations
        BY <3>1, <3>4, <3>5 DEF Operations
      <3>2. new \in Operations /\ new.pc = "page"
        BY <1>1, <3>1, <3>6 DEF Operations, got
      <3>3. op' = [op EXCEPT ![t] = new]
        BY <1>1, <1>6, <3>1
      <3>. QED  BY <1>1, <3>1, <3>2, <3>3
    <2>2. LockInv' /\ queue' \in Seq(Workers)
      BY <1>1, <1>6, <2>1, HoldKeepsLock DEF SessionInv, SessionType
    <2>3. LifetimeKept' /\ open \in BOOLEAN /\ discovered \subseteq listing /\ listing \subseteq Tool
      BY <1>6 DEF SessionInv, LifetimeKept, SessionType, CallInv
    <2>. QED  BY <1>1, <1>6, <2>1, <2>2, <2>3, MoveKeepsSessionInv
  <1>. QED  BY <1>2, <1>4, <1>5, <1>6

\* The catalogue that permits the call is the one of the last listing.
LEMMA CallCheckKeepsSessionInv ==
    ASSUME SessionInv, NEW t \in Tasks, CallCheck(t)
    PROVE  SessionInv'
  <1>1. /\ t \in Workers /\ t # Owner /\ op[t].pc = "call" /\ Holder = t
        /\ UNCHANGED <<open, used, discovered, listing>>
    BY TaskNames DEF CallCheck
  <1>2. CASE Leave(t)
    BY <1>1, <1>2, LeaveKeepsSessionInv
  <1>3. CASE ~Leave(t)
    <2>1. Go(t, "send") /\ UNCHANGED <<queue, wire>> /\ CallPermitted(t)
      BY <1>3 DEF CallCheck
    <2>2. /\ op' \in [Workers -> Operations] /\ op'[t].pc = "send" /\ op'[t].name = op[t].name
          /\ \A u \in Workers \ {t} : op'[u] = op[u]
      BY <1>1, <2>1, GoMoves DEF SessionInv
    <2>3. LockInv' /\ queue' \in Seq(Workers)
      BY <1>1, <2>1, <2>2, HoldKeepsLock DEF SessionInv, SessionType
    <2>4. LifetimeKept' /\ open \in BOOLEAN /\ discovered \subseteq listing /\ listing \subseteq Tool
      BY <2>1 DEF SessionInv, LifetimeKept, SessionType, CallInv
    <2>5. op[t].name \in Allowed /\ open /\ \E tool \in listing : tool.name = op[t].name /\ tool.safe
      BY <1>1, <2>1, <2>4 DEF CallPermitted, SessionInv, CallInv
    <2>. QED  BY <1>1, <2>1, <2>2, <2>3, <2>4, <2>5, MoveKeepsSessionInv
  <1>. QED  BY <1>2, <1>3

\* The request leaves with a token that is good for another second.
LEMMA TransmitKeepsSessionInv ==
    ASSUME BootInv, SessionInv, NEW t \in Tasks, Transmit(t)
    PROVE  SessionInv'
  <1>1. /\ t \in Workers /\ t # Owner /\ op[t].pc = "send" /\ Inside(t)
        /\ UNCHANGED <<open, used, discovered, listing>>
    BY TaskNames DEF Transmit, Inside
  <1>2. CASE Leave(t)
    BY <1>1, <1>2, LeaveKeepsSessionInv
  <1>3. CASE ~Leave(t)
    <2>1. /\ ServiceCredentials /\ wire' = [name |-> op[t].name, at |-> now, token |-> tokens]
          /\ Go(t, "reply") /\ UNCHANGED queue
      BY <1>3 DEF Transmit
    <2>2. /\ op' \in [Workers -> Operations] /\ op'[t].pc = "reply"
          /\ \A u \in Workers \ {t} : op'[u] = op[u]
      BY <1>1, <2>1, GoMoves DEF SessionInv
    <2>3. LockInv' /\ queue' \in Seq(Workers)
      BY <1>1, <2>1, <2>2, HoldKeepsLock DEF SessionInv, SessionType
    <2>4. LifetimeKept'
      BY <2>1, AcceptedIsAlive DEF LifetimeKept, ServiceCredentials
    <2>5. open \in BOOLEAN /\ discovered \subseteq listing /\ listing \subseteq Tool
      BY DEF SessionInv, SessionType, CallInv
    <2>. QED  BY <1>1, <2>1, <2>2, <2>3, <2>4, <2>5, MoveKeepsSessionInv
  <1>. QED  BY <1>2, <1>3

LEMMA SessionKeepsSessionInv == ASSUME BootInv, SessionInv, Session PROVE SessionInv'
  <1>1. CASE Closed
    <2>1. Owner \in Workers
      BY DEF Workers
    <2>. QED  BY <1>1, <2>1, LeaveKeepsSessionInv DEF Closed
  <1>2. CASE \E t \in Tasks : Reply(t) \/ Timeout(t) \/ Cancelled(t)
    BY <1>2, TaskNames, LeaveKeepsSessionInv DEF Reply, Timeout, Cancelled
  <1>. QED  BY <1>1, <1>2, EnterKeepsSessionInv, CloseBeginKeepsSessionInv, CloseKeepsSessionInv,
               RenewKeepsSessionInv, BeginKeepsSessionInv, ListClearKeepsSessionInv,
               ListPageKeepsSessionInv, CallCheckKeepsSessionInv, TransmitKeepsSessionInv
               DEF Session, TaskStep

LEMMA AsideKeepsSessionInv == ASSUME SessionInv, UNCHANGED sessionVars PROVE SessionInv'
  BY DEF sessionVars, SessionInv, SessionType, LockInv, Inside, CallInv, LifetimeKept

LEMMA AsideKeepsBootInv == ASSUME BootInv, UNCHANGED <<now, bootVars>> PROVE BootInv'
  BY DEF bootVars, BootInv, BootType, GrantInv, Sound, WriterInv, SetupInv

-----------------------------------------------------------------------------
(* The theorems                                                            *)

LEMMA InitEstablishesInv == Init => BootInv /\ SessionInv
  <1> SUFFICES ASSUME Init PROVE BootInv /\ SessionInv
    OBVIOUS
  <1>1. BootType /\ WriterInv /\ SetupInv
    BY NoSetupType DEF Init, BootstrapInit, BootType, WriterInv, SetupInv
  <1>2. tokens = None \/ Sound(tokens)
    <2>1. ASSUME NEW life \in Lifetimes, NEW g,
                 g = [saved |-> 0, left |-> life, att |-> 0, reg |-> client,
                      dies |-> life * Second, late |-> 0]
          PROVE  Sound(g)
      <3>1. life \in Nat /\ life * Second \in Nat
        BY BootstrapAssumption
      <3>2. client \in {None} \union Registrations /\ now = 0
        BY DEF Init, BootstrapInit
      <3>. QED  BY <2>1, <3>1, <3>2 DEF Sound, Grants
    <2>. QED  BY <2>1 DEF Init, BootstrapInit
  <1>3. GrantInv
    BY <1>2, NoSetupType DEF Init, BootstrapInit, GrantInv
  <1>4. SessionType
    <2>1. None \in Tools \union {None} /\ Free \in Operations
      BY DEF Free, Operations
    <2>2. <<>> \in Seq(Workers) /\ [t \in Workers |-> Free] \in [Workers -> Operations]
      BY <2>1
    <2>. QED  BY <2>2 DEF Init, SessionType
  <1>5. LockInv /\ CallInv /\ LifetimeKept
    BY TaskNames DEF Init, LockInv, Inside, CallInv, LifetimeKept, Free, Workers
  <1>. QED  BY <1>1, <1>3, <1>4, <1>5 DEF BootInv, SessionInv

LEMMA NextKeepsInv == BootInv /\ SessionInv /\ [Next]_vars => BootInv' /\ SessionInv'
  <1> SUFFICES ASSUME BootInv, SessionInv, [Next]_vars PROVE BootInv' /\ SessionInv'
    OBVIOUS
  <1>1. CASE Tick
    BY <1>1, TickKeepsBootInv, AsideKeepsSessionInv DEF Tick
  <1>2. CASE Setup
    BY <1>2, SetupKeepsBootInv, AsideKeepsSessionInv DEF Setup
  <1>3. CASE Session
    BY <1>3, SessionKeepsSessionInv, AsideKeepsBootInv DEF Session
  <1>4. CASE UNCHANGED vars
    BY <1>4, AsideKeepsBootInv, AsideKeepsSessionInv DEF vars
  <1>. QED  BY <1>1, <1>2, <1>3, <1>4 DEF Next

\* The records promise no more than was granted, a record is replaced only by a setup
\* that proved it, and one task at a time is past the operation lock.
THEOREM SessionInvariant == Spec => [](BootInv /\ SessionInv)
  BY InitEstablishesInv, NextKeepsInv, PTL DEF Spec

\* No request carries a token with less than a second of its grant left, whatever was rounded,
\* stored, reloaded or renewed in between.
THEOREM TokensAreAlive == Spec => []LifetimeKept
  <1>1. BootInv /\ SessionInv => LifetimeKept
    BY DEF SessionInv
  <1>. QED  BY <1>1, SessionInvariant, PTL

\* Whatever cuts a setup off, the service keeps the credentials it had or gets proven ones.
THEOREM SetupIsSafe == Spec => CredentialsSurvive
  <1> DEFINE Kept == /\ tokens' # tokens => tokens'.att \in proven /\ tokens'.reg = client
                     /\ client' # client => client = None
  <1>1. BootInv /\ SessionInv /\ [Next]_vars => [Kept]_vars
    <2> SUFFICES ASSUME BootInv, [Next]_vars PROVE Kept
      OBVIOUS
    <2>1. CASE Tick \/ Session \/ UNCHANGED vars
      BY <2>1 DEF Tick, Session, vars, bootVars
    <2>2. CASE FileReplaced
      BY <2>2 DEF FileReplaced, BootInv, WriterInv
    <2>3. CASE Setup /\ ~FileReplaced
      <3>1. UNCHANGED <<tokens, client>>
        BY <2>3 DEF Setup, SetupStep, AuthorizeBegin, Register, Prepare, Launch, Answer, Exchange,
                    Handshake, Commit, SaveClient, SaveTokens, RequireStored, SetupInterrupted,
                    SetupLost
      <3>. QED  BY <3>1
    <2>. QED  BY <2>1, <2>2, <2>3 DEF Next
  <1>2. Spec => [][Kept]_vars
    BY <1>1, SessionInvariant, PTL DEF Spec
  <1>. QED  BY <1>2 DEF CredentialsSurvive

\* A call goes out only on the strength of the last listing, which was complete: no
\* listing, closing or other call can slip in between its check and its request.
THEOREM CallsRestOnTheListing == Spec => CallsOnFreshDiscovery
  <1> DEFINE Fresh == wire' # wire /\ wire' # None =>
                        /\ open
                        /\ wire'.name \in Allowed
                        /\ \E tool \in listing : tool.name = wire'.name /\ tool.safe
  <1>1. BootInv /\ SessionInv /\ [Next]_vars => [Fresh]_vars
    <2> SUFFICES ASSUME SessionInv, [Next]_vars, wire' # wire, wire' # None PROVE Fresh
      OBVIOUS
    <2>1. ASSUME NEW t, Leave(t) PROVE FALSE
      BY <2>1 DEF Leave
    <2>2. Session
      BY DEF Next, Tick, Setup, sessionVars, vars
    <2>3. PICK t \in Tasks : Transmit(t)
      BY <2>1, <2>2 DEF Session, TaskStep, Enter, CloseBegin, Close, Closed, Renew, ListClear,
                        ListPage, CallCheck, Timeout, Reply, ListBegin, CallBegin, Cancelled
    <2>4. wire' = [name |-> op[t].name, at |-> now, token |-> tokens] /\ op[t].pc = "send"
      BY <2>1, <2>3 DEF Transmit
    <2>. QED  BY <2>4 DEF SessionInv, CallInv
  <1>2. Spec => [][Fresh]_vars
    BY <1>1, SessionInvariant, PTL DEF Spec
  <1>. QED  BY <1>2 DEF CallsOnFreshDiscovery
=============================================================================
