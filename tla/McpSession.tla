------------------------------ MODULE McpSession ------------------------------
(***************************************************************************)
(* ReadOnlyMcpSession and its non-interactive OAuth provider                *)
(* (app/broker/mcp_session.py), composed with the credential setup that     *)
(* another process may run at the same time.  The tasks of the service      *)
(* list tools and call them under one operation lock, a FIFO queue whose    *)
(* head holds it; the owner enters and closes the session.                  *)
(***************************************************************************)
EXTENDS OAuthBootstrap, SequencesExt

CONSTANTS
    Tasks,      \* tasks that list and call
    Owner,      \* the task that entered the session
    Tools,      \* tool names the server may publish
    Allowed,    \* allowed_tools, a subset of the supported read-only names
    MaxPages,   \* max_tool_pages
    MaxTools,   \* max_tools
    MaxOps      \* bound: operations that are started

ASSUME SessionAssumption ==
    /\ Owner \notin Tasks
    /\ Allowed \subseteq Tools
    /\ {MaxPages, MaxTools} \subseteq Nat \ {0}
    /\ MaxOps \in Nat

VARIABLES
    open,        \* _client is set
    used,        \* _used
    discovered,  \* _discovered: the published tools, each with its annotation
    queue,       \* the tasks at the operation lock, the holder first
    op,          \* task -> [pc, name, page, got]
    ops,         \* operations started so far
    listing,     \* history: the tools of the last listing, {} while it has not completed
    wire         \* the tool call in flight: None or [name, at, token]

sessionVars == <<open, used, discovered, queue, op, ops, listing, wire>>
vars == <<now, bootVars, sessionVars>>

Workers == Tasks \union {Owner}
Tool == [name : Tools, safe : BOOLEAN]
Free == [pc |-> "idle", name |-> None, page |-> 0, got |-> {}]
Holder == IF queue = <<>> THEN None ELSE Head(queue)

\* Leave the operation: release the lock, whatever the outcome.
Leave(t) ==
    /\ op' = [op EXCEPT ![t] = Free]
    /\ \E i \in DOMAIN queue : queue[i] = t /\ queue' = RemoveAt(queue, i)
    /\ wire' = IF op[t].pc = "reply" THEN None ELSE wire

Go(t, pc) == op' = [op EXCEPT ![t].pc = pc]

-----------------------------------------------------------------------------
(* The session's life.                                                     *)

\* __aenter__: single use; credentials are required before anything is opened,
\* and a connection that fails leaves no client behind.
Enter ==
    /\ ~used
    /\ used' = TRUE
    /\ \E connected \in BOOLEAN : open' = (ServiceCredentials /\ connected)
    /\ UNCHANGED <<discovered, queue, op, ops, listing, wire>>

CloseBegin ==
    /\ open
    /\ op[Owner].pc = "idle"
    /\ queue' = Append(queue, Owner)
    /\ Go(Owner, "close")
    /\ UNCHANGED <<open, used, discovered, ops, listing, wire>>

\* The references are dropped before the transport is closed under the lock.
Close ==
    /\ op[Owner].pc = "close"
    /\ Holder = Owner
    /\ open' = FALSE
    /\ discovered' = {}
    /\ Go(Owner, "closing")
    /\ UNCHANGED <<used, queue, ops, listing, wire>>

Closed ==
    /\ op[Owner].pc = "closing"
    /\ Leave(Owner)
    /\ UNCHANGED <<open, used, discovered, ops, listing>>

\* The service builds a new session object once the old one is closed.
Renew ==
    /\ used /\ ~open
    /\ \A t \in Workers : op[t].pc = "idle"
    /\ used' = FALSE
    /\ UNCHANGED <<open, discovered, queue, op, ops, listing, wire>>

-----------------------------------------------------------------------------
(* list_tools                                                              *)

ListBegin(t) ==
    /\ op[t].pc = "idle"
    /\ ops < MaxOps
    /\ open
    /\ ops' = ops + 1
    /\ queue' = Append(queue, t)
    /\ Go(t, "list")
    /\ UNCHANGED <<open, used, discovered, listing, wire>>

\* Mutant: the old catalogue stays until the new one is complete.
ListClearKeeps(t) ==
    /\ op[t].pc = "list"
    /\ Holder = t
    /\ listing' = {}
    /\ IF open /\ ServiceCredentials
       THEN Go(t, "page") /\ UNCHANGED <<queue, wire>>
       ELSE Leave(t)
    /\ UNCHANGED <<open, used, discovered, ops>>

\* Under the lock: the client again, the old catalogue dropped, credentials.
ListClear(t) ==
    /\ op[t].pc = "list"
    /\ Holder = t
    /\ IF open
       THEN /\ discovered' = {}
            /\ listing' = {}
            /\ IF ServiceCredentials
               THEN Go(t, "page") /\ UNCHANGED <<queue, wire>>
               ELSE Leave(t)
       ELSE /\ Leave(t)
            /\ UNCHANGED <<discovered, listing>>
    /\ UNCHANGED <<open, used, ops>>

\* A page is refused when it is incomplete, repeats a name or a cursor, or
\* exceeds a bound; the catalogue is published when the last page is in.
PageFits(t, page) ==
    /\ \A a \in page, b \in op[t].got : a.name # b.name
    /\ Cardinality(op[t].got \union page) <= MaxTools

ListPage(t) ==
    /\ op[t].pc = "page"
    /\ \E page \in {{}} \union {{x} : x \in Tool}, more \in BOOLEAN :
         LET got == op[t].got \union page
         IN IF ~ServiceCredentials \/ ~PageFits(t, page) \/ (more /\ op[t].page + 1 = MaxPages)
            THEN Leave(t) /\ UNCHANGED <<discovered, listing>>
            ELSE IF more
            THEN /\ op' = [op EXCEPT ![t].page = @ + 1, ![t].got = got]
                 /\ UNCHANGED <<queue, discovered, listing, wire>>
            ELSE /\ discovered' = got
                 /\ listing' = got
                 /\ Leave(t)
    /\ UNCHANGED <<open, used, ops>>

-----------------------------------------------------------------------------
(* call_tool                                                               *)

\* The name is checked before everything, then the client, then the lock.
CallBegin(t) ==
    /\ op[t].pc = "idle"
    /\ ops < MaxOps
    /\ open
    /\ \E name \in Allowed :
         op' = [op EXCEPT ![t].pc = "call", ![t].name = name]
    /\ queue' = Append(queue, t)
    /\ ops' = ops + 1
    /\ UNCHANGED <<open, used, discovered, listing, wire>>

CallPermitted(t) ==
    /\ open
    /\ \E tool \in discovered : tool.name = op[t].name /\ tool.safe
    /\ ServiceCredentials

CallCheck(t) ==
    /\ op[t].pc = "call"
    /\ Holder = t
    /\ IF CallPermitted(t) THEN Go(t, "send") /\ UNCHANGED <<queue, wire>> ELSE Leave(t)
    /\ UNCHANGED <<open, used, discovered, ops, listing>>

\* async_auth_flow: the credentials are read again, and the one request goes
\* out with the token just read.
Transmit(t) ==
    /\ op[t].pc = "send"
    /\ IF ServiceCredentials
       THEN /\ wire' = [name |-> op[t].name, at |-> now, token |-> tokens]
            /\ Go(t, "reply")
            /\ UNCHANGED queue
       ELSE Leave(t)
    /\ UNCHANGED <<open, used, discovered, ops, listing>>

\* An answer, a challenge (401 or 403), or an error: the service never starts OAuth.
Reply(t) ==
    /\ op[t].pc = "reply"
    /\ Leave(t)
    /\ UNCHANGED <<open, used, discovered, ops, listing>>

\* Mutant: a request that was sent is awaited without a deadline.
TimeoutUnlessSent(t) ==
    /\ op[t].pc \in {"page", "send"}
    /\ Leave(t)
    /\ UNCHANGED <<open, used, discovered, ops, listing>>

\* asyncio.timeout runs from the moment the lock is held.
Timeout(t) ==
    /\ op[t].pc \in {"page", "send", "reply"}
    /\ Leave(t)
    /\ UNCHANGED <<open, used, discovered, ops, listing>>

\* A cancelled task leaves the queue or the operation.
Cancelled(t) ==
    /\ op[t].pc # "idle"
    /\ Leave(t)
    /\ UNCHANGED <<open, used, discovered, ops, listing>>

-----------------------------------------------------------------------------
Tick ==
    /\ now < MaxTime
    /\ now' = now + 1
    /\ UNCHANGED <<bootVars, sessionVars>>

Setup == SetupStep /\ UNCHANGED <<now, sessionVars>>

TaskStep(t) == ListClear(t) \/ ListPage(t) \/ CallCheck(t) \/ Transmit(t) \/ Timeout(t)

Session ==
    /\ \/ Enter \/ CloseBegin \/ Close \/ Closed \/ Renew
       \/ \E t \in Tasks :
            TaskStep(t) \/ Reply(t) \/ ListBegin(t) \/ CallBegin(t) \/ Cancelled(t)
    /\ UNCHANGED <<now, bootVars>>

Init ==
    /\ BootstrapInit
    /\ open = FALSE
    /\ used = FALSE
    /\ discovered = {}
    /\ queue = <<>>
    /\ op = [t \in Workers |-> Free]
    /\ ops = 0
    /\ listing = {}
    /\ wire = None

Next == Tick \/ Setup \/ Session

Spec == Init /\ [][Next]_vars

\* The event loop runs every task that can proceed and every expired timeout;
\* answers, pages and cancellations are not promised.
FairSpec ==
    /\ Spec
    /\ \A t \in Tasks : WF_vars((ListClear(t) \/ CallCheck(t) \/ Timeout(t)) /\ UNCHANGED <<now, bootVars>>)
    /\ WF_vars((Close \/ Closed) /\ UNCHANGED <<now, bootVars>>)

-----------------------------------------------------------------------------
\* No request carries a token beyond its grant: at least one second is left,
\* whatever was rounded, stored, reloaded or renewed in between.  The one
\* exception the code allows is the time the first setup spends on storing the
\* client between charging the lifetime and dating the record (token.late).
LifetimeKept ==
    wire # None => wire.at + Second <= wire.token.dies + wire.token.late

\* A setup that is cut off anywhere leaves the service what it had: tokens are
\* replaced only after the handshake of their own setup and under the stored
\* registration they were granted to, and a stored registration is never replaced.
CredentialsSurvive ==
    [][/\ tokens' # tokens => tokens'.att \in proven /\ tokens'.reg = client
       /\ client' # client => client = None]_vars

\* A tool call that leaves the process was permitted by a complete listing, and
\* no listing has begun since that did not complete.
CallsOnFreshDiscovery ==
    [][wire' # wire /\ wire' # None =>
          /\ open
          /\ wire'.name \in Allowed
          /\ \E tool \in listing : tool.name = wire'.name /\ tool.safe]_vars

\* Every operation ends, and with it the wait of everyone behind it at the lock.
OperationsEnd == \A t \in Tasks : op[t].pc # "idle" ~> op[t].pc = "idle"
=============================================================================
