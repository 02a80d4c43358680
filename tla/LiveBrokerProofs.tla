-------------------------- MODULE LiveBrokerProofs --------------------------
(***************************************************************************)
(* The properties of the live adapter for any commands, keys, orders and    *)
(* catalogues: what a key or an order in memory says about the writes that  *)
(* have left and about the broker, at every await of a call.                *)
(***************************************************************************)
EXTENDS LiveBroker, TLAPS

Steps == {"list", "build", "enter", "record", "find", "authorize", "transport"}
OrderStates == {"none", "SUBMITTING", "SUBMISSION_UNKNOWN",
                "OPEN", "REJECTED", "CANCELED", "FILLED"}

TypeOK ==
    /\ local \in [Orders -> [st : OrderStates, id : BOOLEAN]]
    /\ results \in [Keys -> SUBSET Orders]
    /\ recorded \subseteq Commands
    /\ durable \subseteq Commands
    /\ call = IdleCall \/ call \in [pc : Steps, cmd : Commands]
    /\ outcome \in [Commands -> {"none", "returned", "unknown"}]
    /\ wire \subseteq Commands
    /\ answer \in [Commands -> SUBSET [st : OrderStates, id : BOOLEAN]]
    /\ sent \in [Commands -> Nat]
    /\ remote \in [Orders -> {"none", "OPEN", "FILLED", "CANCELED"}]

\* One command is recorded per key, and stored; a key has a result once its command
\* was entered, which is before it can be sent, returned or be of unknown outcome.
KeysInv ==
    /\ recorded \subseteq durable
    /\ \A c, d \in recorded : KeyOf[c] = KeyOf[d] => c = d
    /\ \A k \in Keys : results[k] # {} => \E d \in recorded : KeyOf[d] = k
    /\ \A c \in recorded : results[KeyOf[c]] \subseteq {OrderOf[c]}
    /\ \A c \in Commands : outcome[c] # "none" => c \in recorded /\ results[KeyOf[c]] # {}
    /\ call.pc = "record" => \A d \in recorded : KeyOf[d] # KeyOf[call.cmd]
    /\ call.pc \in {"find", "authorize", "transport"} => call.cmd \in recorded
    /\ call.pc \in {"record", "find"} => results[KeyOf[call.cmd]] = {}
    /\ call.pc \in {"authorize", "transport"} => results[KeyOf[call.cmd]] # {}

\* A command has left only under a key with a result, and not before its authorization.
SentInv ==
    /\ \A c \in Commands :
          /\ sent[c] <= 1
          /\ sent[c] > 0 => c \in recorded /\ results[KeyOf[c]] # {}
    /\ call.pc = "authorize" => sent[call.cmd] = 0
    /\ \A c \in wire : sent[c] > 0

\* A cancellation of order o is being made.
Cancelling(o) ==
    call.pc # "idle" /\ call.cmd \in Cancels /\ OrderOf[call.cmd] = o

\* Until the key of an order's placement has a result nothing about the order has
\* left or is being made; and while the placement itself is made, nothing else has left.
PlacementInv ==
    /\ \A p \in Places : results[KeyOf[p]] = {} =>
          /\ remote[OrderOf[p]] = "none"
          /\ \A d \in Commands : OrderOf[d] = OrderOf[p] => sent[d] = 0
          /\ ~Cancelling(OrderOf[p])
    /\ call.pc \in {"authorize", "transport"} /\ call.cmd \in Places =>
          /\ \A d \in Commands : OrderOf[d] = OrderOf[call.cmd] /\ d # call.cmd => sent[d] = 0
          /\ outcome[call.cmd] = "none"
          /\ call.pc = "authorize" => remote[OrderOf[call.cmd]] = "none"
    /\ call.pc = "authorize" => local[OrderOf[call.cmd]].st = "SUBMITTING"
    /\ \A p \in Places : p \in wire => remote[OrderOf[p]] = "none"

\* An answer that waits is for the call in progress and is still true.
AnswerInv ==
    \A c \in Commands : \A r \in answer[c] :
        /\ call.pc = "transport" /\ call.cmd = c
        /\ r.st = "OPEN" => remote[OrderOf[c]] # "none"
        /\ r.st \in {"FILLED", "CANCELED"} => remote[OrderOf[c]] = r.st
        /\ r.st = "REJECTED" => c \in Places /\ c \notin wire /\ remote[OrderOf[c]] = "none"

\* Nobody cancels a rejected order, or one whose placement is of unknown outcome and
\* that the broker does not have; the latter stays marked in memory.
EndInv ==
    /\ \A o \in Orders : local[o].st = "REJECTED" => ~Cancelling(o)
    /\ \A p \in Places :
          outcome[p] = "unknown" /\ remote[OrderOf[p]] = "none" =>
              local[OrderOf[p]].st = "SUBMISSION_UNKNOWN" /\ ~Cancelling(OrderOf[p])

\* What reconcile() has read stays at the broker.
ReadInv == /\ rec.ids \subseteq Orders
           /\ rec.pc = "compare" => \A o \in rec.ids : remote[o] # "none"

Inv == TypeOK /\ KeysInv /\ SentInv /\ PlacementInv /\ AnswerInv /\ EndInv
       /\ AnswersAreTheBrokers /\ ReadInv

-----------------------------------------------------------------------------
LEMMA InitEstablishesInv == Init => Inv
  BY CommandsAssumption
  DEF Init, Inv, TypeOK, KeysInv, SentInv, PlacementInv, AnswerInv, EndInv, ReadInv,
      AnswersAreTheBrokers, Commands, NoOrder, IdleCall, IdleRec, OrderStates, Cancelling

\* A call that ends without a result leaves the orders and the keys as they are; it may
\* have stored its command, and nobody will read its answer.
LEMMA GiveUpKeepsInv ==
    ASSUME Inv, call.pc # "idle", Return("none"),
           UNCHANGED <<local, results, recorded, wire, sent, remote, rec>>,
           durable' \in {durable, durable \union {call.cmd}},
           answer' \in [Commands -> SUBSET [st : OrderStates, id : BOOLEAN]],
           answer'[call.cmd] = {},
           \A c \in Commands : answer'[c] \subseteq answer[c]
    PROVE  Inv'
  <1> USE CommandsAssumption DEF Return, IdleCall, Cancelling, Commands
  <1>1. call.cmd \in Commands /\ call' = IdleCall
    BY DEF Inv, TypeOK
  <1>2. TypeOK'
    BY <1>1 DEF Inv, TypeOK
  <1>3. KeysInv' /\ SentInv'
    BY <1>1 DEF Inv, TypeOK, KeysInv, SentInv
  <1>4. PlacementInv' /\ EndInv'
    BY <1>1 DEF Inv, TypeOK, PlacementInv, EndInv
  <1>5. AnswerInv'
    BY <1>1 DEF Inv, TypeOK, AnswerInv
  <1>6. AnswersAreTheBrokers' /\ ReadInv'
    BY DEF Inv, AnswersAreTheBrokers, ReadInv
  <1>. QED  BY <1>2, <1>3, <1>4, <1>5, <1>6 DEF Inv

\* Before the write leaves there is no answer, so the call gives up as above.
LEMMA EarlyGiveUpKeepsInv ==
    ASSUME Inv, call.pc \notin {"idle", "transport"}, Return("none"),
           UNCHANGED <<local, results, recorded, wire, answer, sent, remote, rec>>,
           durable' \in {durable, durable \union {call.cmd}}
    PROVE  Inv'
  <1>1. call.cmd \in Commands /\ answer[call.cmd] = {}
    BY DEF Inv, TypeOK, AnswerInv, IdleCall
  <1>. QED  BY <1>1, GiveUpKeepsInv DEF Inv, TypeOK

\* Steps of a call before anything of it is known to the broker.
LEMMA AdvanceKeepsInv ==
    ASSUME Inv, UNCHANGED <<local, results, recorded, durable, outcome, broker, rec>>,
           \E c \in Commands :
              /\ call' \in [pc : {"list", "build", "enter"}, cmd : {c}]
              /\ \/ call = IdleCall /\ (c \in Cancels => Cancellable(OrderOf[c]))
                 \/ call.pc \in {"list", "build"} /\ call.cmd = c
    PROVE  Inv'
  <1> USE CommandsAssumption DEF IdleCall, Cancelling, Commands, broker
  <1>1. TypeOK'
    BY DEF Inv, TypeOK, Steps
  <1>2. KeysInv' /\ SentInv'
    BY DEF Inv, TypeOK, KeysInv, SentInv
  <1>3. \A o \in Orders : Cancelling(o)' => Cancelling(o) \/ Cancellable(o)
    BY DEF Inv, TypeOK
  <1>4. PlacementInv'
    <2>1. ASSUME NEW p \in Places, results[KeyOf[p]] = {}
          PROVE  ~Cancellable(OrderOf[p])
      BY <2>1 DEF Inv, TypeOK, KeysInv, PlacementInv, Cancellable
    <2>. QED  BY <1>3, <2>1 DEF Inv, TypeOK, PlacementInv
  <1>5. AnswerInv'
    BY DEF Inv, TypeOK, AnswerInv
  <1>6. EndInv'
    <2>1. ASSUME NEW o \in Orders, local[o].st \in {"REJECTED", "SUBMISSION_UNKNOWN"},
                 remote[o] = "none"
          PROVE  ~Cancellable(o)
      BY <2>1 DEF Cancellable
    <2>. QED  BY <1>3, <2>1 DEF Inv, TypeOK, EndInv, AnswersAreTheBrokers
  <1>7. AnswersAreTheBrokers' /\ ReadInv'
    BY DEF Inv, AnswersAreTheBrokers, ReadInv
  <1>. QED  BY <1>1, <1>2, <1>4, <1>5, <1>6, <1>7 DEF Inv

\* Entering a recorded command under a key without a result: nothing of its order has
\* left if it is a placement, and nobody places the order if it is a cancellation.
LEMMA RegisterKeepsInv ==
    ASSUME Inv, NEW c \in Commands, call.cmd = c, call.pc \in {"enter", "record", "find"},
           results[KeyOf[c]] = {}, c \in recorded',
           recorded' \in {recorded, recorded \union {c}},
           durable' \in {durable, durable \union {c}}, c \in durable',
           \A d \in recorded : KeyOf[d] = KeyOf[c] => d = c,
           NEW order \in [st : {"SUBMITTING"}, id : BOOLEAN], Register(c, order),
           UNCHANGED <<broker, rec>>
    PROVE  Inv'
  <1> USE CommandsAssumption DEF IdleCall, Cancelling, Commands, broker, Register
  <1>1. TypeOK'
    BY DEF Inv, TypeOK, Steps, OrderStates
  <1>2. /\ call' = [pc |-> "authorize", cmd |-> c]
        /\ \A k \in Keys : results'[k] = IF k = KeyOf[c] THEN {OrderOf[c]} ELSE results[k]
        /\ \A o \in Orders : local'[o] = IF o = OrderOf[c] THEN order ELSE local[o]
    BY DEF Inv, TypeOK
  <1>3. KeysInv'
    <2>1. /\ recorded' \subseteq durable'
          /\ \A d, e \in recorded' : KeyOf[d] = KeyOf[e] => d = e
      BY DEF Inv, TypeOK, KeysInv
    <2>2. /\ \A k \in Keys : results'[k] # {} => \E d \in recorded' : KeyOf[d] = k
          /\ \A d \in recorded' : results'[KeyOf[d]] \subseteq {OrderOf[d]}
      BY <1>2, <2>1 DEF Inv, TypeOK, KeysInv
    <2>3. \A d \in Commands : outcome'[d] # "none" => d \in recorded' /\ results'[KeyOf[d]] # {}
      BY <1>2 DEF Inv, TypeOK, KeysInv
    <2>4. /\ call'.pc = "authorize" /\ call'.cmd = c
          /\ results'[KeyOf[c]] # {}
      BY <1>2
    <2>. QED  BY <2>1, <2>2, <2>3, <2>4 DEF KeysInv
  <1>4. SentInv'
    BY <1>2 DEF Inv, TypeOK, KeysInv, SentInv
  <1>5. PlacementInv'
    <2>1. ASSUME NEW p \in Places, c \in Cancels, OrderOf[p] = OrderOf[c]
          PROVE  results[KeyOf[p]] # {}
      BY <2>1 DEF Inv, PlacementInv
    <2>2. outcome[c] = "none"
      BY DEF Inv, TypeOK, KeysInv
    <2>. QED  BY <1>2, <2>1, <2>2 DEF Inv, TypeOK, SentInv, PlacementInv
  <1>6. AnswerInv'
    BY DEF Inv, TypeOK, AnswerInv
  <1>7. EndInv'
    <2>1. ASSUME NEW p \in Places, c \in Places, OrderOf[p] = OrderOf[c]
          PROVE  outcome[p] = "none"
      BY <2>1 DEF Inv, TypeOK, KeysInv
    <2>. QED  BY <1>2, <2>1 DEF Inv, TypeOK, EndInv
  <1>8. AnswersAreTheBrokers' /\ ReadInv'
    BY <1>2 DEF Inv, AnswersAreTheBrokers, ReadInv
  <1>. QED  BY <1>1, <1>3, <1>4, <1>5, <1>6, <1>7, <1>8 DEF Inv

\* What follows the recording enters the command or looks for its order.
LEMMA RecordedKeepsInv ==
    ASSUME Inv, NEW c \in Commands, call.cmd = c, call.pc \in {"enter", "record"},
           results[KeyOf[c]] = {}, c \in recorded',
           recorded' \in {recorded, recorded \union {c}},
           durable' \in {durable, durable \union {c}}, c \in durable',
           \A d \in recorded : KeyOf[d] = KeyOf[c] => d = c,
           Recorded(c), UNCHANGED <<broker, rec>>
    PROVE  Inv'
  <1>1. CASE \E order \in [st : {"SUBMITTING"}, id : BOOLEAN] : Register(c, order)
    BY <1>1, RegisterKeepsInv
  <1>2. CASE /\ call' = [call EXCEPT !.pc = "find"] /\ c \in Cancels
             /\ UNCHANGED <<local, results, outcome>>
    <2> USE CommandsAssumption DEF IdleCall, Cancelling, Commands, broker
    <2>1. call' = [pc |-> "find", cmd |-> c]
      BY <1>2 DEF Inv, TypeOK
    <2>5. TypeOK'
      BY <1>2, <2>1 DEF Inv, TypeOK, Steps
    <2>2. KeysInv' /\ SentInv'
      <3>1. c \in recorded' /\ recorded \subseteq recorded' /\ recorded' \subseteq recorded \union {c}
        OBVIOUS
      <3>2. recorded' \subseteq durable'
        BY DEF Inv, KeysInv
      <3>3. \A d, e \in recorded' : KeyOf[d] = KeyOf[e] => d = e
        BY <3>1 DEF Inv, KeysInv
      <3>4. KeysInv'
        BY <1>2, <2>1, <3>1, <3>2, <3>3 DEF Inv, KeysInv
      <3>5. SentInv'
        BY <1>2, <2>1, <3>1 DEF Inv, SentInv
      <3>. QED  BY <3>4, <3>5
    <2>3. PlacementInv' /\ AnswerInv' /\ EndInv'
      BY <1>2, <2>1 DEF Inv, TypeOK, PlacementInv, AnswerInv, EndInv
    <2>4. AnswersAreTheBrokers' /\ ReadInv'
      BY <1>2 DEF Inv, AnswersAreTheBrokers, ReadInv
    <2>. QED  BY <2>2, <2>3, <2>4, <2>5 DEF Inv
  <1>3. OrderOf[c] \in Orders /\ [st |-> "SUBMITTING", id |-> FALSE] \in [st : {"SUBMITTING"}, id : BOOLEAN]
    BY CommandsAssumption
  <1>4. [local[OrderOf[c]] EXCEPT !.st = "SUBMITTING"] \in [st : {"SUBMITTING"}, id : BOOLEAN]
    BY <1>3 DEF Inv, TypeOK
  <1>. QED  BY <1>1, <1>2, <1>3, <1>4 DEF Recorded, Commands

-----------------------------------------------------------------------------
(* The steps of a write                                                    *)

LEMMA AskKeepsInv == ASSUME Inv, NEW c \in Commands, Ask(c) PROVE Inv'
  <1>1. call' \in [pc : {"list", "build", "enter"}, cmd : {c}]
    BY DEF Ask
  <1>. QED  BY <1>1, AdvanceKeepsInv DEF Ask, adapter

LEMMA ListedKeepsInv == ASSUME Inv, Listed PROVE Inv'
  <1>1. call.cmd \in Commands /\ call.pc = "list"
    BY DEF Inv, TypeOK, Listed, IdleCall
  <1>2. CASE call' = [call EXCEPT !.pc = "build"] /\ UNCHANGED outcome
    <2>1. call' \in [pc : {"list", "build", "enter"}, cmd : {call.cmd}]
      BY <1>1, <1>2 DEF Inv, TypeOK, IdleCall
    <2>. QED  BY <1>1, <1>2, <2>1, AdvanceKeepsInv DEF Listed
  <1>3. CASE Return("none")
    BY <1>1, <1>3, EarlyGiveUpKeepsInv DEF Listed, broker
  <1>. QED  BY <1>2, <1>3 DEF Listed

LEMMA BuildKeepsInv == ASSUME Inv, Build PROVE Inv'
  <1>1. call.cmd \in Commands /\ call.pc = "build"
    BY DEF Inv, TypeOK, Build, IdleCall
  <1>2. CASE call' = [call EXCEPT !.pc = "enter"] /\ UNCHANGED outcome
    <2>1. call' \in [pc : {"list", "build", "enter"}, cmd : {call.cmd}]
      BY <1>1, <1>2 DEF Inv, TypeOK, IdleCall
    <2>. QED  BY <1>1, <1>2, <2>1, AdvanceKeepsInv DEF Build
  <1>3. CASE Return("none")
    BY <1>1, <1>3, EarlyGiveUpKeepsInv DEF Build, broker
  <1>. QED  BY <1>2, <1>3 DEF Build

\* A repeated command is answered from memory: it is the one recorded under its key,
\* and the result is its own order.
LEMMA RepeatKeepsInv ==
    ASSUME Inv, call.pc = "enter", ~Reused(call.cmd),
           NEW o \in Existing(call.cmd),
           Return(IF local[o].st = "SUBMISSION_UNKNOWN" THEN "unknown" ELSE "returned"),
           UNCHANGED <<local, results, recorded, durable, broker, rec>>
    PROVE  Inv'
  <1> USE CommandsAssumption DEF Commands, IdleCall, Return, broker, Existing
  <1>1. call.cmd \in Commands /\ call' = IdleCall
    BY DEF Inv, TypeOK
  <1>2. call.cmd \in recorded /\ o = OrderOf[call.cmd]
    BY <1>1 DEF Inv, TypeOK, KeysInv, Reused
  <1>3. TypeOK'
    BY <1>1 DEF Inv, TypeOK
  <1>4. KeysInv' /\ SentInv'
    BY <1>1, <1>2 DEF Inv, TypeOK, KeysInv, SentInv
  <1>5. PlacementInv' /\ AnswerInv'
    BY <1>1 DEF Inv, TypeOK, PlacementInv, AnswerInv, Cancelling
  <1>6. EndInv'
    BY <1>1, <1>2 DEF Inv, TypeOK, EndInv, Cancelling
  <1>7. AnswersAreTheBrokers' /\ ReadInv'
    BY DEF Inv, AnswersAreTheBrokers, ReadInv
  <1>. QED  BY <1>3, <1>4, <1>5, <1>6, <1>7 DEF Inv

LEMMA EnterKeepsInv == ASSUME Inv, Enter PROVE Inv'
  <1> DEFINE c == call.cmd
  <1>1. c \in Commands /\ call.pc = "enter"
    BY DEF Inv, TypeOK, Enter, IdleCall
  <1>2. UNCHANGED <<recorded, durable, broker, rec>>
    BY DEF Enter
  <1>3. CASE Return("none") /\ UNCHANGED <<local, results>>
    BY <1>1, <1>2, <1>3, EarlyGiveUpKeepsInv DEF broker
  <1>4. CASE Existing(c) # {} /\ ~Reused(c)
    BY <1>1, <1>2, <1>4, RepeatKeepsInv DEF Enter
  <1>5. CASE Existing(c) = {} /\ c \in recorded /\ Recorded(c)
    <2>1. c \in recorded' /\ c \in durable' /\ (\A d \in recorded : KeyOf[d] = KeyOf[c] => d = c)
      BY <1>2, <1>5 DEF Inv, KeysInv
    <2>. QED  BY <1>1, <1>2, <1>5, <2>1, RecordedKeepsInv DEF Existing
  <1>6. CASE /\ Existing(c) = {} /\ c \notin recorded /\ ~Reused(c)
             /\ call' = [call EXCEPT !.pc = "record"]
             /\ UNCHANGED <<local, results, outcome>>
    <2> USE CommandsAssumption DEF IdleCall, Cancelling, Commands, broker, Existing
    <2>1. call' = [pc |-> "record", cmd |-> c]
      BY <1>1, <1>6 DEF Inv, TypeOK
    <2>2. TypeOK'
      BY <1>1, <1>2, <1>6, <2>1 DEF Inv, TypeOK, Steps
    <2>3. KeysInv' /\ SentInv'
      BY <1>1, <1>2, <1>6, <2>1 DEF Inv, TypeOK, KeysInv, SentInv, Reused
    <2>4. PlacementInv' /\ AnswerInv' /\ EndInv'
      BY <1>1, <1>2, <1>6, <2>1 DEF Inv, TypeOK, PlacementInv, AnswerInv, EndInv
    <2>5. AnswersAreTheBrokers' /\ ReadInv'
      BY <1>2, <1>6 DEF Inv, AnswersAreTheBrokers, ReadInv
    <2>. QED  BY <2>2, <2>3, <2>4, <2>5 DEF Inv
  <1>. QED  BY <1>3, <1>4, <1>5, <1>6 DEF Enter

LEMMA RecordKeepsInv == ASSUME Inv, Record PROVE Inv'
  <1> DEFINE c == call.cmd
  <1>1. c \in Commands /\ call.pc = "record"
    BY DEF Inv, TypeOK, Record, IdleCall
  <1>2. results[KeyOf[c]] = {} /\ (\A d \in recorded : KeyOf[d] = KeyOf[c] => d = c)
    BY <1>1 DEF Inv, KeysInv
  <1>. QED  BY <1>1, <1>2, RecordedKeepsInv DEF Record

LEMMA RecordFailsKeepsInv == ASSUME Inv, RecordFails PROVE Inv'
  BY EarlyGiveUpKeepsInv DEF RecordFails, adapter, broker

LEMMA FindKeepsInv == ASSUME Inv, Find PROVE Inv'
  <1> DEFINE c == call.cmd
  <1>1. c \in Commands /\ call.pc = "find"
    BY DEF Inv, TypeOK, Find, IdleCall
  <1>2. CASE Return("none") /\ UNCHANGED <<local, results>>
    BY <1>1, <1>2, EarlyGiveUpKeepsInv DEF Find, broker
  <1>3. CASE Register(c, [st |-> "SUBMITTING", id |-> TRUE])
    <2>1. /\ results[KeyOf[c]] = {} /\ c \in recorded' /\ c \in durable'
          /\ \A d \in recorded : KeyOf[d] = KeyOf[c] => d = c
          /\ UNCHANGED <<recorded, durable, broker, rec>>
      BY <1>1 DEF Inv, KeysInv, Find
    <2>. QED  BY <1>1, <1>3, <2>1, RegisterKeepsInv
  <1>. QED  BY <1>2, <1>3 DEF Find

LEMMA AuthorizedKeepsInv == ASSUME Inv, Authorized PROVE Inv'
  <1> USE CommandsAssumption DEF Commands, IdleCall, Cancelling, adapter
  <1> DEFINE c == call.cmd
  <1>1. c \in Commands /\ call.pc = "authorize"
    BY DEF Inv, TypeOK, Authorized
  <1>2. /\ call' = [pc |-> "transport", cmd |-> c] /\ wire' = wire \union {c}
        /\ \A d \in Commands : sent'[d] = IF d = c THEN sent[d] + 1 ELSE sent[d]
        /\ UNCHANGED <<local, results, recorded, durable, outcome, answer, remote, rec>>
    BY <1>1 DEF Inv, TypeOK, Authorized
  <1>3. TypeOK'
    <2>1. sent' \in [Commands -> Nat]
      BY <1>1 DEF Inv, TypeOK, Authorized
    <2>2. call' \in [pc : Steps, cmd : Commands]
      BY <1>1, <1>2 DEF Steps
    <2>. QED  BY <1>1, <1>2, <2>1, <2>2 DEF Inv, TypeOK
  <1>4. KeysInv' /\ SentInv'
    BY <1>1, <1>2 DEF Inv, TypeOK, KeysInv, SentInv
  <1>5. PlacementInv'
    BY <1>1, <1>2 DEF Inv, TypeOK, KeysInv, SentInv, PlacementInv
  <1>6. AnswerInv' /\ EndInv'
    BY <1>1, <1>2 DEF Inv, TypeOK, AnswerInv, EndInv
  <1>7. AnswersAreTheBrokers' /\ ReadInv'
    BY <1>1, <1>2 DEF Inv, TypeOK, PlacementInv, AnswersAreTheBrokers, ReadInv
  <1>. QED  BY <1>3, <1>4, <1>5, <1>6, <1>7 DEF Inv

\* A rejection by the firewall is of an order of which nothing has left.
LEMMA DeniedKeepsInv == ASSUME Inv, Denied PROVE Inv'
  <1> USE CommandsAssumption DEF Commands, IdleCall, Cancelling, Return, broker
  <1> DEFINE c == call.cmd
  <1>1. c \in Commands /\ call.pc = "authorize" /\ call' = IdleCall
    BY DEF Inv, TypeOK, Denied
  <1>2. UNCHANGED <<results, recorded, durable, broker, rec>> /\ outcome' = [outcome EXCEPT ![c] = "returned"]
    BY DEF Denied
  <1>3. \A o \in Orders : local'[o].st = IF c \in Places /\ o = OrderOf[c] THEN "REJECTED" ELSE local[o].st
    BY <1>1 DEF Inv, TypeOK, Denied
  <1>4. TypeOK'
    BY <1>1, <1>2 DEF Inv, TypeOK, Denied, OrderStates
  <1>5. KeysInv' /\ SentInv'
    BY <1>1, <1>2 DEF Inv, TypeOK, KeysInv, SentInv
  <1>6. PlacementInv' /\ AnswerInv'
    BY <1>1, <1>2 DEF Inv, TypeOK, PlacementInv, AnswerInv
  <1>7. EndInv'
    <2>1. ASSUME NEW p \in Places, c \in Places, OrderOf[p] = OrderOf[c], outcome[p] # "none"
          PROVE  FALSE
      BY <1>1, <2>1 DEF Inv, KeysInv, PlacementInv
    <2>. QED  BY <1>1, <1>2, <1>3, <2>1 DEF Inv, TypeOK, EndInv
  <1>8. AnswersAreTheBrokers' /\ ReadInv'
    BY <1>1, <1>2, <1>3 DEF Inv, TypeOK, SentInv, PlacementInv, AnswersAreTheBrokers, ReadInv
  <1>. QED  BY <1>4, <1>5, <1>6, <1>7, <1>8 DEF Inv

LEMMA MisauthorizedKeepsInv == ASSUME Inv, Misauthorized PROVE Inv'
  BY EarlyGiveUpKeepsInv DEF Misauthorized, adapter, broker

\* What an answer puts in memory is what the broker did: it is still true when it
\* arrives, and a rejected order has no other write.
LEMMA AnsweredKeepsInv == ASSUME Inv, Answered PROVE Inv'
  <1> USE CommandsAssumption DEF Commands, IdleCall, Cancelling, Return
  <1> DEFINE c == call.cmd
  <1>1. c \in Commands /\ call.pc = "transport" /\ call' = IdleCall
    BY DEF Inv, TypeOK, Answered
  <1>2. /\ UNCHANGED <<results, recorded, durable, wire, sent, remote, rec>>
        /\ outcome' = [outcome EXCEPT ![c] = "returned"]
        /\ answer' = [answer EXCEPT ![c] = {}]
    BY DEF Answered
  <1>3. PICK reply \in answer[c] : local' = [local EXCEPT ![OrderOf[c]] = parse_order_ack(reply)]
    BY DEF Answered
  <1>4. /\ parse_order_ack(reply) \in [st : OrderStates, id : BOOLEAN]
        /\ parse_order_ack(reply).st \in {reply.st, "SUBMITTING"}
    BY <1>1, <1>3 DEF Inv, TypeOK, parse_order_ack, OrderStates
  <1>5. \A o \in Orders : local'[o] = IF o = OrderOf[c] THEN parse_order_ack(reply) ELSE local[o]
    BY <1>1, <1>3 DEF Inv, TypeOK
  <1>6. TypeOK'
    BY <1>1, <1>2, <1>3, <1>4 DEF Inv, TypeOK
  <1>7. KeysInv' /\ SentInv'
    BY <1>1, <1>2 DEF Inv, TypeOK, KeysInv, SentInv
  <1>8. PlacementInv' /\ AnswerInv'
    BY <1>1, <1>2 DEF Inv, TypeOK, PlacementInv, AnswerInv
  <1>9. EndInv'
    <2>1. ASSUME NEW p \in Places, OrderOf[p] = OrderOf[c], outcome'[p] = "unknown",
                 remote[OrderOf[p]] = "none"
          PROVE  FALSE
      <3>1. p # c /\ outcome[p] = "unknown"
        BY <1>1, <1>2, <2>1 DEF Inv, TypeOK
      <3>2. CASE c \in Places
        BY <1>1, <2>1, <3>1, <3>2 DEF Inv, KeysInv
      <3>3. CASE c \in Cancels
        BY <1>1, <2>1, <3>1, <3>3 DEF Inv, EndInv
      <3>. QED  BY <1>1, <3>2, <3>3
    <2>. QED  BY <1>1, <1>2, <1>5, <2>1 DEF Inv, TypeOK, EndInv
  <1>10. AnswersAreTheBrokers'
    <2>1. ASSUME reply.st = "REJECTED", NEW d \in wire, OrderOf[d] = OrderOf[c]
          PROVE  FALSE
      BY <1>1, <1>3, <2>1 DEF Inv, TypeOK, SentInv, PlacementInv, AnswerInv
    <2>. QED  BY <1>1, <1>2, <1>3, <1>4, <1>5, <2>1 DEF Inv, AnswerInv, AnswersAreTheBrokers
  <1>11. ReadInv'
    BY <1>2 DEF Inv, ReadInv
  <1>. QED  BY <1>6, <1>7, <1>8, <1>9, <1>10, <1>11 DEF Inv

LEMMA UnreadableKeepsInv == ASSUME Inv, Unreadable PROVE Inv'
  <1>1. /\ call.cmd \in Commands /\ call.pc = "transport"
        /\ answer' = [answer EXCEPT ![call.cmd] = {}]
    BY DEF Inv, TypeOK, Unreadable, IdleCall
  <1>. QED  BY <1>1, GiveUpKeepsInv DEF Unreadable, Inv, TypeOK, adapter

LEMMA UnansweredKeepsInv == ASSUME Inv, Unanswered PROVE Inv'
  <1> USE CommandsAssumption DEF Commands, IdleCall, Cancelling, Return
  <1> DEFINE c == call.cmd
  <1>1. c \in Commands /\ call.pc = "transport" /\ call' = IdleCall
    BY DEF Inv, TypeOK, Unanswered
  <1>2. /\ UNCHANGED <<results, recorded, durable, wire, sent, remote, rec>>
        /\ outcome' = [outcome EXCEPT ![c] = "unknown"]
        /\ answer' = [answer EXCEPT ![c] = {}]
    BY DEF Unanswered
  <1>3. \A o \in Orders : local'[o].st = IF o = OrderOf[c] THEN "SUBMISSION_UNKNOWN" ELSE local[o].st
    BY <1>1 DEF Inv, TypeOK, Unanswered
  <1>4. TypeOK'
    BY <1>1, <1>2 DEF Inv, TypeOK, Unanswered, OrderStates
  <1>5. KeysInv' /\ SentInv'
    BY <1>1, <1>2 DEF Inv, TypeOK, KeysInv, SentInv
  <1>6. PlacementInv' /\ AnswerInv'
    BY <1>1, <1>2 DEF Inv, TypeOK, PlacementInv, AnswerInv
  <1>7. EndInv'
    BY <1>1, <1>2, <1>3 DEF Inv, TypeOK, EndInv
  <1>8. AnswersAreTheBrokers' /\ ReadInv'
    BY <1>2, <1>3 DEF Inv, AnswersAreTheBrokers, ReadInv
  <1>. QED  BY <1>4, <1>5, <1>6, <1>7, <1>8 DEF Inv

LEMMA InterruptedKeepsInv == ASSUME Inv, Interrupted PROVE Inv'
  <1>1. /\ call.cmd \in Commands /\ call.pc # "idle"
        /\ answer' = [answer EXCEPT ![call.cmd] = {}]
    BY DEF Inv, TypeOK, Interrupted, IdleCall
  <1>. QED  BY <1>1, GiveUpKeepsInv DEF Interrupted, Inv, TypeOK, adapter

-----------------------------------------------------------------------------
(* reconcile and the broker                                                *)

\* reconcile() only reads: what it has read stays at the broker.
LEMMA ReconciliationKeepsInv == ASSUME Inv, Reconciliation PROVE Inv'
  <1>1. UNCHANGED <<local, results, recorded, service, broker>>
    BY DEF Reconciliation, ReconcileBegin, ReconcileListed, ReconcileRead, ReconcileFails,
           Reconcile, Reported, adapter
  <1>2. TypeOK' /\ KeysInv' /\ SentInv' /\ PlacementInv' /\ AnswerInv' /\ EndInv'
        /\ AnswersAreTheBrokers'
    BY <1>1 DEF Inv, TypeOK, KeysInv, SentInv, PlacementInv, AnswerInv, EndInv,
                AnswersAreTheBrokers, Cancelling, service, broker
  <1>3. ReadInv'
    <2>1. CASE ReconcileRead
      <3>1. rec'.ids = {o \in Orders : remote[o] # "none"}
        BY <2>1 DEF ReconcileRead
      <3>. QED  BY <1>1, <3>1 DEF ReadInv, broker
    <2>2. CASE ReconcileListed
      <3>1. rec'.pc # "compare" /\ rec'.ids = rec.ids
        BY <2>2 DEF ReconcileListed, Inv, ReadInv
      <3>. QED  BY <3>1 DEF Inv, ReadInv
    <2>3. CASE ReconcileBegin \/ ReconcileFails \/ Reconcile \/ Reported
      <3>1. rec'.pc # "compare" /\ rec'.ids = {}
        BY <2>3 DEF ReconcileBegin, ReconcileFails, Reconcile, Reported, IdleRec
      <3>. QED  BY <3>1 DEF ReadInv
    <2>. QED  BY <2>1, <2>2, <2>3 DEF Reconciliation
  <1>. QED  BY <1>2, <1>3 DEF Inv

\* A write is processed at most once; a placement finds the broker without its order.
LEMMA ProcessKeepsInv == ASSUME Inv, NEW c \in Commands, Process(c) PROVE Inv'
  <1> USE CommandsAssumption DEF Commands, IdleCall, Cancelling, adapter, service
  <1> DEFINE o == OrderOf[c]
  <1>1. PICK st \in {"none", "OPEN", "REJECTED", "CANCELED", "FILLED"},
                reply \in [st : OrderStates, id : BOOLEAN] :
           /\ reply \in Replies(st)
           /\ answer' = [answer EXCEPT ![c] = IF call = [pc |-> "transport", cmd |-> c]
                                              THEN {reply} ELSE {}]
           /\ \/ c \in Places /\ st = "OPEN" /\ remote' = [remote EXCEPT ![o] = "OPEN"]
              \/ c \in Places /\ st = "REJECTED" /\ remote' = remote
              \/ /\ c \in Cancels /\ remote[o] = "OPEN" /\ st = "CANCELED"
                 /\ remote' = [remote EXCEPT ![o] = "CANCELED"]
              \/ c \in Cancels /\ remote[o] # "OPEN" /\ st = remote[o] /\ remote' = remote
    BY DEF Process, Inv, TypeOK, Replies, OrderStates
  <1>2. /\ reply.st \in {st, "none"}
        /\ reply \in [st : OrderStates, id : BOOLEAN]
    BY <1>1 DEF Replies, OrderStates
  <1>3. /\ c \in wire /\ wire' = wire \ {c}
        /\ UNCHANGED <<local, results, recorded, durable, call, outcome, sent, rec>>
    BY DEF Process
  <1>4. remote' \in [Orders -> {"none", "OPEN", "FILLED", "CANCELED"}]
    BY <1>1 DEF Inv, TypeOK
  <1>5. TypeOK'
    BY <1>1, <1>2, <1>3, <1>4 DEF Inv, TypeOK
  <1>6. KeysInv' /\ SentInv'
    BY <1>3 DEF Inv, TypeOK, KeysInv, SentInv
  <1>7. sent[c] > 0 /\ o \in Orders /\ \A x \in Orders : x # o => remote'[x] = remote[x]
    BY <1>1, <1>3 DEF Inv, TypeOK, SentInv
  <1>8. remote[o] # "none" => remote'[o] # "none"
    BY <1>1, <1>7 DEF Inv, TypeOK
  <1>9. ASSUME NEW p \in Places, OrderOf[p] = o, p # c, p \in wire
        PROVE  c \in Cancels
    BY <1>3, <1>7, <1>9 DEF Inv, TypeOK, KeysInv, SentInv
  <1>10. PlacementInv'
    BY <1>1, <1>3, <1>7, <1>9 DEF Inv, TypeOK, SentInv, PlacementInv
  <1>11. AnswerInv'
    <2>1. ASSUME NEW d \in Commands, d # c, NEW r \in answer[d]
          PROVE  /\ r.st = "OPEN" => remote'[OrderOf[d]] # "none"
                 /\ r.st \in {"FILLED", "CANCELED"} => remote'[OrderOf[d]] = r.st
                 /\ r.st = "REJECTED" => d \in Places /\ d \notin wire' /\ remote'[OrderOf[d]] = "none"
      <3>1. call.pc = "transport" /\ call.cmd = d
        BY <2>1 DEF Inv, AnswerInv
      <3>2. OrderOf[d] = o => d \in Cancels
        BY <1>7, <2>1, <3>1 DEF Inv, PlacementInv
      <3>3. c \in Places => remote[o] = "none"
        BY <1>3 DEF Inv, PlacementInv
      <3>4. /\ r.st = "OPEN" => remote[OrderOf[d]] # "none"
            /\ r.st \in {"FILLED", "CANCELED"} => remote[OrderOf[d]] = r.st
            /\ r.st = "REJECTED" => d \in Places /\ d \notin wire /\ remote[OrderOf[d]] = "none"
        BY <2>1 DEF Inv, AnswerInv
      <3>5. CASE OrderOf[d] # o
        BY <1>3, <1>7, <3>4, <3>5, <2>1
      <3>6. CASE OrderOf[d] = o
        BY <1>1, <1>7, <3>2, <3>3, <3>4, <3>6, <2>1 DEF Inv, TypeOK
      <3>. QED  BY <3>5, <3>6
    <2>2. ASSUME NEW r \in answer'[c]
          PROVE  /\ call.pc = "transport" /\ call.cmd = c
                 /\ r.st = "OPEN" => remote'[o] # "none"
                 /\ r.st \in {"FILLED", "CANCELED"} => remote'[o] = r.st
                 /\ r.st = "REJECTED" => c \in Places /\ c \notin wire' /\ remote'[o] = "none"
      <3>1. r = reply /\ call.pc = "transport" /\ call.cmd = c
        BY <1>1, <2>2 DEF Inv, TypeOK
      <3>2. c \in Places => remote[o] = "none"
        BY <1>3 DEF Inv, PlacementInv
      <3>. QED  BY <1>1, <1>2, <1>3, <1>7, <3>1, <3>2 DEF Inv, TypeOK
    <2>3. \A d \in Commands : d # c => answer'[d] = answer[d]
      BY <1>1 DEF Inv, TypeOK
    <2>. QED  BY <1>3, <2>1, <2>2, <2>3 DEF Inv, AnswerInv
  <1>12. EndInv'
    BY <1>3, <1>7, <1>8 DEF Inv, TypeOK, EndInv
  <1>13. AnswersAreTheBrokers' /\ ReadInv'
    <2>1. local[o].st # "REJECTED"
      BY <1>3, <1>7 DEF Inv, AnswersAreTheBrokers
    <2>2. c \in Places => remote[o] = "none"
      BY <1>3 DEF Inv, PlacementInv
    <2>3. local[o].st \in {"FILLED", "CANCELED"} => remote'[o] = remote[o]
      BY <1>1, <1>7, <2>2 DEF Inv, AnswersAreTheBrokers
    <2>4. AnswersAreTheBrokers'
      BY <1>3, <1>7, <1>8, <2>1, <2>3 DEF Inv, AnswersAreTheBrokers
    <2>5. ReadInv'
      BY <1>3, <1>7, <1>8 DEF Inv, ReadInv
    <2>. QED  BY <2>4, <2>5
  <1>. QED  BY <1>5, <1>6, <1>10, <1>11, <1>12, <1>13 DEF Inv

LEMMA FillKeepsInv == ASSUME Inv, NEW o \in Orders, Fill(o) PROVE Inv'
  <1> USE CommandsAssumption DEF Commands, Cancelling, adapter, service
  <1>1. /\ remote[o] = "OPEN" /\ remote'[o] = "FILLED"
        /\ \A x \in Orders : x # o => remote'[x] = remote[x]
        /\ UNCHANGED <<local, results, recorded, durable, call, outcome, wire, answer, sent, rec>>
    BY DEF Inv, TypeOK, Fill
  <1>2. TypeOK'
    BY DEF Inv, TypeOK, Fill
  <1>3. KeysInv' /\ SentInv' /\ PlacementInv'
    BY <1>1 DEF Inv, TypeOK, KeysInv, SentInv, PlacementInv
  <1>4. AnswerInv' /\ EndInv' /\ AnswersAreTheBrokers' /\ ReadInv'
    BY <1>1 DEF Inv, TypeOK, AnswerInv, EndInv, AnswersAreTheBrokers, ReadInv
  <1>. QED  BY <1>2, <1>3, <1>4 DEF Inv

-----------------------------------------------------------------------------
LEMMA NextKeepsInv == Inv /\ [Next]_vars => Inv'
  <1> SUFFICES ASSUME Inv, [Next]_vars PROVE Inv'
    OBVIOUS
  <1>1. CASE Write
    BY <1>1, AskKeepsInv, ListedKeepsInv, BuildKeepsInv, EnterKeepsInv, RecordKeepsInv,
       RecordFailsKeepsInv, FindKeepsInv, AuthorizedKeepsInv, DeniedKeepsInv,
       MisauthorizedKeepsInv, AnsweredKeepsInv, UnreadableKeepsInv, UnansweredKeepsInv,
       InterruptedKeepsInv DEF Write
  <1>2. CASE UNCHANGED vars
    BY <1>2 DEF vars, adapter, service, broker, Inv, TypeOK, KeysInv, SentInv, PlacementInv,
                AnswerInv, EndInv, AnswersAreTheBrokers, ReadInv, Cancelling
  <1>. QED  BY <1>1, <1>2, ReconciliationKeepsInv, ProcessKeepsInv, FillKeepsInv DEF Next

\* Inv is an invariant of the adapter, for any commands and catalogues.
THEOREM LiveBrokerInvariant == Spec => []Inv
  BY InitEstablishesInv, NextKeepsInv, PTL DEF Spec

\* Whatever times out, fails, is interrupted and is asked again, the writes of one
\* idempotency key leave the process at most once and only after the command was
\* stored, whatever commands share the key.
THEOREM WritesLeaveOnce == Spec => []TransmittedOnce
  <1>1. Inv => TransmittedOnce
    BY CommandsAssumption DEF Inv, TypeOK, KeysInv, SentInv, TransmittedOnce
  <1>. QED  BY <1>1, LiveBrokerInvariant, PTL

\* An order has an end or an open state in memory only if the broker gave it that
\* state, and a rejected one is not at the broker and not on its way there.
THEOREM MemoryFollowsTheBroker == Spec => []AnswersAreTheBrokers
  <1>1. Inv => AnswersAreTheBrokers
    BY DEF Inv
  <1>. QED  BY <1>1, LiveBrokerInvariant, PTL

\* No reconcile() succeeds while a placement that ended in SubmissionUnknownError is not
\* at the broker, however the reads, the write and its late processing overlap.
THEOREM LostWriteIsNeverReconciled == Spec => LostWriteBlocksReconcile
  <1> DEFINE A == rec.pc = "compare" /\ rec'.pc = "successful" =>
                     \A c \in Places : outcome'[c] = "unknown" => remote'[OrderOf[c]] # "none"
  <1>1. Inv /\ [Next]_vars => [A]_vars
    <2> SUFFICES ASSUME Inv, Next, rec.pc = "compare", rec'.pc = "successful",
                        NEW c \in Places, outcome'[c] = "unknown", remote'[OrderOf[c]] = "none"
                 PROVE  FALSE
      OBVIOUS
    <2>1. Reconcile
      BY DEF Next, Write, Reconciliation, Ask, Listed, Build, Enter, Record, RecordFails, Find,
             Authorized, Denied, Misauthorized, Answered, Unreadable, Unanswered, Interrupted,
             ReconcileBegin, ReconcileListed, ReconcileRead, ReconcileFails, Reported,
             Process, Fill, IdleRec
    <2>2. Discrepancies = {} /\ outcome[c] = "unknown" /\ remote[OrderOf[c]] = "none"
      BY <2>1 DEF Reconcile, IdleRec, service, broker
    <2>3. OrderOf[c] \in Orders /\ local[OrderOf[c]].st = "SUBMISSION_UNKNOWN"
      BY <2>2, CommandsAssumption DEF Inv, EndInv, Commands
    <2>4. OrderOf[c] \in rec.ids
      BY <2>2, <2>3 DEF Discrepancies
    <2>. QED  BY <2>2, <2>4 DEF Inv, ReadInv
  <1>. QED  BY <1>1, LiveBrokerInvariant, PTL DEF Spec, LostWriteBlocksReconcile
=============================================================================
