------------------------------ MODULE LedgerOps ------------------------------
(***************************************************************************)
(* The operations of ShadowLedger (app/broker/shadow_ledger.py) as         *)
(* functions from one ledger to the next.  A ledger is a record: the cash, *)
(* the orders in the sequence in which they were accepted (the iteration   *)
(* order of the dictionary), the idempotency map (0 is an absent key), the *)
(* positions (quantity 0 is an absent one), the last quote of each         *)
(* instrument, the daily admissions, the fills and the profit and loss.    *)
(*                                                                         *)
(* A price is the price of one contract, the multiplier included.  Time is *)
(* counted in ticks, DayLength of them to a market day.  The terms of an   *)
(* order are data of its command; the one time in force is DAY, the only   *)
(* one the placement schema accepts.                                       *)
(***************************************************************************)
EXTENDS Integers, Sequences, FiniteSetsExt, SequencesExt

CONSTANTS Keys,          \* idempotency keys of commands
          Instruments,   \* option instruments
          Expiration,    \* the expiration day of each instrument
          InitialCash,   \* the cash a new ledger starts with
          DayLength,     \* ticks in a market day
          MaxQuoteAge    \* ticks after which a quote may not fill an order

ASSUME LedgerAssumption ==
    /\ InitialCash \in Nat
    /\ DayLength \in Nat \ {0}
    /\ MaxQuoteAge \in Nat
    /\ IsFiniteSet(Instruments)
    /\ Expiration \in [Instruments -> Nat]

OpenStates == {"OPEN", "PARTIAL"}
NoQuote == [id |-> 0, eff |-> -1]
NoSize == -1
NoPosition == [qty |-> 0, avg |-> 0, realized |-> 0]

Sides == {"BUY", "SELL"}
Quotes == [id : Nat \ {0}, inst : Instruments, eff : Nat, obs : Nat,
           bid : Nat, ask : Nat, size : Nat \cup {NoSize}]

\* A feed the ledger can order: an identity names one quote, and the effective times of
\* the quotes of an instrument are distinct.
Orderly(feed) ==
    /\ feed \subseteq Quotes
    /\ \A q, r \in feed : q.id = r.id => q = r
    /\ \A q, r \in feed : q.inst = r.inst /\ q.eff = r.eff => q = r

\* _MARKET_TZ date of an instant.
Day(t) == t \div DayLength

NewLedger ==
    [cash |-> InitialCash, orders |-> <<>>, keys |-> [k \in Keys |-> 0],
     pos |-> [i \in Instruments |-> NoPosition],
     quotes |-> [i \in Instruments |-> NoQuote],
     entries |-> {}, fills |-> <<>>, realized |-> 0,
     closed |-> [i \in Instruments |-> 0], deposits |-> 0]

\* The sum of the values of a function.
Total(f) == MapThenSumSet(LAMBDA x : f[x], DOMAIN f)

Remaining(o) == o.qty - o.filled

working(o, side) == o.st \in OpenStates /\ o.side = side

Working(L, side) == {k \in DOMAIN L.orders : working(L.orders[k], side)}

\* What an order sets aside until it ends: the cash of a buy, the contracts of a sale.
cash_set_aside(o) == IF working(o, "BUY") THEN Remaining(o) * o.limit ELSE 0

contracts_set_aside(o, i) == IF working(o, "SELL") /\ o.inst = i THEN Remaining(o) ELSE 0

\* Mutant of reserved_buying_power: an order filled in part reserves nothing.
MutReservesOpenOnly(L) ==
    Total([k \in DOMAIN L.orders |->
             IF L.orders[k].st = "OPEN" THEN cash_set_aside(L.orders[k]) ELSE 0])

reserved_buying_power(L) ==
    Total([k \in DOMAIN L.orders |-> cash_set_aside(L.orders[k])])

buying_power(L) == L.cash - reserved_buying_power(L)

available_position_quantity(L, i) ==
    L.pos[i].qty - Total([k \in DOMAIN L.orders |-> contracts_set_aside(L.orders[k], i)])

\* What the positions cost.
cost_basis(L) == Total([i \in Instruments |-> L.pos[i].avg * L.pos[i].qty])

\* Mutant of account_snapshot: an entry that waits for its fill is not at risk yet.
MutHeldOnly(L, now) ==
    [cash |-> L.cash, buying_power |-> Max({0, buying_power(L)}),
     open_risk |-> cost_basis(L),
     open_positions |-> Cardinality({i \in Instruments : L.pos[i] # NoPosition}),
     entries_today |-> Cardinality({e \in L.entries : e[1] = Day(now)})]

\* What the risk rules see: working entries count as risk and as positions.
account_snapshot(L, now) ==
    [cash |-> L.cash, buying_power |-> Max({0, buying_power(L)}),
     open_risk |-> cost_basis(L) + reserved_buying_power(L),
     open_positions |-> Cardinality({i \in Instruments : L.pos[i] # NoPosition}
                                      \cup {L.orders[k].inst : k \in Working(L, "BUY")}),
     entries_today |-> Cardinality({e \in L.entries : e[1] = Day(now)})]

\* The issues a reconciliation report names; restore_state refuses a snapshot
\* that has one.
invariant_discrepancies(L) ==
    (IF L.cash < 0 THEN {<<"negative cash">>} ELSE {})
      \cup (IF buying_power(L) < 0 THEN {<<"reservations exceed cash">>} ELSE {})
      \cup {<<"order", k>> : k \in {k \in DOMAIN L.orders :
               \/ L.orders[k].filled \notin 0..L.orders[k].qty
               \/ L.orders[k].st = "FILLED" /\ Remaining(L.orders[k]) # 0}}
      \cup {<<"position", i>> : i \in {i \in Instruments :
               /\ L.pos[i] # NoPosition
               /\ L.pos[i].qty <= 0 \/ available_position_quantity(L, i) < 0}}

-----------------------------------------------------------------------------
\* Placement, cancellation, deposit.

rejects(L, terms, now) ==
    \/ Expiration[terms.inst] < Day(now)
    \/ terms.side = "BUY" /\ terms.limit * terms.qty > buying_power(L)
    \/ terms.side = "SELL" /\ terms.qty > available_position_quantity(L, terms.inst)

\* The broker's review of a proposal, before anything is written.
review_accepts(L, terms, now) ==
    LET q == L.quotes[terms.inst]
    IN /\ Expiration[terms.inst] >= Day(now)
       /\ q # NoQuote /\ q.id = terms.quote
       /\ q.eff <= now /\ q.obs <= now /\ now - q.obs <= MaxQuoteAge
       /\ terms.side = "BUY" => terms.limit * terms.qty <= buying_power(L)
       /\ terms.side = "SELL" => terms.qty <= available_position_quantity(L, terms.inst)

\* A known idempotency key returns its order and changes nothing.
duplicate_order(L, key) == L.keys[key] # 0

\* A new buy is admitted against its day at once.
submit(L, key, terms, now) ==
    LET n == Len(L.orders) + 1
        bad == rejects(L, terms, now)
        order == [key |-> key, side |-> terms.side, inst |-> terms.inst,
                  qty |-> terms.qty, limit |-> terms.limit, filled |-> 0,
                  at |-> now, st |-> IF bad THEN "REJECTED" ELSE "OPEN"]
    IN IF duplicate_order(L, key) THEN L
       ELSE [L EXCEPT !.orders = Append(@, order),
                      !.keys[key] = n,
                      !.entries = IF bad \/ terms.side = "SELL" THEN @
                                  ELSE @ \cup {<<Day(now), n>>}]

cancel(L, key, n) ==
    IF duplicate_order(L, key) THEN L
    ELSE [L EXCEPT !.keys[key] = n,
                   !.orders[n].st = IF @ \in OpenStates THEN "CANCELED" ELSE @]

deposit(L, amount) == [L EXCEPT !.cash = @ + amount, !.deposits = @ + amount]

-----------------------------------------------------------------------------
\* Quotes.  The deterministic queue gate at the limit is the parameter hits:
\* the keys of the orders whose hash sample lets a touch of the limit fill.

executable_price(o, q) == IF o.side = "BUY" THEN q.ask ELSE q.bid

improved(o, q) ==
    IF o.side = "BUY" THEN q.ask > 0 /\ q.ask < o.limit ELSE q.bid > o.limit

touched(o, q) == executable_price(o, q) > 0 /\ executable_price(o, q) = o.limit

\* ConservativeFillModel: half of the displayed size, one contract at least,
\* one contract when the size is unknown.
evaluate(o, q, hits) ==
    IF /\ improved(o, q) \/ (touched(o, q) /\ o.key \in hits)
       /\ q.size # 0
    THEN Min({Remaining(o), IF q.size = NoSize THEN 1 ELSE Max({1, q.size \div 2})})
    ELSE 0

\* Mutant of observe_raises: an older quote is accepted.
MutAcceptsOlder(L, q, now) == q.eff > now \/ q.obs > now

\* The quotes the ledger refuses: from the future, or older than the last one.
observe_raises(L, q, now) ==
    \/ q.eff > now \/ q.obs > now
    \/ L.quotes[q.inst].id # q.id /\ q.eff < L.quotes[q.inst].eff

\* How many contracts of order k the quote fills.  An order cannot be filled by
\* the event it was decided on, or by an earlier one, or by a stale quote.
fill_quantity(L, k, q, now, hits) ==
    LET o == L.orders[k]
    IN IF /\ o.inst = q.inst /\ o.st \in OpenStates
          /\ q.eff > o.at
          /\ now - q.obs <= MaxQuoteAge
       THEN evaluate(o, q, hits) ELSE 0

\* Mutant of enter: an addition keeps the first average price.
MutKeepsAverage(p, quantity, price) ==
    [p EXCEPT !.qty = @ + quantity, !.avg = IF p.qty = 0 THEN price ELSE @]

enter(p, quantity, price) ==
    [p EXCEPT !.qty = @ + quantity,
              !.avg = (@ * p.qty + price * quantity) \div (p.qty + quantity)]

\* What is left of a position after a sale; a closed one is removed.
leave(p, quantity, price) ==
    IF quantity = p.qty THEN NoPosition
    ELSE [p EXCEPT !.qty = @ - quantity, !.realized = @ + (price - p.avg) * quantity]

\* One fill applied to the accounts: the cash, the position, the profit, the record
\* of it.  "raised" is the SafetyCriticalError of a fill the accounts do not cover.
apply_fill(acc, f) ==
    LET p == acc.pos[f.inst]
        gain == (f.price - p.avg) * f.qty
    IN IF acc.raised \/ f.qty = 0 THEN acc
       ELSE IF f.side = "BUY"
       THEN IF f.price * f.qty > acc.cash THEN [acc EXCEPT !.raised = TRUE]
            ELSE [acc EXCEPT !.cash = @ - f.price * f.qty,
                             !.pos[f.inst] = enter(@, f.qty, f.price),
                             !.fills = Append(@, f)]
       ELSE IF f.qty > p.qty THEN [acc EXCEPT !.raised = TRUE]
            ELSE [acc EXCEPT
                    !.cash = @ + f.price * f.qty,
                    !.realized = @ + gain,
                    !.closed[f.inst] = IF f.qty = p.qty THEN @ + p.realized + gain ELSE @,
                    !.pos[f.inst] = leave(@, f.qty, f.price),
                    !.fills = Append(@, f)]

\* The fill of order k, of quantity 0 when the quote fills none of it.
fill_of(L, k, q, now, hits) ==
    [order |-> k, key |-> L.orders[k].key, quote |-> q.id, inst |-> q.inst,
     side |-> L.orders[k].side, at |-> now,
     price |-> executable_price(L.orders[k], q),
     qty |-> fill_quantity(L, k, q, now, hits)]

\* The loop over the orders: after[k] are the accounts once the first k had their turn.
accounts(L, q, now, hits) ==
    LET after[k \in 0..Len(L.orders)] ==
          IF k = 0
          THEN [cash |-> L.cash, pos |-> L.pos, realized |-> L.realized,
                closed |-> L.closed, fills |-> L.fills, raised |-> FALSE]
          ELSE apply_fill(after[k - 1], fill_of(L, k, q, now, hits))
    IN after[Len(L.orders)]

fill_order(o, quantity) ==
    IF quantity = 0 THEN o
    ELSE [o EXCEPT !.filled = @ + quantity,
                   !.st = IF o.filled + quantity = o.qty THEN "FILLED" ELSE "PARTIAL"]

\* A quote seen before changes nothing.
observe_quote(L, q, now, hits) ==
    LET acc == accounts(L, q, now, hits)
        filled == {k \in DOMAIN L.orders : fill_quantity(L, k, q, now, hits) > 0}
    IN IF L.quotes[q.inst].id = q.id THEN L
       ELSE [L EXCEPT
               !.quotes[q.inst] = q,
               !.cash = acc.cash, !.pos = acc.pos,
               !.realized = acc.realized, !.closed = acc.closed,
               !.orders = [k \in DOMAIN @ |->
                             fill_order(@[k], fill_quantity(L, k, q, now, hits))],
               !.entries = @ \cup {<<Day(now), k>> :
                                     k \in {j \in filled : L.orders[j].side = "BUY"}},
               !.fills = acc.fills]

-----------------------------------------------------------------------------
\* Expiration of day d: day orders of that day or before, orders and positions
\* of contracts that have expired.  price is the settlement per contract, 0
\* when the policy is not to exercise.
expire(L, d, price) ==
    LET due == {i \in Instruments : L.pos[i] # NoPosition /\ Expiration[i] <= d}
        gain(i) == (price - L.pos[i].avg) * L.pos[i].qty
        ends(o) == o.st \in OpenStates /\ (Day(o.at) <= d \/ Expiration[o.inst] <= d)
    IN [L EXCEPT
          !.orders = [k \in DOMAIN @ |->
                        IF ends(@[k]) THEN [@[k] EXCEPT !.st = "EXPIRED"] ELSE @[k]],
          !.cash = @ + Total([i \in due |-> price * L.pos[i].qty]),
          !.realized = @ + Total([i \in due |-> gain(i)]),
          !.closed = [i \in Instruments |->
                        IF i \in due THEN @[i] + L.pos[i].realized + gain(i) ELSE @[i]],
          !.pos = [i \in Instruments |-> IF i \in due THEN NoPosition ELSE @[i]]]
=============================================================================
