---------------------------- MODULE ShadowLedger ----------------------------
(***************************************************************************)
(* ShadowLedger (app/broker/shadow_ledger.py) driven by any sequence of    *)
(* legal calls: every call is synchronous, so each is one action.  The     *)
(* feed is a finite set of quotes, any of which may be delivered at any    *)
(* time, late, twice or out of order.                                      *)
(***************************************************************************)
EXTENDS LedgerOps

CONSTANTS CancelKeys,    \* the keys of cancel commands, the other Keys place orders
          Terms,         \* the terms commands may have
          Feed,          \* the quotes of the market feed
          Settlements,   \* settlement prices of expired positions, 0 among them
          Amounts,       \* deposits
          MaxTime,       \* bound of the clock
          MaxDeposits    \* bound of the deposited total

ASSUME FeedAssumption ==
    /\ CancelKeys \subseteq Keys
    /\ Terms \subseteq [side : Sides, inst : Instruments, qty : Nat \ {0}, limit : Nat]
    /\ Orderly(Feed)
    /\ Settlements \subseteq Nat /\ Amounts \subseteq Nat
    /\ MaxTime \in Nat /\ MaxDeposits \in Nat

VARIABLES ledger, now, raised
ledgerVars == <<ledger, now, raised>>

LedgerInit == ledger = NewLedger /\ now = 0 /\ raised = FALSE

Tick == now < MaxTime /\ now' = now + 1 /\ UNCHANGED <<ledger, raised>>

Submit(key, terms) ==
    /\ key \notin CancelKeys
    /\ ledger' = submit(ledger, key, terms, now)
    /\ UNCHANGED <<now, raised>>

Cancel(key, n) ==
    /\ key \in CancelKeys
    /\ ledger' = cancel(ledger, key, n)
    /\ UNCHANGED <<now, raised>>

Deposit(amount) ==
    /\ ledger.deposits + amount <= MaxDeposits
    /\ ledger' = deposit(ledger, amount)
    /\ UNCHANGED <<now, raised>>

\* A fill the accounts do not cover raises inside the loop over the orders and
\* leaves a ledger no caller may use: the error is all that is kept of it.
ObserveQuote(q, hits) ==
    /\ ~observe_raises(ledger, q, now)
    /\ LET fails == accounts(ledger, q, now, hits).raised
       IN /\ ledger' = IF fails THEN ledger ELSE observe_quote(ledger, q, now, hits)
          /\ raised' = (raised \/ fails)
    /\ UNCHANGED now

\* expire() for today, the default, or for an earlier day.
Expire(d, price) ==
    /\ d <= Day(now)
    /\ ledger' = expire(ledger, d, price)
    /\ UNCHANGED <<now, raised>>

\* The orders whose limit the quote touches: the queue gate decides on these.
TouchedKeys(q) ==
    {ledger.orders[k].key :
        k \in {k \in DOMAIN ledger.orders : touched(ledger.orders[k], q)}}

LedgerNext ==
    \/ Tick
    \/ \E key \in Keys : \/ \E terms \in Terms : Submit(key, terms)
                         \/ \E n \in DOMAIN ledger.orders : Cancel(key, n)
    \/ \E amount \in Amounts : Deposit(amount)
    \/ \E q \in Feed : \E hits \in SUBSET TouchedKeys(q) : ObserveQuote(q, hits)
    \/ \E d \in 0..Day(now), price \in Settlements : Expire(d, price)

LedgerSpec == LedgerInit /\ [][LedgerNext]_ledgerVars

-----------------------------------------------------------------------------
\* Reservations suffice: whatever was accepted, cancelled, filled in part or
\* expired before, no quote reaches "simulated fill would make cash negative" or
\* "sell fill exceeds the simulated long position", and the ledger's own
\* reconciliation finds nothing.
Solvent == ~raised /\ invariant_discrepancies(ledger) = {}

\* No money is made or lost outside the books: cash and the cost of what is held
\* are the money put in and the profit realized, and the profit is what the
\* instruments earned, closed positions and open ones together.
BooksBalance ==
    /\ ledger.cash + cost_basis(ledger) = InitialCash + ledger.deposits + ledger.realized
    /\ ledger.realized
         = Total([i \in Instruments |-> ledger.closed[i] + ledger.pos[i].realized])

\* A quote delivered again, at once or after later ones, fills no order a second
\* time, though the ledger remembers one quote of each instrument only.
QuoteFillsOnce ==
    \A i, j \in DOMAIN ledger.fills :
        /\ ledger.fills[i].order = ledger.fills[j].order
        /\ ledger.fills[i].quote = ledger.fills[j].quote
        => i = j

=============================================================================
