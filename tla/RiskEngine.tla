------------------------------ MODULE RiskEngine ------------------------------
(***************************************************************************)
(* RiskEngine.evaluate (app/risk/engine.py): a pure verdict on one proposal *)
(* against an account snapshot, the current quote and the clock.            *)
(* Environment, version and authentication mismatches cannot arise inside   *)
(* one runtime and are left out, and so is the open interest and volume of  *)
(* the quote.                                                              *)
(***************************************************************************)
EXTENDS Integers

CONSTANT Limits     \* contracts, premium, openRisk, positions, entries, spread, quoteAge

ASSUME LimitsAssumption ==
    \A f \in {"contracts", "premium", "openRisk", "positions", "entries", "quoteAge"} :
        Limits[f] \in Nat \ {0}

quote_fresh(q, now) == q.obs <= now /\ now - q.obs <= Limits.quoteAge /\ q.eff <= q.obs

\* The spread as a percentage of the ask.
spread_within(q, percent) == q.ask > 0 /\ (q.ask - q.bid) * 100 <= percent * q.ask

entry_allowed(terms, account, q) ==
    LET proposed_loss == terms.limit * terms.qty
    IN /\ terms.qty <= Limits.contracts
       /\ proposed_loss <= Limits.premium
       /\ account.open_risk + proposed_loss <= Limits.openRisk
       /\ account.open_positions < Limits.positions
       /\ account.entries_today < Limits.entries
       /\ account.cash >= proposed_loss
       /\ account.buying_power >= proposed_loss
       /\ q.bid > 0
       /\ spread_within(q, Limits.spread)

\* An exit needs fresh evidence of the exact quote only.
risk_allows(terms, account, q, now) ==
    /\ quote_fresh(q, now)
    /\ q.id = terms.quote
    /\ terms.side = "BUY" => entry_allowed(terms, account, q)
=============================================================================
