--------------------------- MODULE PositionManager ----------------------------
(***************************************************************************)
(* PositionManager.evaluate_exit (app/positions/manager.py), with the       *)
(* arguments its callers pass: no thesis, catalyst or emergency flag and no *)
(* end-of-day exit.                                                         *)
(***************************************************************************)
EXTENDS Integers

CONSTANT ExitPolicy \* profit and loss in percent of cost, days, spread, quoteAge

ASSUME ExitPolicyAssumption ==
    \A f \in {"profit", "loss", "days", "spread", "quoteAge"} : ExitPolicy[f] \in Nat

pnl(position, price) == (price - position.avg) * position.qty

exit_triggers(position, q, days_remaining) ==
    LET cost == position.avg * position.qty
        gain == pnl(position, q.bid)
    IN (IF cost > 0 /\ gain * 100 >= ExitPolicy.profit * cost THEN {"PROFIT_TARGET"} ELSE {})
       \union (IF cost > 0 /\ gain * 100 <= -ExitPolicy.loss * cost THEN {"LOSS_THRESHOLD"} ELSE {})
       \union (IF days_remaining <= ExitPolicy.days THEN {"DTE_CUTOFF"} ELSE {})
       \union (IF q.bid <= 0 \/ q.ask <= 0 \/ (q.ask - q.bid) * 100 > ExitPolicy.spread * q.ask
               THEN {"LIQUIDITY_DETERIORATION"} ELSE {})

\* An exit is proposed only at a fresh bid.
exit_executable(position, q, days_remaining, now) ==
    /\ exit_triggers(position, q, days_remaining) # {}
    /\ q.obs <= now /\ now - q.obs <= ExitPolicy.quoteAge /\ q.eff <= q.obs
    /\ q.bid > 0
=============================================================================
