----------------------------- MODULE ClosedTrades -----------------------------
(***************************************************************************)
(* ClosedPositionReviewWorker (app/learning/outcomes.py): completed trades  *)
(* derived from the journaled fills alone.  The fills of an instrument form *)
(* cycles from flat to flat; each completed cycle is one outcome.           *)
(***************************************************************************)
EXTENDS Integers, Sequences

flat == [balance |-> 0, cost |-> 0, proceeds |-> 0, fills |-> <<>>]

\* The cycle after one more fill.
extend(c, f) ==
    IF f.side = "BUY"
    THEN [c EXCEPT !.balance = @ + f.qty, !.cost = @ + f.price * f.qty, !.fills = Append(@, f)]
    ELSE [c EXCEPT !.balance = @ - f.qty, !.proceeds = @ + f.price * f.qty,
                   !.fills = Append(@, f)]

\* _outcome: identified by the first entry, with the evidence it rests on.
outcome(c) ==
    [id |-> Head(c.fills), inst |-> Head(c.fills).inst, pnl |-> c.proceeds - c.cost,
     evidence |-> c.fills]

\* Mutant: any exit completes the trade.
advance_on_exit(acc, f) ==
    LET c == extend(acc.cycle, f)
    IN [cycle    |-> IF f.side = "SELL" THEN flat ELSE c,
        done     |-> acc.done \union (IF f.side = "SELL" THEN {outcome(c)} ELSE {}),
        oversold |-> acc.oversold]

\* Mutant: an exit in part is a result already.
advance_in_part(acc, f) ==
    LET c == extend(acc.cycle, f)
    IN [cycle    |-> IF c.balance < 0 THEN acc.cycle ELSE IF c.balance = 0 THEN flat ELSE c,
        done     |-> acc.done \union (IF f.side = "SELL" THEN {outcome(c)} ELSE {}),
        oversold |-> acc.oversold \/ c.balance < 0]

\* One fill of the instrument: back at flat the trade is complete; an exit beyond what is
\* held is an oversell.
advance(acc, f) ==
    LET c == extend(acc.cycle, f)
    IN [cycle    |-> IF c.balance < 0 THEN acc.cycle ELSE IF c.balance = 0 THEN flat ELSE c,
        done     |-> acc.done \union (IF c.balance = 0 THEN {outcome(c)} ELSE {}),
        oversold |-> acc.oversold \/ c.balance < 0]

\* Before the first fill.
NoTrade == [cycle |-> flat, done |-> {}, oversold |-> FALSE]

\* The fills of the other instruments belong to other cycles.
take(acc, f, inst) == IF f.inst = inst THEN advance(acc, f) ELSE acc

\* A review sorts the fills by time and, at one time, by append sequence: the order of
\* the journal itself, as long as its times never go back.
derive_cycles(fills, inst) ==
    LET after[n \in 0..Len(fills)] ==
          IF n = 0 THEN NoTrade ELSE take(after[n - 1], fills[n], inst)
    IN after[Len(fills)]

derive(fills, instruments) == UNION {derive_cycles(fills, i).done : i \in instruments}
=============================================================================
