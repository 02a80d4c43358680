--------------------------- MODULE MCShadowLedger ---------------------------
EXTENDS ShadowLedger

Quote(id, inst, eff, obs, bid, ask, size) ==
    [id |-> id, inst |-> inst, eff |-> eff, obs |-> obs,
     bid |-> bid, ask |-> ask, size |-> size]

Order(side, inst, qty, limit) ==
    [side |-> side, inst |-> inst, qty |-> qty, limit |-> limit]

\* Two instruments that share one cash account; i1 expires on day 0, i2 on day 1.
\* Entries in i1 fill at 12 or, at the limit, at 36; i2 is touched at its limit
\* only, so that a buy of two contracts may fill in part, twice or not at all.
MCTerms == {Order("BUY", "i1", 1, 36), Order("BUY", "i2", 2, 12),
            Order("SELL", "i1", 1, 24)}
MCFeed == {Quote(1, "i1", 1, 1, 12, 12, NoSize), Quote(2, "i2", 1, 1, 12, 12, NoSize),
           Quote(3, "i1", 2, 2, 36, 36, 2), Quote(4, "i2", 2, 1, 12, 12, 2)}
MCExpiration == [i \in Instruments |-> IF i = "i1" THEN 0 ELSE 1]

Symmetry == Permutations(Keys \ CancelKeys)
=============================================================================
