-------------------------- MODULE MCOfflineRuntime --------------------------
EXTENDS OfflineRuntime

Quote(id, inst, eff, obs, bid, ask, size) ==
    [id |-> id, inst |-> inst, eff |-> eff, obs |-> obs,
     bid |-> bid, ask |-> ask, size |-> size]

MCExpiration == [i \in Instruments |-> 9]

\* The first two entries do not fit the risk budget together while both wait; the
\* last two fit it but not the day's budget of entries.
MCCandidates == <<1, 2, 3, 4>>

\* Two entries on i1 fill at different prices, the third group reaches the loss
\* threshold and the last two fill the exit in parts.  The exit of i2 falls due in the
\* second group, and the third has no newer quote of i2.
MCFixture ==
    <<[at |-> 1, quotes |-> <<Quote(1, "i1", 1, 1, 18, 24, 2),
                              Quote(2, "i2", 1, 1, 12, 18, 2)>>],
      [at |-> 2, quotes |-> <<Quote(3, "i1", 2, 2, 12, 12, NoSize),
                              Quote(4, "i2", 2, 2, 9, 14, 2)>>],
      [at |-> 3, quotes |-> <<Quote(5, "i1", 3, 3, 5, 6, 2)>>],
      [at |-> 4, quotes |-> <<Quote(6, "i1", 4, 4, 18, 24, 2)>>],
      [at |-> 5, quotes |-> <<Quote(7, "i1", 5, 5, 24, 24, 2)>>]>>

MCKeys == {<<"entry", e>> : e \in 1..4} \cup {<<"exit", q>> : q \in 1..7}

MCLimits == [contracts |-> 1, premium |-> 24, openRisk |-> 40, positions |-> 2,
             entries |-> 2, spread |-> 40, quoteAge |-> 1]
MCExitPolicy == [profit |-> 50, loss |-> 35, days |-> 1, spread |-> 40, quoteAge |-> 1]
=============================================================================
