-------------------------- MODULE MCMarketResearch --------------------------
EXTENDS MarketResearch

\* A change, an unchanged later quote, two conflicting quotes of one instant, and
\* a return to the first quote; the option's quote goes stale at time 2.
EquityQuotes ==
    {[eff |-> 0, obs |-> 0, val |-> "a"], [eff |-> 1, obs |-> 1, val |-> "a"],
     [eff |-> 1, obs |-> 1, val |-> "b"]}
ChainQuotes == {[eff |-> 0, obs |-> 0, val |-> "a"]}

MCQuotes == [s \in {"equity", "option"} |-> IF s = "equity" THEN EquityQuotes ELSE ChainQuotes]
MCWatch == <<"equity", "option">>
=============================================================================
