---------------------------- MODULE MCOracleFeed ----------------------------
(* OracleFeed with one vault. Messages come with three or with four decimals *)
(* of a price, so that some are rounded.                                     *)
EXTENDS OracleFeed

CONSTANT v1

MCVault == {v1}
MCFeed == {"usdc"}
MCFeedOf == [v \in MCVault |-> "usdc"]

Posted(value, conf, exponent) ==
  [value |-> value, conf |-> conf, exponent |-> exponent, readable |-> TRUE]

\* At the peg, off it by more than the deviation a step leaves, and with a
\* confidence too wide for mint.
MCMessages ==
  {Posted(1000, 5, -3), Posted(10395, 5, -4), Posted(1000, 30, -3)}

MCManualQuotes == {[price |-> 1000, confidence |-> 5]}
=============================================================================
