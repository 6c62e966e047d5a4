--------------------------- MODULE MCTradingAgent ---------------------------
(* Small instances of TradingAgent for TLC.                                *)
EXTENDS TradingAgent, TLC

CONSTANTS c1, c2, eurusd, gbpusd

\* One instrument each: the sweep walks two unknown orders.
TwoInstruments == [c \in Coids |-> IF c = c1 THEN eurusd ELSE gbpusd]

\* Exchanging both intents together with their instruments changes nothing.
Exchange == {p \in Permutations({c1, c2, eurusd, gbpusd}) :
               \/ \A x \in DOMAIN p : p[x] = x
               \/ p[c1] = c2 /\ p[c2] = c1 /\ p[eurusd] = gbpusd /\ p[gbpusd] = eurusd}
=============================================================================
