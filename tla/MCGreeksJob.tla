---------------------------- MODULE MCGreeksJob ----------------------------
(* Small instances of GreeksJob for TLC. *)
EXTENDS GreeksJob

CONSTANTS scheduled, manual

MCJobs == {scheduled, manual}
MCKeys == 1..2
MCMinutes == 1..2
MCMinuteOf == <<1, 2>>
MCTickerOf == <<"SPX", "SPX">>
MCTickers == {"SPX"}
Bar(iv, close, greeks) == [iv |-> iv, close |-> close, greeks |-> greeks]
(* A row with a price only; one with a volatility, or with Greeks. *)
MCArrivals ==
  <<{Bar(None, "good", None)},
    {Bar("good", None, None), Bar("good", "good", "live")}>>
MCLimits == {1, 2}
=============================================================================
