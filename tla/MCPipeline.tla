----------------------------- MODULE MCPipeline -----------------------------
(* Small instances of Pipeline for TLC. *)
EXTENDS Pipeline

CONSTANTS c1, SPX, g1

MCOptionIds == {c1}
MCTickers == {SPX}
MCGreeks == {g1}
MCNoGreeks == {}

(* Two-sided, one-sided and empty quotes; the marks come out 6 and 2. *)
MCQuotes == {<<2, 4>>, <<None, 1>>, <<None, None>>}
MCOneQuote == {<<2, 4>>}
=============================================================================
