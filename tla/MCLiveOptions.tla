---------------------------- MODULE MCLiveOptions ----------------------------
(* Small instances of LiveOptions for TLC. *)
EXTENDS LiveOptions

CONSTANTS C17, C175, VIX, NDX

MCSymbols == {C17, C175}

(* ".VIX250801C17" is a part of ".VIX250801C17.5". *)
MCContains == [s \in Symbols |-> IF s = C17 THEN {C17, C175} ELSE {s}]

(* Nobody trades C17.5 in the first minute. *)
MCQuoted == [s \in Symbols |-> IF s = C17 THEN 0..9 ELSE 1..9]
MCOrder == <<VIX, NDX>>
MCUnderlying == [c \in Symbols |-> VIX]
MCWindow == Minutes
MCOthers == {<<C17, 0>>}
=============================================================================
