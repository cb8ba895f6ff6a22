-------------------------- MODULE MCLiveUnderlying --------------------------
(* Small instances of LiveUnderlying for TLC. *)
EXTENDS LiveUnderlying

MCOrder == <<"VIX">>
MCZeroed == {<<"VIX", 2>>}
MCBackfills == {<<"VIX", 1>>}
=============================================================================
