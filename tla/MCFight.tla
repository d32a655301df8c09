------------------------------ MODULE MCFight ------------------------------
(* A dummy alone, then a rookie beside a dummy.                            *)
EXTENDS Fight

SmallWaves == <<<<"dummy">>, <<"rookie", "dummy">>>>
=============================================================================
