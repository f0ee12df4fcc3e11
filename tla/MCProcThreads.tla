----------------------------- MODULE MCProcThreads -----------------------------
(* Model-checking instance of ProcThreads.                                  *)
EXTENDS ProcThreads, TLC

CONSTANTS c1, c2

TwoCalls == {c1, c2}
OneCall == {c1}
TwoThreads == {1, 2}
ThreeThreads == {1, 2, 3}

\* The calls are alike; threads are not, since the synchronous form sorts them.
CallsAreAlike == Permutations(TwoCalls)
================================================================================
