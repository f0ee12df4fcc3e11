----------------------------- MODULE MCNativeCalls -----------------------------
(* Model-checking instance of NativeCalls.                                  *)
EXTENDS NativeCalls

CONSTANTS c1, c2, c3

ThreeCalls == {c1, c2, c3}
\* Every function beside an asynchronous one, and the three asynchronous ones.
Combined ==
    {[c \in {c1, c2, c3} |-> IF c = c1 THEN "cpu_times"
                             ELSE IF c = c2 THEN "per_cpu_times" ELSE k] : k \in Kinds}
Processors == {2, 3}
================================================================================
