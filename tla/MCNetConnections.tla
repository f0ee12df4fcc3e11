---------------------------- MODULE MCNetConnections ----------------------------
(* Model-checking instance of NetConnections.                               *)
EXTENDS NetConnections

CONSTANTS s1, s2, s3

OneOfEach == [s \in {s1, s2, s3} |-> IF s = s1 THEN "tcp" ELSE IF s = s2 THEN "udp" ELSE "unix"]
ThreeSocks == {s1, s2, s3}
TwoProcs == {1, 2}
TwoFds == {3, 4}
SomeKinds == {NoKind, "unix", "raw"}

\* At most two descriptors are open when the call begins.
FewOpen == Init /\ Cardinality({x \in Procs \X Fds : table[x[1]][x[2]] # Closed}) <= 2
FewOpenSpec == FewOpen /\ [][Next]_vars
================================================================================
