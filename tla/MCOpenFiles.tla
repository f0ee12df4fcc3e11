------------------------------ MODULE MCOpenFiles ------------------------------
(* Model-checking instance of OpenFiles.                                    *)
EXTENDS OpenFiles

CONSTANTS c1, file, device

OneCall == {c1}
TwoFds == {0, 1}
TwoPaths == {file, device}
OneRegular == {file}
================================================================================
