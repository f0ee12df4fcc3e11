------------------------------ MODULE MCTerminal ------------------------------
(* Model-checking instance of Terminal.                                     *)
EXTENDS Terminal

CONSTANTS tty1, pts0, pts1

OneConsole == {tty1}
TwoPtys == {pts0, pts1}
================================================================================
