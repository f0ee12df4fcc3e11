------------------------------- MODULE MCOsxLists -------------------------------
(* Model-checking instance of OsxLists.                                     *)
EXTENDS OsxLists

CONSTANTS file, tcp, tcp6

TwoSlots == {0, 1}
ThreeObjects == {file, tcp, tcp6}
FamilyTable == [o \in {file, tcp, tcp6} |->
             CASE o = file -> "vnode" [] o = tcp -> "inet" [] o = tcp6 -> "inet6"]
AllFunctions == FdFunctions \cup {"pids", "net_io", "partitions"}
================================================================================
