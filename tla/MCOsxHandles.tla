------------------------------ MODULE MCOsxHandles ------------------------------
(* Model-checking instance of OsxHandles.                                   *)
EXTENDS OsxHandles

CONSTANTS t1, t2, t3, disk0, disk1, disk0s1

\* Every region inside four pages; two of them may be submaps.
AllRegions == {r \in (0..3) \X (1..3) : r[1] + r[2] <= 4}
SomeSubmaps == {<<2, 2>>, <<0, 1>>}
AllThreads == {t1, t2, t3}
AllDisks == {disk0, disk1, disk0s1}
WholeDisks == {disk0, disk1}
AllFunctions == {"memory_maps", "threads", "disk_io"}
================================================================================
