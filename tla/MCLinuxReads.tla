------------------------------ MODULE MCLinuxReads ------------------------------
(* Model-checking instance of LinuxReads.                                   *)
EXTENDS LinuxReads

\* A disk; one whose name contains that of the first, and its partition; and
\* one whose name ends in a digit, and its partition.
Listing == <<"sda", "sdaa", "sdaa1", "nvme0n1", "nvme0n1p1">>
EndInDigit == {"sdaa1", "nvme0n1", "nvme0n1p1"}
Disk == [e \in {"sdaa1", "nvme0n1p1"} |-> IF e = "sdaa1" THEN "sdaa" ELSE "nvme0n1"]
Contained == {<<"sda", "sdaa">>, <<"sda", "sdaa1">>, <<"sdaa", "sdaa1">>,
              <<"nvme0n1", "nvme0n1p1">>}
Matches == {0, 1, 2}
Types == {"ext4", "vfat"}
================================================================================
