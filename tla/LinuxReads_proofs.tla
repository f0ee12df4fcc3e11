--------------------------- MODULE LinuxReads_proofs ---------------------------
(***************************************************************************)
(* Theorems about LinuxReads, for any number of processors, pages and      *)
(* " (deleted)" suffixes, any disks the kernel may list and any types of   *)
(* file systems: an answer is of the time of the call (AnswerIsOfTheTime), *)
(* what stays is listed once (KeptIsListedOnce), and a call fails only for *)
(* a cause (FailsForCause).                                                *)
(*                                                                         *)
(* The inductive invariant says what is still known of an answer when the  *)
(* next question is asked: AskInv of the question before, GotInv and       *)
(* FailedInv of the one just answered, whatever the world did meanwhile.   *)
(***************************************************************************)
EXTENDS LinuxReads, WellFoundedInduction, TLAPS

-----------------------------------------------------------------------------
(* The kinds of functions and their questions.                             *)

LEMMA Domains ==
    /\ DOMAIN OfProcess = {"name", "cmdline", "ioCounters", "procCpuTimes", "createTime",
                           "memoryInfo", "memMaps", "cwd", "numCtxSwitches", "numThreads",
                           "status", "numFds", "ppid", "uids", "gids", "exe"}
    /\ DOMAIN OfCpus = {"cpuTimes", "perCpuTimes", "bootTime", "cpuCountLogical",
                        "cpuCountPhysical", "pids", "netIOCounters"}
    /\ DOMAIN OfMemory = {"virtualMemory", "swapMemory"}
    /\ DOMAIN OfDisks = {"diskIOCounters"} /\ DOMAIN OfMounts = {"diskPartitions"}
  BY DEF OfProcess, OfCpus, OfMemory, OfDisks, OfMounts

\* No function is of two kinds.
LEMMA Apart ==
    /\ \A f \in DOMAIN OfProcess : /\ f \notin DOMAIN OfCpus /\ f \notin DOMAIN OfMemory
                                   /\ f \notin DOMAIN OfDisks /\ f \notin DOMAIN OfMounts
    /\ \A f \in DOMAIN OfCpus : /\ f \notin DOMAIN OfProcess /\ f \notin DOMAIN OfMemory
                                /\ f \notin DOMAIN OfDisks /\ f \notin DOMAIN OfMounts
    /\ \A f \in DOMAIN OfMemory : /\ f \notin DOMAIN OfProcess /\ f \notin DOMAIN OfCpus
                                  /\ f \notin DOMAIN OfDisks /\ f \notin DOMAIN OfMounts
    /\ \A f \in DOMAIN OfDisks : /\ f \notin DOMAIN OfProcess /\ f \notin DOMAIN OfCpus
                                 /\ f \notin DOMAIN OfMemory /\ f \notin DOMAIN OfMounts
    /\ \A f \in DOMAIN OfMounts : /\ f \notin DOMAIN OfProcess /\ f \notin DOMAIN OfCpus
                                  /\ f \notin DOMAIN OfMemory /\ f \notin DOMAIN OfDisks
  BY Domains

LEMMA TruthOf ==
    ASSUME NEW w
    PROVE  /\ fn \in DOMAIN OfProcess => Truth(w) = {w.proc}
           /\ fn \in DOMAIN OfCpus => Truth(w) = {w.online}
           /\ fn \in DOMAIN OfMemory => Truth(w) = {w.free + w.cached}
           /\ fn \in DOMAIN OfDisks => Truth(w) = Counted(w.present)
           /\ fn \in DOMAIN OfMounts => Truth(w) = w.mounts
  BY Apart DEF Truth

\* What a short sequence holds.
LEMMA ShortSequences ==
    /\ \A x : \A i \in DOMAIN <<x>> : <<x>>[i] = x
    /\ \A x, y : \A i \in DOMAIN <<x, y>> : <<x, y>>[i] \in {x, y}
    /\ \A x, y, z : \A i \in DOMAIN <<x, y, z>> : <<x, y, z>>[i] \in {x, y, z}
    /\ \A x, y, z, u : \A i \in DOMAIN <<x, y, z, u>> : <<x, y, z, u>>[i] \in {x, y, z, u}
    /\ \A x : 1 \in DOMAIN <<x>>
    /\ \A x, y : 1 \in DOMAIN <<x, y>> /\ 2 \in DOMAIN <<x, y>>
    /\ \A x, y, z : 1 \in DOMAIN <<x, y, z>> /\ 2 \in DOMAIN <<x, y, z>> /\ 3 \in DOMAIN <<x, y, z>>
    /\ \A x, y, z, u : \A i \in 1..4 : i \in DOMAIN <<x, y, z, u>>
  OBVIOUS

LEMMA AsksOf ==
    ASSUME NEW how
    PROVE  /\ Asks("exe", how) = IF how = "sync" THEN <<"pid/exe?", "pid/exe", "pid?", "target?">>
                                                 ELSE <<"pid/exe", "pid", "target?">>
           /\ Asks("ioCounters", how) = <<"pid/io?", "pid/io">>
           /\ Asks("memMaps", how) = <<"pid/smaps">> /\ Asks("cwd", how) = <<"pid/cwd">>
           /\ Asks("numFds", how) = <<"pid/fd">>
           /\ Asks("cmdline", how) = <<"pid/cmdline">> /\ Asks("memoryInfo", how) = <<"pid/statm">>
           /\ \A f \in {"name", "procCpuTimes", "createTime"} : Asks(f, how) = <<"pid/stat">>
           /\ \A f \in {"numCtxSwitches", "numThreads", "status", "ppid", "uids", "gids"} :
                 Asks(f, how) = <<"pid/status">>
           /\ \A f \in {"cpuTimes", "perCpuTimes", "bootTime"} : Asks(f, how) = <<"stat">>
           /\ Asks("cpuCountLogical", how) = <<"cpuinfo", "stat">>
           /\ Asks("cpuCountPhysical", how) = <<"cpuinfo">>
           /\ Asks("pids", how) = <<"proc">> /\ Asks("netIOCounters", how) = <<"net/dev">>
           /\ Asks("virtualMemory", how) = <<"meminfo", "sysinfo">>
           /\ Asks("swapMemory", how) = <<"vmstat", "sysinfo">>
           /\ Asks("diskIOCounters", how) = <<"partitions", "diskstats">>
           /\ Asks("diskPartitions", how) = <<"filesystems", "mtab">>
<1>1. /\ \A f \in DOMAIN OfProcess : ~(f = "exe" /\ how = "sync") => Asks(f, how) = OfProcess[f]
      /\ Asks("exe", "sync") = proc_exe_sync
  BY Apart DEF Asks
<1>2. \A f \in DOMAIN OfCpus : Asks(f, how) = OfCpus[f]
  BY Apart, Domains DEF Asks
<1>3. \A f \in DOMAIN OfMemory : Asks(f, how) = OfMemory[f]
  BY Apart, Domains DEF Asks
<1>4. \A f \in DOMAIN OfDisks : Asks(f, how) = OfDisks[f]
  BY Apart, Domains DEF Asks
<1>5. \A f \in DOMAIN OfMounts : Asks(f, how) = OfMounts[f]
  BY Apart, Domains DEF Asks
<1>6. /\ Asks("exe", how) = IF how = "sync" THEN <<"pid/exe?", "pid/exe", "pid?", "target?">>
                                            ELSE <<"pid/exe", "pid", "target?">>
      /\ Asks("ioCounters", how) = <<"pid/io?", "pid/io">>
  BY <1>1, Domains DEF OfProcess, proc_exe, proc_exe_sync, proc_ioCounters
<1>7. /\ Asks("memMaps", how) = <<"pid/smaps">> /\ Asks("cwd", how) = <<"pid/cwd">>
      /\ Asks("numFds", how) = <<"pid/fd">>
      /\ Asks("cmdline", how) = <<"pid/cmdline">> /\ Asks("memoryInfo", how) = <<"pid/statm">>
  BY <1>1, Domains DEF OfProcess, proc_memMaps, proc_cwd, proc_numFds, proc_cmdline, proc_memoryInfo
<1>8. /\ Asks("name", how) = <<"pid/stat">> /\ Asks("procCpuTimes", how) = <<"pid/stat">>
      /\ Asks("createTime", how) = <<"pid/stat">>
  BY <1>1, Domains DEF OfProcess, proc_name, proc_cpuTimes, proc_createTime
<1>9. /\ Asks("numCtxSwitches", how) = <<"pid/status">> /\ Asks("numThreads", how) = <<"pid/status">>
      /\ Asks("status", how) = <<"pid/status">> /\ Asks("ppid", how) = <<"pid/status">>
      /\ Asks("uids", how) = <<"pid/status">> /\ Asks("gids", how) = <<"pid/status">>
  BY <1>1, Domains
     DEF OfProcess, proc_numCtxSwitches, proc_numThreads, proc_status, proc_ppid, proc_uids, proc_gids
<1>10. /\ Asks("cpuTimes", how) = <<"stat">> /\ Asks("perCpuTimes", how) = <<"stat">>
       /\ Asks("bootTime", how) = <<"stat">>
       /\ Asks("cpuCountLogical", how) = <<"cpuinfo", "stat">>
       /\ Asks("cpuCountPhysical", how) = <<"cpuinfo">>
       /\ Asks("pids", how) = <<"proc">> /\ Asks("netIOCounters", how) = <<"net/dev">>
  BY <1>2, Domains DEF OfCpus, cpuTimes, perCpuTimes, bootTime, cpuCountLogical,
                       cpuCountPhysical, pids, net_io_counters
<1>11. /\ Asks("virtualMemory", how) = <<"meminfo", "sysinfo">>
       /\ Asks("swapMemory", how) = <<"vmstat", "sysinfo">>
  BY <1>3, Domains DEF OfMemory, virtualMemory, swapMemory
<1>12. /\ Asks("diskIOCounters", how) = <<"partitions", "diskstats">>
       /\ Asks("diskPartitions", how) = <<"filesystems", "mtab">>
  BY <1>4, <1>5, Domains DEF OfDisks, OfMounts, disk_io_counters, diskPartitions
<1> QED
  BY <1>6, <1>7, <1>8, <1>9, <1>10, <1>11, <1>12

\* The questions of each function, while it is called.
LEMMA QuestionAsked ==
    ASSUME NEW f \in Functions, NEW how, NEW i \in DOMAIN Asks(f, how)
    PROVE  /\ f = "exe" => Asks(f, how)[i] \in {"pid/exe?", "pid/exe", "pid", "pid?", "target?"}
           /\ f = "ioCounters" => Asks(f, how)[i] \in {"pid/io?", "pid/io"}
           /\ f \in {"numFds", "cwd", "memMaps"} =>
                 Asks(f, how)[i] \in {"pid/fd", "pid/cwd", "pid/smaps"}
           /\ f \in DOMAIN OfProcess \ {"exe", "ioCounters", "numFds", "cwd", "memMaps"} =>
                 Asks(f, how)[i] \in {"pid/stat", "pid/cmdline", "pid/statm", "pid/status"}
           /\ f \in DOMAIN OfCpus => Asks(f, how)[i] \in {"stat", "cpuinfo", "proc", "net/dev"}
           /\ f = "virtualMemory" => Asks(f, how)[i] \in {"meminfo", "sysinfo"}
           /\ f = "swapMemory" => Asks(f, how)[i] \in {"vmstat", "sysinfo"}
           /\ f \in DOMAIN OfDisks => Asks(f, how)[i] \in {"partitions", "diskstats"}
           /\ f \in DOMAIN OfMounts => Asks(f, how)[i] \in {"filesystems", "mtab"}
<1>1. f = "exe" => Asks(f, how)[i] \in {"pid/exe?", "pid/exe", "pid", "pid?", "target?"}
  BY AsksOf, ShortSequences
<1>2. f = "ioCounters" => Asks(f, how)[i] \in {"pid/io?", "pid/io"}
  BY AsksOf, ShortSequences
<1>3. f \in {"numFds", "cwd", "memMaps"} => Asks(f, how)[i] \in {"pid/fd", "pid/cwd", "pid/smaps"}
  BY AsksOf, ShortSequences
<1>4. f \in DOMAIN OfProcess \ {"exe", "ioCounters", "numFds", "cwd", "memMaps"} =>
         Asks(f, how)[i] \in {"pid/stat", "pid/cmdline", "pid/statm", "pid/status"}
  BY AsksOf, ShortSequences, Domains
<1>5. f \in DOMAIN OfCpus => Asks(f, how)[i] \in {"stat", "cpuinfo", "proc", "net/dev"}
  BY AsksOf, ShortSequences, Domains
<1>6. f = "virtualMemory" => Asks(f, how)[i] \in {"meminfo", "sysinfo"}
  BY AsksOf, ShortSequences
<1>7. f = "swapMemory" => Asks(f, how)[i] \in {"vmstat", "sysinfo"}
  BY AsksOf, ShortSequences
<1>8. f \in DOMAIN OfDisks => Asks(f, how)[i] \in {"partitions", "diskstats"}
  BY AsksOf, ShortSequences, Domains
<1>9. f \in DOMAIN OfMounts => Asks(f, how)[i] \in {"filesystems", "mtab"}
  BY AsksOf, ShortSequences, Domains
<1> QED
  BY <1>1, <1>2, <1>3, <1>4, <1>5, <1>6, <1>7, <1>8, <1>9

-----------------------------------------------------------------------------
(* What /proc/partitions and /proc/diskstats make of each other.           *)

LEMMA FirstOf ==
    ASSUME NEW T \in SUBSET Nat, T # {}
    PROVE  \E x \in T : \A y \in T : x <= y
<1> DEFINE R == {p \in Nat \X Nat : p[1] < p[2]}
<1>1. IsWellFoundedOn(R, Nat)
  BY NatLessThanWellFounded DEF OpToRel
<1>2. PICK x \in T : \A y \in T : ~(<<y, x>> \in R)
  <2> HIDE DEF R
  <2> QED
    BY <1>1, WFMin
<1>3. ASSUME NEW y \in T PROVE x <= y
  <2>1. x \in Nat /\ y \in Nat /\ <<y, x>> \in Nat \X Nat
    OBVIOUS
  <2>2. y < x => <<y, x>> \in R
    BY <2>1
  <2> HIDE DEF R
  <2> QED
    BY <1>2, <2>1, <2>2
<1> QED
  BY <1>3

\* A disk that is recorded although its name does not end in a digit has no
\* partition: the next name after it that does would be the partition's.
LEMMA RecordedHasNoPartition ==
    ASSUME NEW present \in SUBSET Devs, NEW d \in Recorded(present), d \notin Digit
    PROVE  d \in Counted(present)
<1>1. PICK i \in Listed(present) :
        d = Devices[i] /\ \A j \in LastName(i, present) : <<Devices[i], Devices[j]>> \notin Within
  BY DEF Recorded
<1>2. DOMAIN Devices \subseteq Nat /\ i \in DOMAIN Devices /\ d \in present
  BY <1>1, DevicesAssumption DEF Listed
<1>3. SUFFICES ASSUME NEW e \in present \cap DOMAIN PartOf, PartOf[e] = d PROVE FALSE
  BY <1>2 DEF Counted
<1>4. PICK k \in DOMAIN Devices : Devices[k] = e
  BY DEF Devs
<1>5. i < k /\ \A j \in (i + 1)..k : Devices[j] \in DOMAIN PartOf /\ PartOf[Devices[j]] = d
  BY <1>1, <1>2, <1>3, <1>4, DevicesAssumption
<1> DEFINE T == {j \in Listed(present) : j > i /\ Devices[j] \in Digit}
<1>6. k \in T /\ T \in SUBSET Nat
  BY <1>2, <1>3, <1>4, <1>5, DevicesAssumption DEF Listed
<1>7. PICK j \in T : \A k1 \in T : j <= k1
  BY <1>6, FirstOf
<1>8. j \in LastName(i, present)
  BY <1>7 DEF LastName
<1>9. j \in (i + 1)..k
  BY <1>2, <1>6, <1>7
<1>10. <<Devices[i], Devices[j]>> \in Within
  BY <1>1, <1>5, <1>9, DevicesAssumption
<1> QED
  BY <1>1, <1>8, <1>10

\* A partition has no partitions of its own.
LEMMA PartitionCounts ==
    ASSUME NEW present, NEW e \in present \cap DOMAIN PartOf
    PROVE  e \in Counted(present)
<1>1. \A x \in DOMAIN PartOf : PartOf[x] \notin DOMAIN PartOf
  BY DevicesAssumption
<1> QED
  BY <1>1 DEF Counted

\* What is recorded of one moment and still there at another.
LEMMA DisksAnswer ==
    ASSUME NEW present \in SUBSET Devs, DisksThen(present),
           NEW then \in SUBSET Devs, DisksThen(then)
    PROVE  LET v == then \cap Recorded(present)
               whole == (v \cap Digit) \ DOMAIN PartOf
               hidden == {d \in ever : \E e \in ever \cap Digit :
                             <<d, e>> \in Within /\ (e \in DOMAIN PartOf => PartOf[e] # d)}
           IN /\ v \subseteq Devs /\ v \ whole \subseteq ever /\ always \ hidden \subseteq v
              /\ \A e \in v \cap DOMAIN PartOf : PartOf[e] \in v => PartOf[e] \in whole
<1> DEFINE v == then \cap Recorded(present)
           whole == (v \cap Digit) \ DOMAIN PartOf
           hidden == {d \in ever : \E e \in ever \cap Digit :
                         <<d, e>> \in Within /\ (e \in DOMAIN PartOf => PartOf[e] # d)}
<1>1. Recorded(present) \subseteq present
  BY DEF Recorded, Listed
<1>2. Counted(present) \subseteq ever /\ Counted(then) \subseteq ever
      /\ always \subseteq Counted(present) /\ always \subseteq Counted(then)
  BY DEF DisksThen
<1>3. v \ whole \subseteq ever
  <2>1. SUFFICES ASSUME NEW d \in v \ whole PROVE d \in ever
    OBVIOUS
  <2>2. CASE d \notin Digit
    BY <1>2, <2>2, RecordedHasNoPartition
  <2>3. CASE d \in Digit
    <3>1. d \in then \cap DOMAIN PartOf
      BY <2>3
    <3> QED
      BY <1>2, <3>1, PartitionCounts
  <2> QED
    BY <2>2, <2>3
<1>4. always \ hidden \subseteq v
  <2>1. SUFFICES ASSUME NEW d \in always, d \notin hidden PROVE d \in v
    OBVIOUS
  <2>2. d \in ever /\ d \in present /\ d \in then /\ d \in Counted(present)
    BY <1>2 DEF Counted
  <2>3. PICK i \in Listed(present) : Devices[i] = d
    BY <2>2 DEF Devs, Listed
  <2>4. SUFFICES ASSUME d \notin Recorded(present) PROVE FALSE
    BY <2>2
  <2>5. PICK j \in LastName(i, present) : <<d, Devices[j]>> \in Within
    BY <2>3, <2>4 DEF Recorded
  <2> DEFINE e == Devices[j]
  <2>6. e \in present /\ e \in Digit /\ <<d, e>> \in Within /\ e \in Devs /\ d \in Devs
    BY <2>2, <2>5 DEF LastName, Listed
  <2> HIDE DEF e
  <2>7. ~\E x \in present \cap DOMAIN PartOf : PartOf[x] = d
    BY <2>2 DEF Counted
  <2>8. CASE e \in Counted(present)
    <3>1. e \in ever /\ (e \in DOMAIN PartOf => PartOf[e] # d)
      BY <1>2, <2>6, <2>7, <2>8
    <3> QED
      BY <2>1, <2>2, <2>6, <3>1
  <2>9. CASE e \notin Counted(present)
    <3>1. PICK x \in present \cap DOMAIN PartOf : PartOf[x] = e
      BY <2>6, <2>9 DEF Counted
    <3>2. x \in ever /\ x \in Digit /\ x \in Devs /\ <<e, x>> \in Within
      BY <1>2, <3>1, PartitionCounts, DevicesAssumption
    <3>3. <<d, x>> \in Within
      BY <2>6, <3>2, DevicesAssumption
    <3>4. PartOf[x] # d
      BY <2>7
    <3> QED
      BY <2>1, <2>2, <3>2, <3>3, <3>4
  <2> QED
    BY <2>8, <2>9
<1>5. ASSUME NEW e \in v \cap DOMAIN PartOf, PartOf[e] \in v
      PROVE  PartOf[e] \in whole
  <2>1. e \in present \cap DOMAIN PartOf /\ PartOf[e] \notin DOMAIN PartOf
    BY <1>1, DevicesAssumption
  <2>2. PartOf[e] \notin Counted(present)
    BY <2>1 DEF Counted
  <2>3. PartOf[e] \in Digit
    BY <1>5, <2>2, RecordedHasNoPartition
  <2> QED
    BY <1>5, <2>1, <2>3
<1>6. v \subseteq Devs
  OBVIOUS
<1> QED
  BY <1>3, <1>4, <1>5, <1>6

-----------------------------------------------------------------------------
(* The world moves.                                                        *)

\* The marks a world leaves.
LEMMA MarksOf ==
    ASSUME fn \in Functions, NEW w, GoodWorld(w)
    PROVE  /\ w.full \in BOOLEAN /\ (w.full => "full" \in Marks(w))
           /\ fn \in DOMAIN OfProcess => /\ w.traced => "traced" \in Marks(w)
                                         /\ w.reused => "reused" \in Marks(w)
           /\ fn \in DOMAIN OfMemory => /\ w.reclaimed => "reclaimed" \in Marks(w)
                                        /\ w.filled => "filled" \in Marks(w)
           /\ fn = "exe" => \A n \in w.files \cup {w.proc} : n > 0 => "odd" \in Marks(w)
<1>1. CASE fn \in DOMAIN OfProcess
  BY <1>1, Apart DEF GoodWorld, Marks
<1>2. CASE fn \in DOMAIN OfCpus
  BY <1>2, Apart, Domains DEF GoodWorld, Marks
<1>3. CASE fn \in DOMAIN OfMemory
  BY <1>3, Apart, Domains DEF GoodWorld, Marks
<1>4. CASE fn \in DOMAIN OfDisks
  BY <1>4, Apart, Domains DEF GoodWorld, Marks
<1>5. CASE fn \in DOMAIN OfMounts
  BY <1>5, Apart, Domains DEF GoodWorld, Marks
<1> QED
  BY <1>1, <1>2, <1>3, <1>4, <1>5 DEF Functions

\* The invariant survives a change to a good world that marks what it does.
LEMMA WorldMoves ==
    ASSUME IInv, Running, NEW w, Becomes(w), GoodWorld(w),
           fn \in DOMAIN OfProcess /\ world.proc = Gone => w.proc = Gone \/ w.reused,
           fn \in DOMAIN OfMemory => /\ w.cached < world.cached => w.reclaimed
                                     /\ w.cached > world.cached => w.filled,
           fn \in DOMAIN OfCpus => w.perCpu = world.perCpu
    PROVE  IInv'
<1> USE DEF IInv
<1>1. /\ UNCHANGED <<fn, form, pc, at, got, kept, up, outcome, value>>
      /\ world' = w /\ ever' = ever \cup Truth(w) /\ always' = always \cap Truth(w)
      /\ marks' = marks \cup Marks(w) /\ up /\ pc \in {"asking", "got"} /\ outcome = "none"
  BY DEF Becomes, Running, call, PlaceInv
<1>2. fn \in Functions
  BY DEF TypeOK
<1>3. GoodWorld(w)' /\ GoodWorld(world)'
  BY <1>1 DEF GoodWorld
<1>4. Truth(world)' = Truth(w) /\ Marks(world)' = Marks(w)
  BY <1>1 DEF Truth, Marks
<1>5. w.full \in BOOLEAN
  BY <1>2, MarksOf
<1>6. TypeOK'
  BY <1>1, <1>5 DEF TypeOK
<1>7. HistoryInv'
  <2>1. ASSUME fn \in DOMAIN OfProcess, Gone \in ever'
        PROVE  w.proc = Gone \/ "reused" \in marks'
    <3>1. CASE Gone \in ever
      <4>1. world.proc = Gone \/ "reused" \in marks
        BY <2>1, <3>1 DEF HistoryInv
      <4>2. w.reused => "reused" \in Marks(w)
        BY <1>2, <2>1, MarksOf
      <4> QED
        BY <1>1, <2>1, <4>1, <4>2
    <3>2. CASE Gone \in Truth(w)
      BY <2>1, <3>2, TruthOf
    <3> QED
      BY <1>1, <2>1, <3>1, <3>2
  <2> QED
    BY <1>1, <1>4, <2>1 DEF HistoryInv
<1>8. PlaceInv'
  BY <1>1 DEF PlaceInv
\* What was known of the cache is known of the new one, or it is marked.
<1>9. \A c : (fn \in DOMAIN OfMemory /\ CachedThen(c)) => CachedThen(c)'
  <2>1. SUFFICES ASSUME fn \in DOMAIN OfMemory, NEW c, CachedThen(c) PROVE CachedThen(c)'
    OBVIOUS
  <2>2. /\ w.reclaimed => "reclaimed" \in Marks(w)
        /\ w.filled => "filled" \in Marks(w)
    BY <1>2, <2>1, MarksOf
  <2>3. w.cached \in 0..Total /\ world.cached \in 0..Total
    BY <2>1 DEF GoodWorld
  <2>4. c \in 0..Total /\ Total \in Nat
    BY <2>1, BoundsAssumption DEF CachedThen
  <2> QED
    BY <1>1, <2>1, <2>2, <2>3, <2>4 DEF CachedThen
<1>10. \A present : DisksThen(present) => DisksThen(present)'
  BY <1>1 DEF DisksThen, Counted
<1>11. at \in {"sysinfo", "meminfo", "vmstat"} => fn \in DOMAIN OfMemory
  <2>1. form # "none"
    BY <1>1 DEF PlaceInv
  <2> QED
    BY <1>2, <2>1, QuestionAsked, Domains DEF TypeOK, Functions
<1>12. AskInv'
  <2>1. at = "stat" /\ fn = "cpuCountLogical" => world'.perCpu = 0
    BY <1>1, Domains DEF AskInv
  <2> QED
    BY <1>1, <1>9, <1>10, <1>11, <2>1 DEF AskInv, Recorded, Listed, LastName
<1>13. FailedInv'
  BY <1>1 DEF FailedInv
<1>14. GotInv'
  <2>1. fn \in DOMAIN OfDisks /\ DisksThen(got.value) => DisksThen(got.value)'
    BY <1>1 DEF DisksThen, Counted
  <2>2. at \in {"meminfo", "vmstat"} /\ CachedThen(got.value) => CachedThen(got.value)'
    BY <1>1, <1>9, <1>11 DEF CachedThen
  <2> QED
    BY <1>1, <2>1, <2>2 DEF GotInv
<1>15. AnswerIsOfTheTime' /\ KeptIsListedOnce' /\ FailsForCause'
  BY <1>1 DEF AnswerIsOfTheTime, KeptIsListedOnce, FailsForCause
<1> QED
  BY <1>3, <1>6, <1>7, <1>8, <1>12, <1>13, <1>14, <1>15

\* What else uses a file descriptor.
LEMMA ExhaustKeeps == ASSUME IInv, Exhaust PROVE IInv'
<1> DEFINE b == ~world.full
           w == [world EXCEPT !.full = b]
<1>1. Running /\ Becomes(w) /\ fn \in Functions /\ GoodWorld(world)
  BY DEF Exhaust, IInv, TypeOK
<1>2. b \in BOOLEAN
  OBVIOUS
<1> HIDE DEF b
<1>3. CASE fn \in DOMAIN OfProcess
  <2>1. GoodWorld(w) /\ w.proc = world.proc
    BY <1>1, <1>2, <1>3, Apart DEF GoodWorld
  <2> QED
    BY <1>1, <1>3, <2>1, Apart, WorldMoves
<1>4. CASE fn \in DOMAIN OfCpus
  <2>1. GoodWorld(w) /\ w.perCpu = world.perCpu
    BY <1>1, <1>2, <1>4, Apart DEF GoodWorld
  <2> HIDE DEF w
  <2> QED
    BY <1>1, <1>4, <2>1, Apart, WorldMoves
<1>5. CASE fn \in DOMAIN OfMemory
  <2>1. GoodWorld(w) /\ w.cached = world.cached /\ world.cached \in Int
    BY <1>1, <1>2, <1>5, Apart DEF GoodWorld
  <2>2. /\ ~(w.cached < world.cached) /\ ~(w.cached > world.cached)
        /\ fn \notin DOMAIN OfProcess /\ fn \notin DOMAIN OfCpus
    BY <1>5, <2>1, Apart
  <2> HIDE DEF w
  <2> QED
    BY <1>1, <1>5, <2>1, <2>2, WorldMoves
<1>6. CASE fn \in DOMAIN OfDisks
  <2>1. GoodWorld(w)
    BY <1>1, <1>2, <1>6, Apart DEF GoodWorld
  <2> QED
    BY <1>1, <1>6, <2>1, Apart, WorldMoves
<1>7. CASE fn \in DOMAIN OfMounts
  <2>1. GoodWorld(w)
    BY <1>1, <1>2, <1>7, Apart DEF GoodWorld
  <2> QED
    BY <1>1, <1>7, <2>1, Apart, WorldMoves
<1> QED
  BY <1>1, <1>3, <1>4, <1>5, <1>6, <1>7 DEF Functions

\* The observed process.
LEMMA ProcessKeeps ==
    ASSUME IInv, Exit \/ Reuse \/ Trace \/ Exec \/ Unlink \/ Create
    PROVE  IInv'
<1>1. Running /\ fn \in DOMAIN OfProcess /\ GoodWorld(world)
  BY Domains DEF Exit, Reuse, Trace, Exec, Unlink, Create, IInv
<1> DEFINE Proc == {Gone, Closed} \cup 0..MaxSuffix
           WP == [proc : Proc, unlinked : BOOLEAN, files : SUBSET Names, traced : BOOLEAN,
                  reused : BOOLEAN, full : BOOLEAN]
<1>2. world \in WP /\ (world.traced => fn = "status")
  BY <1>1 DEF GoodWorld
\* A change to another such world.
<1>3. ASSUME NEW w \in WP, Becomes(w), w.traced => fn = "status",
             world.proc = Gone => w.proc = Gone \/ w.reused
      PROVE  IInv'
  <2>1. GoodWorld(w)
    BY <1>1, <1>3, Apart DEF GoodWorld
  <2> QED
    BY <1>1, <1>3, <2>1, Apart, WorldMoves
<1>4. Gone \in Proc /\ Closed \in Proc /\ \A p \in 0..MaxSuffix : p \in Proc /\ p >= 0 /\ p # Gone
  BY BoundsAssumption DEF Gone
<1> HIDE DEF Proc
<1>5. CASE Exit
  <2>1. PICK p \in {Closed, Gone} :
          Becomes([world EXCEPT !.proc = p, !.unlinked = FALSE, !.traced = FALSE])
    BY <1>5 DEF Exit
  <2> DEFINE w == [world EXCEPT !.proc = p, !.unlinked = FALSE, !.traced = FALSE]
  <2>2. w \in WP /\ ~w.traced /\ world.proc # Gone
    BY <1>2, <1>4, <1>5 DEF Exit
  <2> QED
    BY <1>3, <2>1, <2>2
<1>6. CASE Reuse
  <2>1. PICK p \in {Closed} \cup (world.files \cap 0..MaxSuffix) :
          Becomes([world EXCEPT !.proc = p, !.reused = TRUE])
    BY <1>6 DEF Reuse
  <2> DEFINE w == [world EXCEPT !.proc = p, !.reused = TRUE]
  <2>2. w \in WP /\ w.traced = world.traced /\ w.reused
    BY <1>2, <1>4
  <2> QED
    BY <1>2, <1>3, <2>1, <2>2
<1>7. CASE Trace
  <2> DEFINE b == ~world.traced
             w == [world EXCEPT !.traced = b]
  <2>1. Becomes(w) /\ fn = "status" /\ world.proc # Gone
    BY <1>7 DEF Trace
  <2>2. b \in BOOLEAN
    OBVIOUS
  <2> HIDE DEF b
  <2>3. w \in WP
    BY <1>2, <2>2
  <2> QED
    BY <1>3, <2>1, <2>3
<1>8. CASE Exec
  <2>1. PICK p \in world.files \cap 0..MaxSuffix :
          Becomes([world EXCEPT !.proc = p, !.unlinked = FALSE])
    BY <1>8 DEF Exec
  <2> DEFINE w == [world EXCEPT !.proc = p, !.unlinked = FALSE]
  <2>2. w \in WP /\ w.traced = world.traced
    BY <1>2, <1>4
  <2>3. world.proc # Gone
    <3>1. world.proc >= 0
      BY <1>8 DEF Exec
    <3>2. ~(Gone >= 0)
      BY DEF Gone
    <3> QED
      BY <3>1, <3>2
  <2> QED
    BY <1>2, <1>3, <2>1, <2>2, <2>3
<1>9. CASE Unlink
  <2>1. PICK n \in world.files :
          Becomes([world EXCEPT !.files = @ \ {n}, !.unlinked = @ \/ world.proc = n])
    BY <1>9 DEF Unlink
  <2> DEFINE b == world.unlinked \/ world.proc = n
             w == [world EXCEPT !.files = @ \ {n}, !.unlinked = b]
  <2>2. b \in BOOLEAN
    OBVIOUS
  <2>3. Becomes(w)
    BY <2>1
  <2> HIDE DEF b
  <2>4. w \in WP /\ w.traced = world.traced /\ w.proc = world.proc
    BY <1>2, <2>2
  <2> QED
    BY <1>2, <1>3, <2>3, <2>4
<1>10. CASE Create
  <2>1. PICK n \in Names \ world.files : Becomes([world EXCEPT !.files = @ \cup {n}])
    BY <1>10 DEF Create
  <2> DEFINE w == [world EXCEPT !.files = @ \cup {n}]
  <2>2. w \in WP /\ w.traced = world.traced /\ w.proc = world.proc
    BY <1>2
  <2> QED
    BY <1>2, <1>3, <2>1, <2>2
<1> QED
  BY <1>5, <1>6, <1>7, <1>8, <1>9, <1>10

\* Memory.
LEMMA MemoryKeeps ==
    ASSUME IInv, Allocate \/ Release \/ Reclaim \/ Fill
    PROVE  IInv'
<1>1. Running /\ fn \in DOMAIN OfMemory /\ GoodWorld(world)
  BY DEF Allocate, Release, Reclaim, Fill, IInv
<1> DEFINE WM == [free : 0..Total, cached : 0..Total, reclaimed : BOOLEAN, filled : BOOLEAN,
                  full : BOOLEAN]
<1>2. world \in WM /\ world.free + world.cached <= Total /\ Total \in Nat
  BY <1>1, BoundsAssumption DEF GoodWorld
<1>3. ASSUME NEW w \in WM, Becomes(w), w.free + w.cached <= Total,
             w.cached < world.cached => w.reclaimed, w.cached > world.cached => w.filled
      PROVE  IInv'
  <2>1. GoodWorld(w)
    BY <1>1, <1>3, Apart DEF GoodWorld
  <2> QED
    BY <1>1, <1>3, <2>1, Apart, WorldMoves
<1>4. /\ world.free \in 0..Total /\ world.cached \in 0..Total
  BY <1>2
<1>5. CASE Allocate
  <2> DEFINE w == [world EXCEPT !.free = @ - 1]
  <2>1. Becomes(w) /\ world.free > 0
    BY <1>5 DEF Allocate
  <2>2. w \in WM /\ w.free = world.free - 1 /\ w.cached = world.cached
    BY <1>2, <1>4, <2>1
  <2>3. w.free + w.cached <= Total /\ ~(w.cached < world.cached) /\ ~(w.cached > world.cached)
    BY <1>2, <1>4, <2>2
  <2> QED
    BY <1>3, <2>1, <2>2, <2>3
<1>6. CASE Release
  <2> DEFINE w == [world EXCEPT !.free = @ + 1]
  <2>1. Becomes(w) /\ world.free + world.cached < Total
    BY <1>6 DEF Release
  <2>2. world.free + 1 \in 0..Total
    BY <1>2, <1>4, <2>1
  <2>3. w \in WM /\ w.free = world.free + 1 /\ w.cached = world.cached
    BY <1>2, <2>2
  <2>4. w.free + w.cached <= Total /\ ~(w.cached < world.cached) /\ ~(w.cached > world.cached)
    BY <1>2, <1>4, <2>1, <2>3
  <2> QED
    BY <1>3, <2>1, <2>3, <2>4
<1>7. CASE Reclaim
  <2> DEFINE w == [world EXCEPT !.cached = @ - 1, !.free = @ + 1, !.reclaimed = TRUE]
  <2>1. Becomes(w) /\ world.cached > 0
    BY <1>7 DEF Reclaim
  <2>2. world.free + 1 \in 0..Total /\ world.cached - 1 \in 0..Total
    BY <1>2, <1>4, <2>1
  <2>3. w \in WM /\ w.free = world.free + 1 /\ w.cached = world.cached - 1 /\ w.reclaimed
    BY <1>2, <2>2
  <2>4. w.free + w.cached <= Total /\ ~(w.cached > world.cached)
    BY <1>2, <1>4, <2>1, <2>3
  <2> QED
    BY <1>3, <2>1, <2>3, <2>4
<1>8. CASE Fill
  <2> DEFINE w == [world EXCEPT !.cached = @ + 1, !.free = @ - 1, !.filled = TRUE]
  <2>1. Becomes(w) /\ world.free > 0
    BY <1>8 DEF Fill
  <2>2. world.free - 1 \in 0..Total /\ world.cached + 1 \in 0..Total
    BY <1>2, <1>4, <2>1
  <2>3. w \in WM /\ w.free = world.free - 1 /\ w.cached = world.cached + 1 /\ w.filled
    BY <1>2, <2>2
  <2>4. w.free + w.cached <= Total /\ ~(w.cached < world.cached)
    BY <1>2, <1>4, <2>1, <2>3
  <2> QED
    BY <1>3, <2>1, <2>3, <2>4
<1> QED
  BY <1>5, <1>6, <1>7, <1>8

\* Processors, disks and mounts.
LEMMA DevicesKeep ==
    ASSUME IInv, Hotplug \/ Plug \/ Unplug \/ Mount \/ Unmount
    PROVE  IInv'
<1>1. Running /\ GoodWorld(world)
  BY DEF Hotplug, Plug, Unplug, Mount, Unmount, IInv
<1>2. CASE Hotplug
  <2>1. fn \in DOMAIN OfCpus
    BY <1>2 DEF Hotplug
  <2>2. PICK n \in 1..MaxCpus : Becomes([world EXCEPT !.online = n])
    BY <1>2 DEF Hotplug
  <2> DEFINE w == [world EXCEPT !.online = n]
  <2>3. GoodWorld(w) /\ w.perCpu = world.perCpu
    BY <1>1, <2>1, Apart DEF GoodWorld
  <2>4. Becomes(w)
    BY <2>2
  <2> HIDE DEF w
  <2> QED
    BY <1>1, <2>1, <2>3, <2>4, Apart, WorldMoves
<1>3. CASE Plug \/ Unplug
  <2>1. fn \in DOMAIN OfDisks
    BY <1>3 DEF Plug, Unplug
  <2>2. world \in [present : SUBSET Devs, full : BOOLEAN]
    BY <1>1, <2>1 DEF GoodWorld
  <2>3. PICK S \in SUBSET Devs : Becomes([world EXCEPT !.present = S])
    <3>1. CASE Plug
      <4>1. PICK i \in DOMAIN Devices : Becomes([world EXCEPT !.present = @ \cup {Devices[i]}])
        BY <3>1 DEF Plug
      <4>2. world.present \cup {Devices[i]} \in SUBSET Devs
        BY <2>2 DEF Devs
      <4> QED
        BY <4>1, <4>2
    <3>2. CASE Unplug
      <4>1. PICK d \in world.present :
              Becomes([world EXCEPT !.present =
                          {e \in @ : e # d /\ (e \in DOMAIN PartOf => PartOf[e] # d)}])
        BY <3>2 DEF Unplug
      <4>2. {e \in world.present : e # d /\ (e \in DOMAIN PartOf => PartOf[e] # d)} \in SUBSET Devs
        BY <2>2
      <4> QED
        BY <4>1, <4>2
    <3> QED
      BY <1>3, <3>1, <3>2
  <2>4. GoodWorld([world EXCEPT !.present = S])
    BY <2>1, <2>2, Apart DEF GoodWorld
  <2> QED
    BY <1>1, <2>1, <2>3, <2>4, Apart, WorldMoves
<1>4. CASE Mount \/ Unmount
  <2>1. fn \in DOMAIN OfMounts
    BY <1>4 DEF Mount, Unmount
  <2>2. /\ world \in [types : SUBSET FsTypes, mounts : SUBSET FsTypes, full : BOOLEAN]
        /\ world.mounts \subseteq world.types
    BY <1>1, <2>1 DEF GoodWorld
  <2>3. PICK T \in SUBSET FsTypes, M \in SUBSET FsTypes :
          M \subseteq T /\ Becomes([world EXCEPT !.types = T, !.mounts = M])
    <3>1. CASE Mount
      <4>1. PICK t \in FsTypes :
              Becomes([world EXCEPT !.types = @ \cup {t}, !.mounts = @ \cup {t}])
        BY <3>1 DEF Mount
      <4>2. /\ world.types \cup {t} \in SUBSET FsTypes /\ world.mounts \cup {t} \in SUBSET FsTypes
            /\ world.mounts \cup {t} \subseteq world.types \cup {t}
        BY <2>2
      <4> QED
        BY <4>1, <4>2
    <3>2. CASE Unmount
      <4>1. PICK t \in world.mounts, unload \in BOOLEAN :
              Becomes([world EXCEPT !.mounts = @ \ {t},
                                    !.types = IF unload THEN @ \ {t} ELSE @])
        BY <3>2 DEF Unmount
      <4> DEFINE M == world.mounts \ {t}
                 T == IF unload THEN world.types \ {t} ELSE world.types
      <4>2. M \in SUBSET FsTypes /\ T \in SUBSET FsTypes /\ M \subseteq T
        BY <2>2
      <4>3. [world EXCEPT !.mounts = M, !.types = T] = [world EXCEPT !.types = T, !.mounts = M]
        <5> HIDE DEF M, T
        <5> QED
          BY <2>2
      <4> QED
        BY <4>1, <4>2, <4>3
    <3> QED
      BY <1>4, <3>1, <3>2
  <2>4. GoodWorld([world EXCEPT !.types = T, !.mounts = M])
    BY <2>1, <2>2, <2>3, Apart DEF GoodWorld
  <2> QED
    BY <1>1, <2>1, <2>3, <2>4, Apart, WorldMoves
<1> QED
  BY <1>2, <1>3, <1>4

-----------------------------------------------------------------------------
(* A call starts, and asks.                                                *)

LEMMA InitKeeps == Init => IInv
<1> SUFFICES ASSUME Init PROVE IInv
  OBVIOUS
<1> USE DEF Init
<1>1. GoodWorld(world)
  <2>1. CASE fn \in DOMAIN OfProcess
    BY <2>1, Apart DEF GoodWorld, Worlds
  <2>2. CASE fn \in DOMAIN OfCpus
    BY <2>2, Apart DEF GoodWorld, Worlds
  <2>3. CASE fn \in DOMAIN OfMemory
    BY <2>3, Apart DEF GoodWorld, Worlds
  <2>4. CASE fn \in DOMAIN OfDisks
    BY <2>4, Apart DEF GoodWorld, Worlds
  <2>5. CASE fn \in DOMAIN OfMounts
    BY <2>5, Apart DEF GoodWorld, Worlds
  <2> QED
    BY <2>1, <2>2, <2>3, <2>4, <2>5 DEF Functions
<1>2. world.full \in BOOLEAN
  BY <1>1, MarksOf
<1>3. TypeOK
  BY <1>2 DEF TypeOK
<1>4. HistoryInv
  <2>1. fn \in DOMAIN OfProcess /\ Gone \in ever => world.proc = Gone
    BY TruthOf
  <2> QED
    BY <2>1 DEF HistoryInv
<1>5. PlaceInv /\ AskInv /\ FailedInv /\ GotInv
  BY DEF PlaceInv, AskInv, FailedInv, GotInv
<1>6. AnswerIsOfTheTime /\ KeptIsListedOnce /\ FailsForCause
  BY DEF AnswerIsOfTheTime, KeptIsListedOnce, FailsForCause
<1> QED
  BY <1>1, <1>3, <1>4, <1>5, <1>6 DEF IInv

\* The first question is none that builds on another.
LEMMA FirstQuestion ==
    ASSUME NEW f \in Functions, NEW how
    PROVE  /\ 1 \in DOMAIN Asks(f, how)
           /\ Asks(f, how)[1] \notin {"target?", "pid", "pid?", "sysinfo", "diskstats", "mtab"}
           /\ f = "cpuCountLogical" => Asks(f, how)[1] # "stat"
<1>0. /\ \A x : <<x>>[1] = x
      /\ \A x, y : <<x, y>>[1] = x
      /\ \A x, y, z : <<x, y, z>>[1] = x
      /\ \A x, y, z, u : <<x, y, z, u>>[1] = x
  OBVIOUS
<1>1. CASE f \in DOMAIN OfProcess
  BY <1>0, <1>1, AsksOf, ShortSequences, Domains
<1>2. CASE f \in DOMAIN OfCpus
  BY <1>0, <1>2, AsksOf, ShortSequences, Domains
<1>3. CASE f \in DOMAIN OfMemory \cup DOMAIN OfDisks \cup DOMAIN OfMounts
  BY <1>0, <1>3, AsksOf, ShortSequences, Domains
<1> QED
  BY <1>1, <1>2, <1>3 DEF Functions

-----------------------------------------------------------------------------
(* The questions are asked.                                                *)

\* A step of the call leaves the world and its history alone.
LEMMA WorldStays ==
    ASSUME GoodWorld(world), HistoryInv, UNCHANGED <<fn, world, ever, always, marks>>
    PROVE  GoodWorld(world)' /\ HistoryInv'
<1>1. GoodWorld(world)'
  BY DEF GoodWorld
<1>2. Truth(world)' = Truth(world)
  BY DEF Truth, Counted
<1>3. Marks(world)' = Marks(world)
  BY DEF Marks
<1>4. HistoryInv'
  BY <1>2, <1>3 DEF HistoryInv
<1> QED
  BY <1>1, <1>4

LEMMA CallKeeps == ASSUME IInv, Call PROVE IInv'
<1> USE DEF IInv
<1>1. /\ pc = "idle" /\ pc' = "asking" /\ up /\ form' \in {"async", "sync"}
      /\ at' = Asks(fn, form')[1]
      /\ UNCHANGED <<fn, got, kept, up, outcome, value, world, ever, always, marks>>
  BY DEF Call
<1>2. /\ fn \in Functions /\ outcome = "none"
  BY <1>1 DEF TypeOK, PlaceInv
<1>3. /\ 1 \in DOMAIN Asks(fn, form')
      /\ at' \notin {"target?", "pid", "pid?", "sysinfo", "diskstats", "mtab"}
      /\ fn = "cpuCountLogical" => at' # "stat"
  BY <1>1, <1>2, FirstQuestion
<1>4. TypeOK'
  <2>1. Asks(fn, form)' = Asks(fn, form')
    BY <1>1
  <2> QED
    BY <1>1, <1>2, <1>3, <2>1 DEF TypeOK
<1>5. GoodWorld(world)' /\ HistoryInv'
  BY <1>1, WorldStays
<1>6. PlaceInv' /\ FailedInv' /\ GotInv'
  BY <1>1, <1>2 DEF PlaceInv, FailedInv, GotInv
<1>7. AskInv'
  BY <1>1, <1>3 DEF AskInv
<1>8. AnswerIsOfTheTime' /\ KeptIsListedOnce' /\ FailsForCause'
  BY <1>1, <1>2 DEF AnswerIsOfTheTime, KeptIsListedOnce, FailsForCause
<1> QED
  BY <1>4, <1>5, <1>6, <1>7, <1>8

\* What only the functions of memory, disks and mounts ask.
SystemFiles == {"meminfo", "vmstat", "sysinfo", "partitions", "diskstats", "filesystems", "mtab"}

\* What is asked, by the kind of the function.
LEMMA AskedNow ==
    ASSUME IInv, form # "none"
    PROVE  /\ fn = "exe" => at \in {"pid/exe?", "pid/exe", "pid", "pid?", "target?"}
           /\ fn = "ioCounters" => at \in {"pid/io?", "pid/io"}
           /\ fn \in {"numFds", "cwd", "memMaps"} => at \in {"pid/fd", "pid/cwd", "pid/smaps"}
           /\ fn \in DOMAIN OfProcess \ {"exe", "ioCounters", "numFds", "cwd", "memMaps"} =>
                 at \in {"pid/stat", "pid/cmdline", "pid/statm", "pid/status"}
           /\ fn \in DOMAIN OfCpus => at \in {"stat", "cpuinfo", "proc", "net/dev"}
           /\ fn = "virtualMemory" => at \in {"meminfo", "sysinfo"}
           /\ fn = "swapMemory" => at \in {"vmstat", "sysinfo"}
           /\ fn \in DOMAIN OfDisks => at \in {"partitions", "diskstats"}
           /\ fn \in DOMAIN OfMounts => at \in {"filesystems", "mtab"}
           /\ at \in {"pid/exe?", "pid/exe", "pid", "pid?", "target?"} => fn = "exe"
           /\ at \in {"meminfo", "vmstat", "sysinfo"} => fn \in DOMAIN OfMemory
           /\ fn \in DOMAIN OfProcess \cup DOMAIN OfCpus => at \notin SystemFiles
<1>1. PICK i \in DOMAIN Asks(fn, form) : at = Asks(fn, form)[i]
  BY DEF IInv, TypeOK
<1>2. fn \in Functions
  BY DEF IInv, TypeOK
<1>3. /\ fn = "exe" => at \in {"pid/exe?", "pid/exe", "pid", "pid?", "target?"}
      /\ fn = "ioCounters" => at \in {"pid/io?", "pid/io"}
      /\ fn \in {"numFds", "cwd", "memMaps"} => at \in {"pid/fd", "pid/cwd", "pid/smaps"}
      /\ fn \in DOMAIN OfProcess \ {"exe", "ioCounters", "numFds", "cwd", "memMaps"} =>
            at \in {"pid/stat", "pid/cmdline", "pid/statm", "pid/status"}
      /\ fn \in DOMAIN OfCpus => at \in {"stat", "cpuinfo", "proc", "net/dev"}
      /\ fn = "virtualMemory" => at \in {"meminfo", "sysinfo"}
      /\ fn = "swapMemory" => at \in {"vmstat", "sysinfo"}
      /\ fn \in DOMAIN OfDisks => at \in {"partitions", "diskstats"}
      /\ fn \in DOMAIN OfMounts => at \in {"filesystems", "mtab"}
  BY <1>1, <1>2, QuestionAsked
<1>4. at \in {"pid/exe?", "pid/exe", "pid", "pid?", "target?"} => fn = "exe"
  BY <1>2, <1>3, Domains DEF Functions
<1>5. at \in {"meminfo", "vmstat", "sysinfo"} => fn \in DOMAIN OfMemory
  BY <1>2, <1>3, Domains DEF Functions
<1>6. fn \in DOMAIN OfProcess => at \notin SystemFiles
  BY <1>3 DEF SystemFiles
<1>7. fn \in DOMAIN OfCpus => at \notin SystemFiles
  BY <1>3 DEF SystemFiles
<1> QED
  BY <1>3, <1>4, <1>5, <1>6, <1>7

LEMMA ContentOf ==
    ASSUME NEW q
    PROVE  /\ fn \in DOMAIN OfProcess /\ q \notin SystemFiles => Content(q) = OfPid(q)
           /\ fn \in DOMAIN OfCpus /\ q \notin SystemFiles => Content(q) = {Found(world.online)}
           /\ fn \in DOMAIN OfMemory =>
                 /\ q \in {"meminfo", "vmstat"} => Content(q) = {Found(world.cached)}
                 /\ q = "sysinfo" => Content(q) = {Found(world.free)}
           /\ fn \in DOMAIN OfDisks /\ q \in {"partitions", "diskstats"} =>
                 Content(q) = {Found(world.present)}
           /\ fn \in DOMAIN OfMounts =>
                 /\ q = "filesystems" => Content(q) = {Found(world.types)}
                 /\ q = "mtab" => Content(q) = {Found(world.mounts)}
<1> USE DEF SystemFiles
<1>1. fn \in DOMAIN OfProcess /\ q \notin SystemFiles => Content(q) = OfPid(q)
  BY Apart DEF Content
<1>2. fn \in DOMAIN OfCpus /\ q \notin SystemFiles => Content(q) = {Found(world.online)}
  BY Apart DEF Content
<1>3. fn \notin DOMAIN OfProcess /\ fn \notin DOMAIN OfCpus =>
         /\ q \in {"meminfo", "vmstat"} => Content(q) = {Found(world.cached)}
         /\ q = "sysinfo" => Content(q) = {Found(world.free)}
         /\ q \in {"partitions", "diskstats"} => Content(q) = {Found(world.present)}
  BY DEF Content
<1>4. fn \notin DOMAIN OfProcess /\ fn \notin DOMAIN OfCpus =>
         /\ q = "filesystems" => Content(q) = {Found(world.types)}
         /\ q = "mtab" => Content(q) = {Found(world.mounts)}
  BY DEF Content
<1> QED
  BY <1>1, <1>2, <1>3, <1>4, Apart

\* The parts of the invariant that are about the answer to a question follow
\* from what it is: nothing for want of a descriptor, or the content.
LEMMA ProcessAnswers ==
    ASSUME IInv, Ask, fn \in DOMAIN OfProcess, got' \in OfPid(at)
    PROVE  FailedInv' /\ GotInv'
<1> USE DEF IInv
<1>1. /\ pc = "asking" /\ pc' = "got"
      /\ UNCHANGED <<fn, form, at, kept, up, outcome, value, world, ever, always, marks>>
  BY DEF Ask
<1>2. form # "none" /\ fn \in Functions
  BY <1>1 DEF PlaceInv, TypeOK
<1>3. /\ world.proc \in {Gone, Closed} \cup 0..MaxSuffix /\ world.unlinked \in BOOLEAN
      /\ world.traced \in BOOLEAN /\ (world.traced => fn = "status" /\ "traced" \in marks)
      /\ world.proc \in ever
  <2>1. world.traced => "traced" \in marks
    BY <1>2, MarksOf DEF HistoryInv
  <2>2. world.proc \in ever
    BY TruthOf DEF HistoryInv
  <2>3. world \in [proc : {Gone, Closed} \cup 0..MaxSuffix, unlinked : BOOLEAN,
                   files : SUBSET Names, traced : BOOLEAN, reused : BOOLEAN, full : BOOLEAN]
        /\ (world.traced => fn = "status")
    BY DEF GoodWorld
  <2> QED
    BY <2>1, <2>2, <2>3
<1>4. fn = "exe" => \A n \in world.files \cup {world.proc} : n > 0 => "odd" \in marks
  BY <1>2, MarksOf DEF HistoryInv
<1>5. MaxSuffix \in Nat /\ Gone = -2 /\ Closed = -1
  BY BoundsAssumption DEF Gone, Closed
<1>6. fn \notin DOMAIN OfCpus /\ fn \notin DOMAIN OfMemory /\ fn \notin DOMAIN OfDisks
      /\ fn \notin DOMAIN OfMounts /\ at \notin {"meminfo", "vmstat", "sysinfo"}
  BY <1>2, Apart, AskedNow
<1>7. CASE at = "target?"
  <2>1. got' = [ok |-> kept \in world.files, value |-> 0] /\ fn = "exe"
    BY <1>2, <1>7, AskedNow DEF OfPid, Private
  <2>2. got'.ok => "odd" \in marks
    <3>1. kept > 0
      BY <1>5, <1>7 DEF AskInv
    <3> QED
      BY <1>4, <2>1, <3>1
  <2>3. FailedInv'
    BY <1>1, <1>7 DEF FailedInv
  <2>4. GotInv'
    BY <1>1, <1>6, <1>7, <2>1, <2>2 DEF GotInv
  <2> QED
    BY <2>3, <2>4
<1>8. CASE at \in {"pid/exe", "pid/exe?"}
  <2>1. fn = "exe" /\ got' = IF world.proc >= 0 THEN Found(LinkText(world)) ELSE None
    BY <1>2, <1>8, AskedNow DEF OfPid, Private
  <2>2. CASE world.proc >= 0
    <3>1. got'.ok /\ got'.value = LinkText(world) /\ world.proc \in 0..MaxSuffix
      BY <1>3, <1>5, <2>1, <2>2 DEF Found
    <3>2. /\ LinkText(world) \in Names
          /\ \/ LinkText(world) = world.proc
             \/ LinkText(world) = world.proc + 1 /\ LinkText(world) > 0
      BY <1>5, <3>1 DEF LinkText, Names
    <3>3. world.proc + 1 - 1 = world.proc
      BY <3>1, <1>5
    <3>4. world.proc > 0 => "odd" \in marks
      BY <1>4, <2>1
    <3>5. \/ got'.value \in ever /\ (got'.value > 0 => "odd" \in marks)
          \/ got'.value > 0 /\ got'.value - 1 \in ever
      BY <1>3, <3>1, <3>2, <3>3, <3>4
    <3> QED
      BY <1>1, <1>6, <1>8, <2>1, <3>1, <3>2, <3>5 DEF FailedInv, GotInv
  <2>3. CASE ~(world.proc >= 0)
    <3>1. ~got'.ok
      BY <2>1, <2>3 DEF None
    <3>2. world.proc = Gone \/ world.proc = Closed
      BY <1>3, <1>5, <2>3
    <3> QED
      BY <1>1, <1>3, <1>8, <3>1, <3>2 DEF FailedInv, GotInv
  <2> QED
    BY <2>2, <2>3
<1>9. CASE at \in Private
  <2>1. /\ got' \in (IF world.proc = Gone THEN {} ELSE {Found(world.proc)})
                    \cup (IF world.proc < 0 THEN {None} ELSE {})
        /\ at \notin {"pid/exe", "pid/exe?", "target?", "pid", "pid?", "pid/status"}
    BY <1>9 DEF OfPid, Private
  <2>2. CASE got' = None /\ world.proc < 0
    <3>1. ~got'.ok
      BY <2>2 DEF None
    <3>2. world.proc = Gone \/ world.proc = Closed
      BY <1>3, <1>5, <2>2
    <3> QED
      BY <1>1, <1>3, <1>9, <3>1, <3>2 DEF FailedInv, GotInv
  <2>3. CASE got' = Found(world.proc) /\ world.proc # Gone
    <3>1. got'.ok /\ got'.value = world.proc
      BY <2>3 DEF Found
    <3> QED
      BY <1>1, <1>3, <1>6, <2>1, <2>3, <3>1 DEF FailedInv, GotInv
  <2> QED
    BY <2>1, <2>2, <2>3
<1>10. CASE at \notin {"target?", "pid/exe", "pid/exe?"} \cup Private
  <2>1. got' = IF world.proc = Gone THEN None
               ELSE IF at = "pid/status" /\ world.traced THEN Found(Traced)
               ELSE Found(world.proc)
    BY <1>10 DEF OfPid
  <2>2. CASE world.proc = Gone
    <3>1. ~got'.ok
      BY <2>1, <2>2 DEF None
    <3> QED
      BY <1>1, <1>3, <2>2, <3>1 DEF FailedInv, GotInv
  <2>3. CASE world.proc # Gone /\ at = "pid/status" /\ world.traced
    <3>1. got'.ok /\ got'.value = Traced
      BY <2>1, <2>3 DEF Found
    <3> QED
      BY <1>1, <1>3, <1>6, <2>3, <3>1 DEF FailedInv, GotInv
  <2>4. CASE world.proc # Gone /\ ~(at = "pid/status" /\ world.traced)
    <3>1. got'.ok /\ got'.value = world.proc
      BY <2>1, <2>4 DEF Found
    <3>2. at \in {"pid", "pid?"} => Closed \in ever \/ (Gone \in ever /\ "reused" \in marks)
      BY <2>4 DEF AskInv, HistoryInv
    <3> QED
      BY <1>1, <1>3, <1>6, <1>10, <2>4, <3>1, <3>2 DEF FailedInv, GotInv
  <2> QED
    BY <2>2, <2>3, <2>4
<1> QED
  BY <1>7, <1>8, <1>9, <1>10

LEMMA OtherAnswers ==
    ASSUME IInv, Ask, fn \notin DOMAIN OfProcess, got' \in Content(at)
    PROVE  FailedInv' /\ GotInv'
<1> USE DEF IInv
<1>1. /\ pc = "asking" /\ pc' = "got"
      /\ UNCHANGED <<fn, form, at, kept, up, outcome, value, world, ever, always, marks>>
  BY DEF Ask
<1>2. form # "none" /\ fn \in Functions
  BY <1>1 DEF PlaceInv, TypeOK
<1>3. at \notin {"pid/exe", "pid/exe?", "target?", "pid", "pid?"}
  BY <1>2, AskedNow, Domains
<1>4. CASE fn \in DOMAIN OfCpus
  <2>1. got' = Found(world.online) /\ world.online \in ever
    BY <1>2, <1>4, AskedNow, ContentOf, TruthOf DEF HistoryInv
  <2>2. got'.ok /\ got'.value = world.online /\ world.online \in 1..MaxCpus
    BY <1>4, <2>1 DEF Found, GoodWorld
  <2>3. at \notin {"meminfo", "vmstat", "sysinfo"} /\ fn \notin DOMAIN OfDisks
        /\ fn \notin DOMAIN OfMounts
    BY <1>2, <1>4, AskedNow, Apart
  <2> QED
    BY <1>1, <1>3, <1>4, <2>1, <2>2, <2>3 DEF FailedInv, GotInv
<1>5. CASE fn \in DOMAIN OfMemory
  <2>1. at \in {"meminfo", "vmstat", "sysinfo"}
    BY <1>2, <1>5, AskedNow, Domains
  <2>2. /\ world.free \in 0..Total /\ world.cached \in 0..Total
        /\ world.free + world.cached \in ever
    BY <1>5, TruthOf DEF GoodWorld, HistoryInv
  <2>3. Total \in Nat
    BY BoundsAssumption
  <2>4. fn \notin DOMAIN OfDisks /\ fn \notin DOMAIN OfMounts /\ fn \notin DOMAIN OfCpus
    BY <1>5, Apart
  <2>5. CASE at = "sysinfo"
    <3>1. got'.ok /\ got'.value = world.free
      BY <1>5, <2>5, ContentOf DEF Found
    <3>2. CachedThen(kept)
      BY <2>5 DEF AskInv
    <3>3. /\ world.free + kept <= world.free + world.cached \/ "reclaimed" \in marks
          /\ world.free + kept >= world.free + world.cached \/ "filled" \in marks
      BY <2>2, <2>3, <3>2 DEF CachedThen
    <3> QED
      BY <1>1, <1>3, <2>2, <2>4, <2>5, <3>1, <3>3 DEF FailedInv, GotInv
  <2>6. CASE at \in {"meminfo", "vmstat"}
    <3>1. got'.ok /\ got'.value = world.cached
      BY <1>5, <2>6, ContentOf DEF Found
    <3>2. CachedThen(got.value)'
      BY <1>1, <2>2, <2>3, <3>1 DEF CachedThen
    <3> QED
      BY <1>1, <1>3, <2>4, <2>6, <3>1, <3>2 DEF FailedInv, GotInv
  <2> QED
    BY <2>1, <2>5, <2>6
<1>6. CASE fn \in DOMAIN OfDisks
  <2>1. at \in {"partitions", "diskstats"}
    BY <1>2, <1>6, AskedNow
  <2>2. got' = Found(world.present) /\ Counted(world.present) \subseteq ever
        /\ always \subseteq Counted(world.present)
    BY <1>6, <2>1, ContentOf, TruthOf DEF HistoryInv
  <2>3. got'.ok /\ got'.value = world.present /\ world.present \subseteq Devs
    BY <1>6, <2>2 DEF Found, GoodWorld
  <2>4. DisksThen(got.value)'
    BY <1>1, <2>2, <2>3 DEF DisksThen, Counted
  <2>5. at \notin {"meminfo", "vmstat", "sysinfo"} /\ fn \notin DOMAIN OfCpus
        /\ fn \notin DOMAIN OfMounts
    BY <1>2, <1>6, <2>1, Apart
  <2> QED
    BY <1>1, <1>3, <2>3, <2>4, <2>5 DEF FailedInv, GotInv
<1>7. CASE fn \in DOMAIN OfMounts
  <2>1. at \in {"filesystems", "mtab"}
    BY <1>2, <1>7, AskedNow
  <2>2. /\ world.types \subseteq FsTypes /\ world.mounts \subseteq world.types
        /\ world.mounts \subseteq ever /\ always \subseteq world.mounts
    BY <1>7, TruthOf DEF HistoryInv, GoodWorld
  <2>3. at \notin {"meminfo", "vmstat", "sysinfo"} /\ fn \notin DOMAIN OfCpus
        /\ fn \notin DOMAIN OfDisks
    BY <1>2, <1>7, <2>1, Apart
  <2>4. /\ got'.ok /\ got'.value \subseteq FsTypes /\ always \subseteq got'.value
        /\ at = "mtab" => got'.value \subseteq ever
    <3>1. CASE at = "filesystems"
      <4>1. got'.ok /\ got'.value = world.types
        BY <1>7, <3>1, ContentOf DEF Found
      <4> QED
        BY <2>2, <3>1, <4>1
    <3>2. CASE at = "mtab"
      <4>1. got'.ok /\ got'.value = world.mounts
        BY <1>7, <3>2, ContentOf DEF Found
      <4> QED
        BY <2>2, <3>2, <4>1
    <3> QED
      BY <2>1, <3>1, <3>2
  <2> QED
    BY <1>1, <1>3, <2>3, <2>4 DEF FailedInv, GotInv
<1> QED
  BY <1>2, <1>4, <1>5, <1>6, <1>7 DEF Functions

LEMMA AskKeeps == ASSUME IInv, Ask PROVE IInv'
<1> USE DEF IInv
<1>1. /\ pc = "asking" /\ pc' = "got" /\ got' \in Answers(at) /\ up
      /\ UNCHANGED <<fn, form, at, kept, up, outcome, value, world, ever, always, marks>>
  BY DEF Ask
<1>2. TypeOK'
  BY <1>1 DEF TypeOK
<1>3. GoodWorld(world)' /\ HistoryInv'
  BY <1>1, WorldStays
<1>4. PlaceInv'
  BY <1>1 DEF PlaceInv
<1>5. AskInv'
  BY <1>1 DEF AskInv, CachedThen, DisksThen, Counted, Recorded, Listed, LastName
<1>6. FailedInv' /\ GotInv'
  <2>1. CASE Opens(at) /\ world.full
    <3>1. ~got'.ok
      BY <1>1, <2>1 DEF Answers, None
    <3>2. "full" \in marks
      <4>1. fn \in Functions
        BY DEF TypeOK
      <4> QED
        BY <2>1, <4>1, MarksOf DEF HistoryInv
    <3> QED
      BY <1>1, <2>1, <3>1, <3>2 DEF FailedInv, GotInv, Opens
  <2>2. CASE ~(Opens(at) /\ world.full)
    <3>1. got' \in Content(at)
      BY <1>1, <2>2 DEF Answers
    <3>2. CASE fn \in DOMAIN OfProcess
      <4>1. at \notin SystemFiles
        BY <1>1, <3>2, AskedNow DEF PlaceInv
      <4> QED
        BY <3>1, <3>2, <4>1, ContentOf, ProcessAnswers
    <3>3. CASE fn \notin DOMAIN OfProcess
      BY <3>1, <3>3, OtherAnswers
    <3> QED
      BY <3>2, <3>3
  <2> QED
    BY <2>1, <2>2
<1>7. AnswerIsOfTheTime' /\ KeptIsListedOnce' /\ FailsForCause'
  BY <1>1 DEF AnswerIsOfTheTime, KeptIsListedOnce, FailsForCause
<1> QED
  BY <1>2, <1>3, <1>4, <1>5, <1>6, <1>7

-----------------------------------------------------------------------------
(* The answers are handled.                                                *)

\* Which function asks what.
LEMMA FunctionOf ==
    ASSUME IInv, form # "none"
    PROVE  /\ at \in {"pid/io?", "pid/io"} => fn = "ioCounters"
           /\ at \in Private => fn \in {"ioCounters", "numFds", "cwd", "memMaps"}
           /\ at \in {"partitions", "diskstats"} => fn \in DOMAIN OfDisks
           /\ at \in {"filesystems", "mtab"} => fn \in DOMAIN OfMounts
           /\ fn = "exe" => /\ form = "async" => at \in {"pid/exe", "pid", "target?"}
                            /\ form = "sync" => at \in {"pid/exe?", "pid/exe", "pid?", "target?"}
<1>1. fn \in Functions
  BY DEF IInv, TypeOK
<1>2. /\ at \in {"pid/io?", "pid/io"} => fn = "ioCounters"
      /\ at \in {"partitions", "diskstats"} => fn \in DOMAIN OfDisks
      /\ at \in {"filesystems", "mtab"} => fn \in DOMAIN OfMounts
  BY <1>1, AskedNow, Domains DEF Functions
<1>3. at \in Private => fn \in {"ioCounters", "numFds", "cwd", "memMaps"}
  BY <1>1, AskedNow, Domains DEF Functions, Private
<1>4. fn = "exe" => /\ form = "async" => at \in {"pid/exe", "pid", "target?"}
                    /\ form = "sync" => at \in {"pid/exe?", "pid/exe", "pid?", "target?"}
  BY AsksOf, ShortSequences DEF IInv, TypeOK
<1> QED
  BY <1>2, <1>3, <1>4

\* The next question of a chain.
LEMMA GoOnKeeps ==
    ASSUME IInv, up, pc = "got", NEW q, NEW v, GoOn(q, v),
           \E i \in DOMAIN Asks(fn, form) : q = Asks(fn, form)[i], AskInv'
    PROVE  IInv'
<1> USE DEF IInv
<1>1. /\ pc' = "asking" /\ at' = q
      /\ UNCHANGED <<fn, form, up, outcome, value, world, ever, always, marks>>
  BY DEF GoOn
<1>2. outcome = "none" /\ form # "none"
  BY DEF PlaceInv, TypeOK
<1>3. TypeOK'
  <2>1. Asks(fn, form)' = Asks(fn, form)
    BY <1>1
  <2> QED
    BY <1>1, <1>2, <2>1 DEF TypeOK
<1>4. GoodWorld(world)' /\ HistoryInv'
  BY <1>1, WorldStays
<1>5. PlaceInv' /\ FailedInv' /\ GotInv'
  BY <1>1, <1>2 DEF PlaceInv, FailedInv, GotInv
<1>6. AnswerIsOfTheTime' /\ KeptIsListedOnce' /\ FailsForCause'
  BY <1>1, <1>2 DEF AnswerIsOfTheTime, KeptIsListedOnce, FailsForCause
<1> QED
  BY <1>3, <1>4, <1>5, <1>6

\* The end of a call, for what it must not contradict.
LEMMA EndKeeps ==
    ASSUME IInv, up, pc = "got", NEW o \in {"ok", "error", "throws"}, NEW v, End(o, v),
           o = "ok" => /\ fn \in DOMAIN OfProcess => v \in {Closed} \cup Names
                       /\ fn \in DOMAIN OfCpus => v \in Nat
                       /\ fn \in DOMAIN OfMemory => v \in 0..(2 * Total)
                       /\ fn \in DOMAIN OfDisks => v \subseteq Devs
                       /\ fn \in DOMAIN OfMounts => v \subseteq FsTypes,
           AnswerIsOfTheTime', KeptIsListedOnce', FailsForCause'
    PROVE  IInv'
<1> USE DEF IInv
<1>1. /\ pc' = "over" /\ outcome' = o /\ value' = v
      /\ UNCHANGED <<fn, form, at, got, kept, up, world, ever, always, marks>>
  BY DEF End
<1>2. TypeOK'
  <2>1. /\ (fn \in Functions /\ world.full \in BOOLEAN)'
        /\ (form \in {"none", "async", "sync"} /\ pc \in {"idle", "asking", "got", "over"})'
        /\ (outcome \in {"none", "ok", "error", "throws"})'
        /\ (form # "none" => \E i \in DOMAIN Asks(fn, form) : at = Asks(fn, form)[i])'
    BY <1>1 DEF TypeOK
  <2>2. up' \in BOOLEAN
    BY <1>1 DEF TypeOK
  <2>3. (outcome = "ok" =>
            CASE fn \in DOMAIN OfProcess -> value \in {Closed} \cup Names
              [] fn \in DOMAIN OfCpus    -> value \in Nat
              [] fn \in DOMAIN OfMemory  -> value \in 0..(2 * Total)
              [] fn \in DOMAIN OfDisks   -> value \subseteq Devs
              [] fn \in DOMAIN OfMounts  -> value \subseteq FsTypes)'
    BY <1>1, <2>1, Apart DEF Functions
  <2> QED
    BY <2>1, <2>2, <2>3 DEF TypeOK
<1>3. GoodWorld(world)' /\ HistoryInv'
  BY <1>1, WorldStays
<1>4. PlaceInv' /\ FailedInv' /\ GotInv'
  BY <1>1 DEF PlaceInv, FailedInv, GotInv
<1>5. AskInv'
  BY <1>1 DEF AskInv, CachedThen, DisksThen, Counted, Recorded, Listed, LastName
<1> QED
  BY <1>2, <1>3, <1>4, <1>5

LEMMA FailKeeps ==
    ASSUME IInv, up, pc = "got", Fail,
           \/ "full" \in marks
           \/ fn \in DOMAIN OfProcess /\ Gone \in ever
           \/ fn \in {"ioCounters", "numFds", "cwd", "memMaps"} /\ Closed \in ever
           \/ fn = "exe" /\ form = "sync" /\ Closed \in ever
    PROVE  IInv'
<1>1. End("error", Blank) /\ outcome' = "error" /\ UNCHANGED <<fn, form, up, ever, marks>>
  BY DEF Fail, End
<1>2. AnswerIsOfTheTime' /\ KeptIsListedOnce'
  BY <1>1 DEF AnswerIsOfTheTime, KeptIsListedOnce
<1>3. FailsForCause'
  BY <1>1 DEF FailsForCause
<1> QED
  BY <1>1, <1>2, <1>3, EndKeeps

LEMMA ThrowKeeps ==
    ASSUME IInv, up, pc = "got", Throw,
           \/ fn \in {"ioCounters", "exe"} /\ Gone \in ever
           \/ form = "sync" /\ fn = "status" /\ "traced" \in marks
           \/ form = "sync" /\ fn = "diskPartitions" /\ "full" \in marks
    PROVE  IInv'
<1>1. End("throws", Blank) /\ outcome' = "throws" /\ UNCHANGED <<fn, form, up, ever, marks>>
  BY DEF Throw, End
<1>2. AnswerIsOfTheTime' /\ KeptIsListedOnce'
  BY <1>1 DEF AnswerIsOfTheTime, KeptIsListedOnce
<1>3. FailsForCause'
  BY <1>1 DEF FailsForCause
<1> QED
  BY <1>1, <1>2, <1>3, EndKeeps

\* The exception of a callback ends node itself.
LEMMA RaiseKeeps ==
    ASSUME IInv, up, pc = "got", Raise,
           \/ fn = "status" /\ "traced" \in marks
           \/ fn = "diskPartitions" /\ "full" \in marks
    PROVE  IInv'
<1> USE DEF IInv
<1>1. CASE form = "sync"
  BY <1>1, ThrowKeeps DEF Raise
<1>2. CASE form # "sync"
  <2>1. /\ up' = FALSE /\ pc' = "over"
        /\ UNCHANGED <<fn, form, at, got, kept, outcome, value, world, ever, always, marks>>
    BY <1>2 DEF Raise
  <2>2. outcome = "none" /\ form = "async"
    BY <1>2 DEF PlaceInv, TypeOK
  <2>3. TypeOK'
    BY <2>1, <2>2 DEF TypeOK
  <2>4. GoodWorld(world)' /\ HistoryInv'
    BY <2>1, WorldStays
  <2>5. PlaceInv' /\ FailedInv' /\ GotInv'
    BY <2>1, <2>2 DEF PlaceInv, FailedInv, GotInv
  <2>6. AskInv'
    BY <2>1 DEF AskInv, CachedThen, DisksThen, Counted, Recorded, Listed, LastName
  <2>7. AnswerIsOfTheTime' /\ KeptIsListedOnce' /\ FailsForCause'
    BY <2>1, <2>2 DEF AnswerIsOfTheTime, KeptIsListedOnce, FailsForCause
  <2> QED
    BY <2>3, <2>4, <2>5, <2>6, <2>7
<1> QED
  BY <1>1, <1>2

\* What the questions of a chain are, and where a call may go on to.
LEMMA Second ==
    /\ \A x, y : <<x, y>>[2] = y
    /\ \A x, y, z : <<x, y, z>>[2] = y /\ <<x, y, z>>[3] = z
    /\ \A x, y, z, u : <<x, y, z, u>>[2] = y /\ <<x, y, z, u>>[3] = z /\ <<x, y, z, u>>[4] = u
  OBVIOUS

LEMMA GoesOnTo ==
    LET IsAsked(q) == \E i \in DOMAIN Asks(fn, form) : q = Asks(fn, form)[i]
    IN /\ fn = "ioCounters" => IsAsked("pid/io")
       /\ fn = "exe" => /\ IsAsked("pid/exe") /\ IsAsked("target?")
                        /\ form # "sync" => IsAsked("pid")
                        /\ form = "sync" => IsAsked("pid?")
       /\ fn = "cpuCountLogical" => IsAsked("stat")
       /\ fn \in DOMAIN OfMemory => IsAsked("sysinfo")
       /\ fn = "diskIOCounters" => IsAsked("diskstats")
       /\ fn = "diskPartitions" => IsAsked("mtab")
<1> DEFINE IsAsked(q) == \E i \in DOMAIN Asks(fn, form) : q = Asks(fn, form)[i]
<1>1. \A x, q : Asks(fn, form) = <<x, q>> => IsAsked(q)
  <2>1. SUFFICES ASSUME NEW x, NEW q, Asks(fn, form) = <<x, q>> PROVE IsAsked(q)
    OBVIOUS
  <2>2. 2 \in DOMAIN Asks(fn, form) /\ Asks(fn, form)[2] = q
    BY <2>1, ShortSequences, Second
  <2> QED
    BY <2>2
<1>2. \A x, y, z : <<x, y, z>>[1] = x
  OBVIOUS
<1>3. fn = "exe" /\ form = "sync" => IsAsked("pid/exe") /\ IsAsked("target?") /\ IsAsked("pid?")
  <2>1. fn = "exe" /\ form = "sync" =>
           Asks(fn, form) = <<"pid/exe?", "pid/exe", "pid?", "target?">>
    BY AsksOf
  <2> QED
    BY <2>1, ShortSequences, Second
<1>4. fn = "exe" /\ form # "sync" => IsAsked("pid/exe") /\ IsAsked("target?") /\ IsAsked("pid")
  <2>1. fn = "exe" /\ form # "sync" => Asks(fn, form) = <<"pid/exe", "pid", "target?">>
    BY AsksOf
  <2> QED
    BY <1>2, <2>1, ShortSequences, Second
<1>5. /\ fn = "ioCounters" => Asks(fn, form) = <<"pid/io?", "pid/io">>
      /\ fn = "cpuCountLogical" => Asks(fn, form) = <<"cpuinfo", "stat">>
      /\ fn = "virtualMemory" => Asks(fn, form) = <<"meminfo", "sysinfo">>
      /\ fn = "swapMemory" => Asks(fn, form) = <<"vmstat", "sysinfo">>
      /\ fn = "diskIOCounters" => Asks(fn, form) = <<"partitions", "diskstats">>
      /\ fn = "diskPartitions" => Asks(fn, form) = <<"filesystems", "mtab">>
  BY AsksOf
<1> HIDE DEF IsAsked
<1>6. /\ fn = "ioCounters" => IsAsked("pid/io")
      /\ fn = "cpuCountLogical" => IsAsked("stat")
      /\ fn \in {"virtualMemory", "swapMemory"} => IsAsked("sysinfo")
      /\ fn = "diskIOCounters" => IsAsked("diskstats")
      /\ fn = "diskPartitions" => IsAsked("mtab")
  BY <1>1, <1>5
<1> QED
  BY <1>3, <1>4, <1>6, Domains DEF IsAsked

LEMMA ReadFailsKeeps == ASSUME IInv, ReadFails PROVE IInv'
<1>1. up /\ pc = "got" /\ ~got.ok /\ fn # "exe" /\ at # "pid/io?" /\ Fail
  BY DEF ReadFails
<1>2. form # "none"
  BY <1>1 DEF IInv, PlaceInv
<1>3. at \notin {"pid/exe", "pid/exe?", "target?"}
  BY <1>1, <1>2, AskedNow
<1>4. \/ "full" \in marks
      \/ fn \in DOMAIN OfProcess /\ Gone \in ever
      \/ fn \in {"ioCounters", "numFds", "cwd", "memMaps"} /\ Closed \in ever
  BY <1>1, <1>2, <1>3, FunctionOf DEF IInv, FailedInv
<1> QED
  BY <1>1, <1>4, FailKeeps

\* A call that succeeds, when a property is not about its function.
LEMMA SucceedKeeps ==
    ASSUME IInv, up, pc = "got", NEW v, Succeed(v),
           /\ fn \in DOMAIN OfProcess => v \in {Closed} \cup Names
           /\ fn \in DOMAIN OfCpus => v \in Nat
           /\ fn \in DOMAIN OfMemory => v \in 0..(2 * Total)
           /\ fn \in DOMAIN OfDisks => v \subseteq Devs
           /\ fn \in DOMAIN OfMounts => v \subseteq FsTypes,
           AnswerIsOfTheTime', KeptIsListedOnce'
    PROVE  IInv'
<1>1. End("ok", v) /\ outcome' = "ok" /\ up' = up
  BY DEF Succeed, End
<1>2. FailsForCause'
  BY <1>1 DEF FailsForCause
<1> QED
  BY <1>1, <1>2, EndKeeps

LEMMA HandleKeeps == ASSUME IInv, Handle PROVE IInv'
<1>1. /\ up /\ pc = "got" /\ got.ok /\ fn \notin Chains
      /\ IF got.value = Traced THEN Raise ELSE Succeed(got.value)
  BY DEF Handle
<1>2. fn \in Functions
  BY DEF IInv, TypeOK
<1>3. /\ fn \in DOMAIN OfProcess \cup DOMAIN OfCpus
      /\ fn \notin {"exe", "cpuCountLogical", "virtualMemory", "diskIOCounters", "diskPartitions"}
  BY <1>1, <1>2, Domains DEF Functions, Chains
<1>4. MaxCpus \in Nat /\ MaxSuffix \in Nat /\ Closed = -1 /\ Traced = -3
  BY BoundsAssumption DEF Closed, Traced
<1>5. CASE got.value = Traced
  <2>1. fn \in DOMAIN OfCpus => got.value \in 1..MaxCpus
    BY <1>1 DEF IInv, GotInv
  <2>2. fn \in DOMAIN OfProcess
    BY <1>3, <1>4, <1>5, <2>1
  <2>3. \/ got.value \in {Closed} \cup 0..MaxSuffix
        \/ fn = "status" /\ "traced" \in marks
    BY <1>1, <1>3, <2>2 DEF IInv, GotInv
  <2>4. fn = "status" /\ "traced" \in marks
    BY <1>4, <1>5, <2>3
  <2> QED
    BY <1>1, <1>5, <2>4, RaiseKeeps
<1>6. CASE got.value # Traced
  <2>1. Succeed(got.value) /\ value' = got.value /\ UNCHANGED <<fn, ever>>
    BY <1>1, <1>6 DEF Succeed, End
  <2>2. /\ got.value \in ever
        /\ fn \in DOMAIN OfProcess => got.value \in {Closed} \cup 0..MaxSuffix
        /\ fn \in DOMAIN OfCpus => got.value \in 1..MaxCpus
    BY <1>1, <1>3, <1>6 DEF IInv, GotInv
  <2>3. 0..MaxSuffix \subseteq Names /\ 1..MaxCpus \subseteq Nat
    BY <1>4 DEF Names
  <2>4. fn \notin DOMAIN OfMemory /\ fn \notin DOMAIN OfDisks /\ fn \notin DOMAIN OfMounts
    BY <1>3, Apart
  <2>5. AnswerIsOfTheTime'
    BY <1>3, <2>1, <2>2 DEF AnswerIsOfTheTime
  <2>6. KeptIsListedOnce'
    BY <1>3, <2>1 DEF KeptIsListedOnce
  <2> QED
    BY <1>1, <2>1, <2>2, <2>3, <2>4, <2>5, <2>6, SucceedKeeps
<1> QED
  BY <1>5, <1>6

LEMMA IoExistsKeeps == ASSUME IInv, IoExists PROVE IInv'
<1>1. up /\ pc = "got" /\ at = "pid/io?"
  BY DEF IoExists, Got
<1>2. form # "none" /\ fn = "ioCounters"
  <2>1. form # "none"
    BY <1>1 DEF IInv, PlaceInv
  <2> QED
    BY <1>1, <2>1, FunctionOf
<1>3. CASE GoOn("pid/io", 0)
  <2>1. AskInv'
    BY <1>3 DEF GoOn, AskInv
  <2>2. \E i \in DOMAIN Asks(fn, form) : "pid/io" = Asks(fn, form)[i]
    BY <1>2, GoesOnTo
  <2> QED
    BY <1>1, <1>3, <2>1, <2>2, GoOnKeeps
<1>4. CASE Got("pid/io?", FALSE) /\ Throw
  <2>1. Gone \in ever
    BY <1>1, <1>4 DEF Got, IInv, FailedInv, Opens, Private
  <2> QED
    BY <1>1, <1>2, <1>4, <2>1, ThrowKeeps
<1> QED
  BY <1>3, <1>4 DEF IoExists

\* What an exe answers: a listed answer, or one that AnswerIsOfTheTime excuses.
LEMMA ExeAnswers ==
    ASSUME IInv, up, pc = "got", fn = "exe", NEW v, Succeed(v), v \in {Closed} \cup Names,
           \/ v \in ever
           \/ v = Closed /\ "reused" \in marks /\ Gone \in ever
           \/ "odd" \in marks /\ (v - 1 \in ever \/ v + 1 \in ever)
    PROVE  IInv'
<1>1. outcome' = "ok" /\ value' = v /\ UNCHANGED <<fn, ever, marks>>
  BY DEF Succeed, End
<1>2. fn \in DOMAIN OfProcess
  BY Domains
<1>3. /\ fn \notin DOMAIN OfCpus /\ fn \notin DOMAIN OfMemory
      /\ fn \notin DOMAIN OfDisks /\ fn \notin DOMAIN OfMounts
  BY <1>2, Apart
<1>4. AnswerIsOfTheTime'
  BY <1>1 DEF AnswerIsOfTheTime
<1>5. KeptIsListedOnce'
  BY <1>1 DEF KeptIsListedOnce
<1> QED
  BY <1>2, <1>3, <1>4, <1>5, SucceedKeeps

LEMMA ExeExistsKeeps == ASSUME IInv, ExeExists PROVE IInv'
<1>1. up /\ pc = "got" /\ at = "pid/exe?"
  BY DEF ExeExists, Got
<1>2. form \in {"async", "sync"}
  BY <1>1 DEF IInv, PlaceInv, TypeOK
<1>3. fn = "exe" /\ form = "sync"
  BY <1>1, <1>2, AskedNow, FunctionOf
<1>4. CASE GoOn("pid/exe", 0)
  <2>1. AskInv'
    BY <1>4 DEF GoOn, AskInv
  <2>2. \E i \in DOMAIN Asks(fn, form) : "pid/exe" = Asks(fn, form)[i]
    BY <1>1, <1>3, <1>4, GoesOnTo
  <2> QED
    BY <1>1, <1>4, <2>1, <2>2, GoOnKeeps
<1>5. CASE Got("pid/exe?", FALSE) /\ GoOn("pid?", 0)
  <2>1. Closed \in ever \/ Gone \in ever
    BY <1>1, <1>5 DEF Got, IInv, FailedInv, Opens
  <2>2. AskInv'
    BY <1>5, <2>1 DEF GoOn, AskInv
  <2>3. \E i \in DOMAIN Asks(fn, form) : "pid?" = Asks(fn, form)[i]
    BY <1>1, <1>3, <1>5, GoesOnTo
  <2> QED
    BY <1>1, <1>5, <2>2, <2>3, GoOnKeeps
<1> QED
  BY <1>4, <1>5 DEF ExeExists

LEMMA ExeReadlinkKeeps == ASSUME IInv, ExeReadlink PROVE IInv'
<1>1. up /\ pc = "got" /\ at = "pid/exe"
  BY DEF ExeReadlink, Got
<1>2. form # "none"
  BY <1>1 DEF IInv, PlaceInv
<1>3. fn = "exe"
  BY <1>1, <1>2, AskedNow
<1>4. MaxSuffix \in Nat
  BY BoundsAssumption
<1>5. got.ok => /\ got.value \in Names
                /\ \/ got.value \in ever /\ (got.value > 0 => "odd" \in marks)
                   \/ got.value > 0 /\ got.value - 1 \in ever
  BY <1>1 DEF IInv, GotInv
<1>6. CASE Got("pid/exe", TRUE) /\ got.value = 0 /\ Succeed(0)
  <2>1. 0 \in ever /\ 0 \in Names
    BY <1>5, <1>6 DEF Got
  <2> QED
    BY <1>1, <1>3, <1>6, <2>1, ExeAnswers
<1>7. CASE Got("pid/exe", TRUE) /\ got.value > 0 /\ GoOn("target?", got.value)
  <2>1. got.value \in 1..(MaxSuffix + 1)
    BY <1>4, <1>5, <1>7 DEF Got, Names
  <2>2. (got.value \in ever /\ "odd" \in marks) \/ got.value - 1 \in ever
    BY <1>5, <1>7 DEF Got
  <2>3. AskInv'
    BY <1>7, <2>1, <2>2 DEF GoOn, AskInv
  <2>4. \E i \in DOMAIN Asks(fn, form) : "target?" = Asks(fn, form)[i]
    BY <1>1, <1>3, <1>7, GoesOnTo
  <2> QED
    BY <1>1, <1>7, <2>3, <2>4, GoOnKeeps
<1>8. ASSUME Got("pid/exe", FALSE) PROVE Closed \in ever \/ Gone \in ever
  BY <1>1, <1>8 DEF Got, IInv, FailedInv, Opens
<1>9. CASE Got("pid/exe", FALSE) /\ form = "async" /\ GoOn("pid", 0)
  <2>1. AskInv'
    BY <1>8, <1>9 DEF GoOn, AskInv
  <2>2. \E i \in DOMAIN Asks(fn, form) : "pid" = Asks(fn, form)[i]
    BY <1>3, <1>9, GoesOnTo
  <2> QED
    BY <1>1, <1>9, <2>1, <2>2, GoOnKeeps
<1>10. CASE Got("pid/exe", FALSE) /\ form = "sync" /\ Fail
  <2>1. fn \in DOMAIN OfProcess
    BY <1>3, Domains
  <2> QED
    BY <1>1, <1>3, <1>8, <1>10, <2>1, FailKeeps
<1> QED
  BY <1>6, <1>7, <1>9, <1>10 DEF ExeReadlink

LEMMA ExeBaseKeeps == ASSUME IInv, ExeBase PROVE IInv'
<1>1. up /\ pc = "got" /\ at \in {"pid", "pid?"}
  BY DEF ExeBase, Got
<1>2. form # "none"
  BY <1>1 DEF IInv, PlaceInv
<1>3. fn = "exe" /\ fn \in DOMAIN OfProcess
  BY <1>1, <1>2, AskedNow, Domains
<1>4. CASE (Got("pid", TRUE) \/ Got("pid?", TRUE)) /\ Succeed(Closed)
  <2>1. Closed \in ever \/ (Gone \in ever /\ "reused" \in marks)
    BY <1>1, <1>4 DEF Got, IInv, GotInv
  <2> QED
    BY <1>1, <1>3, <1>4, <2>1, ExeAnswers
<1>5. CASE Got("pid", FALSE) /\ Fail
  <2>1. "full" \in marks \/ Gone \in ever
    BY <1>1, <1>5 DEF Got, IInv, FailedInv, Private
  <2> QED
    BY <1>1, <1>3, <1>5, <2>1, FailKeeps
<1>6. CASE Got("pid?", FALSE) /\ Throw
  <2>1. Gone \in ever
    BY <1>1, <1>6 DEF Got, IInv, FailedInv, Private, Opens
  <2> QED
    BY <1>1, <1>3, <1>6, <2>1, ThrowKeeps
<1> QED
  BY <1>4, <1>5, <1>6 DEF ExeBase

LEMMA ExeHandleKeeps == ASSUME IInv, ExeHandle PROVE IInv'
<1>1. up /\ pc = "got" /\ at = "target?"
  BY DEF ExeHandle, Got
<1>2. form # "none"
  BY <1>1 DEF IInv, PlaceInv
<1>3. fn = "exe" /\ MaxSuffix \in Nat
  BY <1>1, <1>2, AskedNow, BoundsAssumption
<1>4. /\ kept \in 1..(MaxSuffix + 1)
      /\ (kept \in ever /\ "odd" \in marks) \/ kept - 1 \in ever
  BY <1>1 DEF IInv, AskInv
<1>5. CASE Got("target?", TRUE) /\ Succeed(kept)
  <2>1. "odd" \in marks
    BY <1>1, <1>5 DEF Got, IInv, GotInv
  <2>2. kept \in Names
    BY <1>3, <1>4 DEF Names
  <2> QED
    BY <1>1, <1>3, <1>4, <1>5, <2>1, <2>2, ExeAnswers
<1>6. CASE Got("target?", FALSE) /\ Succeed(kept - 1)
  <2>1. kept - 1 \in Names /\ (kept - 1) + 1 = kept
    BY <1>3, <1>4 DEF Names
  <2> DEFINE v == kept - 1
  <2>2. v \in Names /\ Succeed(v)
    BY <1>6, <2>1
  <2>3. v \in ever \/ ("odd" \in marks /\ v + 1 \in ever)
    BY <1>4, <2>1
  <2> HIDE DEF v
  <2>4. v \in {Closed} \cup Names
    BY <2>2
  <2> QED
    BY <1>1, <1>3, <2>2, <2>3, <2>4, ExeAnswers
<1> QED
  BY <1>5, <1>6 DEF ExeHandle

LEMMA CpuCountKeeps == ASSUME IInv, CpuCount PROVE IInv'
<1>1. up /\ pc = "got" /\ got.ok /\ fn = "cpuCountLogical" /\ fn \in DOMAIN OfCpus
  BY Domains DEF CpuCount, Got
<1>2. /\ fn \notin DOMAIN OfProcess /\ fn \notin DOMAIN OfMemory
      /\ fn \notin DOMAIN OfDisks /\ fn \notin DOMAIN OfMounts
  BY <1>1, Apart
<1>3. got.value \in ever /\ got.value \in Nat /\ world.perCpu \in Nat
  <2>1. got.value \in ever /\ got.value \in 1..MaxCpus /\ world.perCpu \in PerCpu
    BY <1>1 DEF IInv, GotInv, GoodWorld
  <2>2. MaxCpus \in Nat /\ PerCpu \subseteq Nat
    BY BoundsAssumption
  <2>3. got.value \in Nat
    BY <2>1, <2>2
  <2> QED
    BY <2>1, <2>2, <2>3
<1>4. CASE at = "cpuinfo" /\ world.perCpu > 0 /\ Succeed(got.value * world.perCpu)
  <2> DEFINE v == got.value * world.perCpu
  <2>1. v \in Nat
    BY <1>3
  <2>2. \E n \in ever : v = n * world.perCpu
    BY <1>3
  <2>3. Succeed(v) /\ world.perCpu # 0
    BY <1>3, <1>4
  <2> HIDE DEF v
  <2>4. outcome' = "ok" /\ value' = v /\ UNCHANGED <<fn, world, ever>>
    BY <2>3 DEF Succeed, End
  <2>5. AnswerIsOfTheTime' /\ KeptIsListedOnce'
    BY <1>1, <1>2, <2>2, <2>3, <2>4 DEF AnswerIsOfTheTime, KeptIsListedOnce
  <2> QED
    BY <1>1, <1>2, <2>1, <2>3, <2>5, SucceedKeeps
<1>5. CASE world.perCpu = 0 /\ GoOn("stat", 0)
  <2>1. AskInv'
    BY <1>5 DEF GoOn, AskInv
  <2>2. \E i \in DOMAIN Asks(fn, form) : "stat" = Asks(fn, form)[i]
    BY <1>1, GoesOnTo
  <2> QED
    BY <1>1, <1>5, <2>1, <2>2, GoOnKeeps
<1>6. CASE at = "stat" /\ Succeed(got.value)
  <2>1. world.perCpu = 0
    BY <1>1, <1>6 DEF IInv, AskInv
  <2>2. outcome' = "ok" /\ value' = got.value /\ UNCHANGED <<fn, world, ever>>
    BY <1>6 DEF Succeed, End
  <2>3. AnswerIsOfTheTime' /\ KeptIsListedOnce'
    BY <1>1, <1>2, <1>3, <2>1, <2>2 DEF AnswerIsOfTheTime, KeptIsListedOnce
  <2> QED
    BY <1>1, <1>2, <1>3, <1>6, <2>3, SucceedKeeps
<1> QED
  BY <1>4, <1>5, <1>6 DEF CpuCount, Got

LEMMA MemoryAnswers == ASSUME IInv, Memory PROVE IInv'
<1>1. up /\ pc = "got" /\ got.ok /\ form # "none"
  <2>1. up /\ pc = "got" /\ got.ok
    BY DEF Memory, Got
  <2> QED
    BY <2>1 DEF IInv, PlaceInv
<1>2. Total \in Nat
  BY BoundsAssumption
<1>3. CASE fn \in DOMAIN OfMemory /\ at = Asks(fn, form)[1] /\ GoOn("sysinfo", got.value)
  <2>1. at \in {"meminfo", "vmstat"}
    <3>1. at # "sysinfo" /\ fn \in {"virtualMemory", "swapMemory"}
      BY <1>3, FirstQuestion, Domains DEF Functions
    <3> QED
      BY <1>1, <3>1, AskedNow
  <2>2. CachedThen(got.value)
    BY <1>1, <2>1 DEF IInv, GotInv
  <2>3. AskInv'
    BY <1>3, <2>2 DEF GoOn, AskInv, CachedThen
  <2>4. \E i \in DOMAIN Asks(fn, form) : "sysinfo" = Asks(fn, form)[i]
    BY <1>1, <1>3, GoesOnTo
  <2> QED
    BY <1>1, <1>3, <2>3, <2>4, GoOnKeeps
<1>4. CASE at = "sysinfo" /\ Succeed(got.value + IF fn = "virtualMemory" THEN kept ELSE 0)
  <2>1. fn \in DOMAIN OfMemory
    BY <1>1, <1>4, AskedNow
  <2>2. /\ fn \notin DOMAIN OfProcess /\ fn \notin DOMAIN OfCpus /\ fn \notin DOMAIN OfDisks
        /\ fn \notin DOMAIN OfMounts /\ fn \notin {"exe", "cpuCountLogical", "diskIOCounters",
                                                    "diskPartitions"}
    BY <2>1, Apart, Domains
  <2>3. /\ got.value \in 0..Total /\ kept \in 0..Total
        /\ (\E r \in ever : got.value + kept <= r) \/ "reclaimed" \in marks
        /\ (\E r \in ever : got.value + kept >= r) \/ "filled" \in marks
    BY <1>1, <1>4 DEF IInv, GotInv, AskInv, CachedThen
  <2> DEFINE v == got.value + IF fn = "virtualMemory" THEN kept ELSE 0
  <2>4. v \in 0..(2 * Total)
    BY <1>2, <2>3
  <2>5. fn = "virtualMemory" => /\ (\E r \in ever : v <= r) \/ "reclaimed" \in marks
                                /\ (\E r \in ever : v >= r) \/ "filled" \in marks
    BY <2>3
  <2>6. Succeed(v)
    BY <1>4
  <2> HIDE DEF v
  <2>7. outcome' = "ok" /\ value' = v /\ UNCHANGED <<fn, world, ever, marks>>
    BY <2>6 DEF Succeed, End
  <2>8. AnswerIsOfTheTime' /\ KeptIsListedOnce'
    BY <2>2, <2>5, <2>7 DEF AnswerIsOfTheTime, KeptIsListedOnce
  <2> QED
    BY <1>1, <2>2, <2>4, <2>6, <2>8, SucceedKeeps
<1> QED
  BY <1>3, <1>4 DEF Memory, Got

LEMMA DisksKeeps == ASSUME IInv, Disks PROVE IInv'
<1>1. up /\ pc = "got" /\ got.ok /\ at \in {"partitions", "diskstats"}
  BY DEF Disks, Got
<1>2. form # "none"
  BY <1>1 DEF IInv, PlaceInv
<1>3. fn \in DOMAIN OfDisks /\ fn = "diskIOCounters"
  BY <1>1, <1>2, FunctionOf, Domains
<1>4. DisksThen(got.value)
  BY <1>1, <1>3 DEF IInv, GotInv
<1>5. CASE GoOn("diskstats", Recorded(got.value))
  <2>1. UNCHANGED <<ever, always>> /\ at' = "diskstats" /\ kept' = Recorded(got.value)
    BY <1>5 DEF GoOn
  <2>2. got.value \in SUBSET Devs
    BY <1>4 DEF DisksThen
  <2>3. \E present \in SUBSET Devs : DisksThen(present)' /\ kept' = Recorded(present)
    BY <1>4, <2>1, <2>2 DEF DisksThen, Counted
  <2>4. AskInv'
    BY <2>1, <2>3 DEF AskInv, Recorded, Listed, LastName
  <2>5. \E i \in DOMAIN Asks(fn, form) : "diskstats" = Asks(fn, form)[i]
    BY <1>1, <1>3, <1>5, GoesOnTo
  <2> QED
    BY <1>1, <1>5, <2>4, <2>5, GoOnKeeps
<1>6. CASE at = "diskstats" /\ Succeed(got.value \cap kept)
  <2>1. PICK present \in SUBSET Devs : DisksThen(present) /\ kept = Recorded(present)
    BY <1>6 DEF IInv, AskInv
  <2> DEFINE v == got.value \cap kept
             whole == (v \cap Digit) \ DOMAIN PartOf
             hidden == {d \in ever : \E e \in ever \cap Digit :
                           <<d, e>> \in Within /\ (e \in DOMAIN PartOf => PartOf[e] # d)}
  <2>2. /\ v \subseteq Devs /\ v \ whole \subseteq ever /\ always \ hidden \subseteq v
        /\ \A e \in v \cap DOMAIN PartOf : PartOf[e] \in v => PartOf[e] \in whole
    <3>1. got.value \in SUBSET Devs
      BY <1>4 DEF DisksThen
    <3>2. v = got.value \cap Recorded(present)
      BY <2>1
    <3> QED
      BY <1>4, <2>1, <3>1, <3>2, DisksAnswer
  <2>3. Succeed(v)
    BY <1>6
  <2> HIDE DEF v
  <2>4. outcome' = "ok" /\ value' = v /\ UNCHANGED <<fn, ever, always>>
    BY <2>3 DEF Succeed, End
  <2>5. /\ fn \notin DOMAIN OfProcess /\ fn \notin DOMAIN OfCpus /\ fn \notin DOMAIN OfMemory
        /\ fn \notin DOMAIN OfMounts
    BY <1>3, Apart
  <2>6. AnswerIsOfTheTime'
    BY <1>3, <2>4, <2>5 DEF AnswerIsOfTheTime
  <2>7. KeptIsListedOnce'
    BY <2>2, <2>4 DEF KeptIsListedOnce
  <2> QED
    BY <1>1, <2>2, <2>3, <2>5, <2>6, <2>7, SucceedKeeps
<1> QED
  BY <1>5, <1>6 DEF Disks, Got

LEMMA PartitionsKeeps == ASSUME IInv, Partitions PROVE IInv'
<1>1. up /\ pc = "got" /\ at \in {"filesystems", "mtab"}
  BY DEF Partitions, Got
<1>2. form # "none"
  BY <1>1 DEF IInv, PlaceInv
<1>3. fn \in DOMAIN OfMounts /\ fn = "diskPartitions"
  BY <1>1, <1>2, FunctionOf, Domains
<1>4. got.ok => /\ got.value \subseteq FsTypes /\ always \subseteq got.value
                /\ at = "mtab" => got.value \subseteq ever
  BY <1>1, <1>3 DEF IInv, GotInv
<1>5. CASE Got("filesystems", TRUE) /\ GoOn("mtab", got.value)
  <2>1. AskInv'
    BY <1>4, <1>5 DEF Got, GoOn, AskInv
  <2>2. \E i \in DOMAIN Asks(fn, form) : "mtab" = Asks(fn, form)[i]
    BY <1>1, <1>3, <1>5, GoesOnTo
  <2> QED
    BY <1>1, <1>5, <2>1, <2>2, GoOnKeeps
<1>6. CASE Got("mtab", TRUE) /\ Succeed(got.value \cap kept)
  <2>1. kept \subseteq FsTypes /\ always \subseteq kept
    BY <1>6 DEF Got, IInv, AskInv
  <2> DEFINE v == got.value \cap kept
  <2>2. v \subseteq FsTypes /\ v \subseteq ever /\ always \subseteq v
    BY <1>4, <1>6, <2>1 DEF Got
  <2>3. Succeed(v)
    BY <1>6
  <2> HIDE DEF v
  <2>4. outcome' = "ok" /\ value' = v /\ UNCHANGED <<fn, ever, always>>
    BY <2>3 DEF Succeed, End
  <2>5. /\ fn \notin DOMAIN OfProcess /\ fn \notin DOMAIN OfCpus /\ fn \notin DOMAIN OfMemory
        /\ fn \notin DOMAIN OfDisks
    BY <1>3, Apart
  <2>6. AnswerIsOfTheTime'
    BY <1>3, <2>4, <2>5 DEF AnswerIsOfTheTime
  \* No type of file system is a partition.
  <2>7. v \cap DOMAIN PartOf = {}
    BY <2>2, DevicesAssumption
  <2>8. KeptIsListedOnce'
    BY <2>2, <2>4, <2>7 DEF KeptIsListedOnce
  <2> QED
    BY <1>1, <2>2, <2>3, <2>5, <2>6, <2>8, SucceedKeeps
<1>7. CASE Got("mtab", FALSE) /\ Raise
  <2>1. /\ fn \notin DOMAIN OfProcess
        /\ at \notin Private \cup {"pid/exe", "pid/exe?"} /\ at # "target?"
    BY <1>3, <1>7, Apart DEF Got, Private
  <2>2. "full" \in marks
    BY <1>1, <1>7, <2>1 DEF Got, IInv, FailedInv
  <2> QED
    BY <1>1, <1>3, <1>7, <2>2, RaiseKeeps
<1> QED
  BY <1>5, <1>6, <1>7 DEF Partitions

-----------------------------------------------------------------------------
(* The theorems.                                                           *)

LEMMA StepKeeps == IInv /\ [Next]_vars => IInv'
<1> SUFFICES ASSUME IInv, [Next]_vars PROVE IInv'
  OBVIOUS
<1>1. CASE Call
  BY <1>1, CallKeeps
<1>2. CASE CallStep
  BY <1>2, AskKeeps, ReadFailsKeeps, HandleKeeps, IoExistsKeeps, ExeExistsKeeps,
     ExeReadlinkKeeps, ExeBaseKeeps, ExeHandleKeeps, CpuCountKeeps, MemoryAnswers,
     DisksKeeps, PartitionsKeeps DEF CallStep
<1>3. CASE World
  BY <1>3, ExhaustKeeps, ProcessKeeps, MemoryKeeps, DevicesKeep DEF World
<1>4. CASE UNCHANGED vars
  <2> USE DEF IInv
  <2>1. UNCHANGED <<fn, form, pc, at, got, kept, up, outcome, value, world, ever, always, marks>>
    BY <1>4 DEF vars, call
  <2>2. TypeOK'
    BY <2>1 DEF TypeOK
  <2>3. GoodWorld(world)' /\ HistoryInv'
    BY <2>1, WorldStays
  <2>4. PlaceInv' /\ FailedInv'
    BY <2>1 DEF PlaceInv, FailedInv
  <2>5. AskInv'
    BY <2>1 DEF AskInv, CachedThen, DisksThen, Counted, Recorded, Listed, LastName
  <2>6. GotInv'
    BY <2>1 DEF GotInv, CachedThen, DisksThen, Counted
  <2>7. AnswerIsOfTheTime' /\ KeptIsListedOnce' /\ FailsForCause'
    BY <2>1 DEF AnswerIsOfTheTime, KeptIsListedOnce, FailsForCause
  <2> QED
    BY <2>2, <2>3, <2>4, <2>5, <2>6, <2>7
<1> QED
  BY <1>1, <1>2, <1>3, <1>4 DEF Next

\* The invariant holds in every state of every behaviour: what one question of a
\* chain has found is still known when the next one is answered.
THEOREM Invariance == Spec => []IInv
<1>1. Init => IInv
  BY InitKeeps
<1>2. IInv /\ [Next]_vars => IInv'
  BY StepKeeps
<1> QED
  BY <1>1, <1>2, PTL DEF Spec

\* The variables have their types: a call is at a question of its function, and
\* an answer is of the kind of its function.
THEOREM TypeCorrect == Spec => []TypeOK
<1>1. IInv => TypeOK
  BY DEF IInv
<1> QED
  BY <1>1, Invariance, PTL

\* An answer was right at some moment of the call, whatever happens between two
\* questions, with the exceptions AnswerIsOfTheTime names.
THEOREM RightAtSomeMoment == Spec => []AnswerIsOfTheTime
<1>1. IInv => AnswerIsOfTheTime
  BY DEF IInv
<1> QED
  BY <1>1, Invariance, PTL

\* What stays during the call of disk.ioCounters or disk.partitions is listed, and
\* no disk together with its partitions, with the exceptions KeptIsListedOnce names.
THEOREM StayingIsListedOnce == Spec => []KeptIsListedOnce
<1>1. IInv => KeptIsListedOnce
  BY DEF IInv
<1> QED
  BY <1>1, Invariance, PTL

\* A call fails, and node stops, only for a cause there was during the call.
THEOREM FailuresHaveCauses == Spec => []FailsForCause
<1>1. IInv => FailsForCause
  BY DEF IInv
<1> QED
  BY <1>1, Invariance, PTL

================================================================================
