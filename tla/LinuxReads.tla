------------------------------- MODULE LinuxReads -------------------------------
(***************************************************************************)
(* The functions of nslinux.js that ask /proc one question, or a short     *)
(* chain of questions, and make an answer of what they read.  Most go      *)
(* through _async_and_sync_get_handle_; exe, cpuCountLogical and           *)
(* diskIOCounters are chains of their own, and virtualMemory, swapMemory   *)
(* and diskPartitions ask the native add-on in the middle of the handling  *)
(* of a file.  Each question is answered by the world as it is at that     *)
(* moment, and the world changes in between: processes exit, and their     *)
(* numbers are used again; programs are replaced; processors, disks and    *)
(* file systems come and go; memory moves between cache and free list.     *)
(***************************************************************************)
EXTENDS Integers, Sequences, FiniteSets

CONSTANTS
    MaxSuffix,   \* how many times " (deleted)" may end the name of a program
    MaxCpus,     \* processors
    PerCpu,      \* how often a processor's entry in /proc/cpuinfo says "processor"
    Total,       \* pages of memory
    Devices,     \* the block devices, in the order of /proc/partitions
    Digit,       \* those whose name ends in a digit
    PartOf,      \* the disk of each partition: a function
    Within,      \* <<d, e>>: the name of e contains the name of disk d
    FsTypes      \* file system types on block devices

ASSUME BoundsAssumption ==
    /\ MaxSuffix \in Nat \ {0} /\ MaxCpus \in Nat \ {0} /\ PerCpu \subseteq Nat
    /\ Total \in Nat \ {0}

\* The kernel lists a disk, then its partitions, and those have none; their names
\* are the disk's with a number behind it, and to contain a name is transitive.
\* The type of a file system is no device.
Devs == {Devices[i] : i \in DOMAIN Devices}
ASSUME DevicesAssumption ==
    /\ Devices \in Seq(Devs)
    /\ DOMAIN PartOf \subseteq Digit /\ FsTypes \cap DOMAIN PartOf = {}
    /\ \A e \in DOMAIN PartOf : PartOf[e] \notin DOMAIN PartOf /\ <<PartOf[e], e>> \in Within
    /\ \A i, k \in DOMAIN Devices :
          Devices[k] \in DOMAIN PartOf /\ PartOf[Devices[k]] = Devices[i] =>
              /\ i < k
              /\ \A j \in (i + 1)..k :
                    Devices[j] \in DOMAIN PartOf /\ PartOf[Devices[j]] = Devices[i]
    /\ \A a, b, c \in Devs : <<a, b>> \in Within /\ <<b, c>> \in Within => <<a, c>> \in Within

-----------------------------------------------------------------------------
(* The functions, by the questions they ask.  "x?" is fs.existsSync.  Most  *)
(* of them take a field or two out of a text that cannot lack it; of their  *)
(* formats nothing is modelled, and createTime is proc.cpuTimes again.      *)

proc_name           == <<"pid/stat">>
proc_cmdline        == <<"pid/cmdline">>
proc_ioCounters     == <<"pid/io?", "pid/io">>
proc_cpuTimes       == <<"pid/stat">>
proc_createTime     == <<"pid/stat">>
proc_memoryInfo     == <<"pid/statm">>
proc_memMaps        == <<"pid/smaps">>
proc_cwd            == <<"pid/cwd">>
proc_numCtxSwitches == <<"pid/status">>
proc_numThreads     == <<"pid/status">>
proc_status         == <<"pid/status">>
proc_numFds         == <<"pid/fd">>
proc_ppid           == <<"pid/status">>
proc_uids           == <<"pid/status">>
proc_gids           == <<"pid/status">>
proc_exe            == <<"pid/exe", "pid", "target?">>
proc_exe_sync       == <<"pid/exe?", "pid/exe", "pid?", "target?">>
cpuTimes            == <<"stat">>
perCpuTimes         == <<"stat">>
cpuCountLogical     == <<"cpuinfo", "stat">>
cpuCountPhysical    == <<"cpuinfo">>
bootTime            == <<"stat">>
pids                == <<"proc">>
net_io_counters     == <<"net/dev">>
virtualMemory       == <<"meminfo", "sysinfo">>
swapMemory          == <<"vmstat", "sysinfo">>
disk_io_counters    == <<"partitions", "diskstats">>
diskPartitions      == <<"filesystems", "mtab">>

OfProcess == [
    name |-> proc_name, cmdline |-> proc_cmdline, ioCounters |-> proc_ioCounters,
    procCpuTimes |-> proc_cpuTimes, createTime |-> proc_createTime,
    memoryInfo |-> proc_memoryInfo, memMaps |-> proc_memMaps, cwd |-> proc_cwd,
    numCtxSwitches |-> proc_numCtxSwitches, numThreads |-> proc_numThreads,
    status |-> proc_status, numFds |-> proc_numFds, ppid |-> proc_ppid,
    uids |-> proc_uids, gids |-> proc_gids, exe |-> proc_exe]
OfCpus   == [cpuTimes |-> cpuTimes, perCpuTimes |-> perCpuTimes, bootTime |-> bootTime,
             cpuCountLogical |-> cpuCountLogical, cpuCountPhysical |-> cpuCountPhysical,
             pids |-> pids, netIOCounters |-> net_io_counters]
OfMemory == [virtualMemory |-> virtualMemory, swapMemory |-> swapMemory]
OfDisks  == [diskIOCounters |-> disk_io_counters]
OfMounts == [diskPartitions |-> diskPartitions]

Asks(f, how) ==
    IF f = "exe" /\ how = "sync" THEN proc_exe_sync
    ELSE CASE f \in DOMAIN OfProcess -> OfProcess[f]
           [] f \in DOMAIN OfCpus    -> OfCpus[f]
           [] f \in DOMAIN OfMemory  -> OfMemory[f]
           [] f \in DOMAIN OfDisks   -> OfDisks[f]
           [] f \in DOMAIN OfMounts  -> OfMounts[f]
Functions == DOMAIN OfProcess \cup DOMAIN OfCpus \cup DOMAIN OfMemory
             \cup DOMAIN OfDisks \cup DOMAIN OfMounts

-----------------------------------------------------------------------------
VARIABLES
    fn,       \* the function called
    form,     \* "none", "async" or "sync"
    pc,       \* "idle", "asking", "got" or "over"
    at,       \* the question asked or answered
    got,      \* the answer to it: [ok, value]
    kept,     \* what the function keeps of the question before
    up,       \* the node process runs
    outcome,  \* "none", "ok", "error" (given to the callback, or thrown by fs
              \* in the synchronous form) or "throws" (by nslinux.js itself)
    value,    \* the answer, if "ok"
    world,    \* what /proc and the kernel would say now
    ever,     \* what was right at some moment of the call: the answers, or for
    always,   \* a list its members, and what was right at every moment
    marks     \* what has been the case at some moment of the call

call == <<fn, form, pc, at, got, kept, up, outcome, value>>
vars == <<call, world, ever, always, marks>>

\* Of a process, proc is the number of " (deleted)" its program's name ends in,
\* or one of these two: a process whose executable and other private files
\* cannot be read (a zombie, a kernel thread, someone else's), and no process.
Closed == -1
Gone == -2
Traced == -3      \* what proc.status finds: a state in lower case
Blank == IF fn \in DOMAIN OfDisks \cup DOMAIN OfMounts THEN {} ELSE 0
None == [ok |-> FALSE, value |-> Blank]

Names == 0..(MaxSuffix + 1)
Worlds(f) ==
    CASE f \in DOMAIN OfProcess ->
           {w \in [proc : {Gone, Closed} \cup 0..MaxSuffix, unlinked : BOOLEAN,
                   files : SUBSET Names, traced : BOOLEAN, reused : {FALSE}, full : BOOLEAN] :
              /\ w.proc >= 0 /\ ~w.unlinked => w.proc \in w.files
              /\ w.proc < 0 => ~w.unlinked
              /\ w.traced => w.proc # Gone /\ f = "status"
              /\ f # "exe" => w.files = {0} /\ ~w.unlinked}
      [] f \in DOMAIN OfCpus   -> [online : 1..MaxCpus, perCpu : PerCpu, full : BOOLEAN]
      [] f \in DOMAIN OfMemory ->
           {w \in [free : 0..Total, cached : 0..Total, reclaimed : {FALSE},
                   filled : {FALSE}, full : BOOLEAN] : w.free + w.cached <= Total}
      [] f \in DOMAIN OfDisks  ->
           {w \in [present : SUBSET Devs, full : BOOLEAN] :
              \A e \in w.present \cap DOMAIN PartOf : PartOf[e] \in w.present}
      [] f \in DOMAIN OfMounts ->
           {w \in [types : SUBSET FsTypes, mounts : SUBSET FsTypes, full : BOOLEAN] :
              w.mounts \subseteq w.types}

\* A disk counts by its partitions if it has any.
Counted(present) ==
    {d \in present : ~\E e \in present \cap DOMAIN PartOf : PartOf[e] = d}

\* What the function should say of this world, or list.
Truth(w) ==
    CASE fn \in DOMAIN OfProcess -> {w.proc}
      [] fn \in DOMAIN OfCpus    -> {w.online}
      [] fn \in DOMAIN OfMemory  -> {w.free + w.cached}
      [] fn \in DOMAIN OfDisks   -> Counted(w.present)
      [] fn \in DOMAIN OfMounts  -> w.mounts

Marks(w) ==
    {x \in DOMAIN w \cap {"full", "traced", "reused", "reclaimed", "filled"} : w[x]}
    \cup {x \in {"odd"} : fn = "exe" /\ \E n \in w.files \cup {w.proc} : n > 0}

Init ==
    /\ fn \in Functions /\ world \in Worlds(fn)
    /\ form = "none" /\ pc = "idle" /\ at = ""
    /\ got = None /\ kept = Blank
    /\ up = TRUE /\ outcome = "none" /\ value = Blank
    /\ ever = Truth(world) /\ always = ever /\ marks = Marks(world)

-----------------------------------------------------------------------------
(* The world, in what the function called looks at.                        *)

Running == up /\ pc \in {"asking", "got"}
Becomes(w) ==
    /\ world' = w
    /\ ever' = ever \cup Truth(w) /\ always' = always \cap Truth(w)
    /\ marks' = marks \cup Marks(w)
    /\ UNCHANGED call

\* Other code of the program opens its last file, or closes one.
Exhaust == Running /\ Becomes([world EXCEPT !.full = ~@])

Exit ==
    /\ Running /\ fn \in DOMAIN OfProcess /\ world.proc # Gone
    /\ \E p \in {Closed, Gone} :
          Becomes([world EXCEPT !.proc = p, !.unlinked = FALSE, !.traced = FALSE])
Reuse ==
    /\ Running /\ fn \in DOMAIN OfProcess /\ world.proc = Gone
    /\ \E p \in {Closed} \cup (world.files \cap 0..MaxSuffix) :
          Becomes([world EXCEPT !.proc = p, !.reused = TRUE])
Trace == Running /\ fn = "status" /\ world.proc # Gone /\ Becomes([world EXCEPT !.traced = ~@])
Exec ==
    /\ Running /\ fn = "exe" /\ world.proc >= 0
    /\ \E p \in world.files \cap 0..MaxSuffix :
          Becomes([world EXCEPT !.proc = p, !.unlinked = FALSE])
Unlink ==
    /\ Running /\ fn = "exe"
    /\ \E n \in world.files :
          Becomes([world EXCEPT !.files = @ \ {n}, !.unlinked = @ \/ world.proc = n])
Create ==
    /\ Running /\ fn = "exe"
    /\ \E n \in Names \ world.files : Becomes([world EXCEPT !.files = @ \cup {n}])

Hotplug ==
    /\ Running /\ fn \in DOMAIN OfCpus
    /\ \E n \in 1..MaxCpus : Becomes([world EXCEPT !.online = n])

Allocate == Running /\ fn \in DOMAIN OfMemory /\ world.free > 0 /\ Becomes([world EXCEPT !.free = @ - 1])
Release ==
    /\ Running /\ fn \in DOMAIN OfMemory /\ world.free + world.cached < Total
    /\ Becomes([world EXCEPT !.free = @ + 1])
Reclaim ==
    /\ Running /\ fn \in DOMAIN OfMemory /\ world.cached > 0
    /\ Becomes([world EXCEPT !.cached = @ - 1, !.free = @ + 1, !.reclaimed = TRUE])
Fill ==
    /\ Running /\ fn \in DOMAIN OfMemory /\ world.free > 0
    /\ Becomes([world EXCEPT !.cached = @ + 1, !.free = @ - 1, !.filled = TRUE])

Plug ==
    /\ Running /\ fn \in DOMAIN OfDisks
    /\ \E i \in DOMAIN Devices :
          /\ Devices[i] \in DOMAIN PartOf => PartOf[Devices[i]] \in world.present
          /\ Becomes([world EXCEPT !.present = @ \cup {Devices[i]}])
Unplug ==
    /\ Running /\ fn \in DOMAIN OfDisks
    /\ \E d \in world.present :
          Becomes([world EXCEPT !.present =
                      {e \in @ : e # d /\ (e \in DOMAIN PartOf => PartOf[e] # d)}])

Mount ==
    /\ Running /\ fn \in DOMAIN OfMounts
    /\ \E t \in FsTypes \ world.mounts :
          Becomes([world EXCEPT !.types = @ \cup {t}, !.mounts = @ \cup {t}])
Unmount ==
    /\ Running /\ fn \in DOMAIN OfMounts
    /\ \E t \in world.mounts : \E unload \in BOOLEAN :
          Becomes([world EXCEPT !.mounts = @ \ {t},
                                !.types = IF unload THEN @ \ {t} ELSE @])

World == \/ Exhaust \/ Exit \/ Reuse \/ Trace \/ Exec \/ Unlink \/ Create \/ Hotplug
         \/ Allocate \/ Release \/ Reclaim \/ Fill \/ Plug \/ Unplug \/ Mount \/ Unmount

-----------------------------------------------------------------------------
(* The questions.                                                          *)

\* They need a file descriptor, except readlink, existsSync and sysinfo.
Opens(q) == q \notin {"pid/exe", "pid/cwd", "pid/exe?", "pid?", "pid/io?", "target?", "sysinfo"}
Private == {"pid/io", "pid/fd", "pid/cwd", "pid/smaps"}

\* The text of the link /proc/<pid>/exe has " (deleted)" added by the kernel.
LinkText(w) == IF w.unlinked THEN w.proc + 1 ELSE w.proc

Found(v) == [ok |-> TRUE, value |-> v]
OfPid(q) ==
    CASE q = "target?"                 -> {[ok |-> kept \in world.files, value |-> 0]}
      [] q \in {"pid/exe", "pid/exe?"} ->
            {IF world.proc >= 0 THEN Found(LinkText(world)) ELSE None}
      [] q \in Private                 ->
            (IF world.proc = Gone THEN {} ELSE {Found(world.proc)})
            \cup (IF world.proc < 0 THEN {None} ELSE {})
      [] OTHER                         ->
            {IF world.proc = Gone THEN None
             ELSE IF q = "pid/status" /\ world.traced THEN Found(Traced)
             ELSE Found(world.proc)}

Content(q) ==
    CASE fn \in DOMAIN OfProcess           -> OfPid(q)
      [] fn \in DOMAIN OfCpus              -> {Found(world.online)}
      [] q \in {"meminfo", "vmstat"}       -> {Found(world.cached)}
      [] q = "sysinfo"                     -> {Found(world.free)}
      [] q \in {"partitions", "diskstats"} -> {Found(world.present)}
      [] q = "filesystems"                 -> {Found(world.types)}
      [] q = "mtab"                        -> {Found(world.mounts)}
Answers(q) == IF Opens(q) /\ world.full THEN {None} ELSE Content(q)

Call ==
    /\ up /\ pc = "idle"
    /\ form' \in {"async", "sync"}
    /\ at' = Asks(fn, form')[1] /\ pc' = "asking"
    /\ UNCHANGED <<fn, got, kept, up, outcome, value, world, ever, always, marks>>

\* A thread of the pool serves the request, or the main thread makes the call.
Ask ==
    /\ up /\ pc = "asking"
    /\ got' \in Answers(at) /\ pc' = "got"
    /\ UNCHANGED <<fn, form, at, kept, up, outcome, value, world, ever, always, marks>>

-----------------------------------------------------------------------------
(* The handling of an answer, by the callback or after the call.           *)

Got(q, ok) == up /\ pc = "got" /\ at = q /\ got.ok = ok

GoOn(q, v) ==
    /\ at' = q /\ kept' = v /\ pc' = "asking" /\ got' = None
    /\ UNCHANGED <<fn, form, up, outcome, value, world, ever, always, marks>>
End(o, v) ==
    /\ outcome' = o /\ value' = v /\ pc' = "over"
    /\ UNCHANGED <<fn, form, at, got, kept, up, world, ever, always, marks>>
Succeed(v) == End("ok", v)
Fail       == End("error", Blank)
Throw      == End("throws", Blank)
\* An exception of the handling: nobody catches it in a callback.
Raise ==
    IF form = "sync" THEN Throw
    ELSE /\ up' = FALSE /\ pc' = "over"
         /\ UNCHANGED <<fn, form, at, got, kept, outcome, value, world, ever, always, marks>>

Chains == {"exe", "cpuCountLogical", "diskIOCounters", "virtualMemory", "swapMemory", "diskPartitions"}

\* A file cannot be read.  (The variant goes on to handle the missing content.)
ReadFailsGoesOn ==
    /\ up /\ pc = "got" /\ ~got.ok
    /\ fn # "exe" /\ at \notin {"pid/io?", "mtab"}
    /\ Raise
ReadFails ==
    /\ up /\ pc = "got" /\ ~got.ok
    /\ fn # "exe" /\ at \notin {"pid/io?", "mtab"}
    /\ Fail

\* The content of one file is all there is to handle; proc.status looks for a
\* capital letter, and has nothing to take if there is none.
Handle ==
    /\ up /\ pc = "got" /\ got.ok /\ fn \notin Chains /\ at # "pid/io?"
    /\ IF got.value = Traced THEN Raise ELSE Succeed(got.value)

\* proc.ioCounters looks whether there is a file before it starts.
IoExists ==
    \/ Got("pid/io?", TRUE) /\ GoOn("pid/io", 0)
    \/ Got("pid/io?", FALSE) /\ Throw

-----------------------------------------------------------------------------
(* proc.exe *)

ExeExists ==
    \/ Got("pid/exe?", TRUE) /\ GoOn("pid/exe", 0)
    \/ Got("pid/exe?", FALSE) /\ GoOn("pid?", 0)
\* (The variant takes every failure for a process without an executable.)
ExeReadlinkTrusts ==
    \/ Got("pid/exe", TRUE) /\ got.value = 0 /\ Succeed(0)
    \/ Got("pid/exe", TRUE) /\ got.value > 0 /\ GoOn("target?", got.value)
    \/ Got("pid/exe", FALSE) /\ form = "async" /\ Succeed(Closed)
    \/ Got("pid/exe", FALSE) /\ form = "sync" /\ Fail
ExeReadlink ==
    \/ Got("pid/exe", TRUE) /\ got.value = 0 /\ Succeed(0)
    \/ Got("pid/exe", TRUE) /\ got.value > 0 /\ GoOn("target?", got.value)
    \/ Got("pid/exe", FALSE) /\ form = "async" /\ GoOn("pid", 0)
    \/ Got("pid/exe", FALSE) /\ form = "sync" /\ Fail
\* There is no such link, but is there a process?  The answer is ''.
ExeBase ==
    \/ (Got("pid", TRUE) \/ Got("pid?", TRUE)) /\ Succeed(Closed)
    \/ Got("pid", FALSE) /\ Fail
    \/ Got("pid?", FALSE) /\ Throw
\* A name that has " (deleted)" in it and is no file loses one.
ExeHandle ==
    \/ Got("target?", TRUE) /\ Succeed(kept)
    \/ Got("target?", FALSE) /\ Succeed(kept - 1)

-----------------------------------------------------------------------------
(* The other chains.                                                       *)

\* The matches of /processor/gi in cpuinfo are counted, or else those of
\* /cpu\d/g in stat.  (The variant does not look at stat.)
CpuCountNoSecond ==
    \/ Got("cpuinfo", TRUE) /\ fn = "cpuCountLogical" /\ world.perCpu > 0
       /\ Succeed(got.value * world.perCpu)
CpuCount ==
    \/ Got("cpuinfo", TRUE) /\ fn = "cpuCountLogical" /\ world.perCpu > 0
       /\ Succeed(got.value * world.perCpu)
    \/ Got("cpuinfo", TRUE) /\ fn = "cpuCountLogical" /\ world.perCpu = 0 /\ GoOn("stat", 0)
    \/ Got("stat", TRUE) /\ fn = "cpuCountLogical" /\ Succeed(got.value)

\* Available is what was cached when the file was read, and what is free (or in
\* a buffer) when the handling asks for it; swap is free memory only.  (The variant adds the cache twice.)
MemoryAddsTwice ==
    \/ fn \in DOMAIN OfMemory /\ Got(Asks(fn, form)[1], TRUE) /\ GoOn("sysinfo", got.value)
    \/ Got("sysinfo", TRUE) /\ Succeed(got.value + IF fn = "virtualMemory" THEN 2 * kept ELSE 0)
Memory ==
    \/ fn \in DOMAIN OfMemory /\ Got(Asks(fn, form)[1], TRUE) /\ GoOn("sysinfo", got.value)
    \/ Got("sysinfo", TRUE) /\ Succeed(got.value + IF fn = "virtualMemory" THEN kept ELSE 0)

\* /proc/partitions from its end: names that end in a digit are recorded, and
\* others unless the last such name contains them.  (The variant records only
\* those that follow another name.)
Listed(present) == {i \in DOMAIN Devices : Devices[i] \in present}
LastName(i, present) ==
    {j \in Listed(present) : /\ j > i /\ Devices[j] \in Digit
                             /\ \A k \in Listed(present) : k > i /\ Devices[k] \in Digit => k >= j}
RecordedForgetsLast(present) ==
    {Devices[i] : i \in {i \in Listed(present) :
        \/ Devices[i] \in Digit
        \/ \E j \in LastName(i, present) : <<Devices[i], Devices[j]>> \notin Within}}
Recorded(present) ==
    {Devices[i] : i \in {i \in Listed(present) :
        \/ Devices[i] \in Digit
        \/ \A j \in LastName(i, present) : <<Devices[i], Devices[j]>> \notin Within}}
Disks ==
    \/ Got("partitions", TRUE) /\ GoOn("diskstats", Recorded(got.value))
    \/ Got("diskstats", TRUE) /\ Succeed(got.value \cap kept)

\* The mounts are listed by the native add-on, which answers undefined when it
\* cannot open the list.
Partitions ==
    \/ Got("filesystems", TRUE) /\ GoOn("mtab", got.value)
    \/ Got("mtab", TRUE) /\ Succeed(got.value \cap kept)
    \/ Got("mtab", FALSE) /\ Raise

-----------------------------------------------------------------------------
CallStep ==
    \/ Ask \/ ReadFails \/ Handle \/ IoExists
    \/ ExeExists \/ ExeReadlink \/ ExeBase \/ ExeHandle
    \/ CpuCount \/ Memory \/ Disks \/ Partitions

Next == Call \/ CallStep \/ World

\* The pool and the event loop go on, whatever the world does.
Fairness == WF_vars(CallStep)

Spec == Init /\ [][Next]_vars /\ Fairness

-----------------------------------------------------------------------------
TypeOK ==
    /\ fn \in Functions /\ world.full \in BOOLEAN
    /\ form \in {"none", "async", "sync"} /\ pc \in {"idle", "asking", "got", "over"}
    /\ up \in BOOLEAN /\ outcome \in {"none", "ok", "error", "throws"}
    /\ form # "none" => \E i \in DOMAIN Asks(fn, form) : at = Asks(fn, form)[i]
    /\ outcome = "ok" =>
         CASE fn \in DOMAIN OfProcess -> value \in {Closed} \cup Names
           [] fn \in DOMAIN OfCpus    -> value \in Nat
           [] fn \in DOMAIN OfMemory  -> value \in 0..(2 * Total)
           [] fn \in DOMAIN OfDisks   -> value \subseteq Devs
           [] fn \in DOMAIN OfMounts  -> value \subseteq FsTypes

\* An answer was right at some moment of the call, in spite of all that happens
\* between two questions, with these exceptions: exe gives '' for a process that
\* ended and whose number was taken by another one; exe is wrong by one
\* " (deleted)" if a program or a file is really named like that; processors are
\* counted as often as their entry says the word; and available memory is too
\* high (low) if cache was reclaimed (filled) in between.
AnswerIsOfTheTime ==
    outcome = "ok" =>
        /\ fn = "exe" =>
              \/ value \in ever
              \/ value = Closed /\ "reused" \in marks /\ Gone \in ever
              \/ "odd" \in marks /\ (value - 1 \in ever \/ value + 1 \in ever)
        /\ fn = "cpuCountLogical" =>
              IF world.perCpu = 0 THEN value \in ever
              ELSE \E n \in ever : value = n * world.perCpu
        /\ fn = "virtualMemory" =>
              /\ (\E r \in ever : value <= r) \/ "reclaimed" \in marks
              /\ (\E r \in ever : value >= r) \/ "filled" \in marks
        /\ fn \in (DOMAIN OfProcess \cup DOMAIN OfCpus) \ {"exe", "cpuCountLogical"} =>
              value \in ever

\* What is to be listed at every moment of the call is listed, and what is
\* listed was there; no disk is listed together with a partition of it.  The
\* exceptions: a whole disk whose own name ends in a digit is listed with its
\* partitions, and a disk is missing if the name of a later one contains it.
KeptIsListedOnce ==
    outcome = "ok" /\ fn \in {"diskIOCounters", "diskPartitions"} =>
        LET whole == (value \cap Digit) \ DOMAIN PartOf
            hidden == {d \in ever : \E e \in ever \cap Digit :
                          <<d, e>> \in Within /\ (e \in DOMAIN PartOf => PartOf[e] # d)}
        IN /\ value \ whole \subseteq ever
           /\ always \ hidden \subseteq value
           /\ \A e \in value \cap DOMAIN PartOf : PartOf[e] \in value => PartOf[e] \in whole

\* A call fails only for a cause that was there during the call: no process, no
\* descriptor left, or a private file; and node stops only inside the callback of
\* proc.status of a traced process, or of diskPartitions without a descriptor.
FailsForCause ==
    /\ outcome = "error" =>
         \/ "full" \in marks
         \/ fn \in DOMAIN OfProcess /\ Gone \in ever
         \/ fn \in {"ioCounters", "numFds", "cwd", "memMaps"} /\ Closed \in ever
         \/ fn = "exe" /\ form = "sync" /\ Closed \in ever
    /\ outcome = "throws" =>
         \/ fn \in {"ioCounters", "exe"} /\ Gone \in ever
         \/ form = "sync" /\ fn = "status" /\ "traced" \in marks
         \/ form = "sync" /\ fn = "diskPartitions" /\ "full" \in marks
    /\ ~up => /\ form = "async"
              /\ \/ fn = "status" /\ "traced" \in marks
                 \/ fn = "diskPartitions" /\ "full" \in marks

\* Every call has one outcome, whatever the world does, unless node stops.
Answered == form # "none" ~> outcome # "none" \/ ~up

-----------------------------------------------------------------------------
(* The inductive invariant that the theorems of LinuxReads_proofs rest on. *)

\* What a world is, whatever has happened to it.
GoodWorld(w) ==
    /\ fn \in DOMAIN OfProcess =>
          /\ w \in [proc : {Gone, Closed} \cup 0..MaxSuffix, unlinked : BOOLEAN,
                    files : SUBSET Names, traced : BOOLEAN, reused : BOOLEAN, full : BOOLEAN]
          /\ w.traced => fn = "status"
    /\ fn \in DOMAIN OfCpus => w \in [online : 1..MaxCpus, perCpu : PerCpu, full : BOOLEAN]
    /\ fn \in DOMAIN OfMemory =>
          /\ w \in [free : 0..Total, cached : 0..Total, reclaimed : BOOLEAN,
                    filled : BOOLEAN, full : BOOLEAN]
          /\ w.free + w.cached <= Total
    /\ fn \in DOMAIN OfDisks => w \in [present : SUBSET Devs, full : BOOLEAN]
    /\ fn \in DOMAIN OfMounts =>
          /\ w \in [types : SUBSET FsTypes, mounts : SUBSET FsTypes, full : BOOLEAN]
          /\ w.mounts \subseteq w.types

\* The history knows this world, and a number used again.
HistoryInv ==
    /\ Truth(world) \subseteq ever /\ always \subseteq Truth(world) /\ Marks(world) \subseteq marks
    /\ fn \in DOMAIN OfProcess /\ Gone \in ever => world.proc = Gone \/ "reused" \in marks

PlaceInv ==
    /\ pc = "idle" <=> form = "none"
    /\ form = "none" => at = ""
    /\ outcome # "none" \/ ~up => pc = "over"

\* What was read before is still known to have been right.
CachedThen(c) ==
    /\ c \in 0..Total
    /\ c <= world.cached \/ "reclaimed" \in marks
    /\ c >= world.cached \/ "filled" \in marks
DisksThen(present) ==
    present \subseteq Devs /\ Counted(present) \subseteq ever /\ always \subseteq Counted(present)
AskInv ==
    /\ at = "target?" => /\ kept \in 1..(MaxSuffix + 1)
                         /\ (kept \in ever /\ "odd" \in marks) \/ kept - 1 \in ever
    /\ at \in {"pid", "pid?"} => Closed \in ever \/ Gone \in ever
    /\ at = "stat" /\ fn = "cpuCountLogical" => world.perCpu = 0
    /\ at = "sysinfo" => CachedThen(kept)
    /\ at = "diskstats" => \E present \in SUBSET Devs : DisksThen(present) /\ kept = Recorded(present)
    /\ at = "mtab" => kept \subseteq FsTypes /\ always \subseteq kept

\* A question that failed had its cause, and an answer was right.
FailedInv ==
    pc = "got" /\ ~got.ok =>
        \/ Opens(at) /\ "full" \in marks
        \/ fn \in DOMAIN OfProcess /\ Gone \in ever
        \/ at \in Private \cup {"pid/exe", "pid/exe?"} /\ Closed \in ever
        \/ at = "target?"
GotInv ==
    pc = "got" /\ got.ok =>
        /\ at \in {"pid/exe", "pid/exe?"} =>
              /\ got.value \in Names
              /\ \/ got.value \in ever /\ (got.value > 0 => "odd" \in marks)
                 \/ got.value > 0 /\ got.value - 1 \in ever
        /\ at = "target?" => "odd" \in marks
        /\ at \in {"pid", "pid?"} => Closed \in ever \/ (Gone \in ever /\ "reused" \in marks)
        /\ fn \in DOMAIN OfProcess \ {"exe"} =>
              \/ got.value \in ever /\ got.value \in {Closed} \cup 0..MaxSuffix
              \/ got.value = Traced /\ fn = "status" /\ "traced" \in marks
        /\ fn \in DOMAIN OfCpus => got.value \in ever /\ got.value \in 1..MaxCpus
        /\ at \in {"meminfo", "vmstat"} => CachedThen(got.value)
        /\ at = "sysinfo" => /\ got.value \in 0..Total
                             /\ (\E r \in ever : got.value + kept <= r) \/ "reclaimed" \in marks
                             /\ (\E r \in ever : got.value + kept >= r) \/ "filled" \in marks
        /\ fn \in DOMAIN OfDisks => DisksThen(got.value)
        /\ fn \in DOMAIN OfMounts => /\ got.value \subseteq FsTypes /\ always \subseteq got.value
                                     /\ at = "mtab" => got.value \subseteq ever

IInv == /\ TypeOK /\ GoodWorld(world) /\ HistoryInv /\ PlaceInv /\ AskInv /\ FailedInv /\ GotInv
        /\ AnswerIsOfTheTime /\ KeptIsListedOnce /\ FailsForCause
================================================================================
