------------------------------- MODULE OsxHandles -------------------------------
(***************************************************************************)
(* The OS X functions that walk over Mach and IOKit handles: memMaps       *)
(* (sutil_proc_memory_maps), threads (sutil_proc_threads) and              *)
(* diskIOCounters (sutil_disk_io_counters), with their wrappers.           *)
(*                                                                         *)
(* Each takes a handle that has to be given back (a task right, an         *)
(* iterator), walks, and takes more on the way.  What it looks at changes  *)
(* meanwhile: regions are mapped and unmapped, threads end, disks are      *)
(* pulled, the observed process exits.                                     *)
(***************************************************************************)
EXTENDS Integers, FiniteSets, Sequences

CONSTANTS
    Regions,   \* what may be mapped: pairs of start and size
    Submaps,   \* those of them that are submaps
    Threads,   \* the threads of the observed process
    Disks,     \* whole disks and partitions
    Physical,  \* the disks whose parent is a block storage driver
    Functions  \* the functions the program calls

ASSUME RegionsAssumption ==
    Regions \subseteq Nat \X (Nat \ {0}) /\ IsFiniteSet(Regions) /\ Submaps \subseteq Regions
ASSUME DisksAssumption == Physical \subseteq Disks /\ IsFiniteSet(Disks) /\ IsFiniteSet(Threads)
ASSUME FunctionsAssumption == Functions \subseteq {"memory_maps", "threads", "disk_io"}

VARIABLES
    world,   \* the regions, threads or disks that there are
    alive,   \* the observed process exists
    up,      \* the node process runs
    fn, pc,  \* the function that is called, and how far it is
    at,      \* memory_maps: the address to look at next
    snap,    \* threads, disk_io: what the kernel has listed
    todo,    \* the part of it still to look at
    seen,    \* the entries of the list that is built
    held,    \* handles and buffers that have not been given back
    lost,    \* memory_maps: the task right is dead, every further call fails
    wounded, \* the kernel was asked to unmap memory of the observed process
    noStats, \* disk_io: the disk that was found without statistics
    answer,  \* what JavaScript gets: "none", "list" or "undefined"
    ever, kept \* history: what was there during the call, and all along it

callVars == <<up, pc, at, snap, todo, seen, held, lost, wounded, noStats, answer>>
vars == <<world, alive, fn, callVars, ever, kept>>

OfProcess == fn \in {"memory_maps", "threads"}
Running == up /\ pc \notin {"new", "done"}

End(r) == r[1] + r[2]
Disjoint(R) == \A r, s \in R : r = s \/ End(r) <= s[1] \/ End(s) <= r[1]

Things == CASE fn = "memory_maps" -> Regions [] fn = "threads" -> Threads [] OTHER -> Disks
Worlds == {W \in SUBSET Things : fn = "memory_maps" => Disjoint(W)}

Init ==
    /\ fn \in Functions /\ world \in Worlds
    /\ alive = TRUE /\ up = TRUE /\ pc = "new" /\ at = 0
    /\ snap = {} /\ todo = {} /\ seen = <<>> /\ held = {}
    /\ lost = FALSE /\ wounded = FALSE /\ noStats = {}
    /\ answer = "none" /\ ever = {} /\ kept = {}

-----------------------------------------------------------------------------
(* What is looked at changes under a call.                                 *)

Observe ==
    /\ ever' = ever \cup world' /\ kept' = kept \cap world'
    /\ UNCHANGED <<fn, callVars>>

Appear(x) ==
    /\ Running /\ (OfProcess => alive) /\ x \notin world
    /\ world' = world \cup {x} /\ world' \in Worlds
    /\ UNCHANGED alive /\ Observe

Vanish(x) ==
    /\ Running /\ x \in world
    /\ world' = world \ {x}
    /\ UNCHANGED alive /\ Observe

Exit ==
    /\ Running /\ OfProcess /\ alive
    /\ alive' = FALSE /\ world' = {}
    /\ Observe

-----------------------------------------------------------------------------
(* The call and its end.                                                   *)

Stay == UNCHANGED <<world, alive, fn, ever, kept>>

Call ==
    /\ pc = "new" /\ pc' = "open"
    /\ ever' = world /\ kept' = world
    /\ UNCHANGED <<world, alive, fn, up, at, snap, todo, seen, held, lost, wounded,
                   noStats, answer>>

Done(a) == pc' = "done" /\ answer' = a

\* task_for_pid refuses, or the process is gone; the disks cannot be listed.
OpenFails ==
    /\ Running /\ pc = "open"
    /\ Done("undefined")
    /\ Stay /\ UNCHANGED <<up, at, snap, todo, seen, held, lost, wounded, noStats>>

\* The task right of the observed process.
TaskForPid ==
    /\ Running /\ pc = "open" /\ OfProcess /\ alive
    /\ held' = {<<"task", "">>}
    /\ pc' = IF fn = "threads" THEN "list" ELSE "walk"
    /\ Stay /\ UNCHANGED <<up, at, snap, todo, seen, lost, wounded, noStats, answer>>

-----------------------------------------------------------------------------
(* memory_maps                                                             *)

\* vm_region_recurse_64 finds the first region that ends above the address.
Found(r) == /\ r \in world /\ End(r) > at
            /\ \A s \in world : End(s) > at => r[1] <= s[1]

\* Submaps are passed over and not listed; what a depth that has grown (224) may
\* show of their inside is left out.
Walk(r, next) ==
    /\ Running /\ fn = "memory_maps" /\ pc = "walk" /\ ~lost /\ Found(r)
    /\ seen' = IF r \in Submaps THEN seen ELSE Append(seen, r)
    /\ at' = next
    /\ Stay /\ UNCHANGED <<up, pc, snap, todo, held, lost, wounded, noStats, answer>>

\* Variants with a bug, for the mutation runs: one too far; not past a submap.
NextRegionSkips(r) == Walk(r, End(r) + 1)
NextRegionNotPastSubmaps(r) == Walk(r, IF r \in Submaps THEN at ELSE End(r))
NextRegion(r) == Walk(r, End(r))

\* KERN_INVALID_ADDRESS: there is none.
NoMoreRegions ==
    /\ Running /\ fn = "memory_maps" /\ pc = "walk" /\ ~lost
    /\ \A r \in world : End(r) <= at
    /\ held' = held \ {<<"task", "">>}
    /\ Done("list")
    /\ Stay /\ UNCHANGED <<up, at, snap, todo, seen, lost, wounded, noStats>>

\* Any other error is not looked at: the loop repeats what it has, for ever or
\* until the list it repeats has used up the memory.
TaskIsDead ==
    /\ Running /\ fn = "memory_maps" /\ pc = "walk" /\ ~alive
    /\ lost' = TRUE
    /\ up' \in IF lost THEN BOOLEAN ELSE {TRUE}
    /\ Stay /\ UNCHANGED <<pc, at, snap, todo, seen, held, wounded, noStats, answer>>

-----------------------------------------------------------------------------
(* threads                                                                 *)

ThreadRights(T) == {"thread"} \X T

\* task_info and task_threads: a right for every thread, in an array if there
\* are any.
TaskThreads ==
    /\ Running /\ pc = "list" /\ alive
    /\ snap' = world /\ todo' = world
    /\ held' = held \cup ThreadRights(world)
                  \cup (IF world = {} THEN {} ELSE {<<"array", "">>})
    /\ pc' = "walk"
    /\ Stay /\ UNCHANGED <<up, at, seen, lost, wounded, noStats, answer>>

\* The variant keeps the task right on the way out.
TaskThreadsFailsKeeps ==
    /\ Running /\ pc = "list"
    /\ Done("undefined")
    /\ Stay /\ UNCHANGED <<up, at, snap, todo, seen, held, lost, wounded, noStats>>
TaskThreadsFails ==
    /\ Running /\ pc = "list"
    /\ held' = {}
    /\ Done("undefined")
    /\ Stay /\ UNCHANGED <<up, at, snap, todo, seen, lost, wounded, noStats>>

ThreadInfo(t) ==
    /\ Running /\ fn = "threads" /\ pc = "walk" /\ t \in todo \cap world
    /\ seen' = Append(seen, t) /\ todo' = todo \ {t}
    /\ Stay /\ UNCHANGED <<up, pc, at, snap, held, lost, wounded, noStats, answer>>

\* A thread that has ended fails the call.  The array is deallocated in a task
\* whose right has just been given back, that is, nowhere.
ThreadGone(t) ==
    /\ Running /\ fn = "threads" /\ pc = "walk" /\ t \in todo \ world
    /\ held' = held \ {<<"task", "">>}
    /\ Done("undefined")
    /\ Stay /\ UNCHANGED <<up, at, snap, todo, seen, lost, wounded, noStats>>

\* The array is deallocated in the observed task in place of the own one.
ThreadsDone ==
    /\ Running /\ fn = "threads" /\ pc = "walk" /\ todo = {}
    /\ wounded' = (alive /\ snap # {})
    /\ held' = held \ {<<"task", "">>}
    /\ Done("list")
    /\ Stay /\ UNCHANGED <<up, at, snap, todo, seen, lost, noStats>>

-----------------------------------------------------------------------------
(* disk_io_counters                                                        *)

ListDisks ==
    /\ Running /\ pc = "open" /\ fn = "disk_io"
    /\ snap' = world /\ todo' = world /\ held' = {<<"iterator", "">>}
    /\ pc' = "walk"
    /\ Stay /\ UNCHANGED <<up, at, seen, lost, wounded, noStats, answer>>

AtDisk(d) == Running /\ fn = "disk_io" /\ pc = "walk" /\ d \in todo
Entries(d) == {"disk", "parent"} \X {d}
Dictionaries(d) == {"parent_dict", "props_dict"} \X {d}

\* The parent is no block storage driver: neither entry is released.
PassOver(d) ==
    /\ AtDisk(d) /\ d \in world \ Physical
    /\ held' = held \cup Entries(d) /\ todo' = todo \ {d}
    /\ Stay /\ UNCHANGED <<up, pc, at, snap, seen, lost, wounded, noStats, answer>>

ReadDisk(d) ==
    /\ AtDisk(d) /\ d \in world \cap Physical
    /\ seen' = Append(seen, d) /\ todo' = todo \ {d}
    /\ Stay /\ UNCHANGED <<up, pc, at, snap, held, lost, wounded, noStats, answer>>

\* The parent or the properties of the disk cannot be had: its entries are
\* released, the iterator is not.
DiskFails(d) ==
    /\ AtDisk(d)
    /\ Done("undefined")
    /\ Stay /\ UNCHANGED <<up, at, snap, todo, seen, held, lost, wounded, noStats>>

\* The properties of the parent: CFRelease of a null reference ends node.
ParentFails(d) ==
    /\ AtDisk(d) /\ d \in Physical
    /\ up' = FALSE
    /\ Stay /\ UNCHANGED <<pc, at, snap, todo, seen, held, lost, wounded, noStats, answer>>

\* No statistics: the entries and their dictionaries are not released.  (The
\* variant does not ask what the parent is.)
NoStatsAnyParent(d) ==
    /\ AtDisk(d)
    /\ held' = held \cup Entries(d) \cup Dictionaries(d)
    /\ noStats' = {d}
    /\ Done("undefined")
    /\ Stay /\ UNCHANGED <<up, at, snap, todo, seen, lost, wounded>>
NoStats(d) ==
    /\ AtDisk(d) /\ d \in Physical
    /\ held' = held \cup Entries(d) \cup Dictionaries(d)
    /\ noStats' = {d}
    /\ Done("undefined")
    /\ Stay /\ UNCHANGED <<up, at, snap, todo, seen, lost, wounded>>

DisksDone ==
    /\ Running /\ fn = "disk_io" /\ pc = "walk" /\ todo = {}
    /\ held' = held \ {<<"iterator", "">>}
    /\ Done("list")
    /\ Stay /\ UNCHANGED <<up, at, snap, todo, seen, lost, wounded, noStats>>

-----------------------------------------------------------------------------
CallStep ==
    \/ Call \/ OpenFails \/ TaskForPid
    \/ NoMoreRegions \/ TaskIsDead \/ \E r \in Regions : NextRegion(r)
    \/ TaskThreads \/ TaskThreadsFails \/ ThreadsDone
    \/ \E t \in Threads : ThreadInfo(t) \/ ThreadGone(t)
    \/ ListDisks \/ DisksDone
    \/ \E d \in Disks : PassOver(d) \/ ReadDisk(d) \/ DiskFails(d) \/ ParentFails(d) \/ NoStats(d)

Next == CallStep \/ Exit \/ \E x \in Things : Appear(x) \/ Vanish(x)

\* The thread that is in the call goes on.
Spec == Init /\ [][Next]_vars /\ WF_vars(CallStep)

-----------------------------------------------------------------------------
TypeOK ==
    /\ world \in Worlds /\ snap \subseteq Things /\ todo \subseteq snap
    /\ alive \in BOOLEAN /\ up \in BOOLEAN /\ lost \in BOOLEAN /\ wounded \in BOOLEAN
    /\ fn \in Functions /\ pc \in {"new", "open", "list", "walk", "done"}
    /\ at \in Nat /\ seen \in Seq(Things) /\ noStats \subseteq Physical
    /\ answer \in {"none", "list", "undefined"}
    /\ held \subseteq ({"task", "array", "iterator"} \X {""}) \cup ThreadRights(Threads)
                         \cup UNION {Entries(d) \cup Dictionaries(d) : d \in Disks}
    /\ kept \subseteq ever /\ ever \subseteq Things

Listed == {seen[i] : i \in DOMAIN seen}
Wanted == IF fn = "memory_maps" THEN Things \ Submaps
          ELSE IF fn = "threads" THEN Threads ELSE Physical

\* A list holds only what was there during the call, and exactly once each
\* thing that was there all along: the walk by addresses neither jumps over a
\* region nor comes back to it, whatever is mapped and unmapped around it.
KeptIsListedOnce ==
    answer = "list" =>
        /\ Listed \subseteq ever
        /\ \A x \in kept \cap Wanted : Cardinality({i \in DOMAIN seen : seen[i] = x}) = 1

\* What a call leaves behind.  memory_maps: nothing.  threads: the array and a
\* right for every thread it was told of, with or without an error.  disk_io:
\* both entries of every partition it passed over, all four objects of a disk
\* without statistics, and the iterator if it failed.  And only a call of
\* threads that succeeds reaches into the observed process.
LeftBehind ==
    pc = "done" =>
        /\ fn = "memory_maps" => held = {}
        /\ fn = "threads" =>
              held = ThreadRights(snap) \cup (IF snap = {} THEN {} ELSE {<<"array", "">>})
        /\ fn = "disk_io" =>
              held = (UNION {Entries(d) : d \in ((snap \ todo) \ Physical) \cup noStats})
                     \cup (UNION {Dictionaries(d) : d \in noStats})
                     \cup (IF answer = "list" \/ snap = {} THEN {} ELSE {<<"iterator", "">>})
        /\ wounded => fn = "threads" /\ answer = "list"

\* A call ends, unless it is memory_maps and the process it looks at exits.
Ends == Running ~> (pc = "done" \/ ~up \/ lost)

-----------------------------------------------------------------------------
(* The inductive invariant that the theorems of OsxHandles_proofs rest on. *)

\* The history is of this world, and nothing is listed before the walk.
HistoryInv ==
    /\ kept \subseteq world /\ (pc # "new" => world \subseteq ever)
    /\ pc \in {"new", "open", "list"} => snap = {} /\ seen = <<>> /\ at = 0
    /\ pc = "list" => fn = "threads"
    /\ pc # "done" => answer = "none"
    /\ wounded => fn = "threads" /\ answer = "list"

\* The list has no entry twice.  By addresses: what ends up to where the walk
\* is has been listed if it is still to be, and only that.  By a list of the
\* kernel's: what has been taken from it.
ListInv ==
    /\ \A i, j \in DOMAIN seen : seen[i] = seen[j] => i = j
    /\ Listed \subseteq ever /\ snap \subseteq ever
    /\ fn = "memory_maps" => /\ \A r \in Listed : End(r) <= at
                             /\ \A r \in kept \cap Wanted : End(r) <= at => r \in Listed
    /\ fn = "threads" => Listed = snap \ todo
    /\ fn = "disk_io" => Listed = (snap \ todo) \cap Physical
    /\ pc = "walk" /\ fn # "memory_maps" => kept \subseteq snap
    /\ answer = "list" => IF fn = "memory_maps" THEN \A r \in kept : End(r) <= at
                                                ELSE todo = {} /\ kept \subseteq snap

\* What is held on the way.
Array(T) == IF T = {} THEN {} ELSE {<<"array", "">>}
HeldInv ==
    /\ pc \in {"new", "open"} => held = {}
    /\ pc = "list" => held = {<<"task", "">>}
    /\ pc # "done" => noStats = {}
    /\ pc = "walk" =>
          held = CASE fn = "memory_maps" -> {<<"task", "">>}
                   [] fn = "threads" -> {<<"task", "">>} \cup ThreadRights(snap) \cup Array(snap)
                   [] OTHER -> {<<"iterator", "">>}
                               \cup UNION {Entries(d) : d \in (snap \ todo) \ Physical}

IInv == TypeOK /\ HistoryInv /\ ListInv /\ HeldInv /\ LeftBehind
================================================================================
