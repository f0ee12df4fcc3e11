# nsutil: a TLA+ model

[nsutil](../src/README.md) 0.1.4 is a Node.js library that reports on processes, memory, disks and the
network, after Python's psutil. On Linux it reads `/proc` from JavaScript; on OS X it calls the kernel
from C++ add-ons. Most functions exist in two forms: without a callback they return or throw, with a
callback they call `cb(err, res)`.

None of this is a distributed system, and yet most of it cannot be tested well. The library looks at
*other* programs, which go on running: threads start and end, descriptors close and are reused, and
processes exit between any two system calls of one query. Its asynchronous forms fan out over libuv's
thread pool and join again with hand-written counters. Its native code holds memory, port rights and
handles on paths with many exits. This project models those parts, checks them with TLC, and proves the
safety of all of them with TLAPS for every value of the constants.

## The system

| Part | State it keeps | Operations | What is hard |
|---|---|---|---|
| threads, Linux (`nslinux.js` 961-1010) | a counter, an array and a shared `err` per call | `threads`, both forms | fan-out and countdown join; threads that end between listing and read, listings that are empty, more files to open at once than there are descriptors |
| open files, Linux (1050-1088) | a counter and an array per call | `openFiles`, both forms | the same, and `statSync` inside a callback |
| terminal, Linux (775-816, `nsposix.js` 17-75) | the map, two "arrived" variables, a counter of 2 | `terminal`, `getTerminalMap` | two nested joins of three requests, errors that are not joined |
| network connections, Linux (313-560, 1090-1114) | the map from inode to owners | `netConnections`, `connections` | a walk over all processes, of other users too, joined with tables that are read later; sockets with several holders |
| single and chained reads, Linux (the rest of `nslinux.js`) | what one read hands to the next | `exe`, `ioCounters`, `cpuCountLogical`, `diskIOCounters`, `virtualMemory`, `diskPartitions`, `status` and 20 more | two or three dependent reads of a world that moves; exceptions inside callbacks |
| native calls, OS X, POSIX and Linux (`nsutil_*_funcs*.cpp`, `sutil_*.cpp`) | Baton, request, callback, result buffer, host port, one static error string | `cpuTimes`, `perCpuTimes`, `swapMemory` on the pool; `uids`, `memoryInfo`, `virtualMemory`, `bootTime`, `diskUsage`, `setNice`, `users`, ... on the main thread | pool threads beside the main thread; user code inside the completion; early returns past the delete |
| lists from the kernel, OS X (`sutil_osx.cpp`, `process_info.cpp`) | a buffer and an index | `pids`, `openFiles`, `numFds`, `connections`, `netIOCounters`, `diskPartitions` | the table changes between "how large" and "copy it" |
| Mach and IOKit walks, OS X (`sutil_osx.cpp`) | a task right or iterator, thread rights, registry entries | `memMaps`, `threads`, `diskIOCounters` | handles on many exits; what is walked changes |

How they interact: `lib/nsutil.js` chooses `nslinux.js` or `nsosx.js` by platform. Both are JavaScript on
one main thread; an asynchronous request goes to the pool, and its callback is run on the main thread
when no other JavaScript runs. On Linux the requests are Node's `fs` calls; on OS X three functions queue
C++ work of their own, and every other one computes its result first and then calls the callback before
it returns ("pseudo-asynchronous", `nsosx.js` 9-17, with `err` always null). The calls share no state but
the one static string in `sutil_common.cpp`, so they are modelled one part at a time, each with an
environment that stands for the observed processes and the kernel. `terminal` and `getTerminalMap` do
share a join, and are composed in one module.

## Modules

- **IntervalQuery** is the abstract promise of a query over a changing set: one answer per call, which
  without an error holds all that was there throughout and nothing that never was; an error only if
  something disappeared, nothing was there, or the caller ran out of descriptors (`Fault`); and no answer at all only if
  everything disappeared under the call (`Drop`).
- **ProcThreads** is `proto.threads`. `CallAsync`, `ReaddirOpen`, `ReaddirExec`, `ReaddirCallback`, `ReadExec`,
  `ReadCallback` are the asynchronous form: `ReaddirOpen` and the two `Exec` actions are the pool, the two callbacks the
  functions at 967 and 975. `CallSync`, `SyncOpen`, `SyncReaddir`, `SyncRead` are the synchronous one; while it runs,
  `main` names it and no callback does. The directory is opened and then read, so that a process that exits in between
  can leave a listing that is empty and yet no error; such a call is `Dropped`. From `Starve` on, any open of the call may
  fail with every thread alive. `count`, `arr`, `err` are the variables of the closure; `start`, `ever`, `gone`, `starved`
  are history variables that define what was there throughout and at some time, and what may cause an error.
- **OpenFiles** is `proto.openFiles`, in the same shape, with files that are opened, closed and unlinked, and a listing
  that may fail of itself. `up` turns false when an exception is thrown from a callback.
- **Terminal** is `proto.terminal` with `getTerminalMap`: requests for `/dev`, `/dev/pts` and the stat
  file, the counter of 2 and the two variables `tm` and `fc` that `Handle` joins. `Lookup` is `tm[fc.split(' ')[6]]`:
  if the name of the process has a space (`spaced`), that is another field, and any terminal or none is found.
- **NetConnections** is `netConnections` (`NetConnections(kind)`) and `proto.connections` (`Connections(pid, kind)`), which both
  are `Retrieve` with a default kind: `Pids`, `ListFds`, `Exists`, `Readlink` are the walk, each of them one
  system call, and `ReadTable` one file of `/proc/net`. `denied` are the processes of other users, whose descriptors
  cannot be listed. `inodes` holds for each socket the pairs found, in the order of the walk, since for TCP and UDP only the first
  counts. `Ambiguous` is the test at 417 with the numbers of `common.js`, where `AF_UNIX` and `SOCK_STREAM` are both 1.
- **LinuxReads** is a call of one of 27 functions of `nslinux.js` as a chain of questions: `Ask` is the
  read, link, listing, `existsSync` or native call, answered by the `world` of that moment, and the other actions are
  the handlers, which end the call or ask again. In the asynchronous form `Ask` is the pool's, or the main thread's for
  `existsSync` and native calls; the handlers are the callbacks. `ever`, `always` and `marks` are history: what was
  right at some moment, what at every moment, and what has happened (descriptors ran out, a pid was reused, ...).
  The table at the top names the questions each function asks; the world moves in what the called function looks
  at, and in nothing else.
- **NativeCalls** is the life of a native call. The table at the top gives for each sutil function the requests it
  makes of the kernel, and for each wrapper whether it checks its arguments, has a buffer, and what JavaScript makes of a
  failure. `CallAsync`, `WorkBegin` (a pool thread), the sutil function in its steps (`AskOk`, `AskFails`,
  `WalkStep`, `ErrSet`), `After`, the user's callback and the deletes (`AfterEnds`) are the asynchronous form;
  `CallSync`, `SyncReturn` and `PseudoEnds` the other two, and `BadArgument` and `NoPath` the calls that end before
  anything. `stack` is what the main thread is inside of, since a callback may call the library.
- **OsxLists** is the six functions that ask twice. They share the request for the size and differ
  afterwards, as the code does; `fn` says which of them is running.
- **OsxHandles** is the three walks over handles. `held` is the set of what was taken and not given back.
- **ProcThreads_proofs**, **OpenFiles_proofs**, **Terminal_proofs**, **NetConnections_proofs**, **LinuxReads_proofs**,
  **NativeCalls_proofs**, **OsxLists_proofs** and **OsxHandles_proofs** hold the theorems about them.

Definitions named as variants (`ReadCallbackEager`, ...) are the code with a plausible bug in it. They are
not part of any specification; `PROJECT.json` lists which of them breaks which property.

## What is checked

| Run | Instance | Shows |
|---|---|---|
| `threads_two_calls` | 2 calls, 2 threads | `CountIsOutstanding`: the counter is the number of reads whose callback is still to come. `ErrorHasCause`: an error only if a thread ended, there is no process, or descriptors ran out during that very call. `AnswerIsFinal`: no step changes a call that was answered. |
| `threads_three` | 1 call, 3 threads | `AnsweredOnceAndLast`, `CompleteUnlessError`, `BetweenThroughoutAndEver`; `AnsweredUnlessEmpty`: only a call whose listing came back empty, after its process exited under it, stays without an answer; and `ImplementsIntervalQuery`: the refinement, with liveness. |
| `open_files` | 1 call, 2 descriptors, 2 paths | one answer after the last `readlink`; `BetweenThroughoutAndEver`: nothing listed that was not open, nothing kept missed; an answer unless the listing was empty or node has stopped. |
| `open_files_crash` | as `open_files` | **violated** `FailureReachesCaller`: a file removed between `readlink` and `statSync` ends node from inside a callback. |
| `terminal` | 1 console, 2 pseudo-terminals, a name with and without a space | a success is the only answer; a process that stays on a terminal that stays is given its name, if its own name has no space; some answer comes. |
| `terminal_both` | as `terminal` | **violated** `CallbackAfterBothEnded`: the callback runs while a request is still outstanding. |
| `net_connections` | 2 processes, 2 descriptors, a TCP, a UDP and a unix socket; no kind, `unix` and an unknown one | `BetweenThroughoutAndEver`: an owner reported did hold the socket, and a socket that was kept is reported, a UDP or unix one with each of its holders, a TCP one with one of them; `GivingUpHasCause`: an exception only if something went, could not be read, or descriptors ran out, "ambiguous" only for a UDP socket that two descriptors in question held. |
| `net_connections_shared` | as `net_connections`, one move of the system | **violated** `SharedIsRefused`: a TCP socket with two holders is listed with the first one and the second is lost. |
| `native_calls` | 3 calls: `cpuTimes`, `perCpuTimes` and each of the 32 functions in turn; 2 pool threads; 2 or 3 processors | one answer that matches the work, even if calls nest in callbacks (`AnswerMatchesWork`); exactly what stays allocated (`LeaksAreKnown`); when the error string is raced for (`RaceNeedsThePool`); calls are answered, but for a `diskUsage` without a path and for a `perCpuTimes` whose index cannot reach the number of processors (`CallAnswered`). |
| `linux_reads` | one call of each of 27 functions in each form; names with up to 1 (files 2) " (deleted)", 3 processors, 3 pages, 5 block devices, 2 file systems | `AnswerIsOfTheTime`: an answer was right at some moment of the call, with four exact exceptions. `KeptIsListedOnce`: disks and mounts that stayed are listed, once, with two. `FailsForCause`, `Answered`. |
| `osx_lists` | 2 slots, 3 objects, 2 tries | `BetweenThroughoutAndEver`, `HeapBalance`, `GivesUpOnGrowth`, `CallEnds`. |
| `osx_handles` | 4 pages, 3 threads, 2 disks and a partition | `KeptIsListedOnce`, `LeftBehind`, `Ends`. |

**Bounds.** Two processes, descriptors, threads or slots are what it takes for a listing to be partly
stale, for a join to have an order, and for a descriptor to be reused; three threads let a countdown go
wrong in the middle. Two calls show all that calls can do to one another, since a step concerns one call and
the main thread. `Attempts` is 8 in the code and 2 in the run: retries are alike, and 2 has a first and a last.
`Eighth` (the divisor 8 of `size >> 3`) is 1, so that the slack is not rounded to nothing at this size.
`MaxChanges` bounds how often the system moves under a `netConnections` call, to 2 for the invariants (two moves close and reuse
a descriptor, or open a socket and share it) and to 1 where the question is whether a shared socket is refused; and
`FewOpen` lets at most two of the four descriptors be open when that call begins, in any way, so that one socket may have two
holders from the start, in one process or in both. `MaxChanges` bounds no other module; their environments move
without limit. `SYMMETRY` is used for the two calls of `threads_two_calls`, which nothing tells apart, and only without liveness
properties; threads are numbers there, since the synchronous form sorts them. Sizes are counted in entries, and the kernel's answer about a size is taken as exact, the
case in which a table outgrows it soonest. In `native_calls` `IndexRange` is 3 in place of 256, and there are 2 or 3
processors: one number the index reaches and one it does not. Three calls let two functions fail at the same time while a third
runs inside a callback. In `linux_reads` the world moves without limit between two questions; `MaxSuffix` = 1 gives a name
that ends in " (deleted)" on its own and one to which the kernel has added it; the block devices are one without
partitions, one whose name contains the first one's, with a partition, and one whose name ends in a digit, with a partition.
`PerCpu` 0, 1, 2 are a cpuinfo without the word "processor", with it once, and twice (a model name with "Processor" in it).

**Deadlock** is not checked: a query ends, and a process that has exited does nothing more. That calls do
not get stuck is what the liveness properties say.

**Fairness.** Weak fairness of each pool request, callback and main-thread step while node is up: libuv serves
its queue in order, the event loop runs every completed callback, and a synchronous call does not stop. No
fairness for the program that makes calls, for the observed processes, or for faults. `ProcThreads` needs it
per request, since no request may be overtaken for ever; in `OsxLists` and `OsxHandles` the one
thread that is in the call goes on, and in `LinuxReads` the one request or handler that is next. In `NativeCalls` it is per call and per
kind of step: the kernel answers, the pool takes the oldest request, the loop runs each completion, callbacks return or throw.

## What is proved

Every component has a module of theorems, `ProcThreads_proofs` to `LinuxReads_proofs`. Between them they state **every
invariant that a passing run checks, and the one action property**, for every value of the constants: any number of calls,
threads, descriptors, sockets, disks, pages and tries, and any interleaving. `PROJECT.json` lists each theorem with the property
it states. Each module has the same shape. `IInv`, at the end of the component's module, is the inductive
invariant, a conjunction of named parts. One lemma per action, or per kind of action, shows that
its step keeps each part; `Invariance` is `Spec => []IInv`; and each property follows from `IInv` in a few lines. TLC has
checked each `IInv` on the instance of the component's run.

None of the properties is inductive as it stands. What each invariant adds:

| Module | What `IInv` adds to the properties, and what for |
|---|---|
| ProcThreads | `CountInv`: the counter is the number of outstanding reads, each counted once, so that the last callback is the one that sees 0. `ArrayInv`: the array holds, once each, threads whose callback has run, and without an error all of them. `HistoryInv`: what was there throughout was listed, a failed read means that something ended or that this call was starved, and a listing is empty only if everything went. |
| OpenFiles | `CountInv` and `ReplyInv`, as there. `KeptInv`: a pair of descriptor and path that stays is on its way, from the listing through the outstanding `readlink` to the array. `EverInv`: what has been read was held during the call, even if the descriptor has been reused since. |
| Terminal | `JoinInv`: each request that is settled was counted, or brought the stat file, or answered with an error; hence the sum over the requests is that of the counter, the two variables and the answers, and a success leaves nothing that could answer again. `MapInv`: a terminal that stays is missing in the map only while its directory's listing has not been counted. |
| NetConnections | `FoundInv`: what was found was held during the call, by a process that was asked about, and no pair was found twice, so that two pairs of a UDP socket are two holders (`FoundOnce` of them). `WalkInv`: a descriptor to be reported has been found or is ahead of the walk. `TablesInv`: its table is still to be read, or its row is there. `PlaceInv`: where the walk is, and that as long as nothing was lost what is ahead of it can be read. |
| NativeCalls | `QueueInv` and `StackInv`: a call waits at most once, the main thread is inside of callbacks but for the innermost level, and a synchronous call stays on the stack until it is over. `HeldInv`, thing by thing: what a call owns at each stage. `PosInv`, `AnswerInv`, `RaceInv`: which request or index it is at; no answer before the end; two writers of the string are two calls, one of them on the pool. |
| OsxLists | `PhaseInv`: one buffer between the two requests and the end of the loop. `RoomInv` and `TriesInv`: a table to which nothing was added fits, and every try that was spent saw a process start. `ListInv` and `LookedInv`: what stays is found once the index has passed it. |
| OsxHandles | `ListInv`: by addresses, what ends below the walk's address has been listed; by a list of the kernel's, what has been taken from it. `HeldInv`: what is held at each point of the walk; `LeftBehind` is what is left of it at the exits. |
| LinuxReads | What is still known of an answer when the next question is asked: `GotInv` of the answer, `FailedInv` of a failure, `AskInv` of what is handed on. What was cached when meminfo was read is so much now, or the marks say that it was reclaimed or filled since; what was recorded of the partitions is `Recorded` of a set of devices that was there at some moment. |

Two arguments are not routine. `DisksAnswer` (LinuxReads): `/proc/partitions` is handled from its end with one remembered name, and
diskstats is read later. That no disk is listed with its partitions rests on the order of the kernel's listing: among the names
after a disk the first that ends in a digit is a partition of it, if it has any (by the well-ordering of the numbers). The
refinement (ProcThreads): `Refinement` says that each step is a step of `IntervalQuery` under the mapping `IQ`, or a
stutter; the history needed for it is in `IInv`.

**Assumptions** are those the modules declare, and TLC evaluates them on every run:
- `NoCall`, `NoPid`, `Closed`, `File`, `NoPath`, `NoTerm`, `Free` are none of what they are told apart from (model values);
- process ids of `NetConnections` are numbers from 1 (the code takes a pid of 0 for no filter);
- calls, threads, descriptors, slots, regions and disks are finite sets, as they are in a computer; `Fds` is not empty, being all
  the numbers a descriptor may have;
- `DevicesAssumption`: the kernel lists a disk and then its partitions, which have none themselves; their names are the disk's with a
  number behind it; a name that contains a name that contains a third contains the third; and a file system type is no partition
  (the two kinds of answers share the variable `value`);
- bounds are numbers other than 0.

**Only model-checked**: the liveness properties (`AnsweredUnlessEmpty`, `Answered`, `CallAnswered`, `CallEnds`, `Ends`)
and the liveness half of `ImplementsIntervalQuery`, since TLAPS proves nothing about ENABLED, and so about fairness. The three
violated properties are counterexamples, and have nothing to prove.

## Where the code and its documents disagree

Three runs (above) show it. `statSync` throws inside a callback in `openFiles`, where the README promises
`callback(err, res)`. `terminal` calls back more than once on errors, where the comment at 776 says it waits for both ends.
`process_inet` means to refuse a socket with several holders and refuses only UDP ones, because it compares a type with
`CONN.AF_UNIX`, which is the number of `SOCK_STREAM`: of the holders of a TCP socket all but the first are lost.

The models have these too, and their properties say that there is no more of the kind: `threads` and the asynchronous
`openFiles` never call back after an empty listing, since the countdown that would do so never starts
(`AnsweredUnlessEmpty`); `terminal` stops node when a terminal closes after it was listed, since its name is stat'ed inside a
callback (`Answered`); and the kinds `all`, `tcp6`, `udp6`, `inet6` find no IPv6 socket on OS X, since `AF_INET6` is Linux's number
(`AfFilter` of `OsxLists`).

Seen while modelling, without a run: the asynchronous `openFiles` keeps directories and devices (`.isFile` is not called, 1064);
`terminal` names another terminal, or none, for a process whose name has a space, since the stat file is split at spaces (780, 814);
`netConnections` throws EACCES as soon as some process belongs to another user (314), that is, for everyone but root, and returns nothing for a kind it
does not know; `netConnections` defaults to
`inet` on Linux where the README says `all`; the OS X `netConnections` pushes the whole list of a process once
per connection (`nsosx.js` 248); `createTime` returns `cpuTimes` (871); `setNice` sets the process id as the
priority (`nsutil_posix_funcs.cpp` 39) and throws a TypeError when the system refuses, in both forms; the OS X functions report a failure to a callback as `null, undefined`; and `threads` on OS X
deallocates its array in the observed task (`sutil_osx.cpp` 465). `status` of a traced process throws, although
`common.js` has a name for the state `t`, since the pattern at `nslinux.js` 1040 takes capital letters only; with a callback it stops node.
`cpuCountLogical` counts every "processor" in cpuinfo, whatever the case, and so each processor twice where the model name has the
word. `diskUsage` without a path never calls back. `proc.cpuTimes` of OS X leaks its buffer at each call (`nsutil_osx_funcs.cpp`
335-360). `swapMemory` on Linux reports the memory's total and free, not the swap's, and takes the last line of vmstat that does
*not begin* with `pswpin` (116); `ioCounters` takes `wbytes` from the line `cancelled_write_bytes` (833); `virtualMemory` takes
`active` and `inactive` from the last line that has the word. `users` compares a `hostname` that is never set.

## What is not modelled

- What the parsers of single files take out of a text, and the figures of native calls: formats, where nothing can fail and
  nothing decides. `ever` and `always` of `LinuxReads` say which world an answer is of, not what it spells.
- `sutil_linux_prlimit` and the setter of the affinity, which nothing calls; `sysconf`, called once as the module is loaded.
- An exception thrown by the user's own callback: in `NativeCalls` only, where it meets what is to be deleted. Elsewhere it
  ends node, or is caught, after the library has done its part.
- `sysinfo(2)` fails only for a bad pointer, so that `nsutil_sysinfo` gives `LinuxReads` no undefined; `NativeCalls` has that path, and what
  JavaScript would make of it (a TypeError at `nslinux.js` 83 or 111).
- The inside of submaps. `memMaps` asks the kernel for one level more at each submap (`sutil_osx.cpp` 224); how far the kernel then
  descends, and what it makes of the level, is its own. A submap is passed over as one region.
- In `NetConnections`, a `/proc` mounted with `hidepid` (a process that is hidden is like one that does not exist), a missing file of
  `/proc/net`, and sockets that are listed with inode 0. A process of another user is `denied` as a whole.
- `decode_address` and the columns of tables, statistics and regions: a row is abstracted to the object it
  is about. The shortcut of `connections` for pid 0. The 16-bit loop index of `threads` on OS X, which overflows beyond 65535
  threads (the 8-bit one of `perCpuTimes` is modelled).
- The exports of the add-ons and the choice of the platform: tables.
- libuv, Node and the kernel, except as the environment: a request completes with data or an error.

## Plan

Done, in this order: IntervalQuery, ProcThreads and its proofs (the pattern that all of `nslinux.js` repeats),
OpenFiles, Terminal, NetConnections (the other ways to query what changes), NativeCalls (the only real concurrency
in the native code, and all its one-shot calls), OsxLists, OsxHandles, LinuxReads. With it every part of the system but the
tables of exports has a module.

Then the theorems: every invariant of every run, the action property and the steps of the refinement, with the
inductive invariants they need.

Next:

1. An abstract specification that **OpenFiles** refines as ProcThreads refines IntervalQuery (its answer may also never come, when
   the listing is empty), and the step simulation as a theorem.
2. Action properties of **Terminal** and **NativeCalls** (what an answer that was given, or an object that was deleted, is never
   touched by), as far as they are not consequences of the invariants.
