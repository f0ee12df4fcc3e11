------------------------------ MODULE NativeCalls ------------------------------
(***************************************************************************)
(* The calls of JavaScript into the C++ add-ons that make one request of   *)
(* the kernel, or a few, and convert the result: the figures of a process  *)
(* and of the system on OS X (sutil_osx.cpp, process_info.cpp and their    *)
(* wrappers in nsutil_osx_funcs.cpp), and the calls of both systems into   *)
(* the Linux and POSIX add-ons.                                            *)
(*                                                                         *)
(* There are three forms.  cpuTimes, perCpuTimes and swapMemory are really *)
(* asynchronous: a call allocates a Baton, a NanCallback and a request and *)
(* gives them to libuv; a pool thread runs the sutil function; the event   *)
(* loop then runs the callback and frees everything.  The others compute   *)
(* first and then run the callback inside the call ("pseudo", nsosx.js     *)
(* 9-17).  Without a callback the wrapper returns the result.  A callback  *)
(* is user code: it may throw and it may make further calls.  All of them  *)
(* write one static string when they fail.                                 *)
(***************************************************************************)
EXTENDS Integers, FiniteSets, Sequences

CONSTANTS
    Calls,       \* the calls the program makes
    Mixes,       \* the functions it may call: functions from Calls to Kinds
    PoolSize,    \* threads of libuv's pool
    CpuCounts,   \* how many processors there may be
    IndexRange   \* values of the index of sutil_per_cpu_times: 256

-----------------------------------------------------------------------------
(* The functions of sutil: the requests each makes of the kernel, in order. *)

sutil_proc_name             == <<"kinfo">>
sutil_proc_cwd              == <<"pidinfo">>
sutil_proc_exe              == <<"pidpath">>
sutil_get_arg_list          == <<"argmax", "args">>
sutil_proc_ppid             == <<"kinfo">>
sutil_proc_uids             == <<"kinfo">>
sutil_proc_gids             == <<"kinfo">>
sutil_proc_tty_nr           == <<"kinfo">>
sutil_proc_cpu_times        == <<"pidinfo">>
sutil_proc_create_time      == <<"kinfo">>
sutil_proc_memory_info      == <<"pidinfo">>
sutil_proc_num_threads      == <<"pidinfo">>
sutil_proc_num_ctx_switches == <<"pidinfo">>
sutil_proc_status           == <<"kinfo">>
sutil_cpu_count_logical     == <<"ncpu">>
sutil_cpu_count_phys        == <<"ncpu">>
sutil_virtual_mem           == <<"sysctl", "host">>
sutil_swap_mem              == <<"sysctl", "host">>
sutil_cpu_times             == <<"host">>
sutil_per_cpu_times         == <<"processors">>
sutil_boot_time             == <<"sysctl">>
sutil_users                 == <<"utmp">>
sutil_linux_sysinfo         == <<"sysinfo">>
sutil_linux_partitions      == <<"mtab">>
sutil_linux_users           == <<"utmp">>
sutil_posix_getpriority     == <<"getpriority">>
sutil_posix_setpriority     == <<"setpriority">>
sutil_posix_statvfs         == <<"statvfs">>
sutil_pid_exists            == <<"kill">>
sutil_proc_ioprio_get       == <<"ioprio_get">>
sutil_proc_ioprio_set       == <<"ioprio_set">>
sutil_proc_cpu_affinity_get == <<"affinity">>

\* Requests that set the error string when they fail, and those that may fail
\* without: a process that has gone, and a process that may not be looked at,
\* are told apart by two of them only.
Loud  == {"sysctl", "host", "processors", "pidinfo", "pidpath", "kinfo", "args"}
Quiet == {"kinfo", "args", "argmax", "ncpu", "sysinfo", "mtab",
          "getpriority", "setpriority", "statvfs", "kill", "ioprio_get", "ioprio_set",
          "affinity"}

\* What the function holds while a request is made.
Taken(r) == CASE r \in {"host", "processors"} -> {"port"}
              [] r = "args"                   -> {"procargs"}
              [] OTHER                        -> {}

-----------------------------------------------------------------------------
(* The wrappers: whether they look at their arguments first, whether they  *)
(* have a result buffer that is freed on success or kept for ever, and     *)
(* what JavaScript makes of a failure.  A value is a string or a number    *)
(* like any other ("", 0, -1).                                             *)

OfSystem(asks, buffer, onFail) ==
    [asks |-> asks, checks |-> FALSE, buffer |-> buffer, onFail |-> onFail]
OfProcess(asks, buffer, onFail) ==
    [asks |-> asks, checks |-> TRUE, buffer |-> buffer, onFail |-> onFail]

proc_cmdline          == OfProcess(sutil_get_arg_list, "none", "undefined")
proc_name             == OfProcess(sutil_proc_name, "none", "value")
proc_cwd              == OfProcess(sutil_proc_cwd, "none", "value")
proc_exe              == OfProcess(sutil_proc_exe, "none", "value")
proc_ppid             == OfProcess(sutil_proc_ppid, "none", "value")
proc_uids             == OfProcess(sutil_proc_uids, "freed", "throws")
proc_gids             == OfProcess(sutil_proc_gids, "freed", "throws")
proc_tty_nr           == OfProcess(sutil_proc_tty_nr, "none", "undefined")
proc_cpu_times        == OfProcess(sutil_proc_cpu_times, "kept", "undefined")
proc_create_time      == OfProcess(sutil_proc_create_time, "none", "value")
proc_memory_info      == OfProcess(sutil_proc_memory_info, "freed", "undefined")
proc_num_threads      == OfProcess(sutil_proc_num_threads, "none", "value")
proc_num_ctx_switches == OfProcess(sutil_proc_num_ctx_switches, "none", "value")
proc_status           == OfProcess(sutil_proc_status, "none", "undefined")
cpu_count_logical     == OfSystem(sutil_cpu_count_logical, "none", "value")
cpu_count_phys        == OfSystem(sutil_cpu_count_phys, "none", "value")
virtual_mem           == OfSystem(sutil_virtual_mem, "freed", "throws")
swap_mem              == OfSystem(sutil_swap_mem, "freed", "undefined")
cpu_times             == OfSystem(sutil_cpu_times, "freed", "undefined")
per_cpu_times         == OfSystem(sutil_per_cpu_times, "none", "undefined")
boot_time             == OfSystem(sutil_boot_time, "none", "value")
users                 == OfSystem(sutil_users, "none", "undefined")
linux_users           == OfSystem(sutil_linux_users, "none", "throws")
linux_sysinfo         == OfSystem(sutil_linux_sysinfo, "freed", "throws")
linux_partitions      == OfSystem(sutil_linux_partitions, "none", "throws")
getpriority           == OfProcess(sutil_posix_getpriority, "none", "undefined")
setpriority           == OfProcess(sutil_posix_setpriority, "none", "throws")
statvfs               == OfProcess(sutil_posix_statvfs, "none", "throws")
pid_exists            == OfProcess(sutil_pid_exists, "none", "value")
proc_ioprio_get       == OfProcess(sutil_proc_ioprio_get, "freed", "undefined")
proc_ioprio_set       == OfProcess(sutil_proc_ioprio_set, "none", "value")
proc_cpu_affinity_get == OfProcess(sutil_proc_cpu_affinity_get, "none", "undefined")

Functions == [
    proc_cmdline |-> proc_cmdline, proc_name |-> proc_name, proc_cwd |-> proc_cwd,
    proc_exe |-> proc_exe, proc_ppid |-> proc_ppid, proc_uids |-> proc_uids,
    proc_gids |-> proc_gids, proc_tty_nr |-> proc_tty_nr,
    proc_cpu_times |-> proc_cpu_times, proc_create_time |-> proc_create_time,
    proc_memory_info |-> proc_memory_info, proc_num_threads |-> proc_num_threads,
    proc_num_ctx_switches |-> proc_num_ctx_switches, proc_status |-> proc_status,
    cpu_count_logical |-> cpu_count_logical, cpu_count_phys |-> cpu_count_phys,
    virtual_mem |-> virtual_mem, swap_mem |-> swap_mem, cpu_times |-> cpu_times,
    per_cpu_times |-> per_cpu_times, boot_time |-> boot_time, users |-> users,
    linux_users |-> linux_users, linux_sysinfo |-> linux_sysinfo,
    linux_partitions |-> linux_partitions, getpriority |-> getpriority,
    setpriority |-> setpriority, statvfs |-> statvfs, pid_exists |-> pid_exists,
    proc_ioprio_get |-> proc_ioprio_get, proc_ioprio_set |-> proc_ioprio_set,
    proc_cpu_affinity_get |-> proc_cpu_affinity_get]
Kinds == DOMAIN Functions

\* The forms of a function.  Linux's sysinfo and mounts are called by code of
\* nslinux.js that has read a file first, pidExists is not exported with one, and
\* the priorities of input and output and the affinity are called by users of the
\* add-on only: they have no callback.
FormsOf(k) == {"sync"} \cup
    CASE k \in {"cpu_times", "per_cpu_times", "swap_mem"}   -> {"async"}
      [] k \in {"linux_sysinfo", "linux_partitions", "pid_exists",
                "proc_ioprio_get", "proc_ioprio_set", "proc_cpu_affinity_get"} -> {}
      [] OTHER                                              -> {"pseudo"}

\* The program makes finitely many calls.
ASSUME CallsAssumption == IsFiniteSet(Calls)
ASSUME MixesAssumption ==
    /\ Mixes \subseteq [Calls -> Kinds] /\ PoolSize \in Nat \ {0}
    /\ CpuCounts \subseteq Nat \ {0} /\ IndexRange \in Nat \ {0}

-----------------------------------------------------------------------------
VARIABLES
    kind,      \* per call: the function
    cpus,      \* the number of processors
    form,      \* per call: "none", "async", "pseudo" or "sync"
    stage,     \* per call: how far it is
    pos,       \* per call: the request it is at, or the index of the walk
    queue,     \* requests waiting for a pool thread
    stack,     \* what the main thread is inside of, innermost last
    up,        \* the node process runs
    held,      \* the C++ objects and port rights taken and not given back
    failed,    \* per call: the sutil function returned a failure
    raced,     \* two threads have written sutil_error_desc at the same time
    answers    \* per call: what the program got

vars == <<kind, cpus, form, stage, pos, queue, stack, up, held, failed, raced, answers>>

Results == {"ok", "err", "undefined", "value", "throws"}
Things == {"baton", "callback", "req", "result", "port", "procargs"}
Stages == {"new", "queued", "asking", "walk", "failing", "warning", "done", "calling", "over"}
Fn(c) == Functions[kind[c]]
Request(c) == Fn(c).asks[pos[c]]

\* The objects of an asynchronous call, and the result buffer of any call.
CallObjects(c) == {c} \X {"baton", "callback", "req"}
Buffer(c) == IF Fn(c).buffer = "none" THEN {} ELSE {<<c, "result">>}
Holds(c, i) == {c} \X Taken(Fn(c).asks[i])

Init ==
    /\ kind \in Mixes /\ cpus \in CpuCounts
    /\ form = [c \in Calls |-> "none"]
    /\ stage = [c \in Calls |-> "new"]
    /\ pos = [c \in Calls |-> 0]
    /\ queue = <<>> /\ stack = <<>> /\ up = TRUE
    /\ held = {} /\ failed = {} /\ raced = FALSE
    /\ answers = [c \in Calls |-> <<>>]

\* JavaScript runs: the script itself, or a callback.  (The variant lets it run
\* inside a native call too.)
UserRunsAnytime == up
UserRuns == up /\ (IF stack = <<>> THEN TRUE ELSE stage[stack[Len(stack)]] = "calling")

Go(c, s, i) == stage' = [stage EXCEPT ![c] = s] /\ pos' = [pos EXCEPT ![c] = i]
Pop == stack' = SubSeq(stack, 1, Len(stack) - 1)

\* (The variant keeps the last answer in place of all of them.)
AnswerOverwrites(c, a) == answers' = [answers EXCEPT ![c] = a]
Answer(c, a) == answers' = [answers EXCEPT ![c] = Append(@, a)]

Busy == {c \in Calls : form[c] = "async" /\ stage[c] \in {"asking", "walk", "failing", "warning"}}

\* The wrapper, or the function on the pool, takes its buffer and calls sutil.
Enter(c) == Go(c, "asking", 1) /\ held' = held \cup Buffer(c) \cup Holds(c, 1)

-----------------------------------------------------------------------------
CallAsync(c) ==
    /\ UserRuns /\ form[c] = "none" /\ "async" \in FormsOf(kind[c])
    /\ form' = [form EXCEPT ![c] = "async"]
    /\ held' = held \cup CallObjects(c)
    /\ queue' = Append(queue, c)
    /\ Go(c, "queued", 0)
    /\ UNCHANGED <<kind, cpus, stack, up, failed, raced, answers>>

\* A pool thread takes the oldest request.
WorkBegin(c) ==
    /\ up /\ queue # <<>> /\ c = Head(queue) /\ Cardinality(Busy) < PoolSize
    /\ queue' = Tail(queue)
    /\ Enter(c)
    /\ UNCHANGED <<kind, cpus, form, stack, up, failed, raced, answers>>

\* A call that computes on the main thread.
CallSync(c) ==
    /\ UserRuns /\ form[c] = "none"
    /\ \E f \in FormsOf(kind[c]) \ {"async"} : form' = [form EXCEPT ![c] = f]
    /\ stack' = Append(stack, c)
    /\ Enter(c)
    /\ UNCHANGED <<kind, cpus, queue, up, failed, raced, answers>>

\* The wrapper throws a TypeError if it is not given a number (or a path).
BadArgument(c) ==
    /\ UserRuns /\ form[c] = "none" /\ Fn(c).checks
    /\ \E f \in FormsOf(kind[c]) : form' = [form EXCEPT ![c] = f]
    /\ Go(c, "over", 0) /\ Answer(c, "throws")
    /\ UNCHANGED <<kind, cpus, queue, stack, up, held, failed, raced>>

\* diskUsage without a path returns before anything, the callback included.
NoPath(c) ==
    /\ UserRuns /\ form[c] = "none" /\ kind[c] = "statvfs"
    /\ form' = [form EXCEPT ![c] = "pseudo"]
    /\ Go(c, "over", 0)
    /\ UNCHANGED <<kind, cpus, queue, stack, up, held, failed, raced, answers>>

-----------------------------------------------------------------------------
(* The sutil functions, on whichever thread they run.                      *)

\* sutil_set_err begins to assign the static string.
SetErr(c, s) ==
    /\ Go(c, s, pos[c])
    /\ raced' = (raced \/ \E d \in Calls \ {c} : stage[d] \in {"failing", "warning"})

\* The kernel answers: what was held for the request is given back, and the
\* next request is made; sutil_per_cpu_times goes through the processors.
AskOk(c) ==
    LET last == pos[c] = Len(Fn(c).asks) IN
    /\ up /\ stage[c] = "asking"
    /\ CASE ~last                             -> Go(c, "asking", pos[c] + 1)
         [] last /\ Request(c) = "processors" -> Go(c, "walk", 0)
         [] OTHER                             -> Go(c, "done", pos[c])
    /\ held' = (held \ Holds(c, pos[c])) \cup IF last THEN {} ELSE Holds(c, pos[c] + 1)
    /\ UNCHANGED <<kind, cpus, form, queue, stack, up, failed, raced, answers>>

\* The kernel refuses: an early return, with a port right kept, but the space
\* for the arguments freed.  (That there is no such process, and that pid 0 has
\* no arguments, are such answers too.)
AskFails(c) ==
    /\ up /\ stage[c] = "asking"
    /\ held' = held \ {<<c, "procargs">>}
    /\ \/ Request(c) \in Loud /\ SetErr(c, "failing") /\ UNCHANGED failed
       \/ Request(c) \in Quiet /\ Go(c, "done", pos[c]) /\ failed' = failed \cup {c}
          /\ UNCHANGED raced
    /\ UNCHANGED <<kind, cpus, form, queue, stack, up, answers>>

\* for (i = 0; i < cpu_count; i++) with a uint8_t i; then the array is
\* unmapped, and failing to do so sets the string and is no failure.
WalkStep(c) ==
    /\ up /\ stage[c] = "walk"
    /\ \/ pos[c] < cpus /\ Go(c, "walk", (pos[c] + 1) % IndexRange) /\ UNCHANGED raced
       \/ pos[c] >= cpus /\ Go(c, "done", pos[c]) /\ UNCHANGED raced
       \/ pos[c] >= cpus /\ SetErr(c, "warning")
    /\ UNCHANGED <<kind, cpus, form, queue, stack, up, held, failed, answers>>

\* The string is assigned and the function returns.
ErrSet(c) ==
    /\ up /\ stage[c] \in {"failing", "warning"}
    /\ failed' = IF stage[c] = "failing" THEN failed \cup {c} ELSE failed
    /\ Go(c, "done", pos[c])
    /\ UNCHANGED <<kind, cpus, form, queue, stack, up, held, raced, answers>>

-----------------------------------------------------------------------------
(* The end of the forms.                                                   *)

\* The event loop runs <kind>_after: the callback gets the error or the result.
\* (The variant calls back on success only.)
AfterDropsErrors(c) ==
    /\ up /\ stack = <<>> /\ form[c] = "async" /\ stage[c] = "done" /\ c \notin failed
    /\ Answer(c, "ok")
    /\ stack' = <<c>>
    /\ Go(c, "calling", pos[c])
    /\ UNCHANGED <<kind, cpus, form, queue, up, held, failed, raced>>
After(c) ==
    /\ up /\ stack = <<>> /\ form[c] = "async" /\ stage[c] = "done"
    /\ Answer(c, IF c \in failed THEN "err" ELSE "ok")
    /\ stack' = <<c>>
    /\ Go(c, "calling", pos[c])
    /\ UNCHANGED <<kind, cpus, form, queue, up, held, failed, raced>>

\* The callback throws: node::FatalException, or an exception that nobody
\* catches, ends the process.  If the program handles it, the call goes on as
\* after a return.
CallbackThrows(c) ==
    /\ up /\ stack = <<c>> /\ stage[c] = "calling"
    /\ up' = FALSE
    /\ UNCHANGED <<kind, cpus, form, stage, pos, queue, stack, held, failed, raced, answers>>

\* Variants with a bug, for the mutation runs: the result is not deleted; the
\* request is left for the loop to complete again.
AfterForgetsBuffer(c) ==
    /\ up /\ stack = <<c>> /\ form[c] = "async" /\ stage[c] = "calling"
    /\ held' = held \ CallObjects(c)
    /\ Pop /\ Go(c, "over", pos[c])
    /\ UNCHANGED <<kind, cpus, form, queue, up, failed, raced, answers>>
AfterRunsTwice(c) ==
    /\ up /\ stack = <<c>> /\ form[c] = "async" /\ stage[c] = "calling"
    /\ held' = held \ CallObjects(c)
    /\ Pop /\ Go(c, "done", pos[c])
    /\ UNCHANGED <<kind, cpus, form, queue, up, failed, raced, answers>>
\* "release": the callback, the result, the baton and the request.
AfterEnds(c) ==
    /\ up /\ stack = <<c>> /\ form[c] = "async" /\ stage[c] = "calling"
    /\ held' = held \ (CallObjects(c) \cup Buffer(c))
    /\ Pop /\ Go(c, "over", pos[c])
    /\ UNCHANGED <<kind, cpus, form, queue, up, failed, raced, answers>>

\* The wrapper returns, past the delete of the buffer if sutil has failed, and
\* JavaScript goes on: it returns the result, calls back with it (there is no
\* error to give), or throws as it reads a field of undefined.
SyncReturn(c) ==
    LET result == IF c \in failed THEN Fn(c).onFail ELSE "ok" IN
    /\ up /\ form[c] \in {"sync", "pseudo"} /\ stage[c] = "done"
    /\ held' = IF c \notin failed /\ Fn(c).buffer = "freed" THEN held \ Buffer(c) ELSE held
    /\ Answer(c, result)
    /\ IF form[c] = "pseudo" /\ result # "throws"
       THEN Go(c, "calling", pos[c]) /\ UNCHANGED stack
       ELSE Go(c, "over", pos[c]) /\ Pop
    /\ UNCHANGED <<kind, cpus, form, queue, up, failed, raced>>

\* The callback of handleResult returns, or throws to whoever made the call.
PseudoEnds(c) ==
    /\ up /\ stack # <<>> /\ c = stack[Len(stack)]
    /\ form[c] = "pseudo" /\ stage[c] = "calling"
    /\ Pop /\ Go(c, "over", pos[c])
    /\ UNCHANGED <<kind, cpus, form, queue, up, held, failed, raced, answers>>

-----------------------------------------------------------------------------
Sutil(c) == AskOk(c) \/ AskFails(c) \/ WalkStep(c) \/ ErrSet(c)

Next == \E c \in Calls :
    \/ CallAsync(c) \/ CallSync(c) \/ BadArgument(c) \/ NoPath(c)
    \/ WorkBegin(c) \/ Sutil(c)
    \/ After(c) \/ CallbackThrows(c) \/ AfterEnds(c) \/ SyncReturn(c) \/ PseudoEnds(c)

\* The kernel answers, the pool and the event loop go on, callbacks return.
Fairness == \A c \in Calls :
    /\ WF_vars(WorkBegin(c)) /\ WF_vars(Sutil(c)) /\ WF_vars(SyncReturn(c))
    /\ WF_vars(After(c)) /\ WF_vars(AfterEnds(c) \/ PseudoEnds(c) \/ CallbackThrows(c))

Spec == Init /\ [][Next]_vars /\ Fairness

-----------------------------------------------------------------------------
TypeOK ==
    /\ kind \in Mixes /\ cpus \in CpuCounts
    /\ form \in [Calls -> {"none", "async", "pseudo", "sync"}]
    /\ stage \in [Calls -> Stages] /\ pos \in [Calls -> Nat]
    /\ queue \in Seq(Calls) /\ stack \in Seq(Calls)
    /\ up \in BOOLEAN /\ raced \in BOOLEAN /\ failed \subseteq Calls
    /\ held \subseteq Calls \X Things
    /\ answers \in [Calls -> Seq(Results)]

\* Every call is answered at most once, by a return, a callback or an exception
\* and never by two of them, at the very end, and with its own failure or
\* success; a call made from inside a callback changes nothing of it.  A
\* success of perCpuTimes has gone through every processor once.
AnswerMatchesWork ==
    \A c \in Calls :
        /\ Len(answers[c]) <= 1
        /\ answers[c] # <<>> => stage[c] \in {"calling", "over"}
        /\ answers[c] = <<"ok">> =>
              c \notin failed /\ (kind[c] = "per_cpu_times" => pos[c] = cpus)

\* What calls that are over have left behind, exactly: the result buffers of
\* calls on the main thread that failed, and of every proc.cpuTimes; and the
\* host port right of every call that failed to ask with it, on any thread.
LeaksAreKnown ==
    {x \in held : stage[x[1]] = "over"} =
        (UNION {Buffer(c) : c \in {d \in Calls : stage[d] = "over" /\ pos[d] > 0 /\
                   form[d] # "async" /\ (d \in failed \/ Fn(d).buffer = "kept")}})
        \cup {<<c, "port">> : c \in {d \in failed :
                   stage[d] = "over" /\ Request(d) \in {"host", "processors"}}}

\* Two writers of the static sutil_error_desc meet only if two calls have
\* something to report and one of them runs on the pool: a program that makes
\* no asynchronous call has no data race, however its callbacks nest.
RaceNeedsThePool ==
    raced => /\ \E c \in Calls : form[c] = "async"
             /\ Cardinality({c \in Calls : stage[c] \notin {"new", "queued"}}) > 1

\* A call that was made is answered, however the pool is shared and calls nest,
\* unless the process dies of an exception in a callback, diskUsage is given no
\* path, or perCpuTimes goes round and round because its index cannot reach the
\* number of processors.
CallAnswered ==
    \A c \in Calls :
        form[c] # "none" ~>
            \/ answers[c] # <<>> \/ ~up
            \/ kind[c] = "statvfs" /\ stage[c] = "over"
            \/ cpus >= IndexRange /\ \E d \in Calls : stage[d] = "walk"

-----------------------------------------------------------------------------
(* The inductive invariant the safety theorems rest on.                    *)

\* Requests that wait for a pool thread wait once each.
QueueInv ==
    /\ \A i \in 1..Len(queue) : stage[queue[i]] = "queued"
    /\ \A i, j \in 1..Len(queue) : i # j => queue[i] # queue[j]

\* The main thread is inside of callbacks, except perhaps at the innermost level,
\* and of every call that computes there.
StackInv ==
    /\ \A i \in 1..Len(stack) : stage[stack[i]] \notin {"new", "queued", "over"}
    /\ \A i, j \in 1..Len(stack) : i # j => stack[i] # stack[j]
    /\ \A i \in 1..Len(stack) : i # Len(stack) => stage[stack[i]] = "calling"
    /\ \A c \in Calls :
          form[c] \in {"sync", "pseudo"} /\ stage[c] # "over" => \E i \in 1..Len(stack) : stack[i] = c

\* The request or the index a call is at.
PosInv(c) ==
    /\ form[c] = "none" <=> stage[c] = "new"
    /\ stage[c] = "queued" => form[c] = "async"
    /\ stage[c] \in {"asking", "failing"} \/ c \in failed => pos[c] \in 1..Len(Fn(c).asks)
    /\ c \in failed => stage[c] \in {"done", "calling", "over"}
    /\ stage[c] = "walk" => pos[c] <= cpus
    /\ stage[c] = "warning" => pos[c] = cpus
    /\ stage[c] \in {"done", "calling"} => pos[c] >= 1
    /\ stage[c] = "done" /\ c \notin failed /\ kind[c] = "per_cpu_times" => pos[c] = cpus

AnswerInv(c) ==
    /\ stage[c] \notin {"calling", "over"} => answers[c] = <<>>
    /\ Len(answers[c]) <= 1
    /\ answers[c] = <<"ok">> => c \notin failed /\ (kind[c] = "per_cpu_times" => pos[c] = cpus)

\* What a call holds, thing by thing.
OwnsResult(c) ==
    /\ Fn(c).buffer # "none"
    /\ stage[c] \notin {"new", "queued"}
    /\ stage[c] \in {"calling", "over"} /\ form[c] # "async" => c \in failed \/ Fn(c).buffer = "kept"
    /\ stage[c] = "over" => pos[c] > 0 /\ form[c] # "async"
OwnsPort(c) ==
    /\ stage[c] \in {"asking", "failing"} \/ c \in failed
    /\ Request(c) \in {"host", "processors"}

HeldInv(c) ==
    /\ \A x \in {"baton", "callback", "req"} :
          <<c, x>> \in held <=> form[c] = "async" /\ stage[c] # "over"
    /\ <<c, "result">> \in held <=> OwnsResult(c)
    /\ <<c, "port">> \in held <=> OwnsPort(c)
    /\ <<c, "procargs">> \in held <=> stage[c] = "asking" /\ Request(c) = "args"

\* Two calls have been at the string, and one of them was on the pool.
RaceInv ==
    raced => \E c, d \in Calls :
        /\ c # d /\ form[c] = "async"
        /\ stage[c] \notin {"new", "queued"} /\ stage[d] \notin {"new", "queued"}

IInv == /\ TypeOK /\ QueueInv /\ StackInv /\ RaceInv
        /\ \A c \in Calls : PosInv(c) /\ AnswerInv(c) /\ HeldInv(c)
================================================================================
