--------------------------- MODULE NativeCalls_proofs ---------------------------
(* Theorems about the native calls (module NativeCalls), for every finite set *)
(* of calls, every mix of functions, any size of the pool, any number of      *)
(* processors and any width of the index.                                     *)
EXTENDS NativeCalls, FiniteSetTheorems, SequenceTheorems, TLAPS

-----------------------------------------------------------------------------
(* The table of functions.                                                 *)

\* The requests a function makes of the kernel or of a file of the system.
Requests == Loud \cup Quiet \cup {"utmp"}

\* What every wrapper of the table has in common.
Regular(w) ==
    /\ w.asks \in Seq(Requests) /\ Len(w.asks) \in 1..2
    /\ w.buffer \in {"none", "freed", "kept"}
    /\ w.onFail \in {"undefined", "value", "throws"}

\* A wrapper of one request, or of two, is regular.
LEMMA WrapperRegular ==
    ASSUME NEW b \in {"none", "freed", "kept"}, NEW e \in {"undefined", "value", "throws"},
           NEW r \in Requests, NEW q \in Requests
    PROVE  /\ Regular(OfSystem(<<r>>, b, e)) /\ Regular(OfProcess(<<r>>, b, e))
           /\ Regular(OfSystem(<<r, q>>, b, e)) /\ Regular(OfProcess(<<r, q>>, b, e))
<1>1. \A s \in Requests, t \in Requests :
          /\ <<s>> \in Seq(Requests) /\ <<s, t>> \in Seq(Requests)
          /\ Len(<<s>>) = 1 /\ Len(<<s, t>>) = 2
  OBVIOUS
<1> QED
  BY <1>1 DEF Regular, OfSystem, OfProcess

\* Every function is one of these.
LEMMA TableRegular == \A k \in Kinds : Regular(Functions[k])
<1>1. \A r \in {"kinfo", "pidinfo", "pidpath", "argmax", "args", "ncpu", "sysctl", "host",
                "processors", "utmp", "sysinfo", "mtab", "getpriority", "setpriority",
                "statvfs", "kill", "ioprio_get", "ioprio_set", "affinity"} : r \in Requests
  BY DEF Requests, Loud, Quiet
<1>2. /\ Regular(proc_cmdline)
      /\ Regular(proc_name)
      /\ Regular(proc_cwd)
      /\ Regular(proc_exe)
      /\ Regular(proc_ppid)
      /\ Regular(proc_uids)
      /\ Regular(proc_gids)
      /\ Regular(proc_tty_nr)
      /\ Regular(proc_cpu_times)
      /\ Regular(proc_create_time)
      /\ Regular(proc_memory_info)
      /\ Regular(proc_num_threads)
      /\ Regular(proc_num_ctx_switches)
      /\ Regular(proc_status)
      /\ Regular(cpu_count_logical)
      /\ Regular(cpu_count_phys)
      /\ Regular(virtual_mem)
      /\ Regular(swap_mem)
      /\ Regular(cpu_times)
      /\ Regular(per_cpu_times)
      /\ Regular(boot_time)
      /\ Regular(users)
      /\ Regular(linux_users)
      /\ Regular(linux_sysinfo)
      /\ Regular(linux_partitions)
      /\ Regular(getpriority)
      /\ Regular(setpriority)
      /\ Regular(statvfs)
      /\ Regular(pid_exists)
      /\ Regular(proc_ioprio_get)
      /\ Regular(proc_ioprio_set)
      /\ Regular(proc_cpu_affinity_get)
  BY <1>1, WrapperRegular DEF
     proc_cmdline, proc_name, proc_cwd, proc_exe, proc_ppid, proc_uids, proc_gids,
     proc_tty_nr, proc_cpu_times, proc_create_time, proc_memory_info, proc_num_threads,
     proc_num_ctx_switches, proc_status, cpu_count_logical, cpu_count_phys, virtual_mem,
     swap_mem, cpu_times, per_cpu_times, boot_time, users, linux_users, linux_sysinfo,
     linux_partitions, getpriority, setpriority, statvfs, pid_exists, proc_ioprio_get,
     proc_ioprio_set, proc_cpu_affinity_get, sutil_get_arg_list, sutil_proc_name,
     sutil_proc_cwd, sutil_proc_exe, sutil_proc_ppid, sutil_proc_uids, sutil_proc_gids,
     sutil_proc_tty_nr, sutil_proc_cpu_times, sutil_proc_create_time,
     sutil_proc_memory_info, sutil_proc_num_threads, sutil_proc_num_ctx_switches,
     sutil_proc_status, sutil_cpu_count_logical, sutil_cpu_count_phys, sutil_virtual_mem,
     sutil_swap_mem, sutil_cpu_times, sutil_per_cpu_times, sutil_boot_time, sutil_users,
     sutil_linux_users, sutil_linux_sysinfo, sutil_linux_partitions,
     sutil_posix_getpriority, sutil_posix_setpriority, sutil_posix_statvfs,
     sutil_pid_exists, sutil_proc_ioprio_get, sutil_proc_ioprio_set,
     sutil_proc_cpu_affinity_get
<1>3. \A k \in Kinds : Functions[k] \in {
          proc_cmdline, proc_name, proc_cwd, proc_exe, proc_ppid, proc_uids, proc_gids,
          proc_tty_nr, proc_cpu_times, proc_create_time, proc_memory_info,
          proc_num_threads, proc_num_ctx_switches, proc_status, cpu_count_logical,
          cpu_count_phys, virtual_mem, swap_mem, cpu_times, per_cpu_times, boot_time,
          users, linux_users, linux_sysinfo, linux_partitions, getpriority, setpriority,
          statvfs, pid_exists, proc_ioprio_get, proc_ioprio_set, proc_cpu_affinity_get}
  BY DEF Kinds, Functions
<1> QED
  BY <1>2, <1>3

\* sutil_per_cpu_times makes one request, the one that is followed by a walk.
LEMMA PerCpuAsks ==
    /\ Functions["per_cpu_times"].asks = <<"processors">>
    /\ Functions["per_cpu_times"].buffer = "none"
  BY DEF Functions, per_cpu_times, sutil_per_cpu_times, OfSystem

\* What is taken for a request: a port right, or room for the arguments.
LEMMA HoldsThings ==
    ASSUME NEW c, NEW i, NEW d, NEW k
    PROVE  <<d, k>> \in Holds(c, i) <=>
              /\ d = c
              /\ \/ k = "port" /\ Fn(c).asks[i] \in {"host", "processors"}
                 \/ k = "procargs" /\ Fn(c).asks[i] = "args"
  BY DEF Holds, Taken

\* The index never passes the number of processors, whatever its width.
LEMMA IndexStep ==
    ASSUME NEW i \in Nat, NEW w \in Nat \ {0}
    PROVE  (i + 1) % w \in Nat /\ (i + 1) % w <= i + 1
<1> DEFINE q == (i + 1) \div w
           r == (i + 1) % w
<1>1. q \in Int /\ r \in 0..(w - 1) /\ i + 1 = w * q + r
  OBVIOUS
<1> QED
  OBVIOUS

\* What the call of a function reads in the table, and of the kinds of a run.
LEMMA FnRegular ==
    ASSUME TypeOK, NEW c \in Calls
    PROVE  /\ kind[c] \in Kinds /\ Regular(Fn(c))
           /\ cpus \in Nat \ {0} /\ IndexRange \in Nat \ {0}
<1>1. kind[c] \in Kinds
  BY MixesAssumption DEF TypeOK
<1>2. Regular(Fn(c))
  BY <1>1, TableRegular DEF Fn
<1> QED
  BY <1>1, <1>2, MixesAssumption DEF TypeOK

-----------------------------------------------------------------------------
(* The queue and the stack.                                                *)

\* The stack without its innermost level.
LEMMA PopProperties ==
    ASSUME NEW S, NEW s \in Seq(S), s # <<>>
    PROVE  /\ SubSeq(s, 1, Len(s) - 1) \in Seq(S)
           /\ Len(SubSeq(s, 1, Len(s) - 1)) = Len(s) - 1
           /\ \A i \in 1..(Len(s) - 1) : SubSeq(s, 1, Len(s) - 1)[i] = s[i]
<1> DEFINE n == Len(s) - 1
           p == SubSeq(s, 1, n)
<1>1. n \in Nat /\ \A i \in 1..n : s[i] \in S
  OBVIOUS
<1> HIDE DEF n
<1>2. /\ p \in Seq(S)
      /\ Len(p) = IF 1 <= n THEN n - 1 + 1 ELSE 0
      /\ \A i \in 1..(n - 1 + 1) : p[i] = s[1 + i - 1]
  BY <1>1, SubSeqProperties
<1> HIDE DEF p
<1>3. p \in Seq(S) /\ Len(p) = n /\ \A i \in 1..n : p[i] = s[i]
  BY <1>1, <1>2
<1> QED
  BY <1>3 DEF n, p

\* What computes on the main thread, and is not inside of its callback, is the
\* innermost level: there is one such call at most.
LEMMA InnermostComputes ==
    ASSUME TypeOK, StackInv, NEW c \in Calls, form[c] \in {"sync", "pseudo"},
           stage[c] \notin {"over", "calling"}
    PROVE  stack # <<>> /\ c = stack[Len(stack)]
<1>1. PICK i \in 1..Len(stack) : stack[i] = c
  BY DEF StackInv
<1>2. i = Len(stack)
  BY <1>1 DEF StackInv
<1> QED
  BY <1>1, <1>2 DEF TypeOK

\* While JavaScript runs, everything on the stack is inside of its callback.
LEMMA AllCalling ==
    ASSUME TypeOK, StackInv, UserRuns
    PROVE  \A i \in 1..Len(stack) : stage[stack[i]] = "calling"
<1> SUFFICES ASSUME NEW i \in 1..Len(stack) PROVE stage[stack[i]] = "calling"
  OBVIOUS
<1>1. stack # <<>>
  BY DEF TypeOK
<1>2. stage[stack[Len(stack)]] = "calling"
  BY <1>1 DEF UserRuns
<1> QED
  BY <1>2 DEF StackInv

\* A call that is not on the stack ends at once or goes to the pool.
LEMMA StackFresh ==
    ASSUME StackInv, NEW c \in Calls, stage[c] \in {"new", "queued"}, stack' = stack,
           \A d \in Calls \ {c} : form'[d] = form[d] /\ stage'[d] = stage[d],
           form'[c] = "async" \/ stage'[c] = "over", TypeOK
    PROVE  StackInv'
<1>1. \A i \in 1..Len(stack) : stack[i] # c /\ stack[i] \in Calls
  BY DEF StackInv, TypeOK
<1> QED
  BY <1>1 DEF StackInv

\* A call goes on with its work, on the stack or on the pool.
LEMMA StackWorks ==
    ASSUME StackInv, NEW c \in Calls, stage[c] \notin {"new", "queued", "calling"},
           stack' = stack, form' = form,
           \A d \in Calls \ {c} : stage'[d] = stage[d],
           stage'[c] \notin {"new", "queued", "over"}, stage[c] # "over", TypeOK
    PROVE  StackInv'
<1>1. \A i \in 1..Len(stack) : stack[i] \in Calls
  BY DEF TypeOK
<1>2. \A i \in 1..Len(stack) : i # Len(stack) => stack[i] # c
  BY DEF StackInv
<1> QED
  BY <1>1, <1>2 DEF StackInv

\* The innermost level is left.
LEMMA StackPop ==
    ASSUME StackInv, NEW c \in Calls, stack # <<>>, c = stack[Len(stack)], Pop, form' = form,
           \A d \in Calls \ {c} : stage'[d] = stage[d], stage'[c] = "over", TypeOK
    PROVE  StackInv'
<1>1. /\ Len(stack) \in Nat \ {0} /\ Len(stack') = Len(stack) - 1
      /\ \A i \in 1..(Len(stack) - 1) : stack'[i] = stack[i]
  BY PopProperties DEF Pop, TypeOK
<1>2. \A i \in 1..Len(stack) : stack[i] \in Calls
  BY DEF TypeOK
<1>3. \A i \in 1..(Len(stack) - 1) : stack[i] # c
  BY <1>1 DEF StackInv
<1>4. \A i \in 1..(Len(stack) - 1) : stage'[stack[i]] = "calling"
  BY <1>1, <1>2, <1>3 DEF StackInv
<1>5. ASSUME NEW d \in Calls, form'[d] \in {"sync", "pseudo"}, stage'[d] # "over"
      PROVE  \E i \in 1..Len(stack') : stack'[i] = d
  <2>1. d # c /\ stage[d] # "over" /\ form[d] \in {"sync", "pseudo"}
    BY <1>5
  <2>2. PICK i \in 1..Len(stack) : stack[i] = d
    BY <2>1 DEF StackInv
  <2>3. i \in 1..(Len(stack) - 1)
    BY <1>1, <2>1, <2>2
  <2> QED
    BY <1>1, <2>2, <2>3
<1>6. \A i, j \in 1..Len(stack') : i # j => stack'[i] # stack'[j]
  BY <1>1 DEF StackInv
<1>7. \A i \in 1..Len(stack') : stage'[stack'[i]] = "calling"
  BY <1>1, <1>4
<1> QED
  BY <1>5, <1>6, <1>7 DEF StackInv

\* A request leaves no trace in the queue but its own.
LEMMA QueueQuiet ==
    ASSUME TypeOK, QueueInv, NEW c \in Calls, stage[c] # "queued", queue' = queue,
           \A d \in Calls \ {c} : stage'[d] = stage[d]
    PROVE  QueueInv'
<1>1. \A i \in 1..Len(queue) : queue[i] \in Calls /\ queue[i] # c
  BY DEF TypeOK, QueueInv
<1> QED
  BY <1>1 DEF QueueInv

-----------------------------------------------------------------------------
(* Other calls.                                                            *)

\* A step that leaves a call alone leaves its invariant alone.
LEMMA CallFrame ==
    ASSUME NEW c \in Calls, PosInv(c), AnswerInv(c), HeldInv(c), kind' = kind, cpus' = cpus,
           form'[c] = form[c], stage'[c] = stage[c], pos'[c] = pos[c], answers'[c] = answers[c],
           c \in failed' <=> c \in failed, \A k : <<c, k>> \in held' <=> <<c, k>> \in held
    PROVE  PosInv(c)' /\ AnswerInv(c)' /\ HeldInv(c)'
<1>1. Fn(c)' = Fn(c) /\ Request(c)' = Request(c)
  BY DEF Fn, Request
<1>2. (OwnsResult(c)' <=> OwnsResult(c)) /\ (OwnsPort(c)' <=> OwnsPort(c))
  BY <1>1 DEF OwnsResult, OwnsPort
<1> QED
  BY <1>1, <1>2 DEF PosInv, AnswerInv, HeldInv

\* What every step of a call does: nothing to the functions, and nothing to
\* what belongs to another call.
LEMMA OtherCallsAlone ==
    ASSUME TypeOK, NEW c \in Calls,
           \/ CallAsync(c) \/ CallSync(c) \/ BadArgument(c) \/ NoPath(c)
           \/ WorkBegin(c) \/ Sutil(c)
           \/ After(c) \/ CallbackThrows(c) \/ AfterEnds(c) \/ SyncReturn(c) \/ PseudoEnds(c)
    PROVE  /\ kind' = kind /\ cpus' = cpus
           /\ \A d \in Calls \ {c} :
                 /\ form'[d] = form[d] /\ stage'[d] = stage[d] /\ pos'[d] = pos[d]
                 /\ answers'[d] = answers[d] /\ (d \in failed' <=> d \in failed)
                 /\ \A k : <<d, k>> \in held' <=> <<d, k>> \in held
<1> USE HoldsThings DEF TypeOK, Go, Answer, Buffer, CallObjects, Enter, SetErr
<1>1. CASE CallAsync(c)
  BY <1>1 DEF CallAsync
<1>2. CASE CallSync(c)
  BY <1>2 DEF CallSync
<1>3. CASE BadArgument(c) \/ NoPath(c)
  BY <1>3 DEF BadArgument, NoPath
<1>4. CASE WorkBegin(c)
  BY <1>4 DEF WorkBegin
<1>5. CASE AskOk(c)
  <2>0. \/ held' = held \ Holds(c, pos[c])
        \/ held' = (held \ Holds(c, pos[c])) \cup Holds(c, pos[c] + 1)
    BY <1>5 DEF AskOk
  <2>1. \A d \in Calls \ {c} : \A k : <<d, k>> \in held' <=> <<d, k>> \in held
    <3> SUFFICES ASSUME NEW d \in Calls \ {c}, NEW k
                 PROVE  <<d, k>> \in held' <=> <<d, k>> \in held
      OBVIOUS
    <3>1. <<d, k>> \notin Holds(c, pos[c]) /\ <<d, k>> \notin Holds(c, pos[c] + 1)
      BY HoldsThings
    <3> QED
      BY <2>0, <3>1
  <2> QED
    BY <1>5, <2>1 DEF AskOk
<1>6. CASE AskFails(c)
  BY <1>6 DEF AskFails
<1>7. CASE WalkStep(c) \/ ErrSet(c)
  BY <1>7 DEF WalkStep, ErrSet
<1>8. CASE After(c) \/ CallbackThrows(c)
  BY <1>8 DEF After, CallbackThrows
<1>9. CASE AfterEnds(c) \/ PseudoEnds(c)
  BY <1>9 DEF AfterEnds, PseudoEnds
<1>10. CASE SyncReturn(c)
  <2>1. \A d \in Calls \ {c} : \A k : <<d, k>> \in held' <=> <<d, k>> \in held
    BY <1>10 DEF SyncReturn
  <2>2. \A d \in Calls \ {c} : stage'[d] = stage[d] /\ pos'[d] = pos[d]
    BY <1>10 DEF SyncReturn
  <2> QED
    BY <1>10, <2>1, <2>2 DEF SyncReturn
<1> QED
  BY <1>1, <1>2, <1>3, <1>4, <1>5, <1>6, <1>7, <1>8, <1>9, <1>10 DEF Sutil

-----------------------------------------------------------------------------
(* The race.                                                               *)

\* A step that writes no string forgets no race.
LEMMA RaceQuiet ==
    ASSUME TypeOK, RaceInv, raced' = raced,
           \A d \in Calls : /\ form[d] = "async" => form'[d] = "async"
                            /\ stage[d] \notin {"new", "queued"} => stage'[d] \notin {"new", "queued"}
    PROVE  RaceInv'
  BY DEF RaceInv

\* A call that begins to write the string while another does races with it; one
\* of them is on the pool, as the main thread computes one call at a time.
LEMMA RaceSetErr ==
    ASSUME TypeOK, StackInv, RaceInv, NEW c \in Calls, PosInv(c), \A d \in Calls : PosInv(d),
           stage[c] \in {"asking", "walk"}, form' = form,
           NEW s \in {"failing", "warning"}, SetErr(c, s)
    PROVE  RaceInv'
<1>1. stage'[c] = s /\ \A d \in Calls \ {c} : stage'[d] = stage[d]
  BY DEF SetErr, Go, TypeOK
<1>2. CASE raced
  <2>1. \A d \in Calls : /\ form[d] = "async" => form'[d] = "async"
                         /\ stage[d] \notin {"new", "queued"} => stage'[d] \notin {"new", "queued"}
    BY <1>1
  <2> QED
    BY <1>2, <2>1 DEF RaceInv
<1>3. CASE ~raced /\ ~raced'
  BY <1>3 DEF RaceInv
<1>4. CASE ~raced /\ raced'
  <2>1. PICK d \in Calls \ {c} : stage[d] \in {"failing", "warning"}
    BY <1>4 DEF SetErr
  <2>2. form[c] \in {"async", "sync", "pseudo"} /\ form[d] \in {"async", "sync", "pseudo"}
    BY <2>1 DEF PosInv, TypeOK
  <2>3. form[c] = "async" \/ form[d] = "async"
    BY <2>1, <2>2, InnermostComputes
  <2>4. stage'[c] \notin {"new", "queued"} /\ stage'[d] \notin {"new", "queued"}
    BY <1>1, <2>1
  <2> QED
    BY <2>1, <2>3, <2>4 DEF RaceInv
<1> QED
  BY <1>2, <1>3, <1>4 DEF TypeOK

-----------------------------------------------------------------------------
(* One lemma per action: what is shared, and what belongs to the call.     *)

Shared == TypeOK /\ QueueInv /\ StackInv /\ RaceInv
Own(c) == PosInv(c) /\ AnswerInv(c) /\ HeldInv(c)

\* What a call holds, given what it may.
LEMMA HeldByThing ==
    ASSUME NEW c \in Calls, NEW r, r = Request(c)',
           \A x \in {"baton", "callback", "req"} :
               <<c, x>> \in held' <=> form'[c] = "async" /\ stage'[c] # "over",
           <<c, "result">> \in held' <=> OwnsResult(c)',
           <<c, "port">> \in held' <=>
               (stage'[c] \in {"asking", "failing"} \/ c \in failed') /\ r \in {"host", "processors"},
           <<c, "procargs">> \in held' <=> stage'[c] = "asking" /\ r = "args"
    PROVE  HeldInv(c)'
  BY DEF HeldInv, OwnsPort

\* A first answer.
LEMMA FirstAnswer ==
    ASSUME NEW x \in Results
    PROVE  /\ Append(<<>>, x) \in Seq(Results) /\ Len(Append(<<>>, x)) = 1
           /\ Append(<<>>, x) # <<>>
           /\ Append(<<>>, x) = <<"ok">> => x = "ok"
<1>1. Append(<<>>, x) = <<x>> /\ <<x>> \in Seq(Results)
  OBVIOUS
<1>2. Len(<<x>>) = 1 /\ <<x>>[1] = x /\ <<"ok">>[1] = "ok" /\ <<x>> # <<>>
  OBVIOUS
<1>3. <<x>> = <<"ok">> => x = "ok"
  BY <1>2
<1> QED
  BY <1>1, <1>2, <1>3

\* A call that has not been answered.
LEMMA NotAnswered ==
    ASSUME NEW c \in Calls, answers'[c] = <<>>
    PROVE  AnswerInv(c)'
<1>1. <<>> # <<"ok">> /\ Len(<<>>) <= 1
  OBVIOUS
<1> QED
  BY <1>1 DEF AnswerInv

\* An asynchronous call allocates its objects and waits for a pool thread.
LEMMA CallAsyncStep ==
    ASSUME Shared, NEW c \in Calls, Own(c), CallAsync(c)
    PROVE  Shared' /\ Own(c)'
<1> USE DEF Shared, Own
<1>1. /\ form[c] = "none" /\ stage[c] = "new" /\ c \notin failed /\ answers[c] = <<>>
      /\ form' = [form EXCEPT ![c] = "async"]
      /\ stage' = [stage EXCEPT ![c] = "queued"] /\ pos' = [pos EXCEPT ![c] = 0]
      /\ queue' = Append(queue, c) /\ held' = held \cup CallObjects(c)
      /\ kind' = kind /\ cpus' = cpus /\ stack' = stack /\ up' = up /\ failed' = failed
      /\ raced' = raced /\ answers' = answers
  BY DEF CallAsync, Go, PosInv, AnswerInv
<1>2. TypeOK'
  <2>1. queue' \in Seq(Calls)
    BY <1>1, AppendProperties DEF TypeOK
  <2>2. held' \subseteq Calls \X Things
    BY <1>1 DEF TypeOK, CallObjects, Things
  <2> QED
    BY <1>1, <2>1, <2>2 DEF TypeOK, Stages
<1>3. QueueInv'
  <2>1. /\ Len(queue') = Len(queue) + 1 /\ queue'[Len(queue) + 1] = c /\ Len(queue) \in Nat
        /\ \A i \in 1..Len(queue) : queue'[i] = queue[i] /\ queue[i] # c /\ queue[i] \in Calls
    <3>1. queue \in Seq(Calls) /\ queue' = Append(queue, c)
      BY <1>1 DEF TypeOK
    <3>2. /\ Len(queue') = Len(queue) + 1 /\ queue'[Len(queue) + 1] = c /\ Len(queue) \in Nat
          /\ \A i \in 1..Len(queue) : queue'[i] = queue[i] /\ queue[i] \in Calls
      BY <3>1, AppendProperties
    <3>3. \A i \in 1..Len(queue) : stage[queue[i]] = "queued"
      BY DEF QueueInv
    <3>4. stage[c] # "queued"
      BY <1>1
    <3> QED
      BY <3>2, <3>3, <3>4
  <2>2. \A i \in 1..Len(queue') : i = Len(queue) + 1 \/ i \in 1..Len(queue)
    BY <2>1
  <2>3. ASSUME NEW i \in 1..Len(queue') PROVE stage'[queue'[i]] = "queued"
    <3>1. stage'[c] = "queued" /\ \A d \in Calls \ {c} : stage'[d] = stage[d]
      BY <1>1 DEF TypeOK
    <3>2. \A k \in 1..Len(queue) : stage[queue[k]] = "queued"
      BY DEF QueueInv
    <3> QED
      BY <2>1, <2>2, <3>1, <3>2
  <2>4. \A i, j \in 1..Len(queue') : i # j => queue'[i] # queue'[j]
    BY <2>1, <2>2 DEF QueueInv
  <2> QED
    BY <2>3, <2>4 DEF QueueInv
<1>4. StackInv'
  BY <1>1, StackFresh DEF TypeOK
<1>5. RaceInv'
  BY <1>1, RaceQuiet DEF TypeOK
<1>6. PosInv(c)' /\ AnswerInv(c)'
  BY <1>1 DEF TypeOK, PosInv, AnswerInv
<1>7. HeldInv(c)'
  <2>1. \A x \in {"baton", "callback", "req"} : <<c, x>> \in held'
    BY <1>1 DEF CallObjects
  <2>2. \A x \in {"result", "port", "procargs"} : <<c, x>> \notin held'
    BY <1>1 DEF CallObjects, HeldInv, OwnsResult, OwnsPort
  <2>3. form'[c] = "async" /\ stage'[c] = "queued"
    BY <1>1 DEF TypeOK
  <2> QED
    BY <1>1, <2>1, <2>2, <2>3, HeldByThing DEF OwnsResult
<1> QED
  BY <1>2, <1>3, <1>4, <1>5, <1>6, <1>7

\* A buffer and what the first request takes: the call is at it.
LEMMA EnterStep ==
    ASSUME TypeOK, NEW c \in Calls, PosInv(c), AnswerInv(c), HeldInv(c), Enter(c),
           stage[c] \in {"new", "queued"}, kind' = kind, cpus' = cpus, failed' = failed,
           answers' = answers, form'[c] # "none",
           stage[c] = "new" => form'[c] # "async", stage[c] = "queued" => form'[c] = form[c]
    PROVE  /\ PosInv(c)' /\ AnswerInv(c)' /\ HeldInv(c)'
           /\ held' \subseteq Calls \X Things
<1>1. /\ stage'[c] = "asking" /\ pos'[c] = 1 /\ c \notin failed /\ answers[c] = <<>>
      /\ held' = held \cup Buffer(c) \cup Holds(c, 1)
  BY DEF Enter, Go, TypeOK, PosInv, AnswerInv
<1>2. Fn(c)' = Fn(c) /\ Request(c)' = Fn(c).asks[1] /\ Len(Fn(c).asks) \in 1..2
  BY <1>1, FnRegular DEF Fn, Request, Regular
<1>3. PosInv(c)' /\ AnswerInv(c)'
  BY <1>1, <1>2 DEF PosInv, AnswerInv
<1>4. \A x \in {"baton", "callback", "req"} :
          <<c, x>> \in held' <=> form'[c] = "async" /\ stage'[c] # "over"
  <2>1. \A x \in {"baton", "callback", "req"} : <<c, x>> \in held' <=> <<c, x>> \in held
    BY <1>1, HoldsThings DEF Buffer
  <2> QED
    BY <1>1, <2>1 DEF HeldInv, PosInv
<1>5. <<c, "result">> \in held' <=> OwnsResult(c)'
  <2>1. <<c, "result">> \notin held /\ <<c, "result">> \notin Holds(c, 1)
    BY HoldsThings DEF HeldInv, OwnsResult
  <2>2. <<c, "result">> \in held' <=> Fn(c).buffer # "none"
    BY <1>1, <2>1 DEF Buffer
  <2> QED
    BY <1>1, <1>2, <2>2 DEF OwnsResult
<1>6. /\ <<c, "port">> \in held' <=> Fn(c).asks[1] \in {"host", "processors"}
      /\ <<c, "procargs">> \in held' <=> Fn(c).asks[1] = "args"
  <2>1. <<c, "port">> \notin held /\ <<c, "procargs">> \notin held
    BY <1>1 DEF HeldInv, OwnsPort
  <2> QED
    BY <1>1, <2>1, HoldsThings DEF Buffer
<1>7. HeldInv(c)'
  BY <1>1, <1>2, <1>4, <1>5, <1>6, HeldByThing
<1>8. held' \subseteq Calls \X Things
  <2>1. Buffer(c) \subseteq Calls \X Things /\ Holds(c, 1) \subseteq Calls \X Things
    BY DEF Buffer, Holds, Taken, Things
  <2> QED
    BY <1>1, <2>1 DEF TypeOK
<1> QED
  BY <1>3, <1>7, <1>8

\* A pool thread takes the oldest request.
LEMMA WorkBeginStep ==
    ASSUME Shared, NEW c \in Calls, Own(c), WorkBegin(c)
    PROVE  Shared' /\ Own(c)'
<1> USE DEF Shared, Own
<1>1. /\ queue # <<>> /\ c = Head(queue) /\ queue' = Tail(queue)
      /\ stage' = [stage EXCEPT ![c] = "asking"] /\ pos' = [pos EXCEPT ![c] = 1]
      /\ kind' = kind /\ cpus' = cpus /\ stack' = stack /\ up' = up /\ failed' = failed
      /\ raced' = raced /\ answers' = answers /\ form' = form /\ Enter(c)
  BY DEF WorkBegin, Enter, Go
<1>2. /\ queue' \in Seq(Calls) /\ Len(queue') = Len(queue) - 1 /\ Len(queue) \in Nat \ {0}
      /\ \A i \in 1..Len(queue') : queue'[i] = queue[i + 1]
      /\ c = queue[1]
  BY <1>1, HeadTailProperties DEF TypeOK
<1>3. stage[c] = "queued" /\ form[c] = "async"
  BY <1>2 DEF QueueInv, PosInv
<1>4. PosInv(c)' /\ AnswerInv(c)' /\ HeldInv(c)' /\ held' \subseteq Calls \X Things
  BY <1>1, <1>3, EnterStep
<1>5. TypeOK'
  BY <1>1, <1>2, <1>4 DEF TypeOK, Stages
<1>6. QueueInv'
  <2>1. \A i \in 1..Len(queue') : i + 1 \in 1..Len(queue) /\ queue[i + 1] # c /\ queue[i + 1] \in Calls
    <3> SUFFICES ASSUME NEW i \in 1..Len(queue')
                 PROVE  i + 1 \in 1..Len(queue) /\ queue[i + 1] # c /\ queue[i + 1] \in Calls
      OBVIOUS
    <3>1. i + 1 \in 1..Len(queue) /\ 1 \in 1..Len(queue) /\ i + 1 # 1
      BY <1>2
    <3>2. queue[i + 1] # queue[1]
      BY <3>1 DEF QueueInv
    <3>3. queue[i + 1] \in Calls
      BY <3>1 DEF TypeOK
    <3> QED
      BY <1>2, <3>1, <3>2, <3>3
  <2>2. ASSUME NEW i \in 1..Len(queue') PROVE stage'[queue'[i]] = "queued"
    <3>1. \A d \in Calls \ {c} : stage'[d] = stage[d]
      BY <1>1 DEF TypeOK
    <3>2. \A k \in 1..Len(queue) : stage[queue[k]] = "queued"
      BY DEF QueueInv
    <3> QED
      BY <1>2, <2>1, <3>1, <3>2
  <2>3. \A i, j \in 1..Len(queue') : i # j => queue'[i] # queue'[j]
    BY <1>2, <2>1 DEF QueueInv
  <2> QED
    BY <2>2, <2>3 DEF QueueInv
<1>7. StackInv'
  BY <1>1, <1>3, StackFresh DEF TypeOK
<1>8. RaceInv'
  BY <1>1, RaceQuiet DEF TypeOK
<1> QED
  BY <1>4, <1>5, <1>6, <1>7, <1>8

\* A call on the main thread, from the script or from inside of callbacks.
LEMMA CallSyncStep ==
    ASSUME Shared, NEW c \in Calls, Own(c), CallSync(c)
    PROVE  Shared' /\ Own(c)'
<1> USE DEF Shared, Own
<1>1. PICK f \in FormsOf(kind[c]) \ {"async"} : form' = [form EXCEPT ![c] = f]
  BY DEF CallSync
<1>2. /\ form[c] = "none" /\ stage[c] = "new" /\ f \in {"sync", "pseudo"} /\ UserRuns
      /\ stage' = [stage EXCEPT ![c] = "asking"] /\ pos' = [pos EXCEPT ![c] = 1]
      /\ kind' = kind /\ cpus' = cpus /\ stack' = Append(stack, c) /\ up' = up
      /\ failed' = failed /\ raced' = raced /\ answers' = answers /\ queue' = queue /\ Enter(c)
  BY DEF CallSync, Enter, Go, PosInv, FormsOf
<1>3. form'[c] = f
  BY <1>1 DEF TypeOK
<1>4. PosInv(c)' /\ AnswerInv(c)' /\ HeldInv(c)' /\ held' \subseteq Calls \X Things
  BY <1>2, <1>3, EnterStep
<1>5. /\ stack' \in Seq(Calls) /\ Len(stack') = Len(stack) + 1 /\ Len(stack) \in Nat
      /\ stack'[Len(stack) + 1] = c
      /\ \A i \in 1..Len(stack) : stack'[i] = stack[i] /\ stack[i] # c /\ stack[i] \in Calls
  BY <1>2, AppendProperties DEF TypeOK, StackInv
<1>6. TypeOK'
  BY <1>1, <1>2, <1>4, <1>5 DEF TypeOK, Stages
<1>7. QueueInv'
  BY <1>2, QueueQuiet DEF TypeOK
<1>8. StackInv'
  <2>1. \A i \in 1..Len(stack') : i = Len(stack) + 1 \/ i \in 1..Len(stack)
    BY <1>5
  <2>2. \A i \in 1..Len(stack) : stage'[stack'[i]] = "calling"
    BY <1>2, <1>5, AllCalling DEF TypeOK
  <2>3. stage'[c] = "asking"
    BY <1>2 DEF TypeOK
  <2>4. \A i, j \in 1..Len(stack') : i # j => stack'[i] # stack'[j]
    BY <1>5, <2>1 DEF StackInv
  <2>5. ASSUME NEW d \in Calls, form'[d] \in {"sync", "pseudo"}, stage'[d] # "over"
        PROVE  \E i \in 1..Len(stack') : stack'[i] = d
    <3>1. CASE d = c
      BY <1>5, <3>1
    <3>2. CASE d # c
      <4>1. form[d] = form'[d] /\ stage[d] = stage'[d]
        BY <1>1, <1>2, <3>2 DEF TypeOK
      <4>2. PICK i \in 1..Len(stack) : stack[i] = d
        BY <2>5, <4>1 DEF StackInv
      <4> QED
        BY <1>5, <4>2
    <3> QED
      BY <3>1, <3>2
  <2>6. \A i \in 1..Len(stack') : stage'[stack'[i]] \notin {"new", "queued", "over"}
    BY <1>5, <2>1, <2>2, <2>3
  <2>7. \A i \in 1..Len(stack') : i # Len(stack') => stage'[stack'[i]] = "calling"
    BY <1>5, <2>1, <2>2
  <2> QED
    BY <2>4, <2>5, <2>6, <2>7 DEF StackInv
<1>9. RaceInv'
  BY <1>1, <1>2, RaceQuiet DEF TypeOK
<1> QED
  BY <1>4, <1>6, <1>7, <1>8, <1>9

\* A call that is refused, or has nothing to do, is over at once.
LEMMA AtOnceStep ==
    ASSUME Shared, NEW c \in Calls, Own(c), BadArgument(c) \/ NoPath(c)
    PROVE  Shared' /\ Own(c)'
<1> USE DEF Shared, Own
<1>1. PICK f \in {"async", "sync", "pseudo"} : form' = [form EXCEPT ![c] = f]
  BY DEF BadArgument, NoPath, FormsOf
<1>2. /\ form[c] = "none" /\ stage[c] = "new" /\ answers[c] = <<>> /\ c \notin failed
      /\ stage' = [stage EXCEPT ![c] = "over"] /\ pos' = [pos EXCEPT ![c] = 0]
      /\ kind' = kind /\ cpus' = cpus /\ stack' = stack /\ up' = up /\ held' = held
      /\ failed' = failed /\ raced' = raced /\ queue' = queue
  BY DEF BadArgument, NoPath, Go, PosInv, AnswerInv
<1>3. answers' = answers \/ answers' = [answers EXCEPT ![c] = Append(<<>>, "throws")]
  BY <1>2 DEF BadArgument, NoPath, Answer
<1>4. "throws" \in Results /\ <<>> # <<"ok">> /\ Len(<<>>) <= 1
  BY DEF Results
<1>5. /\ answers' \in [Calls -> Seq(Results)] /\ Len(answers'[c]) <= 1
      /\ answers'[c] # <<"ok">>
  <2>1. CASE answers' = answers
    BY <1>2, <1>4, <2>1 DEF TypeOK
  <2>2. CASE answers' = [answers EXCEPT ![c] = Append(<<>>, "throws")]
    <3>1. answers'[c] = Append(<<>>, "throws") /\ answers' \in [Calls -> Seq(Results)]
      BY <1>4, <2>2, FirstAnswer DEF TypeOK
    <3>2. Len(answers'[c]) = 1 /\ answers'[c] # <<"ok">>
      BY <1>4, <3>1, FirstAnswer
    <3> QED
      BY <3>1, <3>2
  <2> QED
    BY <1>3, <2>1, <2>2
<1>6. TypeOK'
  BY <1>1, <1>2, <1>5 DEF TypeOK, Stages
<1>7. QueueInv'
  BY <1>2, QueueQuiet DEF TypeOK
<1>8. StackInv'
  BY <1>1, <1>2, StackFresh DEF TypeOK
<1>9. RaceInv'
  BY <1>1, <1>2, RaceQuiet DEF TypeOK
<1>10. PosInv(c)' /\ AnswerInv(c)'
  BY <1>1, <1>2, <1>5 DEF TypeOK, PosInv, AnswerInv
<1>11. HeldInv(c)'
  <2>1. \A x \in {"baton", "callback", "req", "result", "port", "procargs"} : <<c, x>> \notin held'
    BY <1>2 DEF HeldInv, OwnsResult, OwnsPort
  <2>2. stage'[c] = "over" /\ pos'[c] = 0 /\ c \notin failed'
    BY <1>2 DEF TypeOK
  <2> QED
    BY <2>1, <2>2, HeldByThing DEF OwnsResult
<1> QED
  BY <1>6, <1>7, <1>8, <1>9, <1>10, <1>11

-----------------------------------------------------------------------------
(* The work of the sutil functions.                                        *)

Working == {"asking", "walk", "failing", "warning"}

\* A step of the work moves one call; the queue and the stack stay.
LEMMA WorkShared ==
    ASSUME Shared, NEW c \in Calls, stage[c] \in Working,
           NEW s \in Working \cup {"done"}, NEW i \in Nat, Go(c, s, i),
           UNCHANGED <<kind, cpus, form, queue, stack, up, answers>>,
           held' \subseteq Calls \X Things, failed' \subseteq Calls, raced' \in BOOLEAN, RaceInv'
    PROVE  Shared'
<1> USE DEF Shared, Working
<1>1. stage' = [stage EXCEPT ![c] = s] /\ pos' = [pos EXCEPT ![c] = i]
  BY DEF Go
<1>2. TypeOK'
  BY <1>1 DEF TypeOK, Stages
<1>3. QueueInv'
  BY <1>1, QueueQuiet DEF TypeOK
<1>4. StackInv'
  BY <1>1, StackWorks DEF TypeOK
<1> QED
  BY <1>2, <1>3, <1>4

\* The kernel answers: the next request, the walk, or the end.
LEMMA AskOkStep ==
    ASSUME Shared, NEW c \in Calls, Own(c), AskOk(c)
    PROVE  Shared' /\ Own(c)'
<1> USE DEF Shared, Own
<1> DEFINE n == Len(Fn(c).asks)
           p == pos[c]
<1>0. /\ Regular(Fn(c)) /\ n \in 1..2 /\ cpus \in Nat \ {0} /\ Fn(c)' = Fn(c)
      /\ Fn(c).asks \in Seq(Requests)
  BY FnRegular DEF Regular, AskOk, Fn
<1>1. /\ stage[c] = "asking" /\ p \in 1..n /\ c \notin failed /\ answers[c] = <<>>
      /\ UNCHANGED <<kind, cpus, form, queue, stack, up, failed, raced, answers>>
  BY DEF AskOk, PosInv, AnswerInv
<1>2. /\ (form[c] = "async" <=> form'[c] = "async")
      /\ held' = (held \ Holds(c, p)) \cup IF p = n THEN {} ELSE Holds(c, p + 1)
  BY <1>1 DEF AskOk
<1>3. \/ p # n /\ Go(c, "asking", p + 1)
      \/ p = n /\ Fn(c).asks[p] = "processors" /\ Go(c, "walk", 0)
      \/ p = n /\ Fn(c).asks[p] # "processors" /\ Go(c, "done", p)
  BY DEF AskOk, Request
<1>4. p \in Nat /\ p + 1 \in Nat /\ 0 \in Nat
  BY <1>0, <1>1
<1>5. PICK s \in {"asking", "walk", "done"}, i \in Nat :
        /\ Go(c, s, i)
        /\ s = "asking" => p # n /\ i = p + 1
        /\ s = "walk" => p = n /\ i = 0
        /\ s = "done" => p = n /\ Fn(c).asks[p] # "processors" /\ i = p
  BY <1>3, <1>4
<1>6. stage'[c] = s /\ pos'[c] = i
  BY <1>5 DEF Go, TypeOK
<1>7. held' \subseteq Calls \X Things
  <2>1. Holds(c, p + 1) \subseteq Calls \X Things
    BY DEF Holds, Taken, Things
  <2> QED
    BY <1>2, <2>1 DEF TypeOK
<1>8. Shared'
  <2>1. RaceInv'
    BY <1>1, <1>5, RaceQuiet DEF Go, TypeOK
  <2> QED
    BY <1>1, <1>5, <1>7, <2>1, WorkShared DEF TypeOK, Working
<1>9. PosInv(c)'
  <2>1. s = "done" => kind[c] # "per_cpu_times"
    BY <1>0, <1>1, <1>5, PerCpuAsks DEF Fn
  <2>2. s = "asking" => i \in 1..n
    BY <1>0, <1>1, <1>5
  <2>3. s = "done" => i >= 1
    BY <1>0, <1>1, <1>5
  <2>4. form[c] # "none"
    BY <1>1 DEF PosInv
  <2>5. s = "walk" => i <= cpus
    BY <1>0, <1>5
  <2> QED
    BY <1>0, <1>1, <1>6, <2>1, <2>2, <2>3, <2>4, <2>5 DEF PosInv
<1>10. AnswerInv(c)'
  BY <1>1, NotAnswered
<1>11. HeldInv(c)'
  <2>1. Request(c)' = Fn(c).asks[i]
    BY <1>0, <1>1, <1>6 DEF Request, Fn
  <2>2. \A x \in {"baton", "callback", "req", "result"} : <<c, x>> \in held' <=> <<c, x>> \in held
    BY <1>2, HoldsThings
  <2>3. /\ <<c, "port">> \in held <=> Fn(c).asks[p] \in {"host", "processors"}
        /\ <<c, "procargs">> \in held <=> Fn(c).asks[p] = "args"
    BY <1>1 DEF HeldInv, OwnsPort, Request
  <2>4. /\ <<c, "port">> \in held' <=> s = "asking" /\ Fn(c).asks[i] \in {"host", "processors"}
        /\ <<c, "procargs">> \in held' <=> s = "asking" /\ Fn(c).asks[i] = "args"
    <3>1. CASE s = "asking"
      <4>1. held' = (held \ Holds(c, p)) \cup Holds(c, p + 1) /\ i = p + 1
        BY <1>2, <1>5, <3>1
      <4> QED
        BY <2>3, <3>1, <4>1, HoldsThings
    <3>2. CASE s # "asking"
      <4>1. held' = held \ Holds(c, p)
        BY <1>2, <1>5, <3>2
      <4> QED
        BY <2>3, <3>2, <4>1, HoldsThings
    <3> QED
      BY <3>1, <3>2
  <2>5. OwnsResult(c)' <=> OwnsResult(c)
    BY <1>0, <1>1, <1>6 DEF OwnsResult
  <2>6. \A x \in {"baton", "callback", "req"} : <<c, x>> \in held' <=> form'[c] = "async" /\ stage'[c] # "over"
    BY <1>1, <1>6, <2>2 DEF HeldInv
  <2>7. <<c, "result">> \in held' <=> OwnsResult(c)'
    BY <2>2, <2>5 DEF HeldInv
  <2> QED
    BY <1>1, <1>6, <2>1, <2>4, <2>6, <2>7, HeldByThing
<1> QED
  BY <1>8, <1>9, <1>10, <1>11

\* The kernel refuses: the request is left, its port right not given back.
LEMMA AskFailsStep ==
    ASSUME Shared, NEW c \in Calls, Own(c), \A d \in Calls : PosInv(d), AskFails(c)
    PROVE  Shared' /\ Own(c)'
<1> USE DEF Shared, Own
<1> DEFINE p == pos[c]
<1>0. Fn(c)' = Fn(c) /\ Len(Fn(c).asks) \in 1..2 /\ cpus \in Nat
  BY FnRegular DEF Regular, AskFails, Fn
<1>1. /\ stage[c] = "asking" /\ p \in 1..Len(Fn(c).asks) /\ c \notin failed /\ answers[c] = <<>>
      /\ p \in Nat /\ form[c] # "none"
      /\ UNCHANGED <<kind, cpus, form, queue, stack, up, answers>>
      /\ held' = held \ {<<c, "procargs">>}
  BY DEF AskFails, PosInv, AnswerInv, TypeOK
<1>2. \/ SetErr(c, "failing") /\ failed' = failed
      \/ Go(c, "done", p) /\ failed' = failed \cup {c} /\ raced' = raced
  BY DEF AskFails
<1>3. RaceInv' /\ raced' \in BOOLEAN
  <2>1. CASE SetErr(c, "failing")
    <3>1. raced' \in BOOLEAN
      BY <2>1, Zenon DEF SetErr, TypeOK
    <3> QED
      BY <1>1, <2>1, <3>1, RaceSetErr
  <2>2. CASE Go(c, "done", p) /\ raced' = raced
    BY <1>1, <2>2, RaceQuiet DEF Go, TypeOK
  <2> QED
    BY <1>2, <2>1, <2>2
<1>4. PICK s \in {"failing", "done"} :
        Go(c, s, p) /\ (s = "failing" => failed' = failed) /\ (s = "done" => failed' = failed \cup {c})
  BY <1>2 DEF SetErr
<1>5. stage'[c] = s /\ pos'[c] = p
  BY <1>4 DEF Go, TypeOK
<1>6. Shared'
  <2>1. held' \subseteq Calls \X Things /\ failed' \subseteq Calls
    BY <1>1, <1>4 DEF TypeOK
  <2> QED
    BY <1>1, <1>3, <1>4, <2>1, WorkShared DEF Working
<1>7. PosInv(c)' /\ AnswerInv(c)'
  <2>1. p >= 1
    BY <1>0, <1>1
  <2> QED
    BY <1>0, <1>1, <1>4, <1>5, <2>1, NotAnswered DEF PosInv
<1>8. HeldInv(c)'
  <2>1. Request(c)' = Request(c)
    BY <1>0, <1>1, <1>5 DEF Request, Fn
  <2>2. \A x \in {"baton", "callback", "req", "result", "port"} : <<c, x>> \in held' <=> <<c, x>> \in held
    BY <1>1
  <2>3. OwnsResult(c)' <=> OwnsResult(c)
    BY <1>0, <1>1, <1>5 DEF OwnsResult
  <2>4. s = "failing" \/ c \in failed'
    BY <1>4
  <2> QED
    BY <1>1, <1>5, <2>1, <2>2, <2>3, <2>4, HeldByThing DEF HeldInv, OwnsPort
<1> QED
  BY <1>6, <1>7, <1>8

\* The walk over the processors, and what follows it.
LEMMA WalkStepStep ==
    ASSUME Shared, NEW c \in Calls, Own(c), \A d \in Calls : PosInv(d), WalkStep(c)
    PROVE  Shared' /\ Own(c)'
<1> USE DEF Shared, Own
<1> DEFINE p == pos[c]
           q == (p + 1) % IndexRange
<1>0. Fn(c)' = Fn(c) /\ cpus \in Nat \ {0} /\ p \in Nat /\ q \in Nat /\ q <= p + 1
  BY FnRegular, IndexStep DEF WalkStep, Fn, TypeOK
<1>1. /\ stage[c] = "walk" /\ p <= cpus /\ c \notin failed /\ answers[c] = <<>> /\ form[c] # "none"
      /\ UNCHANGED <<kind, cpus, form, queue, stack, up, held, failed, answers>>
  BY DEF WalkStep, PosInv, AnswerInv
<1>2. \/ p < cpus /\ Go(c, "walk", q) /\ raced' = raced
      \/ p >= cpus /\ Go(c, "done", p) /\ raced' = raced
      \/ p >= cpus /\ SetErr(c, "warning")
  BY DEF WalkStep
<1>3. RaceInv' /\ raced' \in BOOLEAN
  <2>1. CASE SetErr(c, "warning")
    <3>1. raced' \in BOOLEAN
      BY <2>1, Zenon DEF SetErr, TypeOK
    <3> QED
      BY <1>1, <2>1, <3>1, RaceSetErr
  <2>2. CASE raced' = raced
    BY <1>1, <1>2, <2>2, RaceQuiet DEF Go, SetErr, TypeOK
  <2> QED
    BY <1>2, <2>1, <2>2
<1> HIDE DEF q
<1>4. PICK s \in {"walk", "done", "warning"}, i \in Nat :
        Go(c, s, i) /\ i <= cpus /\ (s # "walk" => i = cpus)
  <2>1. CASE p < cpus /\ Go(c, "walk", q)
    <3>1. q <= cpus
      BY <1>0, <2>1
    <3> QED
      BY <1>0, <2>1, <3>1
  <2>2. CASE p >= cpus /\ Go(c, "done", p)
    BY <1>0, <1>1, <2>2
  <2>3. CASE p >= cpus /\ SetErr(c, "warning")
    BY <1>0, <1>1, <2>3 DEF SetErr
  <2> QED
    BY <1>2, <2>1, <2>2, <2>3
<1>5. stage'[c] = s /\ pos'[c] = i
  BY <1>4 DEF Go, TypeOK
<1>6. Shared'
  <2>1. held' \subseteq Calls \X Things /\ failed' \subseteq Calls
    BY <1>1 DEF TypeOK
  <2> QED
    BY <1>1, <1>3, <1>4, <2>1, WorkShared DEF Working
<1>7. PosInv(c)' /\ AnswerInv(c)'
  BY <1>0, <1>1, <1>4, <1>5, NotAnswered DEF PosInv
<1>8. HeldInv(c)'
  <2>1. OwnsResult(c)' <=> OwnsResult(c)
    BY <1>0, <1>1, <1>4, <1>5 DEF OwnsResult
  <2>2. <<c, "port">> \notin held' /\ <<c, "procargs">> \notin held'
    BY <1>1 DEF HeldInv, OwnsPort
  <2> QED
    BY <1>1, <1>4, <1>5, <2>1, <2>2, HeldByThing DEF HeldInv
<1> QED
  BY <1>6, <1>7, <1>8

\* The string is assigned.
LEMMA ErrSetStep ==
    ASSUME Shared, NEW c \in Calls, Own(c), ErrSet(c)
    PROVE  Shared' /\ Own(c)'
<1> USE DEF Shared, Own
<1> DEFINE p == pos[c]
<1>0. Fn(c)' = Fn(c) /\ cpus \in Nat \ {0} /\ p \in Nat /\ Len(Fn(c).asks) \in 1..2
  BY FnRegular DEF ErrSet, Fn, TypeOK, Regular
<1>1. /\ stage[c] \in {"failing", "warning"} /\ c \notin failed /\ answers[c] = <<>> /\ form[c] # "none"
      /\ UNCHANGED <<kind, cpus, form, queue, stack, up, held, raced, answers>>
      /\ Go(c, "done", p)
      /\ failed' = IF stage[c] = "failing" THEN failed \cup {c} ELSE failed
  BY DEF ErrSet, PosInv, AnswerInv
<1>2. stage'[c] = "done" /\ pos'[c] = p
  BY <1>1 DEF Go, TypeOK
<1>3. RaceInv'
  BY <1>1, RaceQuiet DEF Go, TypeOK
<1>4. Shared'
  <2>1. held' \subseteq Calls \X Things /\ failed' \subseteq Calls /\ raced' \in BOOLEAN
    BY <1>1 DEF TypeOK
  <2> QED
    BY <1>0, <1>1, <1>3, <2>1, WorkShared DEF Working
<1>5. PosInv(c)' /\ AnswerInv(c)'
  <2>1. stage[c] = "failing" => p \in 1..Len(Fn(c).asks)
    BY DEF PosInv
  <2>2. stage[c] = "warning" => p = cpus
    BY DEF PosInv
  <2>3. p >= 1
    BY <1>0, <1>1, <2>1, <2>2
  <2>4. c \in failed' <=> stage[c] = "failing"
    BY <1>1
  <2> QED
    BY <1>0, <1>1, <1>2, <2>1, <2>2, <2>3, <2>4, NotAnswered DEF PosInv
<1>6. HeldInv(c)'
  <2>1. Request(c)' = Request(c)
    BY <1>0, <1>1, <1>2 DEF Request, Fn
  <2>2. OwnsResult(c)' <=> OwnsResult(c)
    BY <1>0, <1>1, <1>2 DEF OwnsResult
  <2>3. c \in failed' <=> stage[c] = "failing"
    BY <1>1
  <2> QED
    BY <1>1, <1>2, <2>1, <2>2, <2>3, HeldByThing DEF HeldInv, OwnsPort
<1> QED
  BY <1>4, <1>5, <1>6

-----------------------------------------------------------------------------
(* The end of the forms.                                                   *)

\* The event loop calls the callback of an asynchronous call back.
LEMMA AfterStep ==
    ASSUME Shared, NEW c \in Calls, Own(c), After(c)
    PROVE  Shared' /\ Own(c)'
<1> USE DEF Shared, Own
<1> DEFINE a == IF c \in failed THEN "err" ELSE "ok"
<1>0. Fn(c)' = Fn(c) /\ cpus \in Nat \ {0} /\ pos[c] \in Nat /\ a \in Results
  BY FnRegular DEF After, Fn, TypeOK, Results
<1>1. /\ stage[c] = "done" /\ form[c] = "async" /\ answers[c] = <<>> /\ stack = <<>> /\ stack' = <<c>>
      /\ stage' = [stage EXCEPT ![c] = "calling"] /\ pos' = [pos EXCEPT ![c] = pos[c]]
      /\ UNCHANGED <<kind, cpus, form, queue, up, held, failed, raced>>
  BY DEF After, Go, AnswerInv
<1>2. answers' = [answers EXCEPT ![c] = Append(<<>>, a)]
  BY <1>1 DEF After, Answer
<1>3. /\ answers' \in [Calls -> Seq(Results)] /\ answers'[c] = Append(<<>>, a)
      /\ Len(answers'[c]) = 1 /\ answers'[c] = <<"ok">> => c \notin failed
  <2> HIDE DEF a
  <2>1. answers' \in [Calls -> Seq(Results)] /\ answers'[c] = Append(<<>>, a)
    BY <1>0, <1>2, FirstAnswer DEF TypeOK
  <2>2. Len(answers'[c]) = 1 /\ (answers'[c] = <<"ok">> => a = "ok")
    BY <1>0, <2>1, FirstAnswer
  <2>3. a = "ok" => c \notin failed
    BY DEF a
  <2> QED
    BY <2>1, <2>2, <2>3
<1> HIDE DEF a
<1>4. stage'[c] = "calling" /\ pos'[c] = pos[c] /\ \A d \in Calls \ {c} : stage'[d] = stage[d]
  BY <1>1 DEF TypeOK
<1>5. TypeOK'
  <2>1. stack' \in Seq(Calls)
    BY <1>1
  <2>2. stage' \in [Calls -> Stages] /\ pos' \in [Calls -> Nat]
    BY <1>0, <1>1 DEF TypeOK, Stages
  <2> QED
    BY <1>1, <1>3, <2>1, <2>2 DEF TypeOK
<1>6. QueueInv'
  BY <1>1, <1>4, QueueQuiet
<1>7. StackInv'
  <2>1. Len(stack') = 1 /\ stack'[1] = c /\ Len(stack) = 0
    BY <1>1
  <2>2. ASSUME NEW d \in Calls, form'[d] \in {"sync", "pseudo"} PROVE stage'[d] = "over"
    <3>1. d # c /\ form[d] = form'[d] /\ stage'[d] = stage[d]
      BY <1>1, <1>4, <2>2
    <3> QED
      BY <2>1, <2>2, <3>1 DEF StackInv
  <2> QED
    BY <1>4, <2>1, <2>2 DEF StackInv
<1>8. RaceInv'
  BY <1>1, <1>4, RaceQuiet
<1>9. PosInv(c)' /\ AnswerInv(c)'
  <2>1. kind[c] = "per_cpu_times" /\ c \notin failed => pos[c] = cpus
    BY <1>1 DEF PosInv
  <2>2. Len(answers'[c]) <= 1
    BY <1>3
  <2> QED
    BY <1>0, <1>1, <1>3, <1>4, <2>1, <2>2 DEF PosInv, AnswerInv
<1>10. HeldInv(c)'
  <2>1. Request(c)' = Request(c) /\ (OwnsResult(c)' <=> OwnsResult(c))
    BY <1>0, <1>1, <1>4 DEF Request, OwnsResult, Fn
  <2> QED
    BY <1>1, <1>4, <2>1, HeldByThing DEF HeldInv, OwnsPort
<1> QED
  BY <1>5, <1>6, <1>7, <1>8, <1>9, <1>10

\* The callback throws and node dies with everything where it is.
LEMMA CallbackThrowsStep ==
    ASSUME Shared, NEW c \in Calls, Own(c), CallbackThrows(c)
    PROVE  Shared' /\ Own(c)'
<1> USE DEF Shared, Own
<1>1. /\ up' = FALSE
      /\ UNCHANGED <<kind, cpus, form, stage, pos, queue, stack, held, failed, raced, answers>>
  BY DEF CallbackThrows
<1>2. TypeOK'
  BY <1>1 DEF TypeOK
<1>3. QueueInv' /\ StackInv' /\ RaceInv'
  BY <1>1 DEF QueueInv, StackInv, RaceInv
<1> QED
  BY <1>1, <1>2, <1>3, CallFrame

\* The callback of an asynchronous call returns and all its objects are freed.
LEMMA AfterEndsStep ==
    ASSUME Shared, NEW c \in Calls, Own(c), AfterEnds(c)
    PROVE  Shared' /\ Own(c)'
<1> USE DEF Shared, Own
<1>0. Fn(c)' = Fn(c) /\ pos[c] \in Nat
  BY DEF AfterEnds, Fn, TypeOK
<1>1. /\ stage[c] = "calling" /\ form[c] = "async" /\ stack = <<c>> /\ Pop
      /\ held' = held \ (CallObjects(c) \cup Buffer(c))
      /\ stage' = [stage EXCEPT ![c] = "over"] /\ pos' = [pos EXCEPT ![c] = pos[c]]
      /\ UNCHANGED <<kind, cpus, form, queue, up, failed, raced, answers>>
  BY DEF AfterEnds, Go
<1>2. stack # <<>> /\ c = stack[Len(stack)]
  BY <1>1
<1>3. stage'[c] = "over" /\ pos'[c] = pos[c] /\ \A d \in Calls \ {c} : stage'[d] = stage[d]
  BY <1>1 DEF TypeOK
<1>4. TypeOK'
  <2>1. stack' \in Seq(Calls)
    BY <1>1, <1>2, PopProperties DEF Pop, TypeOK
  <2> QED
    BY <1>1, <2>1 DEF TypeOK, Stages
<1>5. QueueInv'
  BY <1>1, <1>3, QueueQuiet
<1>6. StackInv'
  BY <1>1, <1>2, <1>3, StackPop
<1>7. RaceInv'
  BY <1>1, <1>3, RaceQuiet
<1>8. PosInv(c)' /\ AnswerInv(c)'
  BY <1>0, <1>1, <1>3 DEF PosInv, AnswerInv
<1>9. HeldInv(c)'
  <2>1. \A x \in {"baton", "callback", "req"} : <<c, x>> \notin held'
    BY <1>1 DEF CallObjects
  <2>2. <<c, "result">> \notin held'
    BY <1>1 DEF Buffer, HeldInv, OwnsResult
  <2>3. \A x \in {"port", "procargs"} : <<c, x>> \in held' <=> <<c, x>> \in held
    BY <1>1 DEF Buffer, CallObjects
  <2>4. Request(c)' = Request(c) /\ ~OwnsResult(c)'
    BY <1>0, <1>1, <1>3 DEF Request, OwnsResult, Fn
  <2> QED
    BY <1>1, <1>3, <2>1, <2>2, <2>3, <2>4, HeldByThing DEF HeldInv, OwnsPort
<1> QED
  BY <1>4, <1>5, <1>6, <1>7, <1>8, <1>9

\* The wrapper returns to JavaScript, which returns, calls back, or throws.
LEMMA SyncReturnStep ==
    ASSUME Shared, NEW c \in Calls, Own(c), SyncReturn(c)
    PROVE  Shared' /\ Own(c)'
<1> USE DEF Shared, Own
<1> DEFINE a == IF c \in failed THEN Fn(c).onFail ELSE "ok"
<1>0. /\ Fn(c)' = Fn(c) /\ cpus \in Nat \ {0} /\ pos[c] \in Nat /\ a \in Results
      /\ a = "ok" => c \notin failed
  BY FnRegular DEF SyncReturn, Fn, TypeOK, Results, Regular
<1>1. /\ stage[c] = "done" /\ form[c] \in {"sync", "pseudo"} /\ answers[c] = <<>>
      /\ held' = IF c \notin failed /\ Fn(c).buffer = "freed" THEN held \ Buffer(c) ELSE held
      /\ UNCHANGED <<kind, cpus, form, queue, up, failed, raced>>
  BY DEF SyncReturn, AnswerInv
<1>2. answers' = [answers EXCEPT ![c] = Append(<<>>, a)]
  BY <1>1 DEF SyncReturn, Answer
<1>3. PICK s \in {"calling", "over"} :
        /\ stage' = [stage EXCEPT ![c] = s] /\ pos' = [pos EXCEPT ![c] = pos[c]]
        /\ s = "calling" => stack' = stack
        /\ s = "over" => Pop
  BY DEF SyncReturn, Go
<1> HIDE DEF a
<1>4. stage'[c] = s /\ pos'[c] = pos[c] /\ \A d \in Calls \ {c} : stage'[d] = stage[d]
  BY <1>3 DEF TypeOK
<1>5. stack # <<>> /\ c = stack[Len(stack)]
  BY <1>1, InnermostComputes
<1>6. /\ answers' \in [Calls -> Seq(Results)] /\ answers'[c] = Append(<<>>, a)
      /\ Len(answers'[c]) = 1 /\ answers'[c] = <<"ok">> => c \notin failed
  <2>1. answers' \in [Calls -> Seq(Results)] /\ answers'[c] = Append(<<>>, a)
    BY <1>0, <1>2, FirstAnswer DEF TypeOK
  <2>2. Len(answers'[c]) = 1 /\ (answers'[c] = <<"ok">> => a = "ok")
    BY <1>0, <2>1, FirstAnswer
  <2> QED
    BY <1>0, <2>1, <2>2
<1>7. TypeOK'
  <2>1. stack' \in Seq(Calls)
    <3>1. stack \in Seq(Calls)
      BY DEF TypeOK
    <3>2. SubSeq(stack, 1, Len(stack) - 1) \in Seq(Calls)
      BY <1>5, <3>1, PopProperties
    <3> QED
      BY <1>3, <3>1, <3>2 DEF Pop
  <2>2. held' \subseteq Calls \X Things
    BY <1>1 DEF TypeOK
  <2> QED
    BY <1>1, <1>3, <1>6, <2>1, <2>2 DEF TypeOK, Stages
<1>8. QueueInv'
  BY <1>1, <1>4, QueueQuiet
<1>9. StackInv'
  <2>1. CASE s = "over"
    BY <1>1, <1>3, <1>4, <1>5, <2>1, StackPop
  <2>2. CASE s = "calling"
    BY <1>1, <1>3, <1>4, <2>2, StackWorks
  <2> QED
    BY <2>1, <2>2
<1>10. RaceInv'
  BY <1>1, <1>4, RaceQuiet
<1>11. PosInv(c)' /\ AnswerInv(c)'
  <2>1. kind[c] = "per_cpu_times" /\ c \notin failed => pos[c] = cpus
    BY <1>1 DEF PosInv
  <2>2. Len(answers'[c]) <= 1
    BY <1>6
  <2>3. PosInv(c)'
    BY <1>0, <1>1, <1>4 DEF PosInv
  <2>4. AnswerInv(c)'
    BY <1>0, <1>1, <1>4, <1>6, <2>1, <2>2 DEF AnswerInv
  <2> QED
    BY <2>3, <2>4
<1>12. HeldInv(c)'
  <2>1. Request(c)' = Request(c)
    BY <1>0, <1>1, <1>4 DEF Request, Fn
  <2>2. \A x \in {"baton", "callback", "req", "port", "procargs"} : <<c, x>> \in held' <=> <<c, x>> \in held
    BY <1>1 DEF Buffer
  <2>3. OwnsResult(c)' <=> Fn(c).buffer # "none" /\ (c \in failed \/ Fn(c).buffer = "kept")
    BY <1>0, <1>1, <1>4 DEF OwnsResult, PosInv
  <2>4. <<c, "result">> \in held <=> Fn(c).buffer # "none"
    BY <1>1 DEF HeldInv, OwnsResult
  <2>5. Fn(c).buffer \in {"none", "freed", "kept"}
    BY FnRegular DEF Regular
  <2>6. <<c, "result">> \in held' <=> OwnsResult(c)'
    BY <1>1, <2>3, <2>4, <2>5 DEF Buffer
  <2> QED
    BY <1>1, <1>4, <2>1, <2>2, <2>6, HeldByThing DEF HeldInv, OwnsPort
<1> QED
  BY <1>7, <1>8, <1>9, <1>10, <1>11, <1>12

\* The callback of a call that computed on the main thread returns or throws.
LEMMA PseudoEndsStep ==
    ASSUME Shared, NEW c \in Calls, Own(c), PseudoEnds(c)
    PROVE  Shared' /\ Own(c)'
<1> USE DEF Shared, Own
<1>0. Fn(c)' = Fn(c) /\ pos[c] \in Nat
  BY DEF PseudoEnds, Fn, TypeOK
<1>1. /\ stage[c] = "calling" /\ form[c] = "pseudo" /\ Pop
      /\ stack # <<>> /\ c = stack[Len(stack)]
      /\ stage' = [stage EXCEPT ![c] = "over"] /\ pos' = [pos EXCEPT ![c] = pos[c]]
      /\ UNCHANGED <<kind, cpus, form, queue, up, held, failed, raced, answers>>
  BY DEF PseudoEnds, Go
<1>2. stage'[c] = "over" /\ pos'[c] = pos[c] /\ \A d \in Calls \ {c} : stage'[d] = stage[d]
  BY <1>1 DEF TypeOK
<1>3. TypeOK'
  <2>1. stack' \in Seq(Calls)
    BY <1>1, PopProperties DEF Pop, TypeOK
  <2> QED
    BY <1>1, <2>1 DEF TypeOK, Stages
<1>4. QueueInv'
  BY <1>1, <1>2, QueueQuiet
<1>5. StackInv'
  BY <1>1, <1>2, StackPop
<1>6. RaceInv'
  BY <1>1, <1>2, RaceQuiet
<1>7. PosInv(c)' /\ AnswerInv(c)'
  BY <1>0, <1>1, <1>2 DEF PosInv, AnswerInv
<1>8. HeldInv(c)'
  <2>1. Request(c)' = Request(c) /\ pos[c] >= 1
    BY <1>0, <1>1, <1>2 DEF Request, Fn, PosInv
  <2>2. OwnsResult(c)' <=> OwnsResult(c)
    BY <1>0, <1>1, <1>2, <2>1 DEF OwnsResult
  <2> QED
    BY <1>1, <1>2, <2>1, <2>2, HeldByThing DEF HeldInv, OwnsPort
<1> QED
  BY <1>3, <1>4, <1>5, <1>6, <1>7, <1>8

-----------------------------------------------------------------------------
(* The inductive invariant and what follows from it.                       *)

\* It holds before the first call.
LEMMA IInvInit == Init => IInv
<1> SUFFICES ASSUME Init PROVE IInv
  OBVIOUS
<1>1. TypeOK
  <2>1. <<>> \in Seq(Calls) /\ <<>> \in Seq(Results)
    OBVIOUS
  <2>2. up \in BOOLEAN /\ raced \in BOOLEAN
    BY DEF Init
  <2>3. stage \in [Calls -> Stages] /\ pos \in [Calls -> Nat] /\ answers \in [Calls -> Seq(Results)]
    BY <2>1 DEF Init, Stages
  <2> QED
    BY <2>1, <2>2, <2>3 DEF Init, TypeOK
<1>2. QueueInv /\ StackInv /\ RaceInv
  BY DEF Init, QueueInv, StackInv, RaceInv
<1>3. ASSUME NEW c \in Calls PROVE PosInv(c) /\ AnswerInv(c) /\ HeldInv(c)
  <2>1. /\ form[c] = "none" /\ stage[c] = "new" /\ pos[c] = 0 /\ answers[c] = <<>>
        /\ held = {} /\ failed = {}
    BY DEF Init
  <2>2. <<>> # <<"ok">> /\ Len(<<>>) <= 1
    OBVIOUS
  <2> QED
    BY <2>1, <2>2 DEF PosInv, AnswerInv, HeldInv, OwnsResult, OwnsPort
<1> QED
  BY <1>1, <1>2, <1>3 DEF IInv

\* Every step of any call preserves it.
LEMMA IInvStep == IInv /\ [Next]_vars => IInv'
<1> SUFFICES ASSUME IInv, [Next]_vars PROVE IInv'
  OBVIOUS
<1>0. Shared /\ \A d \in Calls : Own(d)
  BY DEF IInv, Shared, Own
<1>1. ASSUME NEW c \in Calls,
             \/ CallAsync(c) \/ CallSync(c) \/ BadArgument(c) \/ NoPath(c)
             \/ WorkBegin(c) \/ Sutil(c)
             \/ After(c) \/ CallbackThrows(c) \/ AfterEnds(c) \/ SyncReturn(c) \/ PseudoEnds(c)
      PROVE  IInv'
  <2>1. Shared' /\ Own(c)'
    <3>1. \A d \in Calls : PosInv(d)
      BY <1>0 DEF Own
    <3> QED
      BY <1>0, <1>1, <3>1, CallAsyncStep, CallSyncStep, AtOnceStep, WorkBeginStep, AskOkStep,
         AskFailsStep, WalkStepStep, ErrSetStep, AfterStep, CallbackThrowsStep,
         AfterEndsStep, SyncReturnStep, PseudoEndsStep
         DEF Sutil
  <2>2. ASSUME NEW d \in Calls \ {c} PROVE Own(d)'
    <3>1. /\ kind' = kind /\ cpus' = cpus
          /\ form'[d] = form[d] /\ stage'[d] = stage[d] /\ pos'[d] = pos[d]
          /\ answers'[d] = answers[d] /\ (d \in failed' <=> d \in failed)
          /\ \A k : <<d, k>> \in held' <=> <<d, k>> \in held
      BY <1>0, <1>1, OtherCallsAlone DEF Shared
    <3>2. PosInv(d) /\ AnswerInv(d) /\ HeldInv(d)
      BY <1>0 DEF Own
    <3> QED
      BY <3>1, <3>2, CallFrame DEF Own
  <2> QED
    BY <2>1, <2>2 DEF IInv, Shared, Own
<1>2. CASE UNCHANGED vars
  <2>1. TypeOK' /\ QueueInv' /\ StackInv' /\ RaceInv'
    BY <1>0, <1>2 DEF vars, Shared, TypeOK, QueueInv, StackInv, RaceInv
  <2>2. ASSUME NEW d \in Calls PROVE Own(d)'
    BY <1>0, <1>2, CallFrame DEF vars, Own
  <2> QED
    BY <2>1, <2>2 DEF IInv, Own
<1> QED
  BY <1>1, <1>2 DEF Next

\* The inductive invariant: the queue, the stack, the race, and what every call
\* is at, has answered and holds, in every state.
THEOREM Invariance == Spec => []IInv
  BY IInvInit, IInvStep, PTL DEF Spec

\* Types, the program's answers among them.
THEOREM TypeCorrect == Spec => []TypeOK
<1>1. IInv => TypeOK
  BY DEF IInv
<1> QED
  BY <1>1, Invariance, PTL

\* Each call is answered at most once, at its end, with its own outcome; a
\* perCpuTimes that succeeds has gone through all the processors.
THEOREM AnswersMatch == Spec => []AnswerMatchesWork
<1>1. IInv => AnswerMatchesWork
  BY DEF IInv, AnswerInv, AnswerMatchesWork
<1> QED
  BY <1>1, Invariance, PTL

\* What the calls that are over leave behind is exactly the listed leaks,
\* whichever of the other calls are still running.
THEOREM Leaks == Spec => []LeaksAreKnown
<1>1. IInv => LeaksAreKnown
  <2> SUFFICES ASSUME IInv PROVE LeaksAreKnown
    OBVIOUS
  <2> DEFINE D == {d \in Calls : stage[d] = "over" /\ pos[d] > 0 /\ form[d] # "async"
                                   /\ (d \in failed \/ Fn(d).buffer = "kept")}
             L == {x \in held : stage[x[1]] = "over"}
             B == UNION {Buffer(c) : c \in D}
             F == {d \in failed : stage[d] = "over" /\ Request(d) \in {"host", "processors"}}
             P == {<<c, "port">> : c \in F}
  <2>1. TypeOK /\ \A c \in Calls : PosInv(c) /\ HeldInv(c)
    BY DEF IInv
  <2>2. ASSUME NEW c \in Calls, NEW k \in Things
        PROVE  <<c, k>> \in L <=> <<c, k>> \in B \cup P
    <3>1. <<c, k>> \in L <=> <<c, k>> \in held /\ stage[c] = "over"
      OBVIOUS
    <3>2. <<c, k>> \in B <=> k = "result" /\ c \in D /\ Fn(c).buffer # "none"
      <4> HIDE DEF D
      <4>1. D \subseteq Calls /\ \A d \in D : \A x : x \in Buffer(d) <=> x = <<d, "result">> /\ Fn(d).buffer # "none"
        BY DEF Buffer, D
      <4>2. <<c, k>> \in B <=> \E d \in D : <<c, k>> \in Buffer(d)
        OBVIOUS
      <4> QED
        BY <4>1, <4>2
    <3>3. <<c, k>> \in P <=> k = "port" /\ c \in F
      OBVIOUS
    <3>4. c \in failed => c \in Calls
      OBVIOUS
    <3>5. HeldInv(c)
      BY <2>1
    <3>6. CASE k = "result"
      BY <3>1, <3>2, <3>3, <3>5, <3>6 DEF HeldInv, OwnsResult
    <3>7. CASE k = "port"
      BY <3>1, <3>2, <3>3, <3>5, <3>7 DEF HeldInv, OwnsPort
    <3>8. CASE k \in {"baton", "callback", "req", "procargs"}
      BY <3>1, <3>2, <3>3, <3>5, <3>8 DEF HeldInv
    <3> QED
      BY <3>6, <3>7, <3>8 DEF Things
  <2>3. L \subseteq Calls \X Things /\ B \cup P \subseteq Calls \X Things
    <3>1. L \subseteq Calls \X Things
      BY <2>1 DEF TypeOK
    <3>2. B \subseteq Calls \X Things
      BY DEF Buffer, Things
    <3>3. P \subseteq Calls \X Things
      BY <2>1 DEF TypeOK, Things
    <3> QED
      BY <3>1, <3>2, <3>3
  <2>4. L = B \cup P
    <3> HIDE DEF L, B, P
    <3> QED
      BY <2>2, <2>3
  <2> QED
    BY <2>4 DEF LeaksAreKnown
<1> QED
  BY <1>1, Invariance, PTL

\* No two threads write the error string at once in a program that makes no
\* asynchronous call; with one, two calls at least must have begun.
THEOREM NoRaceWithoutPool == Spec => []RaceNeedsThePool
<1>1. IInv => RaceNeedsThePool
  <2> SUFFICES ASSUME IInv, raced
               PROVE  /\ \E c \in Calls : form[c] = "async"
                      /\ Cardinality({c \in Calls : stage[c] \notin {"new", "queued"}}) > 1
    BY DEF RaceNeedsThePool
  <2> DEFINE S == {c \in Calls : stage[c] \notin {"new", "queued"}}
  <2>1. PICK c, d \in Calls :
            /\ c # d /\ form[c] = "async"
            /\ stage[c] \notin {"new", "queued"} /\ stage[d] \notin {"new", "queued"}
    BY DEF IInv, RaceInv
  <2>2. IsFiniteSet(S)
    BY CallsAssumption, FS_Subset
  <2>3. c \in S /\ d \in S \ {c}
    BY <2>1
  <2> HIDE DEF S
  <2>4. IsFiniteSet(S \ {c}) /\ Cardinality(S \ {c}) = Cardinality(S) - 1
    BY <2>2, <2>3, FS_RemoveElement
  <2>5. Cardinality(S \ {c}) \in Nat /\ Cardinality(S \ {c}) # 0 /\ Cardinality(S) \in Nat
    BY <2>2, <2>3, <2>4, FS_CardinalityType, FS_EmptySet
  <2>6. Cardinality(S) > 1
    BY <2>4, <2>5
  <2> QED
    BY <2>1, <2>6 DEF S
<1> QED
  BY <1>1, Invariance, PTL
===============================================================================
