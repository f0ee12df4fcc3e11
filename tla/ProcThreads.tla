------------------------------ MODULE ProcThreads ------------------------------
(***************************************************************************)
(* proto.threads of src/nsutil/nslinux.js: list /proc/<pid>/task, then     *)
(* read the stat file of every thread.                                     *)
(*                                                                         *)
(* With a callback, the directory is read by libuv's thread pool, its      *)
(* callback issues one readFile per thread, the pool serves those in any   *)
(* order, and their callbacks, run one at a time on the main thread, count *)
(* down a shared counter; the one that brings it to 0 calls the caller     *)
(* back.  Without a callback the main thread reads everything itself, in   *)
(* ascending order, and no callback of any call runs in between.           *)
(* Meanwhile the observed process starts and ends threads, and may exit,   *)
(* and node may have no descriptor left for what a call wants to open.     *)
(*                                                                         *)
(* A thread's stat record is abstracted to the thread's id (idx).          *)
(***************************************************************************)
EXTENDS Integers, FiniteSets, Sequences, Functions

CONSTANTS
    Calls,    \* the calls of proc.threads that the program makes
    Tids,     \* the thread ids the observed process ever uses
    NoCall    \* the main thread is at its event loop, inside no call

ASSUME CallsAssumption == NoCall \notin Calls
ASSUME TidsAssumption == IsFiniteSet(Tids) /\ Tids \subseteq Nat

VARIABLES
    live,     \* threads of the observed process now; {} once it has exited
    main,     \* the synchronous call the main thread is executing, or NoCall
    pc,       \* per call: how far it is
    ids,      \* per call: what readdir returned
    err,      \* per call: the variable err that all its callbacks share
    count,    \* per call: the shared counter
    req,      \* per call and thread: its readFile request
    arr,      \* per call: the array its callbacks push to
    reply,    \* per call: the sequence of answers its caller has got
    start, ever, gone, \* history: threads at the call, during it, and ended
    starved   \* per call: node's descriptor table has been full during it

envVars == <<start, ever, gone, starved>>
vars == <<live, main, pc, ids, err, count, req, arr, reply, envVars>>

PCs == {"new", "listing", "opened", "listed", "reading", "answered",
        "syncListing", "syncOpened", "syncReading", "returned", "thrown"}

\* "queued": in the pool; "data"/"error": done, its callback pending;
\* "settled": its callback has run.
Requests == {"none", "queued", "data", "error", "settled"}

Replies == [err : BOOLEAN, arr : Seq(Tids)]

Ended == {"answered", "returned", "thrown"}

\* The listing was empty: no request will ever run a callback of this call.
Dropped(c) == pc[c] = "reading" /\ ids[c] = {}
InFlight(c) == pc[c] \notin Ended \cup {"new"} /\ ~Dropped(c)

Outstanding(c) == {t \in Tids : req[c][t] \in {"queued", "data", "error"}}

Init ==
    /\ live \in SUBSET Tids
    /\ main = NoCall
    /\ pc = [c \in Calls |-> "new"]
    /\ ids = [c \in Calls |-> {}]
    /\ err = [c \in Calls |-> FALSE]
    /\ count = [c \in Calls |-> 0]
    /\ req = [c \in Calls |-> [t \in Tids |-> "none"]]
    /\ arr = [c \in Calls |-> <<>>]
    /\ reply = [c \in Calls |-> <<>>]
    /\ start = [c \in Calls |-> {}]
    /\ ever = [c \in Calls |-> {}]
    /\ gone = [c \in Calls |-> {}]
    /\ starved = [c \in Calls |-> FALSE]

-----------------------------------------------------------------------------
(* The observed process, of which only a live one starts threads, and the  *)
(* descriptors of node.                                                    *)

ThreadStart(t) ==
    /\ live # {} /\ t \notin live
    /\ live' = live \cup {t}
    /\ ever' = [c \in Calls |-> IF InFlight(c) THEN ever[c] \cup {t} ELSE ever[c]]
    /\ UNCHANGED <<main, pc, ids, err, count, req, arr, reply, start, gone, starved>>

\* Threads end: one of them, or all of them when the process exits.
ThreadsEnd(S) ==
    /\ S \subseteq live
    /\ (\E t \in S : S = {t}) \/ (S # {} /\ S = live)
    /\ live' = live \ S
    /\ gone' = [c \in Calls |-> IF InFlight(c) THEN gone[c] \cup S ELSE gone[c]]
    /\ UNCHANGED <<main, pc, ids, err, count, req, arr, reply, start, ever, starved>>

\* One readFile per thread is issued at once, and other parts of the program
\* have files open too.  From here on each open of the call may fail.
Starve(c) ==
    /\ InFlight(c) /\ ~starved[c]
    /\ starved' = [starved EXCEPT ![c] = TRUE]
    /\ UNCHANGED <<live, main, pc, ids, err, count, req, arr, reply, start, ever, gone>>

-----------------------------------------------------------------------------
(* The call with a callback.                                               *)

Begin(c, next) ==
    /\ main = NoCall /\ pc[c] = "new"
    /\ pc' = [pc EXCEPT ![c] = next]
    /\ start' = [start EXCEPT ![c] = live]
    /\ ever' = [ever EXCEPT ![c] = live]
    /\ UNCHANGED <<live, ids, err, count, req, arr, reply, gone, starved>>

CallAsync(c) == Begin(c, "listing") /\ main' = main

\* The directory, or a stat file, cannot be had.
NoDirectory(c) == live = {} \/ starved[c]
NoFile(c, t) == t \notin live \/ starved[c]

\* A pool thread opens the directory, and then reads it.  If the process exits
\* in between, there is an error, or the listing is empty.
ReaddirOpen(c) ==
    /\ pc[c] = "listing"
    /\ \/ /\ NoDirectory(c)
          /\ pc' = [pc EXCEPT ![c] = "listed"] /\ err' = [err EXCEPT ![c] = TRUE]
       \/ live # {} /\ pc' = [pc EXCEPT ![c] = "opened"] /\ UNCHANGED err
    /\ UNCHANGED <<live, main, ids, count, req, arr, reply, envVars>>

ReaddirExec(c) ==
    /\ pc[c] = "opened"
    /\ pc' = [pc EXCEPT ![c] = "listed"]
    /\ \/ live = {} /\ err' = [err EXCEPT ![c] = TRUE] /\ UNCHANGED ids
       \/ ids' = [ids EXCEPT ![c] = live] /\ UNCHANGED err
    /\ UNCHANGED <<live, main, count, req, arr, reply, envVars>>

CallBackWithoutErr(c, e, a) == reply' = [reply EXCEPT ![c] = Append(@, [arr |-> a])]
CallBack(c, e, a) == reply' = [reply EXCEPT ![c] = Append(@, [err |-> e, arr |-> a])]

ReaddirCallback(c) ==
    /\ main = NoCall /\ pc[c] = "listed"
    /\ \/ /\ err[c]
          /\ CallBack(c, TRUE, <<>>)
          /\ pc' = [pc EXCEPT ![c] = "answered"]
          /\ UNCHANGED <<count, req>>
       \/ /\ ~err[c]
          /\ count' = [count EXCEPT ![c] = Cardinality(ids[c])]
          /\ req' = [req EXCEPT ![c] =
                       [t \in Tids |-> IF t \in ids[c] THEN "queued" ELSE "none"]]
          /\ pc' = [pc EXCEPT ![c] = "reading"]
          /\ UNCHANGED reply
    /\ UNCHANGED <<live, main, ids, err, arr, envVars>>

\* A pool thread reads one stat file; the thread must still exist.
ReadExec(c, t) ==
    /\ req[c][t] = "queued"
    /\ \/ t \in live /\ req' = [req EXCEPT ![c][t] = "data"]
       \/ NoFile(c, t) /\ req' = [req EXCEPT ![c][t] = "error"]
    /\ UNCHANGED <<live, main, pc, ids, err, count, arr, reply, envVars>>

\* The callback of one readFile, given the new values of err, arr and count
\* and whether it calls the caller back.
Settle(c, t, e, a, n, last) ==
    /\ main = NoCall /\ req[c][t] \in {"data", "error"}
    /\ req' = [req EXCEPT ![c][t] = "settled"]
    /\ err' = [err EXCEPT ![c] = e]
    /\ arr' = [arr EXCEPT ![c] = a]
    /\ count' = [count EXCEPT ![c] = n]
    /\ IF last THEN CallBack(c, e, a) /\ pc' = [pc EXCEPT ![c] = "answered"]
               ELSE UNCHANGED <<reply, pc>>
    /\ UNCHANGED <<live, main, ids, envVars>>

Failed(c, t) == req[c][t] = "error"
Pushed(c, t) == IF Failed(c, t) THEN arr[c] ELSE Append(arr[c], t)

\* Variants of ReadCallback with a bug, for the mutation runs: err2 dropped, as
\* openFiles does; the caller told of each error at once; the counter skipped
\* on an error; the branches of the error test swapped; a test for 1.
ReadCallbackDropsError(c, t) ==
    Settle(c, t, err[c], Pushed(c, t), count[c] - 1, count[c] - 1 = 0)
ReadCallbackTellsEachError(c, t) ==
    Settle(c, t, err[c] \/ Failed(c, t), Pushed(c, t), count[c] - 1,
           count[c] - 1 = 0 \/ Failed(c, t))
ReadCallbackReturnsOnError(c, t) ==
    Settle(c, t, err[c] \/ Failed(c, t), Pushed(c, t),
           IF Failed(c, t) THEN count[c] ELSE count[c] - 1,
           ~Failed(c, t) /\ count[c] - 1 = 0)
ReadCallbackSwapped(c, t) ==
    Settle(c, t, err[c] \/ ~Failed(c, t), Pushed(c, t), count[c] - 1, count[c] - 1 = 0)
ReadCallbackOffByOne(c, t) ==
    Settle(c, t, err[c] \/ Failed(c, t), Pushed(c, t), count[c] - 1, count[c] = 0)
ReadCallbackEager(c, t) ==
    Settle(c, t, err[c] \/ Failed(c, t), Pushed(c, t), count[c] - 1, count[c] <= 2)

\* A callback learns that it is the last one from the counter alone.
ReadCallback(c, t) ==
    Settle(c, t, err[c] \/ Failed(c, t), Pushed(c, t), count[c] - 1, count[c] - 1 = 0)

-----------------------------------------------------------------------------
(* The call without a callback: the main thread is busy until it ends.     *)

CallSync(c) == Begin(c, "syncListing") /\ main' = c

Throw(c) ==
    /\ CallBack(c, TRUE, <<>>)
    /\ pc' = [pc EXCEPT ![c] = "thrown"]
    /\ main' = NoCall

Return(c, a) ==
    /\ CallBack(c, FALSE, a)
    /\ pc' = [pc EXCEPT ![c] = "returned"]
    /\ main' = NoCall

SyncOpen(c) ==
    /\ pc[c] = "syncListing"
    /\ \/ NoDirectory(c) /\ Throw(c)
       \/ live # {} /\ pc' = [pc EXCEPT ![c] = "syncOpened"] /\ UNCHANGED <<main, reply>>
    /\ UNCHANGED <<live, ids, err, count, req, arr, envVars>>

SyncReaddir(c) ==
    /\ pc[c] = "syncOpened"
    /\ \/ live = {} /\ Throw(c) /\ UNCHANGED ids
       \/ /\ ids' = [ids EXCEPT ![c] = live]
          /\ IF live = {}
               THEN Return(c, <<>>)
               ELSE /\ pc' = [pc EXCEPT ![c] = "syncReading"]
                    /\ UNCHANGED <<main, reply>>
    /\ UNCHANGED <<live, err, count, req, arr, envVars>>

\* After ids.sort the stat files are read in ascending order of thread id.
NextUnread(c, t) ==
    LET rest == ids[c] \ Range(arr[c])
    IN  t \in rest /\ \A u \in rest : t <= u

SyncRead(c, t) ==
    /\ pc[c] = "syncReading" /\ NextUnread(c, t)
    /\ \/ NoFile(c, t) /\ Throw(c) /\ UNCHANGED arr
       \/ /\ t \in live
          /\ arr' = [arr EXCEPT ![c] = Append(@, t)]
          /\ IF ids[c] \ Range(arr'[c]) = {} THEN Return(c, arr'[c])
                                             ELSE UNCHANGED <<reply, pc, main>>
    /\ UNCHANGED <<live, ids, err, count, req, envVars>>

-----------------------------------------------------------------------------
CallStep(c) ==
    \/ CallAsync(c) \/ ReaddirOpen(c) \/ ReaddirExec(c) \/ ReaddirCallback(c)
    \/ CallSync(c) \/ SyncOpen(c) \/ SyncReaddir(c)
    \/ \E t \in Tids : ReadExec(c, t) \/ ReadCallback(c, t) \/ SyncRead(c, t)

Next ==
    \/ \E t \in Tids : ThreadStart(t)
    \/ \E S \in SUBSET Tids : ThreadsEnd(S)
    \/ \E c \in Calls : Starve(c) \/ CallStep(c)

\* libuv's pool serves every request and the event loop runs every callback
\* that is due; the main thread goes on inside a synchronous call.  The
\* program need not call, the observed process need not do anything, and
\* descriptors need not run out.
Fairness ==
    \A c \in Calls :
        /\ WF_vars(ReaddirOpen(c)) /\ WF_vars(ReaddirExec(c)) /\ WF_vars(ReaddirCallback(c))
        /\ WF_vars(SyncOpen(c)) /\ WF_vars(SyncReaddir(c))
        /\ \A t \in Tids : /\ WF_vars(ReadExec(c, t)) /\ WF_vars(ReadCallback(c, t))
                           /\ WF_vars(SyncRead(c, t))

Spec == Init /\ [][Next]_vars /\ Fairness

-----------------------------------------------------------------------------
TypeOK ==
    /\ live \in SUBSET Tids
    /\ main \in Calls \cup {NoCall}
    /\ pc \in [Calls -> PCs]
    /\ ids \in [Calls -> SUBSET Tids]
    /\ err \in [Calls -> BOOLEAN]
    /\ count \in [Calls -> Int]
    /\ req \in [Calls -> [Tids -> Requests]]
    /\ arr \in [Calls -> Seq(Tids)]
    /\ reply \in [Calls -> Seq(Replies)]
    /\ start \in [Calls -> SUBSET Tids]
    /\ ever \in [Calls -> SUBSET Tids]
    /\ gone \in [Calls -> SUBSET Tids]
    /\ starved \in [Calls -> BOOLEAN]

\* The counter is the number of readFile requests whose callback has not run.
CountIsOutstanding == \A c \in Calls : count[c] = Cardinality(Outstanding(c))

\* The caller is answered at most once, and only when no request of the call
\* is left that could still call back or push to the array (986-988).
AnsweredOnceAndLast ==
    \A c \in Calls :
        /\ Len(reply[c]) <= 1
        /\ reply[c] # <<>> => Outstanding(c) = {} /\ ~InFlight(c)

\* An answer without an error holds every thread of the listing exactly once:
\* no read is lost or counted twice, whatever order they end in (978-985).
CompleteUnlessError ==
    \A c \in Calls : \A k \in DOMAIN reply[c] :
        ~reply[c][k].err => /\ Range(reply[c][k].arr) = ids[c]
                            /\ Len(reply[c][k].arr) = Cardinality(ids[c])

\* The answer lies between the threads that lived through the whole call and
\* those that lived at some time during it, although it is put together from
\* system calls made at different times.
BetweenThroughoutAndEver ==
    \A c \in Calls : \A k \in DOMAIN reply[c] :
        /\ Range(reply[c][k].arr) \subseteq ever[c]
        /\ ~reply[c][k].err => start[c] \ gone[c] \subseteq Range(reply[c][k].arr)

\* An error, or an exception, is given only if a thread ended under the call,
\* there is no process, or descriptors ran out during this very call; not if
\* that only happened to another call (970-973, 976-978; 997, 1002).
ErrorHasCause ==
    \A c \in Calls : \A k \in DOMAIN reply[c] :
        reply[c][k].err => gone[c] # {} \/ live = {} \/ starved[c]

\* The array is handed over by reference; nothing is pushed to it afterwards.
AnswerIsFinal ==
    [][\A c \in Calls : reply[c] # <<>> => UNCHANGED <<arr[c], reply[c]>>]_vars

\* Every call is answered, whatever fails meanwhile, except one under
\* which the process exits: if the listing is empty, count starts at 0, no readFile
\* is issued and none of the callbacks that could answer runs (972-990).
AnsweredUnlessEmpty ==
    \A c \in Calls : pc[c] \in {"listing", "syncListing"} ~>
        reply[c] # <<>> \/ (Dropped(c) /\ live = {} /\ gone[c] # {})

-----------------------------------------------------------------------------
(* The strengthening that makes the safety properties inductive.           *)

\* The counter, the requests and the answer of a call.
CountInv(c) ==
    /\ count[c] = Cardinality(Outstanding(c))
    /\ pc[c] \notin {"reading", "answered"} => \A t \in Tids : req[c][t] = "none"
    /\ pc[c] = "reading" /\ ids[c] # {} => Outstanding(c) # {}
    /\ pc[c] = "answered" => Outstanding(c) = {}
    /\ IF pc[c] \in Ended THEN Len(reply[c]) = 1 ELSE reply[c] = <<>>

\* The array: what has been pushed to it and what its caller gets.
ArrayInv(c) ==
    /\ Range(arr[c]) \subseteq ids[c]
    /\ Len(arr[c]) = Cardinality(Range(arr[c]))
    /\ pc[c] \in {"new", "listing", "opened", "listed", "syncListing", "syncOpened"} =>
          arr[c] = <<>>
    /\ \A t \in Range(arr[c]) : pc[c] \in {"reading", "answered"} => req[c][t] = "settled"
    /\ pc[c] \in {"reading", "answered"} /\ ~err[c] =>
          \A t \in ids[c] : req[c][t] # "none" /\ (req[c][t] = "settled" => t \in Range(arr[c]))
    /\ pc[c] = "answered" => reply[c] = <<[err |-> err[c], arr |-> arr[c]]>>
    /\ pc[c] = "returned" => /\ reply[c] = <<[err |-> FALSE, arr |-> arr[c]]>>
                             /\ Range(arr[c]) = ids[c]
    /\ pc[c] = "thrown" => reply[c] = <<[err |-> TRUE, arr |-> <<>>]>>

\* The listing against the threads that lived during the call.
HistoryInv(c) ==
    /\ ids[c] \subseteq ever[c]
    /\ InFlight(c) => live \subseteq ever[c] /\ start[c] \ gone[c] \subseteq live
    /\ pc[c] \in {"listed", "reading", "syncReading", "answered", "returned"} /\ ~err[c] =>
          start[c] \ gone[c] \subseteq ids[c]
    /\ InFlight(c) => ids[c] \ live \subseteq gone[c]
    /\ err[c] \/ pc[c] = "thrown" \/ (\E t \in Tids : req[c][t] = "error") =>
          gone[c] # {} \/ live = {} \/ starved[c]
    /\ \/ pc[c] \in {"opened", "syncOpened"} /\ live = {}
       \/ pc[c] = "listed" /\ ids[c] = {} /\ ~err[c]
       \/ Dropped(c)
       => live = {} /\ gone[c] # {}
    /\ \A t \in Tids : req[c][t] # "none" => t \in ids[c]
    /\ pc[c] \in {"new", "listing", "opened", "syncListing", "syncOpened", "syncReading", "returned"} =>
          ~err[c]
    /\ pc[c] \in {"new", "listing", "opened", "syncListing", "syncOpened"} => ids[c] = {}

IInv == TypeOK /\ \A c \in Calls : CountInv(c) /\ ArrayInv(c) /\ HistoryInv(c)

-----------------------------------------------------------------------------
\* proto.threads implements the interval promise: the answer is the reply.
AnswerOf(r) == [err |-> r.err, items |-> Range(r.arr)]

PhaseOf(p, s) == CASE p = "new" -> "new"
                   [] p \in Ended -> "answered"
                   [] p = "reading" /\ s = {} -> "dropped"
                   [] OTHER -> "running"

IQ == INSTANCE IntervalQuery WITH
        Items <- Tids,
        present <- live,
        phase <- [c \in Calls |-> PhaseOf(pc[c], ids[c])],
        fault <- starved,
        answer <- [c \in Calls |-> IF reply[c] = <<>>
                                     THEN [err |-> FALSE, items |-> {}]
                                     ELSE AnswerOf(reply[c][1])]

\* The safety part of it: a step of proto.threads is one of the promise, or none.
StepsOfIntervalQuery == IQ!Init /\ [][IQ!Next]_IQ!vars

\* Every behaviour of proto.threads, fairness included, is one of the promise.
ImplementsIntervalQuery == IQ!Spec
================================================================================
