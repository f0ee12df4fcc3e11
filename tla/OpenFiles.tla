------------------------------- MODULE OpenFiles -------------------------------
(***************************************************************************)
(* proto.openFiles of src/nsutil/nslinux.js: list /proc/<pid>/fd, read each*)
(* link, and keep the targets that look like paths and can be stat'ed.     *)
(*                                                                         *)
(* The shape is that of proto.threads, with three differences that matter. *)
(* A directory of descriptors may be empty.  A descriptor that vanished is *)
(* skipped, not reported.  And fs.statSync runs inside the callback: when  *)
(* the target does not exist it throws where no one can catch, and the     *)
(* node process ends with every call that was still waiting.               *)
(***************************************************************************)
EXTENDS Integers, FiniteSets, Sequences

CONSTANTS
    Calls,    \* the calls of proc.openFiles that the program makes
    Fds,      \* the descriptors the observed process may use
    Paths,    \* the file-system objects it may open
    Regular,  \* those of Paths that are regular files
    NoPath,   \* a link target without "/": a socket, a pipe, an anon_inode
    Closed,   \* a descriptor that is not open
    NoCall    \* the main thread is at its event loop, inside no call

ASSUME FdsAssumption == IsFiniteSet(Fds) /\ Fds # {}
ASSUME PathsAssumption == Regular \subseteq Paths /\ {NoPath, Closed} \cap Paths = {}

VARIABLES
    alive,    \* the observed process exists
    table,    \* its descriptor table
    removed,  \* paths that have been unlinked
    up,       \* the node process has not died of an uncaught exception
    main,     \* the synchronous call the main thread is executing, or NoCall
    pc,       \* per call: how far it is
    files,    \* per call: what readdir returned
    err,      \* per call: readdir failed
    count,    \* per call: the shared counter
    req,      \* per call and descriptor: its readlink request
    link,     \* per call and descriptor: the target that was read
    todo,     \* per synchronous call: descriptors still to look at
    cur,      \* per synchronous call: the descriptor at hand
    arr,      \* per call: the set of paths pushed to its array
    reply,    \* per call: the sequence of answers its caller has got
    ever, kept  \* history: paths held during the call; pairs held all along

procVars == <<alive, table, removed>>
syncVars == <<todo, cur>>
asyncVars == <<err, count, req>>
vars == <<procVars, up, main, pc, files, asyncVars, link, syncVars, arr, reply, ever, kept>>

OpenFds == {f \in Fds : table[f] # Closed}
Held == {table[f] : f \in OpenFds} \cap Paths
HeldPairs == {<<f, table[f]>> : f \in OpenFds} \cap (Fds \X (Paths \ removed))

Ended == {"answered", "returned", "thrown"}
Synchronous == {"syncListing", "syncExists", "syncReadlink", "syncStat"}
PCs == {"new", "listing", "listed", "reading"} \cup Synchronous \cup Ended
Requests == {"none", "queued", "data", "error", "settled"}
Replies == [err : BOOLEAN, arr : SUBSET Paths]
InFlight(c) == pc[c] \notin Ended \cup {"new"}
Outstanding(c) == {f \in Fds : req[c][f] \in {"queued", "data", "error"}}

Init ==
    /\ alive = TRUE
    /\ removed = {}
    /\ table \in [Fds -> Paths \cup {NoPath, Closed}]
    /\ up = TRUE /\ main = NoCall
    /\ pc = [c \in Calls |-> "new"]
    /\ files = [c \in Calls |-> {}]
    /\ err = [c \in Calls |-> FALSE]
    /\ count = [c \in Calls |-> 0]
    /\ req = [c \in Calls |-> [f \in Fds |-> "none"]]
    /\ link = [c \in Calls |-> [f \in Fds |-> NoPath]]
    /\ todo = [c \in Calls |-> {}]
    /\ cur = [c \in Calls |-> CHOOSE f \in Fds : TRUE]
    /\ arr = [c \in Calls |-> {}]
    /\ reply = [c \in Calls |-> <<>>]
    /\ ever = [c \in Calls |-> {}]
    /\ kept = [c \in Calls |-> {}]

-----------------------------------------------------------------------------
(* The observed process and the file system; calls in flight take note.    *)

Observe ==
    /\ ever' = [c \in Calls |-> IF InFlight(c) THEN ever[c] \cup Held' ELSE ever[c]]
    /\ kept' = [c \in Calls |-> IF InFlight(c) THEN kept[c] \cap HeldPairs' ELSE kept[c]]
    /\ UNCHANGED <<up, main, pc, files, asyncVars, link, syncVars, arr, reply>>

Open(f, p) ==
    /\ alive /\ table[f] = Closed /\ p \notin removed
    /\ table' = [table EXCEPT ![f] = p]
    /\ UNCHANGED <<alive, removed>> /\ Observe

Close(f) ==
    /\ alive /\ table[f] # Closed
    /\ table' = [table EXCEPT ![f] = Closed]
    /\ UNCHANGED <<alive, removed>> /\ Observe

Exit ==
    /\ alive /\ alive' = FALSE
    /\ table' = [f \in Fds |-> Closed]
    /\ UNCHANGED removed /\ Observe

\* The link of a descriptor whose file is gone reads "<path> (deleted)"; no
\* file of that name exists, so it is the same path, now removed.
Unlink(p) ==
    /\ p \notin removed
    /\ removed' = removed \cup {p}
    /\ UNCHANGED <<alive, table>> /\ Observe

-----------------------------------------------------------------------------
(* The call with a callback.                                               *)

Begin(c, next) ==
    /\ up /\ main = NoCall /\ pc[c] = "new"
    /\ pc' = [pc EXCEPT ![c] = next]
    /\ ever' = [ever EXCEPT ![c] = Held]
    /\ kept' = [kept EXCEPT ![c] = HeldPairs]
    /\ UNCHANGED <<procVars, up, files, asyncVars, link, syncVars, arr, reply>>

CallAsync(c) == Begin(c, "listing") /\ main' = main

\* A pool thread lists the descriptors, unless the process has exited, is
\* another user's, or node has no descriptor left.
ReaddirExec(c) ==
    /\ up /\ pc[c] = "listing"
    /\ pc' = [pc EXCEPT ![c] = "listed"]
    /\ \/ err' = [err EXCEPT ![c] = TRUE] /\ UNCHANGED files
       \/ alive /\ files' = [files EXCEPT ![c] = OpenFds] /\ UNCHANGED err
    /\ UNCHANGED <<procVars, up, main, count, req, link, syncVars, arr, reply, ever, kept>>

CallBack(c, e, a) == reply' = [reply EXCEPT ![c] = Append(@, [err |-> e, arr |-> a])]

ReaddirCallback(c) ==
    /\ up /\ main = NoCall /\ pc[c] = "listed"
    /\ \/ /\ err[c]
          /\ CallBack(c, TRUE, {})
          /\ pc' = [pc EXCEPT ![c] = "answered"]
          /\ UNCHANGED <<count, req>>
       \/ /\ ~err[c]
          /\ count' = [count EXCEPT ![c] = Cardinality(files[c])]
          /\ req' = [req EXCEPT ![c] =
                       [f \in Fds |-> IF f \in files[c] THEN "queued" ELSE "none"]]
          /\ pc' = [pc EXCEPT ![c] = "reading"]
          /\ UNCHANGED reply
    /\ UNCHANGED <<procVars, up, main, files, err, link, syncVars, arr, ever, kept>>

\* A pool thread reads one link; it fails iff the descriptor is closed.
ReadlinkExec(c, f) ==
    /\ up /\ req[c][f] = "queued"
    /\ req' = [req EXCEPT ![c][f] = IF table[f] = Closed THEN "error" ELSE "data"]
    /\ link' = [link EXCEPT ![c][f] = IF table[f] \in Paths THEN table[f] ELSE NoPath]
    /\ UNCHANGED <<procVars, up, main, pc, files, err, count, syncVars, arr, reply, ever, kept>>

IsPath(c, f) == req[c][f] = "data" /\ link[c][f] \in Paths

\* statSync throws in the callback: node dies.
ReadlinkCrash(c, f) ==
    /\ up /\ main = NoCall /\ req[c][f] \in {"data", "error"}
    /\ IsPath(c, f) /\ link[c][f] \in removed
    /\ up' = FALSE
    /\ UNCHANGED <<procVars, main, pc, files, asyncVars, link, syncVars, arr, reply, ever, kept>>

\* The callback that returns, given the new array and counter and whether it
\* calls the caller back.
Settle(c, f, a, n, last) ==
    /\ up /\ main = NoCall /\ req[c][f] \in {"data", "error"}
    /\ ~(IsPath(c, f) /\ link[c][f] \in removed)
    /\ req' = [req EXCEPT ![c][f] = "settled"]
    /\ arr' = [arr EXCEPT ![c] = a]
    /\ count' = [count EXCEPT ![c] = n]
    /\ IF last THEN CallBack(c, FALSE, a) /\ pc' = [pc EXCEPT ![c] = "answered"]
               ELSE UNCHANGED <<reply, pc>>
    /\ UNCHANGED <<procVars, up, main, files, err, link, syncVars, ever, kept>>

\* "fs.statSync(data).isFile" without the call is true for every target.  (The
\* variant keeps targets without a "/" too.)
PushedAnything(c, f) == IF req[c][f] = "data" THEN arr[c] \cup {link[c][f]} ELSE arr[c]
Pushed(c, f) == IF IsPath(c, f) THEN arr[c] \cup {link[c][f]} ELSE arr[c]

\* Variants with a bug, for the mutation runs: a return before the counter on
\* an error; the test before the decrement; the last target not kept; an error
\* counted in its branch and again after it.
ReadlinkCallbackReturnsOnError(c, f) ==
    Settle(c, f, Pushed(c, f), IF req[c][f] = "error" THEN count[c] ELSE count[c] - 1,
           req[c][f] # "error" /\ count[c] - 1 = 0)
ReadlinkCallbackEager(c, f) == Settle(c, f, Pushed(c, f), count[c] - 1, count[c] <= 2)
ReadlinkCallbackForgetsLast(c, f) ==
    Settle(c, f, IF count[c] = 1 THEN arr[c] ELSE Pushed(c, f), count[c] - 1, count[c] - 1 = 0)
ReadlinkCallbackCountsTwice(c, f) ==
    LET n == IF req[c][f] = "error" THEN count[c] - 2 ELSE count[c] - 1
    IN  Settle(c, f, Pushed(c, f), n, n = 0)

ReadlinkCallback(c, f) == Settle(c, f, Pushed(c, f), count[c] - 1, count[c] - 1 = 0)

-----------------------------------------------------------------------------
(* The call without a callback.                                            *)

CallSync(c) == Begin(c, "syncListing") /\ main' = c

Throw(c) ==
    /\ CallBack(c, TRUE, {})
    /\ pc' = [pc EXCEPT ![c] = "thrown"]
    /\ main' = NoCall

Goto(c, next) == pc' = [pc EXCEPT ![c] = next] /\ UNCHANGED <<main, reply>>

SyncReaddir(c) ==
    /\ pc[c] = "syncListing"
    /\ \/ /\ alive
          /\ files' = [files EXCEPT ![c] = OpenFds]
          /\ todo' = [todo EXCEPT ![c] = OpenFds]
          /\ Goto(c, "syncExists")
       \/ Throw(c) /\ UNCHANGED <<files, todo>>
    /\ UNCHANGED <<procVars, up, asyncVars, link, cur, arr, ever, kept>>

\* existsSync follows the descriptor itself: false only when it is closed.
SyncExists(c, f) ==
    /\ pc[c] = "syncExists" /\ f \in todo[c]
    /\ todo' = [todo EXCEPT ![c] = @ \ {f}]
    /\ cur' = [cur EXCEPT ![c] = f]
    /\ Goto(c, IF table[f] # Closed THEN "syncReadlink" ELSE "syncExists")
    /\ UNCHANGED <<procVars, up, files, asyncVars, link, arr, ever, kept>>

SyncReadlink(c) ==
    /\ pc[c] = "syncReadlink"
    /\ IF table[cur[c]] = Closed
         THEN Throw(c) /\ UNCHANGED link
         ELSE /\ link' = [link EXCEPT ![c][cur[c]] =
                            IF table[cur[c]] \in Paths THEN table[cur[c]] ELSE NoPath]
              /\ Goto(c, IF table[cur[c]] \in Paths THEN "syncStat" ELSE "syncExists")
    /\ UNCHANGED <<procVars, up, files, asyncVars, syncVars, arr, ever, kept>>

SyncStat(c) ==
    LET p == link[c][cur[c]] IN
    /\ pc[c] = "syncStat"
    /\ IF p \in removed THEN Throw(c) /\ UNCHANGED arr
         ELSE arr' = [arr EXCEPT ![c] = @ \cup ({p} \cap Regular)] /\ Goto(c, "syncExists")
    /\ UNCHANGED <<procVars, up, files, asyncVars, link, syncVars, ever, kept>>

SyncReturn(c) ==
    /\ pc[c] = "syncExists" /\ todo[c] = {}
    /\ CallBack(c, FALSE, arr[c])
    /\ pc' = [pc EXCEPT ![c] = "returned"]
    /\ main' = NoCall
    /\ UNCHANGED <<procVars, up, files, asyncVars, link, syncVars, arr, ever, kept>>

-----------------------------------------------------------------------------
CallStep(c) ==
    \/ CallAsync(c) \/ ReaddirExec(c) \/ ReaddirCallback(c)
    \/ CallSync(c) \/ SyncReaddir(c) \/ SyncReadlink(c) \/ SyncStat(c) \/ SyncReturn(c)
    \/ \E f \in Fds : \/ ReadlinkExec(c, f) \/ ReadlinkCallback(c, f)
                      \/ ReadlinkCrash(c, f) \/ SyncExists(c, f)

Environment ==
    \/ \E f \in Fds : Close(f) \/ \E p \in Paths \cup {NoPath} : Open(f, p)
    \/ \E p \in Paths : Unlink(p)
    \/ Exit

Next == Environment \/ \E c \in Calls : CallStep(c)

\* The pool and the event loop go on as long as node is up.
Fairness ==
    \A c \in Calls :
        /\ WF_vars(ReaddirExec(c)) /\ WF_vars(ReaddirCallback(c))
        /\ WF_vars(SyncReaddir(c)) /\ WF_vars(SyncReadlink(c))
        /\ WF_vars(SyncStat(c)) /\ WF_vars(SyncReturn(c))
        /\ \A f \in Fds : /\ WF_vars(ReadlinkExec(c, f))
                          /\ WF_vars(ReadlinkCallback(c, f) \/ ReadlinkCrash(c, f))
                          /\ WF_vars(SyncExists(c, f))

Spec == Init /\ [][Next]_vars /\ Fairness

-----------------------------------------------------------------------------
TypeOK ==
    /\ alive \in BOOLEAN /\ up \in BOOLEAN
    /\ table \in [Fds -> Paths \cup {NoPath, Closed}]
    /\ removed \in SUBSET Paths
    /\ main \in Calls \cup {NoCall}
    /\ pc \in [Calls -> PCs]
    /\ files \in [Calls -> SUBSET Fds] /\ todo \in [Calls -> SUBSET Fds]
    /\ err \in [Calls -> BOOLEAN]
    /\ count \in [Calls -> Nat]
    /\ req \in [Calls -> [Fds -> Requests]]
    /\ link \in [Calls -> [Fds -> Paths \cup {NoPath}]]
    /\ cur \in [Calls -> Fds]
    /\ arr \in [Calls -> SUBSET Paths]
    /\ reply \in [Calls -> Seq(Replies)]
    /\ ever \in [Calls -> SUBSET Paths]
    /\ kept \in [Calls -> SUBSET (Fds \X Paths)]

\* The caller is answered at most once, and only when no readlink of the call
\* is outstanding: nothing is pushed to the array it was given (1067-1069).
AnsweredOnceAndLast ==
    \A c \in Calls :
        /\ Len(reply[c]) <= 1
        /\ reply[c] # <<>> => Outstanding(c) = {} /\ ~InFlight(c)

\* Every path in an answer was open in the observed process during the call.
ListedWasOpen == \A c \in Calls : \A k \in DOMAIN reply[c] : reply[c][k].arr \subseteq ever[c]

\* What stayed open on one descriptor, and in place, during the whole call is in
\* every answer without an error, although descriptors come and go under the
\* two phases of the call: whatever its type with a callback, where .isFile is
\* not called (1064), regular files without one (1081), and these only.
KeptIsListed ==
    \A c \in Calls : \A k \in DOMAIN reply[c] :
        ~reply[c][k].err =>
            /\ \A fp \in kept[c] :
                  pc[c] = "answered" \/ fp[2] \in Regular => fp[2] \in reply[c][k].arr
            /\ pc[c] = "returned" => reply[c][k].arr \subseteq Regular

\* An answer lies between the two, whatever is opened, closed, reused and removed
\* between the listing and the links.
BetweenThroughoutAndEver == ListedWasOpen /\ KeptIsListed

\* A synchronous call, and an asynchronous one that found a descriptor to look
\* at, is answered unless node dies first.
AnsweredUnlessEmpty ==
    \A c \in Calls :
        /\ pc[c] = "syncListing" ~> reply[c] # <<>>
        /\ (pc[c] = "reading" /\ files[c] # {}) ~> (reply[c] # <<>> \/ ~up)

\* README: the results of every method come through callback(err, res), a
\* failure as err.  False in the code when a file that is open in the observed
\* process has been removed: node dies.
FailureReachesCaller == up

-----------------------------------------------------------------------------
(* The inductive invariant the safety theorems rest on, per call.          *)

\* The counter is the number of outstanding requests, and the call is answered
\* once, when it reaches 0.
CountInv(c) ==
    /\ IF pc[c] \in Ended THEN Len(reply[c]) = 1 ELSE reply[c] = <<>>
    /\ pc[c] \notin {"reading", "answered"} => Outstanding(c) = {}
    /\ pc[c] = "reading" => count[c] = Cardinality(Outstanding(c))
    /\ pc[c] = "answered" => Outstanding(c) = {}

\* What an ended call has answered.
ReplyInv(c) ==
    /\ pc[c] = "answered" => reply[c][1] = [err |-> err[c], arr |-> arr[c]]
    /\ pc[c] = "returned" => reply[c][1] = [err |-> FALSE, arr |-> arr[c]]
    /\ pc[c] = "thrown" => reply[c][1] = [err |-> TRUE, arr |-> {}]
    /\ pc[c] = "reading" => ~err[c]

\* Everything read was held while the call was in flight.
EverInv(c) ==
    /\ InFlight(c) => Held \subseteq ever[c]
    /\ arr[c] \subseteq ever[c]
    /\ \A f \in Fds : link[c][f] \in Paths => link[c][f] \in ever[c]
    /\ pc[c] = "new" => arr[c] = {} /\ \A f \in Fds : link[c][f] = NoPath
    /\ pc[c] \in {"listing", "listed"} => arr[c] = {}
    /\ pc[c] \in Synchronous \cup {"returned"} => arr[c] \subseteq Regular
    /\ pc[c] = "syncStat" => link[c][cur[c]] \in Paths

\* Where a pair is that stays held: on the way to the array, or in it.
OnItsWay(c, f, p) ==
    CASE pc[c] = "listed"   -> err[c] \/ f \in files[c]
      [] pc[c] \in {"reading", "answered"} ->
            \/ err[c]
            \/ req[c][f] = "queued"
            \/ req[c][f] = "data" /\ link[c][f] = p
            \/ req[c][f] = "settled" /\ p \in arr[c]
      [] pc[c] \in {"syncExists", "syncReadlink", "syncStat", "returned"} ->
            \/ p \in Regular => p \in arr[c]
            \/ f \in todo[c] /\ pc[c] # "returned"
            \/ f = cur[c] /\ pc[c] = "syncReadlink"
            \/ f = cur[c] /\ pc[c] = "syncStat" /\ link[c][f] = p
      [] OTHER -> TRUE

KeptInv(c) ==
    /\ InFlight(c) => kept[c] \subseteq HeldPairs
    /\ \A fp \in kept[c] : OnItsWay(c, fp[1], fp[2])

IInv == TypeOK /\ \A c \in Calls : CountInv(c) /\ ReplyInv(c) /\ EverInv(c) /\ KeptInv(c)
================================================================================
