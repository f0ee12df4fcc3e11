-------------------------------- MODULE Terminal --------------------------------
(***************************************************************************)
(* proto.terminal of src/nsutil/nslinux.js with getTerminalMap of          *)
(* src/nsutil/nsposix.js: which terminal does the process run on?          *)
(*                                                                         *)
(* With a callback, three requests run side by side: the listings of /dev/ *)
(* and of /dev/pts/, joined by a counter of 2 inside getTerminalMap, and   *)
(* the stat file of the process, joined with the map by "are both there    *)
(* yet".  Only the successful paths are joined: every failing request calls*)
(* the caller back by itself.  The listings are stat'ed synchronously in   *)
(* their callbacks, so a terminal that closes in between ends node.        *)
(*                                                                         *)
(* The map from device numbers to paths is abstracted to the set of        *)
(* terminals it has an entry for.                                          *)
(***************************************************************************)
EXTENDS Integers, FiniteSets, Sequences

CONSTANTS
    Consoles,  \* the terminals with a name in /dev/; they do not go away
    Ptys,      \* the pseudo-terminals that may have a name in /dev/pts/
    NoTerm     \* the undefined result of looking up a missing device number

ASSUME TermsAssumption == Consoles \cap Ptys = {} /\ NoTerm \notin Consoles \cup Ptys

VARIABLES
    alive,     \* the observed process exists
    tty,       \* the terminal it runs on
    spaced,    \* its name, the second field of its stat file, has a space in it
    mounted,   \* /dev/pts/ exists
    ptys,      \* the names in it now
    up,        \* node has not died of an uncaught exception
    pc,        \* "new", "async", a step of the synchronous form, or its end
    req,       \* per request: how far it is
    listed,    \* per directory: the names readdir returned
    count,     \* getTerminalMap's counter
    tmap,      \* getTerminalMap's map
    tm, fc,    \* the variables of terminal: map and stat file have arrived
    reply,     \* the sequence of answers the caller has got
    kept       \* history: the process and its terminal stayed during the call

envVars == <<alive, tty, spaced, mounted, ptys>>
vars == <<envVars, up, pc, req, listed, count, tmap, tm, fc, reply, kept>>

Terms == Consoles \cup Ptys
Dirs == {"dev", "pts"}
RequestNames == Dirs \cup {"stat"}

Init ==
    /\ alive = TRUE
    /\ mounted \in BOOLEAN /\ spaced \in BOOLEAN
    /\ ptys \in SUBSET Ptys /\ (~mounted => ptys = {})
    /\ tty \in Consoles \cup ptys
    /\ up = TRUE /\ pc = "new"
    /\ req = [r \in RequestNames |-> "none"]
    /\ listed = [d \in Dirs |-> {}]
    /\ count = 2
    /\ tmap = {} /\ tm = FALSE /\ fc = FALSE
    /\ reply = <<>> /\ kept = TRUE

-----------------------------------------------------------------------------
(* Terminals open and close; the process may hang up and exit.             *)

NodeUnchanged == UNCHANGED <<up, pc, req, listed, count, tmap, tm, fc, reply>>

PtyOpens(p) ==
    /\ mounted /\ p \notin ptys
    /\ ptys' = ptys \cup {p}
    /\ UNCHANGED <<alive, tty, spaced, mounted, kept>> /\ NodeUnchanged

PtyCloses(p) ==
    /\ p \in ptys /\ ptys' = ptys \ {p}
    /\ kept' = (kept /\ p # tty)
    /\ UNCHANGED <<alive, tty, spaced, mounted>> /\ NodeUnchanged

Exit ==
    /\ alive /\ alive' = FALSE /\ kept' = FALSE
    /\ UNCHANGED <<tty, spaced, mounted, ptys>> /\ NodeUnchanged

-----------------------------------------------------------------------------
(* The call with a callback.                                               *)

CallAsync ==
    /\ up /\ pc = "new" /\ pc' = "async"
    /\ req' = [r \in RequestNames |-> "queued"]
    /\ UNCHANGED <<envVars, up, listed, count, tmap, tm, fc, reply, kept>>

Names(d) == IF d = "dev" THEN Consoles ELSE ptys

\* The pool lists a directory.  It may fail for want of a descriptor, and does
\* when the directory does not exist.
ReaddirExec(d) ==
    /\ up /\ req[d] = "queued"
    /\ \/ req' = [req EXCEPT ![d] = "error"] /\ UNCHANGED listed
       \/ /\ d = "dev" \/ mounted
          /\ req' = [req EXCEPT ![d] = "data"]
          /\ listed' = [listed EXCEPT ![d] = Names(d)]
    /\ UNCHANGED <<envVars, up, pc, count, tmap, tm, fc, reply, kept>>

\* The pool reads the stat file, with the same failures.
ReadFileExec ==
    /\ up /\ req["stat"] = "queued"
    /\ req' \in {[req EXCEPT !["stat"] = "error"]} \cup
                (IF alive THEN {[req EXCEPT !["stat"] = "data"]} ELSE {})
    /\ UNCHANGED <<envVars, up, pc, listed, count, tmap, tm, fc, reply, kept>>

CallBack(e, t) == reply' = Append(reply, [err |-> e, term |-> t])

\* tm[fc.split(' ')[6]]: the sixth field after the pid, for a name without a
\* space.  A space shifts the fields, and what is looked up is the session, the
\* process group, the parent or a word of the name: as a device number it has no
\* terminal or any of the map.
Lookup(map) == IF spaced THEN map \cup {NoTerm} ELSE {IF tty \in map THEN tty ELSE NoTerm}
CallBackWithTerm(map) == \E t \in Lookup(map) : CallBack(FALSE, t)

\* __proto_terminal_handle: nothing until both have arrived.  (The variant
\* drops the test.)
HandleWithoutTest(hasMap, hasStat, map) == CallBackWithTerm(map)
Handle(hasMap, hasStat, map) ==
    IF hasMap /\ hasStat THEN CallBackWithTerm(map) ELSE UNCHANGED reply

ErrorCallback(r) ==
    /\ up /\ req[r] = "error"
    /\ req' = [req EXCEPT ![r] = "settled"]
    /\ CallBack(TRUE, NoTerm)
    /\ UNCHANGED <<envVars, up, pc, listed, count, tmap, tm, fc, kept>>

\* A listing that starts the map anew, instead of adding to it.
ListingCallbackOverwrites(d, n, last) ==
    /\ up /\ req[d] = "data" /\ listed[d] \subseteq Names(d)
    /\ req' = [req EXCEPT ![d] = "settled"]
    /\ tmap' = listed[d]
    /\ count' = n
    /\ tm' = (tm \/ last)
    /\ IF last THEN Handle(TRUE, fc, tmap') ELSE UNCHANGED reply
    /\ UNCHANGED <<envVars, up, pc, listed, fc, kept>>

\* The callback of a listing with the new counter and whether the map is handed
\* on: every name is stat'ed, and one that is gone ends node.
ListingCallback(d, n, last) ==
    /\ up /\ req[d] = "data"
    /\ IF listed[d] \subseteq Names(d)
         THEN /\ req' = [req EXCEPT ![d] = "settled"]
              /\ tmap' = tmap \cup listed[d]
              /\ count' = n
              /\ tm' = (tm \/ last)
              /\ IF last THEN Handle(TRUE, fc, tmap') ELSE UNCHANGED reply
              /\ UNCHANGED up
         ELSE up' = FALSE /\ UNCHANGED <<req, tmap, count, tm, reply>>
    /\ UNCHANGED <<envVars, pc, listed, fc, kept>>

\* Variants with a bug, for the mutation runs: a counter that both branches
\* decrement; the test before the decrement.
ReaddirCallbackCountsTwice(d) == ListingCallback(d, count - 2, count - 2 = 0)
ReaddirCallbackLate(d) == ListingCallback(d, count - 1, count = 0)
ReaddirCallback(d) == ListingCallback(d, count - 1, count - 1 = 0)

ReadFileCallback ==
    /\ up /\ req["stat"] = "data"
    /\ req' = [req EXCEPT !["stat"] = "settled"]
    /\ fc' = TRUE
    /\ Handle(tm, TRUE, tmap)
    /\ UNCHANGED <<envVars, up, pc, listed, count, tmap, tm, kept>>

-----------------------------------------------------------------------------
(* The call without a callback: the directories one after the other, then  *)
(* the stat file.  A directory that does not exist is skipped.             *)

CallSync ==
    /\ up /\ pc = "new" /\ pc' = "syncDev"
    /\ UNCHANGED <<envVars, up, req, listed, count, tmap, tm, fc, reply, kept>>

Throw == CallBack(TRUE, NoTerm) /\ pc' = "thrown"

NextDir == [syncDev |-> "dev", syncPts |-> "pts"]

SyncReaddir ==
    /\ pc \in DOMAIN NextDir
    /\ LET d == NextDir[pc] IN
       \/ /\ d = "dev" \/ mounted
          /\ listed' = [listed EXCEPT ![d] = Names(d)]
          /\ pc' = IF d = "dev" THEN "statDev" ELSE "statPts"
          /\ UNCHANGED reply
       \/ /\ d = "pts" /\ ~mounted
          /\ pc' = "syncRead"
          /\ UNCHANGED <<listed, reply>>
       \/ Throw /\ UNCHANGED listed
    /\ UNCHANGED <<envVars, up, req, count, tmap, tm, fc, kept>>

StatDir == [statDev |-> "dev", statPts |-> "pts"]

SyncStat ==
    /\ pc \in DOMAIN StatDir
    /\ LET d == StatDir[pc] IN
       IF listed[d] \subseteq Names(d)
         THEN /\ tmap' = tmap \cup listed[d]
              /\ pc' = IF d = "dev" THEN "syncPts" ELSE "syncRead"
              /\ UNCHANGED reply
         ELSE Throw /\ UNCHANGED tmap
    /\ UNCHANGED <<envVars, up, req, listed, count, tm, fc, kept>>

SyncRead ==
    /\ pc = "syncRead"
    /\ \/ alive /\ CallBackWithTerm(tmap) /\ pc' = "returned"
       \/ Throw
    /\ UNCHANGED <<envVars, up, req, listed, count, tmap, tm, fc, kept>>

-----------------------------------------------------------------------------
Next ==
    \/ \E p \in Ptys : PtyOpens(p) \/ PtyCloses(p)
    \/ Exit
    \/ CallAsync \/ ReadFileExec \/ ReadFileCallback
    \/ \E d \in Dirs : ReaddirExec(d) \/ ReaddirCallback(d)
    \/ \E r \in RequestNames : ErrorCallback(r)
    \/ CallSync \/ SyncReaddir \/ SyncStat \/ SyncRead

\* The pool and the event loop go on as long as node is up.
Fairness ==
    /\ WF_vars(ReadFileExec) /\ WF_vars(ReadFileCallback)
    /\ \A d \in Dirs : WF_vars(ReaddirExec(d)) /\ WF_vars(ReaddirCallback(d))
    /\ \A r \in RequestNames : WF_vars(ErrorCallback(r))
    /\ WF_vars(SyncReaddir) /\ WF_vars(SyncStat) /\ WF_vars(SyncRead)

Spec == Init /\ [][Next]_vars /\ Fairness

-----------------------------------------------------------------------------
Settled == {r \in RequestNames : req[r] = "settled"}
Successes == {k \in DOMAIN reply : ~reply[k].err}

TypeOK ==
    /\ alive \in BOOLEAN /\ mounted \in BOOLEAN /\ up \in BOOLEAN /\ spaced \in BOOLEAN
    /\ tm \in BOOLEAN /\ fc \in BOOLEAN /\ kept \in BOOLEAN
    /\ tty \in Terms /\ ptys \in SUBSET Ptys /\ tmap \in SUBSET Terms
    /\ pc \in {"new", "async", "syncDev", "statDev", "syncPts", "statPts", "syncRead",
               "returned", "thrown"}
    /\ req \in [RequestNames -> {"none", "queued", "data", "error", "settled"}]
    /\ listed \in [Dirs -> SUBSET Terms]
    /\ count \in 0..2
    /\ reply \in Seq([err : BOOLEAN, term : Terms \cup {NoTerm}])

\* A success is the only answer the caller ever gets, and it comes after all
\* three requests have been settled: the two joins, nested, are one join of
\* three as far as success goes.
SuccessIsTheOnlyAnswer ==
    Successes # {} /\ pc = "async" => Len(reply) = 1 /\ Settled = RequestNames

\* A terminal that was there all along is found, in either form of the call,
\* unless the name of the process has a space in it.
KeptTerminalIsNamed == kept /\ ~spaced => \A k \in Successes : reply[k].term = tty

\* Once called, terminal answers, unless node dies first.
Answered == (pc \in {"async", "syncDev"}) ~> (reply # <<>> \/ ~up)

\* The comment above __proto_terminal_handle: the callback is run after both
\* asynchronous operations have ended.  False in the code: an error of one
\* calls back while the other is still running.
CallbackAfterBothEnded == pc = "async" /\ reply # <<>> => Settled = RequestNames

-----------------------------------------------------------------------------
(* The inductive invariant that the theorems of Terminal_proofs rest on.   *)

Flag(b) == IF b THEN 1 ELSE 0
IsSettled(r) == Flag(req[r] = "settled")

\* While the process and its terminal stay, the terminal has its name.
EnvInv ==
    /\ ~mounted => ptys = {}
    /\ kept => alive /\ tty \in Consoles \cup ptys

\* The two joins: the counter is of the listings that arrived, and every
\* request that has been settled did one of three things - it was counted, it
\* brought the stat file, or it answered with an error.
JoinInv ==
    /\ pc = "async" =>
          /\ 2 - count <= IsSettled("dev") + IsSettled("pts")
          /\ tm <=> count = 0
          /\ fc => req["stat"] = "settled"
          /\ Successes # {} => tm /\ fc
          /\ IsSettled("dev") + IsSettled("pts") + IsSettled("stat") + Flag(tm /\ fc)
                = (2 - count) + Flag(fc) + Len(reply)
    /\ pc # "async" => \A r \in RequestNames : req[r] = "none"
    /\ pc = "new" => count = 2 /\ ~tm /\ ~fc
    /\ pc \notin {"async", "returned", "thrown"} => reply = <<>>

\* The directory that names the terminal, and the other one.
Home == IF tty \in Consoles THEN "dev" ELSE "pts"
Other == IF tty \in Consoles THEN "pts" ELSE "dev"

\* A terminal that stays is in the listing of its directory, and is missing in
\* the map only if that listing has not been counted.
MapInv ==
    kept =>
        /\ req[Home] = "data" => tty \in listed[Home]
        /\ pc = "async" /\ tty \notin tmap => 2 - count <= IsSettled(Other)
        /\ pc = "statDev" /\ tty \in Consoles => tty \in listed["dev"]
        /\ pc \in {"syncPts", "statPts"} /\ tty \in Consoles => tty \in tmap
        /\ pc = "statPts" /\ tty \notin Consoles => tty \in listed["pts"]
        /\ pc = "syncRead" => tty \in tmap

IInv == TypeOK /\ EnvInv /\ JoinInv /\ MapInv /\ KeptTerminalIsNamed
================================================================================
