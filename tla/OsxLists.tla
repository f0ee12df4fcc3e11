-------------------------------- MODULE OsxLists --------------------------------
(***************************************************************************)
(* The OS X functions that copy a table out of the kernel: pids            *)
(* (sutil_get_proc_list), open_files, num_fds, connections,                *)
(* net_io_counters and disk_partitions, with their wrappers and their      *)
(* callers in nsosx.js.                                                    *)
(*                                                                         *)
(* Each asks for the size, allocates, and asks again with the buffer.  The *)
(* table changes in between, and the six differ in what they then do:      *)
(* the process list adds an eighth and tries up to eight times, the        *)
(* interface list fails, and a list of descriptors or mounts is silently   *)
(* cut.  open_files and connections then look at every descriptor listed,  *)
(* which may have been closed or reused by then.                           *)
(*                                                                         *)
(* A table maps slots (process ids, interface indices, mounts,             *)
(* descriptors) to objects; sizes are in entries.                          *)
(***************************************************************************)
EXTENDS Integers, FiniteSets

CONSTANTS
    Slots,     \* the slots of the table that is read
    Objects,   \* what may be in a slot
    FamilyOf,  \* "vnode", or the family of a socket, or "other"
    Free,      \* an empty slot
    Functions, \* the functions the program calls
    Attempts,  \* tries of sutil_get_proc_list: 8 in the code
    Eighth     \* size >> 3 adds size \div 8 in the code

Families == {"vnode", "inet", "inet6", "unix", "other"}

ASSUME SlotsAssumption == IsFiniteSet(Slots) /\ Slots \subseteq Nat /\ Free \notin Objects
ASSUME FamilyAssumption == FamilyOf \in [Objects -> Families]
ASSUME BoundsAssumption == Attempts \in Nat \ {0} /\ Eighth \in Nat \ {0}

\* The functions that list the descriptors of a process.
FdFunctions == {"open_files", "num_fds", "connections"}

ASSUME FunctionsAssumption == Functions \subseteq FdFunctions \cup {"pids", "net_io", "partitions"}

VARIABLES
    table,   \* the kernel's table
    alive,   \* the observed process exists
    fn,      \* the function that is called
    pc,      \* how far it is
    size,    \* entries the buffer has room for
    lim,     \* tries left
    listed,  \* slot -> family of its entry in the buffer, for those it has
    todo,    \* slots of the buffer still to look at
    found,   \* the pairs of slot and object found
    bufs,    \* buffers allocated and not freed
    leaked,  \* proc_conn objects that nothing points to any more
    answer,  \* what JavaScript gets: "none", "list" or "failure"
    ever, kept, \* history: pairs in the table during the call, and all along it
    opened,  \* history: a slot was filled since the size was asked for
    starts,  \* history: slots filled during the call, up to Attempts
    refused  \* history: the kernel or malloc refused a request

callVars == <<pc, size, lim, listed, todo, found, bufs, leaked, answer>>
history == <<ever, kept, opened, starts, refused>>
vars == <<table, alive, fn, callVars, history>>

Pairs(t) == {<<s, t[s]>> : s \in {r \in Slots : t[r] # Free}}
Used == {s \in Slots : table[s] # Free}
N == Cardinality(Used)

Running == pc \notin {"new", "done"}

\* There is always a process, and a file system mounted on the root.
Tables == {t \in [Slots -> Objects \cup {Free}] :
             fn \in {"pids", "partitions"} => \E s \in Slots : t[s] # Free}

Init ==
    /\ fn \in Functions
    /\ table \in Tables
    /\ alive = TRUE /\ pc = "new" /\ size = 0 /\ lim = Attempts
    /\ listed = [s \in {} |-> "other"] /\ todo = {} /\ found = {}
    /\ bufs = 0 /\ leaked = 0 /\ answer = "none"
    /\ ever = {} /\ kept = {} /\ opened = FALSE /\ starts = 0 /\ refused = FALSE

-----------------------------------------------------------------------------
(* The kernel's table changes under a call.                                *)

Observe ==
    /\ ever' = ever \cup Pairs(table')
    /\ kept' = kept \cap Pairs(table')
    /\ UNCHANGED <<fn, callVars, refused>>

Fill(s, o) ==
    /\ Running /\ alive /\ table[s] = Free
    /\ table' = [table EXCEPT ![s] = o]
    /\ opened' = TRUE
    /\ starts' = IF starts < Attempts THEN starts + 1 ELSE starts
    /\ UNCHANGED alive /\ Observe

Clear(s) ==
    /\ Running /\ table[s] # Free
    /\ table' = [table EXCEPT ![s] = Free]
    /\ table' \in Tables
    /\ UNCHANGED <<alive, opened, starts>> /\ Observe

Exit ==
    /\ Running /\ alive /\ fn \in FdFunctions
    /\ alive' = FALSE
    /\ table' = [s \in Slots |-> Free]
    /\ UNCHANGED <<opened, starts>> /\ Observe

-----------------------------------------------------------------------------
(* The call.                                                               *)

Call ==
    /\ pc = "new" /\ pc' = "size"
    /\ ever' = Pairs(table) /\ kept' = Pairs(table)
    /\ UNCHANGED <<table, alive, fn, size, lim, listed, todo, found, bufs, leaked, answer,
                   opened, starts, refused>>

\* A failure is undefined, or -1 for num_fds, and to a callback too: its error
\* is always null.  The wrapper of connections does not look at the return
\* value: what was found before an error is the answer.
Answer(failure) ==
    /\ pc' = "done"
    /\ answer' = IF failure /\ fn # "connections" THEN "failure" ELSE "list"

Cause(c) == refused' = (refused \/ c)

\* The first request: the size is known and the buffer allocated.  If malloc
\* refuses the larger one, the process list is tried with the exact size.
AskSize ==
    /\ pc = "size" /\ (fn \in FdFunctions => N > 0)
    /\ size' \in IF fn = "pids" THEN {N + N \div Eighth, N} ELSE {N}
    /\ bufs' = bufs + 1
    /\ opened' = FALSE
    /\ pc' = "read"
    /\ UNCHANGED <<table, alive, fn, lim, listed, todo, found, leaked, answer,
                   ever, kept, starts, refused>>

\* The first request or malloc fails; a process without descriptors, or that
\* is gone, is a failure too.  (The variant frees what was never allocated.)
AskSizeFailsFrees ==
    /\ pc = "size"
    /\ Cause(~(fn \in FdFunctions /\ N = 0))
    /\ bufs' = bufs - 1
    /\ Answer(TRUE)
    /\ UNCHANGED <<table, alive, fn, size, lim, listed, todo, found, leaked,
                   ever, kept, opened, starts>>
AskSizeFails ==
    /\ pc = "size"
    /\ Cause(~(fn \in FdFunctions /\ N = 0))
    /\ Answer(TRUE)
    /\ UNCHANGED <<table, alive, fn, size, lim, listed, todo, found, bufs, leaked,
                   ever, kept, opened, starts>>

\* The process list has outgrown the buffer (ENOMEM): free it and try again.
Retry(left) ==
    /\ pc = "read" /\ fn = "pids" /\ N > size
    /\ bufs' = bufs - 1
    /\ lim' = left
    /\ IF left = 0 THEN Answer(TRUE) ELSE pc' = "size" /\ UNCHANGED answer
    /\ UNCHANGED <<table, alive, fn, size, listed, todo, found, leaked, history>>

\* Variants with a bug, for the mutation runs: a retry that is not counted; one
\* try less.
TooSmallUncounted == Retry(lim)
TooSmallOneLess == Retry(IF lim = 2 THEN 0 ELSE lim - 1)
TooSmall == Retry(lim - 1)

\* The whole table fits: the process list and the interface list are done.
\* (The variant takes what fits.)
ReadAllTruncating ==
    /\ pc = "read" /\ fn \in {"pids", "net_io"}
    /\ found' = {<<s, table[s]>> : s \in {r \in Used : Cardinality({q \in Used : q < r}) < size}}
    /\ bufs' = bufs - 1
    /\ Answer(FALSE)
    /\ UNCHANGED <<table, alive, fn, size, lim, listed, todo, leaked, history>>
ReadAll ==
    /\ pc = "read" /\ fn \in {"pids", "net_io"} /\ N <= size
    /\ found' = Pairs(table)
    /\ bufs' = bufs - 1
    /\ Answer(FALSE)
    /\ UNCHANGED <<table, alive, fn, size, lim, listed, todo, leaked, history>>

\* The lowest descriptors that fit: the others are cut off without a word.
Prefix(S, n) == {s \in S : Cardinality({r \in S : r < s}) < n}

ReadFds ==
    /\ pc = "read" /\ fn \in FdFunctions /\ N > 0
    /\ listed' = [s \in Prefix(Used, size) |-> FamilyOf[table[s]]]
    /\ IF fn = "num_fds"
         THEN Answer(FALSE) /\ bufs' = bufs - 1 /\ UNCHANGED todo
         ELSE pc' = "loop" /\ todo' = Prefix(Used, size) /\ UNCHANGED <<bufs, answer>>
    /\ UNCHANGED <<table, alive, fn, size, lim, found, leaked, history>>

\* The mounts that fit, in the same way.
ReadMounts ==
    /\ pc = "read" /\ fn = "partitions"
    /\ found' = {<<s, table[s]>> : s \in Prefix(Used, size)}
    /\ bufs' = bufs - 1
    /\ Answer(FALSE)
    /\ UNCHANGED <<table, alive, fn, size, lim, listed, todo, leaked, history>>

\* The second request fails: the interface list is too long for the buffer, the
\* process is gone, or for a reason of the kernel's.
ReadFails ==
    /\ pc = "read"
    /\ Cause(~(fn = "net_io" /\ N > size) /\ ~(fn \in FdFunctions /\ N = 0))
    /\ bufs' = bufs - 1
    /\ Answer(TRUE)
    /\ UNCHANGED <<table, alive, fn, size, lim, listed, todo, found, leaked,
                   ever, kept, opened, starts>>

-----------------------------------------------------------------------------
(* open_files and connections: one descriptor after the other.             *)

Sockets == {"inet", "inet6", "unix", "other"}
Looked == IF fn = "open_files" THEN {"vnode"} ELSE Sockets

\* CONN_FAMILY_AND_TYPE.all has 2, 10 and 1; AF_INET6 is 30 on this system.
AfFilter == {"inet", "unix"}
Wanted == IF fn = "open_files" THEN {"vnode"} ELSE AfFilter

Next1(s) == pc = "loop" /\ s \in todo /\ \A r \in todo : s <= r

Advance(s) ==
    /\ todo' = todo \ {s}
    /\ UNCHANGED <<table, alive, fn, pc, size, lim, listed, bufs, answer, history>>

\* An entry of another type than the function looks for.
Skip(s) ==
    /\ Next1(s) /\ listed[s] \notin Looked
    /\ Advance(s) /\ UNCHANGED <<found, leaked>>

\* The descriptor still is of that type.  A socket of an unwanted family is
\* passed over with "continue", past the delete of its proc_conn.  (In the
\* variant nothing deletes it.)
Family(s) == FamilyOf[table[s]]
IsStill(s) == listed[s] \in Looked /\ table[s] # Free /\ Family(s) \in Looked

LookLeaks(s) ==
    /\ Next1(s) /\ IsStill(s)
    /\ found' = IF Family(s) \in Wanted THEN found \cup {<<s, table[s]>>} ELSE found
    /\ leaked' = IF fn = "connections" THEN leaked + 1 ELSE leaked
    /\ Advance(s)
Look(s) ==
    /\ Next1(s) /\ IsStill(s)
    /\ IF Family(s) \in Wanted
         THEN found' = found \cup {<<s, table[s]>>} /\ UNCHANGED leaked
         ELSE leaked' = leaked + 1 /\ UNCHANGED found
    /\ Advance(s)

\* It has been closed, or reused for something else (EBADF): the same.  (The
\* variant misses the error and takes what the last request has left behind.)
LookClosedStale(s) ==
    /\ Next1(s) /\ listed[s] \in Looked /\ alive /\ ~IsStill(s)
    /\ found' = found \cup {<<s, x[2]>> : x \in found}
    /\ Advance(s) /\ UNCHANGED leaked
LookClosed(s) ==
    /\ Next1(s) /\ listed[s] \in Looked /\ alive /\ ~IsStill(s)
    /\ leaked' = IF fn = "connections" THEN leaked + 1 ELSE leaked
    /\ Advance(s) /\ UNCHANGED found

\* The process is gone, or the kernel refuses to tell: the call fails.
LookFails(s) ==
    /\ Next1(s) /\ listed[s] \in Looked
    /\ Cause(alive)
    /\ bufs' = bufs - 1
    /\ Answer(TRUE)
    /\ UNCHANGED <<table, alive, fn, size, lim, listed, todo, found, leaked,
                   ever, kept, opened, starts>>

Finish ==
    /\ pc = "loop" /\ todo = {}
    /\ bufs' = bufs - 1
    /\ Answer(FALSE)
    /\ UNCHANGED <<table, alive, fn, size, lim, listed, todo, found, leaked, history>>

-----------------------------------------------------------------------------
CallStep ==
    \/ Call \/ AskSize \/ AskSizeFails \/ TooSmall \/ ReadAll \/ ReadFds \/ ReadMounts
    \/ ReadFails \/ Finish
    \/ \E s \in Slots : Skip(s) \/ Look(s) \/ LookClosed(s) \/ LookFails(s)

Environment ==
    \/ \E s \in Slots : Clear(s) \/ \E o \in Objects : Fill(s, o)
    \/ Exit

Next == CallStep \/ Environment

\* The thread that is in the call goes on.
Spec == Init /\ [][Next]_vars /\ WF_vars(CallStep)

-----------------------------------------------------------------------------
TypeOK ==
    /\ table \in [Slots -> Objects \cup {Free}] /\ alive \in BOOLEAN
    /\ fn \in Functions
    /\ pc \in {"new", "size", "read", "loop", "done"}
    /\ answer \in {"none", "list", "failure"}
    /\ size \in Nat /\ lim \in 0..Attempts /\ bufs \in Nat /\ leaked \in Nat
    /\ todo \subseteq DOMAIN listed /\ DOMAIN listed \subseteq Slots
    /\ found \subseteq Slots \X Objects /\ ever \subseteq Slots \X Objects
    /\ kept \subseteq ever
    /\ opened \in BOOLEAN /\ starts \in 0..Attempts /\ refused \in BOOLEAN

\* What an answer lists was there during the call, although a descriptor that
\* was listed as one thing may be another when it is looked at.
FoundWasThere == found \subseteq ever

\* What was there all along is in the answer, whatever else came and went: for
\* processes and interfaces always; for mounts and descriptors only if none was
\* added between the two requests (the list may be cut), and for connections only
\* if the kernel refused nothing (an error half way is taken for the end).
KeptIsFound ==
    answer = "list" =>
        /\ fn \in {"pids", "net_io"} => kept \subseteq found
        /\ fn = "partitions" /\ ~opened => kept \subseteq found
        /\ fn \in {"open_files", "connections"} /\ ~opened /\ ~refused =>
              \A x \in kept : FamilyOf[x[2]] \in Wanted => x \in found

\* A copy of a table that changes lies between what was in it all along and what
\* was in it at some time of the call.
BetweenThroughoutAndEver == FoundWasThere /\ KeptIsFound

\* Nothing stays allocated after a call but the proc_conn objects of the
\* sockets that were listed and are not in the answer.
HeapBalance ==
    /\ pc = "done" => bufs = 0
    /\ fn = "connections" =>
          leaked = Cardinality({s \in DOMAIN listed \ todo : listed[s] \in Sockets})
                   - Cardinality(found)

\* The process list is given up without a failure of the kernel only if a
\* process has started between the two requests at each of the tries.
GivesUpOnGrowth ==
    fn = "pids" /\ answer = "failure" => refused \/ starts = Attempts

\* A call ends, however the table changes.
CallEnds == Running ~> pc = "done"

-----------------------------------------------------------------------------
(* The inductive invariant that the theorems of OsxLists_proofs rest on.   *)

\* The history is of this table: what was there all along still is.
TableInv ==
    /\ kept \subseteq Pairs(table)
    /\ pc # "new" => Pairs(table) \subseteq ever
    /\ ~alive => \A s \in Slots : table[s] = Free

\* One buffer between the two requests and to the end of the loop; nothing is
\* found or listed before the second request is answered.
PhaseInv ==
    /\ bufs = IF pc \in {"read", "loop"} THEN 1 ELSE 0
    /\ answer = "none" <=> pc # "done"
    /\ pc \in {"new", "size", "read"} => DOMAIN listed = {} /\ found = {} /\ leaked = 0
    /\ pc = "loop" => fn \in {"open_files", "connections"}

\* A table that nothing was added to fits.
RoomInv == pc = "read" /\ ~opened => N <= size

\* Each try that was spent has seen a process start.
TriesInv ==
    fn = "pids" /\ pc \in {"new", "size", "read"} =>
        /\ lim >= 1 /\ starts >= Attempts - lim
        /\ pc = "read" /\ opened => starts > Attempts - lim

\* What was there all along is listed as what it is; it is found once its
\* descriptor has been looked at.
ListInv ==
    /\ \A x \in kept : x[1] \in DOMAIN listed => listed[x[1]] = FamilyOf[x[2]]
    /\ pc = "loop" /\ ~opened => \A x \in kept : x[1] \in DOMAIN listed
    /\ pc = "loop" => \A x \in kept :
          x[1] \in DOMAIN listed \ todo /\ FamilyOf[x[2]] \in Wanted => x \in found

\* A socket that is found has been looked at.
LookedInv ==
    fn = "connections" => IsFiniteSet(found) /\ \A x \in found : x[1] \in DOMAIN listed \ todo

IInv == /\ TypeOK /\ TableInv /\ PhaseInv /\ RoomInv /\ TriesInv /\ ListInv /\ LookedInv
        /\ BetweenThroughoutAndEver /\ HeapBalance /\ GivesUpOnGrowth
================================================================================
