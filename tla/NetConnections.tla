----------------------------- MODULE NetConnections -----------------------------
(***************************************************************************)
(* netConnections and proto.connections of src/nsutil/nslinux.js: find out *)
(* which process holds each socket by walking every /proc/<pid>/fd, then   *)
(* read the kernel's socket tables and join the two on the inode number.   *)
(*                                                                         *)
(* The walk is synchronous but everything it looks at goes on changing     *)
(* between its system calls: processes exit, descriptors close, sockets    *)
(* are opened, and shared by fork.  The descriptors of a process of        *)
(* another user cannot be listed.  A row of a table is abstracted to its   *)
(* socket; addresses, ports and states are copied through.                 *)
(***************************************************************************)
EXTENDS Integers, FiniteSets, Sequences, Functions

CONSTANTS
    Procs,    \* process ids
    Fds,      \* descriptors of a process
    Socks,    \* sockets, named by their inode
    TableOf,  \* the /proc/net file that lists a socket
    Kinds,    \* the kinds the program may ask for, NoKind among them
    NoKind,   \* no kind is given
    Closed,   \* a descriptor that is not open
    File,     \* a descriptor that is open on something else than a socket
    NoPid,    \* no filter on a process; no owner found (pid null, fd -1)
    MaxChanges \* bound: how often the rest of the system may move in a behaviour

ASSUME ProcsAssumption == Procs \subseteq Nat \ {0} /\ Fds \subseteq Nat /\ NoPid \notin Procs
                         /\ MaxChanges \in Nat

\* The numbers of common.js, on the one hand of a family, on the other of types.
AF_UNIX == 1
SOCK_STREAM == 1
SOCK_DGRAM == 2

tmap == [all   |-> <<"tcp", "tcp6", "udp", "udp6", "unix">>,
         tcp   |-> <<"tcp", "tcp6">>, tcp4 |-> <<"tcp">>, tcp6 |-> <<"tcp6">>,
         udp   |-> <<"udp", "udp6">>, udp4 |-> <<"udp">>, udp6 |-> <<"udp6">>,
         unix  |-> <<"unix">>,
         inet  |-> <<"tcp", "tcp6", "udp", "udp6">>,
         inet4 |-> <<"tcp", "tcp6">>, inet6 |-> <<"tcp6", "udp6">>]

TypeOf == [tcp |-> SOCK_STREAM, tcp6 |-> SOCK_STREAM, udp |-> SOCK_DGRAM, udp6 |-> SOCK_DGRAM]

\* process_inet returns at once for a file whose name ends in 6.
Ipv6Tables == {"tcp6", "udp6"}

Files == {"tcp", "tcp6", "udp", "udp6", "unix"}

ASSUME TablesAssumption == TableOf \in [Socks -> Files]
ASSUME SocksAssumption == Closed \notin Socks /\ File \notin Socks \cup {Closed}

VARIABLES
    table,   \* the descriptor table of every process; a dead one has none open
    alive,   \* the processes that exist
    denied,  \* those of another user, whose descriptors cannot be read
    starved, \* node's descriptor table has been full during the call
    changes, \* how often the rest of the system has moved
    pc,      \* how far the call is
    kind,    \* the kind asked for; "inet" if none was
    filter,  \* the process asked for, or NoPid
    pids,    \* processes still to walk
    cur,     \* the process being walked
    fds,     \* its descriptors still to look at
    fd,      \* the descriptor at hand
    inodes,  \* socket -> the pairs of process and descriptor found to hold it, in turn
    todo,    \* socket tables still to read
    ret,     \* the rows found
    ever, kept, \* history: triples held during the call, and readable all along it
    lost     \* history: a descriptor was closed, a process to be walked was missing
             \* or denied, or descriptors ran out

sysVars == <<table, alive, denied, starved, changes>>
askVars == <<kind, filter>>
history == <<ever, kept, lost>>
vars == <<sysVars, pc, askVars, pids, cur, fds, fd, inodes, todo, ret, history>>

Triples == Procs \X Fds \X Socks
Holding == {x \in Triples : table[x[1]][x[2]] = x[3]}
Readable == {x \in Holding : x[1] \notin denied}
Existing == {x[3] : x \in Holding}

Running == pc \in {"pids", "walk", "exists", "readlink", "tables"}

Init ==
    /\ alive \in SUBSET Procs /\ denied \in SUBSET alive
    /\ table \in [Procs -> [Fds -> Socks \cup {Closed, File}]]
    /\ \A p \in Procs \ alive : \A f \in Fds : table[p][f] = Closed
    /\ starved = FALSE /\ changes = 0
    /\ pc = "new" /\ kind = "inet" /\ filter = NoPid
    /\ pids = {} /\ cur = 0 /\ fds = {} /\ fd = 0
    /\ inodes = [s \in Socks |-> <<>>]
    /\ todo = <<>> /\ ret = {}
    /\ ever = {} /\ kept = {} /\ lost = FALSE

-----------------------------------------------------------------------------
(* The rest of the system moves, and the call takes note.  Moves before the *)
(* call are covered by Init, and moves after it show nothing.               *)

Observe(losing) ==
    /\ Running /\ changes < MaxChanges /\ changes' = changes + 1
    /\ ever' = ever \cup Holding'
    /\ kept' = kept \cap Readable'
    /\ lost' = (lost \/ losing)
    /\ UNCHANGED <<pc, askVars, pids, cur, fds, fd, inodes, todo, ret>>

Set(p, f, x) == table' = [table EXCEPT ![p][f] = x] /\ UNCHANGED <<alive, denied, starved>>

OpenSocket(p, f, s) ==
    /\ p \in alive /\ table[p][f] = Closed /\ s \notin Existing
    /\ Set(p, f, s) /\ Observe(FALSE)

\* A second descriptor for what the first one refers to: by dup, or sent to
\* another process.
Dup(p, f, q, g) ==
    /\ table[p][f] # Closed /\ q \in alive /\ table[q][g] = Closed
    /\ Set(q, g, table[p][f]) /\ Observe(FALSE)

\* A child starts with its parent's descriptors and owner.
Fork(p, q) ==
    /\ p \in alive /\ q \notin alive
    /\ alive' = alive \cup {q}
    /\ denied' = IF p \in denied THEN denied \cup {q} ELSE denied \ {q}
    /\ table' = [table EXCEPT ![q] = table[p]] /\ UNCHANGED starved /\ Observe(FALSE)

Close(p, f) ==
    /\ table[p][f] # Closed
    /\ Set(p, f, Closed) /\ Observe(TRUE)

Exit(p) ==
    /\ p \in alive /\ alive' = alive \ {p} /\ denied' = denied \ {p}
    /\ table' = [table EXCEPT ![p] = [f \in Fds |-> Closed]]
    /\ UNCHANGED starved /\ Observe(TRUE)

\* A process becomes another user's, as one that executes a set-uid program
\* does, or is so no longer.
ChangeOwner(p) ==
    /\ p \in alive
    /\ denied' = (IF p \in denied THEN denied \ {p} ELSE denied \cup {p})
    /\ UNCHANGED <<table, alive, starved>> /\ Observe(p \notin denied)

\* Other parts of the program have files open too.  From here on each open of
\* the call may fail.
Starve ==
    /\ ~starved /\ starved' = TRUE
    /\ UNCHANGED <<table, alive, denied>> /\ Observe(TRUE)

-----------------------------------------------------------------------------
(* The call.                                                                *)

Default(k) == IF k = NoKind THEN "inet" ELSE k

\* retrieve(kind, pid), which returns nothing for a kind it does not know.
Retrieve(k, p) ==
    /\ pc = "new"
    /\ kind' = k /\ filter' = p
    /\ ever' = Holding /\ kept' = Readable
    /\ lost' = IF p = NoPid THEN alive \cap denied # {} ELSE p \notin alive \ denied
    /\ IF k \notin DOMAIN tmap THEN pc' = "undefined" /\ UNCHANGED <<pids, todo>>
       ELSE /\ todo' = tmap[k]
            /\ IF p = NoPid THEN pc' = "pids" /\ UNCHANGED pids
                            ELSE pc' = "walk" /\ pids' = {p}
    /\ UNCHANGED <<sysVars, cur, fds, fd, inodes, ret>>

NetConnections(k) == Retrieve(Default(k), NoPid)
Connections(p, k) == Retrieve(Default(k), p)

\* get_all_inodes: the processes there are now.
Pids ==
    /\ pc = "pids"
    /\ \/ pc' = "walk" /\ pids' = alive
       \/ starved /\ pc' = "thrown" /\ UNCHANGED pids
    /\ UNCHANGED <<sysVars, askVars, cur, fds, fd, inodes, todo, ret, history>>

\* readdirSync of a process's descriptors, which throws, and the whole call
\* with it, if the process has gone since pids() or is another user's.
Listing(p) ==
    /\ cur' = p
    /\ \/ /\ p \in alive \ denied
          /\ fds' = {f \in Fds : table[p][f] # Closed} /\ pc' = "exists"
       \/ /\ p \notin alive \ denied \/ starved
          /\ pc' = "thrown" /\ UNCHANGED fds

\* get_proc_inodes of the next process, highest pid first.
ListFds(p) ==
    /\ pc = "walk" /\ p \in pids /\ \A q \in pids : q <= p
    /\ pids' = pids \ {p} /\ Listing(p)
    /\ UNCHANGED <<sysVars, askVars, fd, inodes, todo, ret, history>>

\* existsSync of the next descriptor.
Exists(f) ==
    /\ pc = "exists" /\ f \in fds /\ \A g \in fds : f <= g
    /\ fds' = fds \ {f} /\ fd' = f
    /\ pc' = IF table[cur][f] # Closed /\ cur \notin denied THEN "readlink" ELSE "exists"
    /\ UNCHANGED <<sysVars, askVars, pids, cur, inodes, todo, ret, history>>

\* readlinkSync, which throws if the descriptor was closed since existsSync, or
\* the process is no longer the caller's.  (The variant assigns inodes[inode]
\* instead of pushing to it.)
ReadlinkOverwrites ==
    LET x == table[cur][fd] IN
    /\ pc = "readlink"
    /\ IF x = Closed \/ cur \in denied
         THEN pc' = "thrown" /\ UNCHANGED inodes
         ELSE /\ pc' = "exists"
              /\ inodes' = [s \in Socks |-> IF s = x THEN <<<<cur, fd>>>> ELSE inodes[s]]
    /\ UNCHANGED <<sysVars, askVars, pids, cur, fds, fd, todo, ret, history>>
Readlink ==
    LET x == table[cur][fd] IN
    /\ pc = "readlink"
    /\ IF x = Closed \/ cur \in denied
         THEN pc' = "thrown" /\ UNCHANGED inodes
         ELSE /\ pc' = "exists"
              /\ inodes' = [s \in Socks |->
                              IF s = x THEN Append(inodes[s], <<cur, fd>>) ELSE inodes[s]]
    /\ UNCHANGED <<sysVars, askVars, pids, cur, fds, fd, todo, ret, history>>

NextProc ==
    /\ pc = "exists" /\ fds = {}
    /\ pc' = "walk"
    /\ UNCHANGED <<sysVars, askVars, pids, cur, fds, fd, inodes, todo, ret, history>>

EndWalk ==
    /\ pc = "walk" /\ pids = {}
    /\ pc' = "tables"
    /\ UNCHANGED <<sysVars, askVars, pids, cur, fds, fd, inodes, todo, ret, history>>

Row(s, p, f) == [sock |-> s, pid |-> p, fd |-> f]
UnownedIsPidZero(s) == Row(s, 0, 0)
Unowned(s) == Row(s, NoPid, -1)

\* The pairs that get a row: every one that was found for a unix socket, but
\* only the first for any other.
Chosen(s) == IF TableOf[s] = "unix" THEN Range(inodes[s]) ELSE {inodes[s][1]}

\* The rows of a socket, one without an owner if none was found; with a filter,
\* those of the process asked for.
RowsOfUnfiltered(s) ==
    IF inodes[s] = <<>> THEN {Unowned(s)} ELSE {Row(s, x[1], x[2]) : x \in Chosen(s)}
RowsOf(s) == {r \in RowsOfUnfiltered(s) : filter # NoPid => r.pid = filter}

Listed(file) == {s \in Existing : TableOf[s] = file}

\* process_inet refuses a socket with more than one pair, before the filter,
\* unless its type is AF_UNIX; which, being the same number, SOCK_STREAM is.
\* (The variant is off by one.)
AmbiguousOffByOne(s) ==
    TableOf[s] # "unix" /\ Len(inodes[s]) > 0 /\ TypeOf[TableOf[s]] # AF_UNIX
Ambiguous(s) ==
    TableOf[s] # "unix" /\ Len(inodes[s]) > 1 /\ TypeOf[TableOf[s]] # AF_UNIX

\* process_inet or process_unix of the next table.
ReadTable ==
    /\ pc = "tables" /\ todo # <<>>
    /\ LET file == Head(todo)
           rows == IF file \in Ipv6Tables THEN {} ELSE Listed(file)
       IN  \/ /\ file \notin Ipv6Tables /\ starved
              /\ pc' = "thrown" /\ UNCHANGED <<todo, ret>>
           \/ /\ \E s \in rows : Ambiguous(s)
              /\ pc' = "ambiguous" /\ UNCHANGED <<todo, ret>>
           \/ /\ ~\E s \in rows : Ambiguous(s)
              /\ ret' = ret \cup UNION {RowsOf(s) : s \in rows}
              /\ todo' = Tail(todo)
              /\ UNCHANGED pc
    /\ UNCHANGED <<sysVars, askVars, pids, cur, fds, fd, inodes, history>>

Return ==
    /\ pc = "tables" /\ todo = <<>>
    /\ pc' = "returned"
    /\ UNCHANGED <<sysVars, askVars, pids, cur, fds, fd, inodes, todo, ret, history>>

-----------------------------------------------------------------------------
Begin ==
    \E k \in Kinds : NetConnections(k) \/ \E p \in Procs : Connections(p, k)

CallStep ==
    \/ Begin \/ Pids \/ Readlink \/ NextProc \/ EndWalk \/ ReadTable \/ Return
    \/ \E p \in Procs : ListFds(p)
    \/ \E f \in Fds : Exists(f)

Environment ==
    \/ Starve
    \/ \E p \in Procs :
          \/ Exit(p) \/ ChangeOwner(p)
          \/ \E f \in Fds : \/ Close(p, f)
                            \/ \E s \in Socks : OpenSocket(p, f, s)
                            \/ \E q \in Procs, g \in Fds : Dup(p, f, q, g)
          \/ \E q \in Procs : Fork(p, q)

Next == CallStep \/ Environment

Spec == Init /\ [][Next]_vars

-----------------------------------------------------------------------------
TypeOK ==
    /\ table \in [Procs -> [Fds -> Socks \cup {Closed, File}]]
    /\ pc \in {"new", "pids", "walk", "exists", "readlink", "tables",
               "returned", "undefined", "thrown", "ambiguous"}
    /\ kind \in Kinds \cup {"inet"} /\ filter \in Procs \cup {NoPid}
    /\ lost \in BOOLEAN /\ starved \in BOOLEAN
    /\ alive \in SUBSET Procs /\ denied \in SUBSET Procs
    /\ pids \in SUBSET Procs /\ fds \in SUBSET Fds
    /\ inodes \in [Socks -> Seq(Procs \X Fds)]
    /\ ret \subseteq [sock : Socks, pid : Procs \cup {NoPid}, fd : Fds \cup {-1}]

Wanted(p) == filter \in {NoPid, p}
Asked(x) == Wanted(x[1])
TableRead(x) == /\ TableOf[x[3]] \notin Ipv6Tables
                /\ \E i \in DOMAIN tmap[kind] : tmap[kind][i] = TableOf[x[3]]

\* A socket is attributed only to a process and descriptor that really held it
\* at some time during the call, and only to the process asked for.
OwnersHeldIt ==
    \A r \in ret : \/ r.pid = NoPid /\ filter = NoPid
                   \/ <<r.pid, r.fd, r.sock>> \in ever /\ filter \in {NoPid, r.pid}

\* The socket of a triple is reported with an owner; with the one of this
\* triple, unless it is a TCP socket, of which one holder stands for all.
Reported(x) ==
    /\ \E r \in ret : r.sock = x[3] /\ r.pid # NoPid
    /\ TableOf[x[3]] # "tcp" => Row(x[3], x[1], x[2]) \in ret

\* A socket that the same descriptor held during the whole call, and whose
\* table was read, is reported, although the walk and the tables are read at
\* different times.
KeptIsReported == pc = "returned" => \A x \in kept : Asked(x) /\ TableRead(x) => Reported(x)

\* The rows returned lie between the two: the walk over the processes and the
\* tables read after it are matched without inventing an owner, or losing the
\* last one.
BetweenThroughoutAndEver == OwnersHeldIt /\ KeptIsReported

\* The call gives up only if some process to be walked or some descriptor went
\* away under it, or could not be read ("thrown": 301, 314, 321, 401), or if two
\* descriptors asked for held the same UDP socket during it ("ambiguous", 418);
\* not because of one descriptor that was found twice.
GivingUpHasCause ==
    /\ pc = "ambiguous" =>
          \E x, y \in ever : /\ x # y /\ x[3] = y[3] /\ TableOf[x[3]] = "udp"
                             /\ Asked(x) /\ Asked(y)
    /\ pc = "thrown" => lost

\* What the error of process_inet says (417-418): an internet socket that two
\* descriptors hold is refused.  False in the code, for a TCP socket.
SharedIsRefused ==
    pc = "returned" =>
        \A x, y \in kept :
            /\ x[3] = y[3] /\ Asked(x) /\ Asked(y) /\ TableRead(x) /\ TableOf[x[3]] # "unix"
            => x = y

-----------------------------------------------------------------------------
(* The inductive invariant that the theorems of NetConnections_proofs rest *)
(* on.                                                                     *)

\* A process that does not exist holds nothing; the history is of this table.
SystemInv ==
    /\ \A p \in Procs \ alive : \A f \in Fds : table[p][f] = Closed
    /\ kept \subseteq Readable /\ ever \subseteq Triples
    /\ pc # "new" => Holding \subseteq ever

\* Where the walk is, and that it gets on as long as nothing was lost.
PlaceInv ==
    /\ Running => kind \in DOMAIN tmap
    /\ pc \in {"exists", "readlink"} => cur \in Procs \ pids /\ Wanted(cur)
    /\ pc = "readlink" => fd \in Fds \ fds
    /\ pc \in {"new", "pids"} => pids = {}
    /\ pc = "pids" => filter = NoPid
    /\ \A p \in pids : Wanted(p)
    /\ pc = "new" => ~starved
    /\ ~lost => /\ ~starved
                /\ pc = "pids" => alive \cap denied = {}
                /\ pids \subseteq alive \ denied
                /\ pc \in {"exists", "readlink"} => cur \in alive \ denied
                /\ pc = "readlink" => table[cur][fd] # Closed

\* What was found was there, is asked for, and was found once: the walk does
\* not come back to it.
FoundOnce(s, i) ==
    LET x == inodes[s][i] IN
    /\ <<x[1], x[2], s>> \in ever /\ Wanted(x[1])
    /\ \A j \in 1..Len(inodes[s]) : inodes[s][j] = x => j = i
    /\ pc \in {"walk", "exists", "readlink"} => x[1] \notin pids
    /\ pc \in {"exists", "readlink"} /\ x[1] = cur => x[2] \notin fds
    /\ pc = "readlink" /\ x[1] = cur => x[2] # fd
FoundInv ==
    /\ pc \in {"new", "pids"} => \A s \in Socks : inodes[s] = <<>>
    /\ \A s \in Socks : \A i \in 1..Len(inodes[s]) : FoundOnce(s, i)
    /\ ret = {} \/ pc \in {"tables", "returned", "thrown", "ambiguous"}

\* A triple that is to be reported has been found, or is still ahead of the walk.
WalkInv ==
    \A x \in kept : Asked(x) =>
        \/ <<x[1], x[2]>> \in Range(inodes[x[3]])
        \/ pc \in {"new", "pids", "thrown", "undefined"}
        \/ pc \in {"walk", "exists", "readlink"} /\ x[1] \in pids
        \/ pc \in {"exists", "readlink"} /\ x[1] = cur /\ x[2] \in fds
        \/ pc = "readlink" /\ x[1] = cur /\ x[2] = fd

\* Its table is still to be read, or its row is there.
TablesInv ==
    /\ todo \in Seq(Files)
    /\ pc \in {"pids", "walk", "exists", "readlink"} => todo = tmap[kind]
    /\ pc = "returned" => todo = <<>>
    /\ pc \in {"tables", "returned"} =>
          \A x \in kept :
              Asked(x) /\ TableRead(x) =>
                  (\E i \in 1..Len(todo) : todo[i] = TableOf[x[3]]) \/ Reported(x)

IInv == /\ TypeOK /\ SystemInv /\ PlaceInv /\ FoundInv /\ WalkInv /\ TablesInv
        /\ OwnersHeldIt /\ GivingUpHasCause
================================================================================
