------------------------- MODULE NetConnections_proofs -------------------------
(***************************************************************************)
(* Theorems about NetConnections, for every set of processes, descriptors  *)
(* and sockets, every assignment of sockets to tables, every kind the      *)
(* program may ask for, and any number of moves of the rest of the system: *)
(* the rows lie between what was held throughout the call and what was     *)
(* held at some time of it (BetweenThroughoutAndEver), and the call gives  *)
(* up only for a cause (GivingUpHasCause).  All of it follows from one     *)
(* inductive invariant, IInv of NetConnections.                            *)
(***************************************************************************)
EXTENDS NetConnections, SequenceTheorems, TLAPS

-----------------------------------------------------------------------------
(* The tables of a kind, and the parts of the invariant.                   *)

\* Each kind is a sequence of files.
LEMMA KindRegular == \A k \in DOMAIN tmap : tmap[k] \in Seq(Files)
<1>1. SUFFICES ASSUME NEW k \in DOMAIN tmap PROVE tmap[k] \in Seq(Files)
  OBVIOUS
<1>2. \A a, b, c, d, e \in Files :
         /\ <<a>> \in Seq(Files) /\ <<a, b>> \in Seq(Files)
         /\ <<a, b, c, d>> \in Seq(Files) /\ <<a, b, c, d, e>> \in Seq(Files)
  OBVIOUS
<1>3. {"tcp", "tcp6", "udp", "udp6", "unix"} \subseteq Files
  BY DEF Files
<1>4. /\ <<"tcp", "tcp6", "udp", "udp6", "unix">> \in Seq(Files)
      /\ <<"tcp", "tcp6", "udp", "udp6">> \in Seq(Files)
      /\ <<"tcp", "tcp6">> \in Seq(Files) /\ <<"udp", "udp6">> \in Seq(Files)
      /\ <<"tcp6", "udp6">> \in Seq(Files)
      /\ <<"tcp">> \in Seq(Files) /\ <<"tcp6">> \in Seq(Files)
      /\ <<"udp">> \in Seq(Files) /\ <<"udp6">> \in Seq(Files) /\ <<"unix">> \in Seq(Files)
  BY <1>2, <1>3
<1>5. k \in {"all", "tcp", "tcp4", "tcp6", "udp", "udp4", "udp6", "unix", "inet", "inet4", "inet6"}
  BY DEF tmap
<1>6. /\ tmap["all"] = <<"tcp", "tcp6", "udp", "udp6", "unix">>
      /\ tmap["inet"] = <<"tcp", "tcp6", "udp", "udp6">>
      /\ tmap["tcp"] = <<"tcp", "tcp6">> /\ tmap["udp"] = <<"udp", "udp6">>
      /\ tmap["inet4"] = <<"tcp", "tcp6">> /\ tmap["inet6"] = <<"tcp6", "udp6">>
      /\ tmap["tcp4"] = <<"tcp">> /\ tmap["tcp6"] = <<"tcp6">>
      /\ tmap["udp4"] = <<"udp">> /\ tmap["udp6"] = <<"udp6">> /\ tmap["unix"] = <<"unix">>
  BY DEF tmap
<1> QED
  BY <1>4, <1>5, <1>6

\* Appending to a sequence adds the element to those in it.
LEMMA AppendToRange ==
    ASSUME NEW S, NEW q \in Seq(S), NEW e \in S
    PROVE  /\ Append(q, e) \in Seq(S) /\ Len(Append(q, e)) = Len(q) + 1 /\ Len(q) \in Nat
           /\ \A i \in 1..Len(q) : Append(q, e)[i] = q[i]
           /\ Append(q, e)[Len(q) + 1] = e
           /\ Range(Append(q, e)) = Range(q) \cup {e}
<1>1. /\ Append(q, e) \in Seq(S) /\ Len(Append(q, e)) = Len(q) + 1 /\ Len(q) \in Nat
      /\ \A i \in 1..Len(q) : Append(q, e)[i] = q[i]
      /\ Append(q, e)[Len(q) + 1] = e
      /\ DOMAIN q = 1..Len(q) /\ DOMAIN Append(q, e) = 1..(Len(q) + 1)
  OBVIOUS
<1>2. Range(Append(q, e)) = Range(q) \cup {e}
  <2> DEFINE a == Append(q, e)
             n == Len(q)
  <2>1. /\ \A i \in 1..n : a[i] = q[i] /\ i \in 1..(n + 1)
        /\ a[n + 1] = e /\ n + 1 \in 1..(n + 1) /\ \A i \in 1..(n + 1) : i \in 1..n \/ i = n + 1
        /\ DOMAIN q = 1..n /\ DOMAIN a = 1..(n + 1)
    BY <1>1
  <2> HIDE DEF a, n
  <2>2. Range(a) = Range(q) \cup {e}
    BY <2>1 DEF Range
  <2> QED
    BY <2>2 DEF a
<1> QED
  BY <1>1, <1>2

\* The pairs found for a socket, by place.
LEMMA PairsRegular ==
    ASSUME IInv, NEW s \in Socks
    PROVE  /\ inodes[s] \in Seq(Procs \X Fds) /\ Len(inodes[s]) \in Nat
           /\ \A i \in 1..Len(inodes[s]) : inodes[s][i] \in Procs \X Fds /\ inodes[s][i] \in Range(inodes[s])
           /\ \A x \in Range(inodes[s]) : /\ x \in Procs \X Fds /\ <<x[1], x[2], s>> \in ever
                                          /\ Wanted(x[1])
                                          /\ \E i \in 1..Len(inodes[s]) : x = inodes[s][i]
<1>1. inodes[s] \in Seq(Procs \X Fds)
  BY DEF IInv, TypeOK
<1>2. /\ DOMAIN inodes[s] = 1..Len(inodes[s]) /\ Len(inodes[s]) \in Nat
      /\ \A i \in 1..Len(inodes[s]) : inodes[s][i] \in Procs \X Fds
  BY <1>1
<1>3. \A i \in 1..Len(inodes[s]) : /\ <<inodes[s][i][1], inodes[s][i][2], s>> \in ever
                                   /\ Wanted(inodes[s][i][1])
  BY DEF IInv, FoundInv, FoundOnce
<1> QED
  BY <1>1, <1>2, <1>3 DEF Range

\* What was readable all along is held now, by a process that exists.
LEMMA KeptIsHeld ==
    ASSUME SystemInv, NEW x \in kept
    PROVE  /\ x[1] \in alive \ denied /\ x[1] \in Procs /\ x[2] \in Fds /\ x[3] \in Socks
           /\ table[x[1]][x[2]] = x[3] /\ x[3] # Closed
           /\ x = <<x[1], x[2], x[3]>> /\ x[3] \in Existing
<1>1. x \in Holding /\ x[1] \notin denied
  BY DEF SystemInv, Readable
<1>2. /\ x[1] \in Procs /\ x[2] \in Fds /\ x[3] \in Socks
      /\ table[x[1]][x[2]] = x[3] /\ x = <<x[1], x[2], x[3]>>
  BY <1>1 DEF Holding, Triples
<1>3. x[3] # Closed
  BY <1>2, SocksAssumption
<1>4. x[1] \in alive
  BY <1>2, <1>3 DEF SystemInv
<1>5. x[3] \in Existing
  BY <1>1 DEF Existing
<1> QED
  BY <1>1, <1>2, <1>3, <1>4, <1>5

-----------------------------------------------------------------------------
(* The rest of the system moves.                                           *)

\* What holds however it moves: a move that loses nothing leaves alone what the
\* walk has still to look at.
LEMMA Observed ==
    ASSUME IInv, NEW losing \in BOOLEAN, Observe(losing),
           table' \in [Procs -> [Fds -> Socks \cup {Closed, File}]],
           alive' \in SUBSET Procs, denied' \in SUBSET Procs, starved' \in BOOLEAN,
           \A p \in Procs \ alive' : \A f \in Fds : table'[p][f] = Closed,
           ~losing => /\ starved' = starved /\ alive \ denied \subseteq alive' \ denied'
                      /\ alive \cap denied = {} => alive' \cap denied' = {}
                      /\ pc = "readlink" /\ cur \in alive \ denied /\ table[cur][fd] # Closed
                            => table'[cur][fd] # Closed
    PROVE  IInv'
<1> USE DEF IInv
<1>1. /\ UNCHANGED <<pc, kind, filter, pids, cur, fds, fd, inodes, todo, ret>>
      /\ ever' = ever \cup Holding' /\ kept' = kept \cap Readable'
      /\ pc \in {"pids", "walk", "exists", "readlink", "tables"}
  BY DEF Observe, askVars, Running
<1>2. lost' \in BOOLEAN /\ (~lost' => ~lost /\ ~losing) /\ (lost => lost')
  BY DEF Observe, TypeOK
<1>3. TypeOK'
  BY <1>1, <1>2 DEF TypeOK
<1>4. SystemInv'
  <2>1. Holding' \subseteq Triples
    BY DEF Holding
  <2> QED
    BY <1>1, <2>1 DEF SystemInv
<1>5. PlaceInv'
  <2>1. /\ Running' => kind' \in DOMAIN tmap
        /\ pc' \in {"exists", "readlink"} => cur' \in Procs \ pids' /\ Wanted(cur)'
        /\ pc' = "readlink" => fd' \in Fds \ fds'
        /\ pc' \in {"new", "pids"} => pids' = {}
        /\ pc' = "pids" => filter' = NoPid
        /\ \A p \in pids' : Wanted(p)'
        /\ pc' = "new" => ~starved'
    BY <1>1 DEF PlaceInv, Running, Wanted
  <2>2. ASSUME ~lost'
        PROVE  /\ ~starved'
               /\ pc' = "pids" => alive' \cap denied' = {}
               /\ pids' \subseteq alive' \ denied'
               /\ pc' \in {"exists", "readlink"} => cur' \in alive' \ denied'
               /\ pc' = "readlink" => table'[cur'][fd'] # Closed
    BY <1>1, <1>2, <2>2 DEF PlaceInv
  <2> QED
    BY <2>1, <2>2 DEF PlaceInv
<1>6. FoundInv'
  <2>1. ASSUME NEW s \in Socks, NEW i \in 1..Len(inodes'[s]) PROVE FoundOnce(s, i)'
    BY <1>1, <2>1 DEF FoundInv, FoundOnce, Wanted
  <2> QED
    BY <1>1, <2>1 DEF FoundInv
<1>7. WalkInv'
  BY <1>1 DEF WalkInv, Asked, Wanted
<1>8. TablesInv'
  BY <1>1 DEF TablesInv, Asked, Wanted, TableRead, Reported, Row
<1>9. OwnersHeldIt' /\ GivingUpHasCause'
  BY <1>1 DEF OwnersHeldIt, GivingUpHasCause
<1> QED
  BY <1>3, <1>4, <1>5, <1>6, <1>7, <1>8, <1>9

\* A descriptor is set to something, or closed.
LEMMA SetMoves ==
    ASSUME IInv, NEW p \in Procs, NEW f \in Fds, NEW x \in Socks \cup {Closed, File}, Set(p, f, x)
    PROVE  /\ table' \in [Procs -> [Fds -> Socks \cup {Closed, File}]]
           /\ table'[p][f] = x
           /\ \A q \in Procs : \A g \in Fds : q # p \/ g # f => table'[q][g] = table[q][g]
           /\ UNCHANGED <<alive, denied, starved>>
  BY DEF IInv, TypeOK, Set

\* A descriptor that was closed is opened, in a process that exists.
LEMMA OpensMore ==
    ASSUME IInv, NEW p \in alive, NEW f \in Fds, NEW x \in Socks \cup {Closed, File},
           table[p][f] = Closed, Set(p, f, x), Observe(FALSE)
    PROVE  IInv'
<1>0. /\ alive \in SUBSET Procs /\ denied \in SUBSET Procs /\ starved \in BOOLEAN
      /\ \A q \in Procs \ alive : \A g \in Fds : table[q][g] = Closed
      /\ pc = "readlink" => cur \in Procs /\ fd \in Fds
  BY DEF IInv, TypeOK, SystemInv, PlaceInv
<1>1. /\ table' \in [Procs -> [Fds -> Socks \cup {Closed, File}]]
      /\ \A q \in Procs : \A g \in Fds : table[q][g] # Closed => table'[q][g] # Closed
      /\ \A q \in Procs \ {p} : \A g \in Fds : table'[q][g] = table[q][g]
      /\ UNCHANGED <<alive, denied, starved>>
  <2>1. p \in Procs
    BY <1>0
  <2>2. /\ table' \in [Procs -> [Fds -> Socks \cup {Closed, File}]]
        /\ \A q \in Procs : \A g \in Fds : q # p \/ g # f => table'[q][g] = table[q][g]
        /\ UNCHANGED <<alive, denied, starved>>
    BY <2>1, SetMoves
  <2> QED
    BY <2>2
<1>2. \A q \in Procs \ alive' : \A g \in Fds : table'[q][g] = Closed
  BY <1>0, <1>1
<1> QED
  BY <1>0, <1>1, <1>2, Observed

\* Every move of the rest of the system.
LEMMA EnvironmentStep ==
    ASSUME IInv, Environment
    PROVE  IInv'
<1> USE DEF IInv
<1>0. /\ table \in [Procs -> [Fds -> Socks \cup {Closed, File}]]
      /\ alive \in SUBSET Procs /\ denied \in SUBSET Procs /\ starved \in BOOLEAN
      /\ \A p \in Procs \ alive : \A f \in Fds : table[p][f] = Closed
      /\ pc = "readlink" => cur \in Procs /\ fd \in Fds
  BY DEF TypeOK, SystemInv, PlaceInv
<1>1. ASSUME NEW p \in Procs, NEW f \in Fds, Close(p, f) PROVE IInv'
  <2>1. Set(p, f, Closed) /\ Observe(TRUE)
    BY <1>1 DEF Close
  <2>2. /\ table' \in [Procs -> [Fds -> Socks \cup {Closed, File}]]
        /\ \A q \in Procs : \A g \in Fds : table'[q][g] \in {table[q][g], Closed}
        /\ UNCHANGED <<alive, denied, starved>>
    BY <2>1, SetMoves
  <2>3. \A q \in Procs \ alive' : \A g \in Fds : table'[q][g] = Closed
    BY <1>0, <2>2
  <2> QED
    BY <1>0, <2>1, <2>2, <2>3, Observed
<1>2. ASSUME NEW p \in Procs, NEW f \in Fds, NEW s \in Socks, OpenSocket(p, f, s) PROVE IInv'
  BY <1>2, OpensMore DEF OpenSocket
<1>3. ASSUME NEW p \in Procs, NEW f \in Fds, NEW q \in Procs, NEW g \in Fds, Dup(p, f, q, g)
      PROVE  IInv'
  <2>1. table[p][f] \in Socks \cup {Closed, File}
    BY <1>0
  <2> QED
    BY <1>3, <2>1, OpensMore DEF Dup
<1>4. ASSUME NEW p \in Procs, NEW q \in Procs, Fork(p, q) PROVE IInv'
  <2>1. /\ p \in alive /\ q \notin alive /\ alive' = alive \cup {q} /\ starved' = starved
        /\ denied' = IF p \in denied THEN denied \cup {q} ELSE denied \ {q}
        /\ table' = [table EXCEPT ![q] = table[p]] /\ Observe(FALSE)
    BY <1>4 DEF Fork
  <2>2. table' \in [Procs -> [Fds -> Socks \cup {Closed, File}]]
    BY <1>0, <2>1
  <2>3. \A r \in Procs \ {q} : table'[r] = table[r]
    BY <1>0, <2>1
  <2>4. pc = "readlink" /\ cur \in alive => cur \in Procs \ {q}
    BY <1>0, <2>1
  <2>5. /\ denied' \in SUBSET Procs /\ alive \ denied \subseteq alive' \ denied'
        /\ alive \cap denied = {} => alive' \cap denied' = {}
    BY <1>0, <2>1
  <2> QED
    BY <1>0, <2>1, <2>2, <2>3, <2>4, <2>5, Observed
<1>5. ASSUME NEW p \in Procs, Exit(p) PROVE IInv'
  <2>1. /\ alive' = alive \ {p} /\ denied' = denied \ {p} /\ starved' = starved
        /\ table' = [table EXCEPT ![p] = [f \in Fds |-> Closed]] /\ Observe(TRUE)
    BY <1>5 DEF Exit
  <2>2. table' \in [Procs -> [Fds -> Socks \cup {Closed, File}]]
    BY <1>0, <2>1
  <2>3. \A r \in Procs : \A f \in Fds : table'[r][f] = IF r = p THEN Closed ELSE table[r][f]
    BY <1>0, <2>1
  <2> QED
    BY <1>0, <2>1, <2>2, <2>3, Observed
<1>6. ASSUME NEW p \in Procs, ChangeOwner(p) PROVE IInv'
  <2>1. /\ p \in alive /\ UNCHANGED <<table, alive, starved>> /\ Observe(p \notin denied)
        /\ denied' = IF p \in denied THEN denied \ {p} ELSE denied \cup {p}
    BY <1>6 DEF ChangeOwner
  <2>2. (p \notin denied) \in BOOLEAN
    OBVIOUS
  <2>3. /\ denied' \in SUBSET Procs
        /\ p \in denied => /\ alive \ denied \subseteq alive' \ denied'
                           /\ alive \cap denied # {}
    BY <1>0, <2>1
  <2> QED
    BY <1>0, <2>1, <2>2, <2>3, Observed
<1>7. CASE Starve
  <2>1. /\ UNCHANGED <<table, alive, denied>> /\ Observe(TRUE) /\ starved' = TRUE
    BY <1>7 DEF Starve
  <2>2. starved' \in BOOLEAN
    BY <2>1
  <2> QED
    BY <1>0, <2>1, <2>2, Observed
<1> QED
  BY <1>1, <1>2, <1>3, <1>4, <1>5, <1>6, <1>7 DEF Environment

-----------------------------------------------------------------------------
(* The walk over the processes.                                            *)

\* What a step of the call leaves alone if it does not begin it.
LEMMA SystemAlone ==
    ASSUME IInv, pc # "new", UNCHANGED <<table, alive, denied, ever, kept>>
    PROVE  SystemInv'
  BY DEF IInv, SystemInv, Holding, Readable

\* What was found stays what it is, if the walk gets on.
LEMMA FoundAlone ==
    ASSUME IInv, UNCHANGED <<filter, inodes, ret, ever>>,
           pc' \notin {"new", "pids"},
           ret = {} \/ pc' \in {"tables", "returned", "thrown", "ambiguous"},
           \A s \in Socks : \A i \in 1..Len(inodes[s]) :
              LET x == inodes[s][i] IN
              FoundOnce(s, i) => /\ pc' \in {"walk", "exists", "readlink"} => x[1] \notin pids'
                                 /\ pc' \in {"exists", "readlink"} /\ x[1] = cur' => x[2] \notin fds'
                                 /\ pc' = "readlink" /\ x[1] = cur' => x[2] # fd'
    PROVE  FoundInv'
<1>1. ASSUME NEW s \in Socks, NEW i \in 1..Len(inodes'[s]) PROVE FoundOnce(s, i)'
  <2>1. FoundOnce(s, i)
    BY <1>1 DEF IInv, FoundInv
  <2> QED
    BY <1>1, <2>1 DEF FoundOnce, Wanted
<1> QED
  BY <1>1 DEF FoundInv

\* The call begins: everything readable now is ahead of the walk.
LEMMA CallStarts ==
    ASSUME IInv, NEW k \in Kinds, NEW p \in Procs \cup {NoPid}, Retrieve(Default(k), p)
    PROVE  IInv'
<1> USE DEF IInv
<1>1. /\ pc = "new" /\ kind' = Default(k) /\ filter' = p
      /\ ever' = Holding /\ kept' = Readable
      /\ lost' = IF p = NoPid THEN alive \cap denied # {} ELSE p \notin alive \ denied
      /\ UNCHANGED <<table, alive, denied, starved, cur, fds, fd, inodes, ret>>
      /\ pids = {} /\ ret = {} /\ ~starved
  BY DEF Retrieve, sysVars, PlaceInv, FoundInv
<1>2. \/ Default(k) \notin DOMAIN tmap /\ pc' = "undefined" /\ UNCHANGED <<pids, todo>>
      \/ /\ Default(k) \in DOMAIN tmap /\ todo' = tmap[Default(k)]
         /\ \/ p = NoPid /\ pc' = "pids" /\ pids' = pids
            \/ p # NoPid /\ pc' = "walk" /\ pids' = {p}
  BY DEF Retrieve
<1>3. Holding \subseteq Triples /\ Readable \subseteq Holding
  BY DEF Holding, Readable
<1>4. TypeOK'
  <2>1. Default(k) \in Kinds \cup {"inet"}
    BY DEF Default
  <2>2. lost' \in BOOLEAN
    BY <1>1
  <2>3. pids' \in SUBSET Procs
    BY <1>1, <1>2
  <2> QED
    BY <1>1, <1>2, <2>1, <2>2, <2>3 DEF TypeOK
<1>5. SystemInv'
  BY <1>1, <1>2, <1>3 DEF SystemInv, Holding, Readable
<1>6. PlaceInv'
  BY <1>1, <1>2 DEF PlaceInv, Running, Wanted
<1>7. FoundInv'
  <2>1. \A s \in Socks : inodes'[s] = <<>>
    BY <1>1 DEF FoundInv
  <2>2. Len(<<>>) = 0
    OBVIOUS
  <2>3. \A s \in Socks : \A i \in 1..Len(inodes'[s]) : FALSE
    BY <2>1, <2>2
  <2> QED
    BY <1>1, <2>1, <2>3 DEF FoundInv
<1>8. WalkInv'
  BY <1>1, <1>2 DEF WalkInv, Asked, Wanted
<1>9. TablesInv'
  BY <1>1, <1>2, KindRegular DEF TablesInv
<1>10. OwnersHeldIt' /\ GivingUpHasCause'
  BY <1>1, <1>2 DEF OwnersHeldIt, GivingUpHasCause
<1> QED
  BY <1>4, <1>5, <1>6, <1>7, <1>8, <1>9, <1>10

\* The processes are listed: one that holds something all along is among them.
LEMMA PidsStep ==
    ASSUME IInv, Pids
    PROVE  IInv'
<1> USE DEF IInv
<1>1. /\ pc = "pids"
      /\ \/ pc' = "walk" /\ pids' = alive
         \/ starved /\ pc' = "thrown" /\ pids' = pids
      /\ UNCHANGED <<table, alive, denied, starved, kind, filter, cur, fds, fd, inodes, todo, ret,
                     ever, kept, lost>>
  BY DEF Pids, sysVars, askVars, history
\* Without a filter, or get_all_inodes would not have been called.
<1>2. filter = NoPid
  BY <1>1 DEF PlaceInv
<1>3. TypeOK'
  BY <1>1 DEF TypeOK
<1>4. SystemInv'
  BY <1>1, SystemAlone
<1>5. PlaceInv'
  BY <1>1, <1>2 DEF PlaceInv, Running, Wanted, TypeOK
<1>6. FoundInv'
  <2>1. \A s \in Socks : inodes[s] = <<>>
    BY <1>1 DEF FoundInv
  <2>2. Len(<<>>) = 0
    OBVIOUS
  <2>3. \A s \in Socks : \A i \in 1..Len(inodes'[s]) : FALSE
    BY <1>1, <2>1, <2>2
  <2> QED
    BY <1>1, <2>3 DEF FoundInv
<1>7. WalkInv'
  BY <1>1, KeptIsHeld DEF WalkInv
<1>8. TablesInv'
  BY <1>1 DEF TablesInv
<1>9. OwnersHeldIt' /\ GivingUpHasCause'
  BY <1>1 DEF OwnersHeldIt, GivingUpHasCause, PlaceInv
<1> QED
  BY <1>3, <1>4, <1>5, <1>6, <1>7, <1>8, <1>9

\* The descriptors of the next process are listed, or cannot be.
LEMMA ListFdsStep ==
    ASSUME IInv, NEW p \in Procs, ListFds(p)
    PROVE  IInv'
<1> USE DEF IInv
<1>1. /\ pc = "walk" /\ p \in pids /\ pids' = pids \ {p} /\ cur' = p
      /\ \/ p \in alive \ denied /\ fds' = {f \in Fds : table[p][f] # Closed} /\ pc' = "exists"
         \/ (p \notin alive \ denied \/ starved) /\ pc' = "thrown" /\ fds' = fds
      /\ UNCHANGED <<table, alive, denied, starved, kind, filter, fd, inodes, todo, ret,
                     ever, kept, lost>>
  BY DEF ListFds, Listing, sysVars, askVars, history
<1>2. TypeOK'
  BY <1>1 DEF TypeOK
<1>3. SystemInv'
  BY <1>1, SystemAlone
<1>4. PlaceInv'
  BY <1>1 DEF PlaceInv, Running, Wanted
<1>5. FoundInv'
  BY <1>1, FoundAlone DEF FoundOnce, FoundInv
<1>6. WalkInv'
  <2> SUFFICES ASSUME NEW x \in kept, Asked(x), <<x[1], x[2]>> \notin Range(inodes[x[3]]), pc' = "exists"
               PROVE  x[1] \in pids' \/ (x[1] = cur' /\ x[2] \in fds')
    BY <1>1 DEF WalkInv, Asked, Wanted
  <2>1. x[1] \in pids
    BY <1>1 DEF WalkInv
  <2>2. x[2] \in Fds /\ table[x[1]][x[2]] # Closed
    BY KeptIsHeld
  <2> QED
    BY <1>1, <2>1, <2>2
<1>7. TablesInv'
  BY <1>1 DEF TablesInv
<1>8. OwnersHeldIt' /\ GivingUpHasCause'
  BY <1>1 DEF OwnersHeldIt, GivingUpHasCause, PlaceInv
<1> QED
  BY <1>2, <1>3, <1>4, <1>5, <1>6, <1>7, <1>8

\* The next descriptor is there, or has been closed.
LEMMA ExistsStep ==
    ASSUME IInv, NEW f \in Fds, Exists(f)
    PROVE  IInv'
<1> USE DEF IInv
<1>1. /\ pc = "exists" /\ f \in fds /\ fds' = fds \ {f} /\ fd' = f
      /\ \/ table[cur][f] # Closed /\ cur \notin denied /\ pc' = "readlink"
         \/ (table[cur][f] = Closed \/ cur \in denied) /\ pc' = "exists"
      /\ UNCHANGED <<table, alive, denied, starved, kind, filter, pids, cur, inodes, todo, ret,
                     ever, kept, lost>>
  BY DEF Exists, sysVars, askVars, history
<1>2. TypeOK'
  BY <1>1 DEF TypeOK
<1>3. SystemInv'
  BY <1>1, SystemAlone
<1>4. PlaceInv'
  BY <1>1 DEF PlaceInv, Running, Wanted, TypeOK
<1>5. FoundInv'
  BY <1>1, FoundAlone DEF FoundOnce, FoundInv
<1>6. WalkInv'
  <2> SUFFICES ASSUME NEW x \in kept, Asked(x), <<x[1], x[2]>> \notin Range(inodes[x[3]]), x[1] \notin pids
               PROVE  x[1] = cur /\ (x[2] \in fds' \/ (pc' = "readlink" /\ x[2] = fd'))
    BY <1>1 DEF WalkInv, Asked, Wanted
  <2>1. x[1] = cur /\ x[2] \in fds
    BY <1>1 DEF WalkInv
  <2>2. table[x[1]][x[2]] # Closed /\ x[1] \notin denied
    BY KeptIsHeld
  <2> QED
    BY <1>1, <2>1, <2>2
<1>7. TablesInv'
  BY <1>1 DEF TablesInv
<1>8. OwnersHeldIt' /\ GivingUpHasCause'
  BY <1>1 DEF OwnersHeldIt, GivingUpHasCause
<1> QED
  BY <1>2, <1>3, <1>4, <1>5, <1>6, <1>7, <1>8

\* The descriptor is a socket, which is recorded; or another file; or cannot be
\* read any more.
LEMMA ReadlinkStep ==
    ASSUME IInv, Readlink
    PROVE  IInv'
<1> USE DEF IInv
<1> DEFINE s == table[cur][fd]
<1>1. /\ pc = "readlink" /\ cur \in Procs \ pids /\ fd \in Fds \ fds /\ Wanted(cur)
      /\ UNCHANGED <<table, alive, denied, starved, kind, filter, pids, cur, fds, fd, todo, ret,
                     ever, kept, lost>>
  BY DEF Readlink, sysVars, askVars, history, PlaceInv
<1>2. \/ (s = Closed \/ cur \in denied) /\ pc' = "thrown" /\ inodes' = inodes
      \/ /\ s # Closed /\ cur \notin denied /\ pc' = "exists"
         /\ inodes' = [r \in Socks |-> IF r = s THEN Append(inodes[r], <<cur, fd>>) ELSE inodes[r]]
  BY DEF Readlink
<1>3. <<cur, fd>> \in Procs \X Fds
  BY <1>1
<1>4. TypeOK'
  <2>1. inodes' \in [Socks -> Seq(Procs \X Fds)]
    <3>1. \A r \in Socks : /\ inodes[r] \in Seq(Procs \X Fds)
                           /\ Append(inodes[r], <<cur, fd>>) \in Seq(Procs \X Fds)
      BY <1>3, AppendToRange DEF TypeOK
    <3> QED
      BY <1>2, <3>1 DEF TypeOK
  <2> QED
    BY <1>1, <1>2, <2>1 DEF TypeOK
<1>5. SystemInv'
  BY <1>1, SystemAlone
<1>6. PlaceInv'
  BY <1>1, <1>2 DEF PlaceInv, Running, Wanted
<1>7. FoundInv'
  <2>1. CASE pc' = "thrown"
    BY <1>1, <1>2, <2>1, FoundAlone DEF FoundOnce
  <2>2. CASE pc' = "exists"
    <3>1. ASSUME NEW r \in Socks, NEW i \in 1..Len(inodes'[r]) PROVE FoundOnce(r, i)'
      <4>1. CASE r # s
        <5>1. inodes'[r] = inodes[r]
          BY <1>2, <2>2, <4>1
        <5>2. FoundOnce(r, i)
          BY <3>1, <5>1 DEF FoundInv
        <5> QED
          BY <1>1, <2>2, <5>1, <5>2 DEF FoundOnce, Wanted
      <4>2. CASE r = s
        <5> DEFINE q == inodes[r]
                   n == Len(q)
                   e == <<cur, fd>>
                   a == inodes'[r]
        <5>1. a = Append(q, e) /\ q \in Seq(Procs \X Fds)
          BY <1>2, <2>2, <4>2 DEF TypeOK
        <5>2. /\ Len(a) = n + 1 /\ n \in Nat /\ a[n + 1] = e
              /\ \A j \in 1..n : a[j] = q[j]
          BY <1>3, <5>1, AppendToRange
        \* What was found before is another pair.
        <5>3. \A j \in 1..n : FoundOnce(r, j) /\ q[j] # e
          <6>1. \A j \in 1..n : FoundOnce(r, j)
            BY DEF FoundInv
          <6>2. \A j \in 1..n : ~(q[j][1] = cur /\ q[j][2] = fd)
            BY <1>1, <6>1 DEF FoundOnce
          <6> QED
            BY <6>1, <6>2
        <5>4. <<cur, fd, r>> \in ever
          <6>1. <<cur, fd, r>> \in Triples
            BY <1>1 DEF Triples
          <6>2. <<cur, fd, r>> \in Holding
            BY <4>2, <6>1 DEF Holding
          <6> QED
            BY <1>1, <6>2 DEF SystemInv
        <5>5. e[1] = cur /\ e[2] = fd
          OBVIOUS
        <5>6. /\ i \in 1..(n + 1) /\ (i # n + 1 => i \in 1..n)
              /\ \A j \in 1..(n + 1) : j # n + 1 => j \in 1..n
          BY <3>1, <5>2
        <5>7. CASE i = n + 1
          <6>1. a[i] = e /\ \A j \in 1..Len(a) : a[j] = e => j = i
            <7> HIDE DEF a, n, q, e
            <7> QED
              BY <5>2, <5>3, <5>6, <5>7
          <6> QED
            BY <1>1, <2>2, <5>4, <5>5, <6>1 DEF FoundOnce, Wanted
        <5>8. CASE i # n + 1
          <6>1. a[i] = q[i] /\ FoundOnce(r, i) /\ i \in 1..n
            BY <5>2, <5>3, <5>6, <5>8
          <6>2. \A j \in 1..Len(a) : a[j] = a[i] => j = i
            <7>1. \A j \in 1..n : q[j] = q[i] => j = i
              BY <6>1 DEF FoundOnce
            <7> HIDE DEF a, n, q, e
            <7> QED
              BY <5>2, <5>3, <5>6, <6>1, <7>1
          <6> QED
            BY <1>1, <2>2, <6>1, <6>2 DEF FoundOnce, Wanted
        <5> QED
          BY <5>7, <5>8
      <4> QED
        BY <4>1, <4>2
    <3> QED
      BY <1>1, <2>2, <3>1 DEF FoundInv
  <2> QED
    BY <1>2, <2>1, <2>2
<1>8. WalkInv'
  <2> SUFFICES ASSUME NEW x \in kept, Asked(x), <<x[1], x[2]>> \notin Range(inodes'[x[3]]), pc' = "exists"
               PROVE  x[1] \in pids \/ (x[1] = cur /\ x[2] \in fds)
    BY <1>1, <1>2 DEF WalkInv, Asked, Wanted
  <2>1. table[x[1]][x[2]] = x[3] /\ x[3] \in Socks
    BY KeptIsHeld
  <2>2. inodes[x[3]] \in Seq(Procs \X Fds)
    BY <2>1 DEF TypeOK
  <2>3. inodes'[x[3]] = IF x[3] = s THEN Append(inodes[x[3]], <<cur, fd>>) ELSE inodes[x[3]]
    BY <1>2, <2>1
  <2>4. Range(Append(inodes[x[3]], <<cur, fd>>)) = Range(inodes[x[3]]) \cup {<<cur, fd>>}
    BY <1>3, <2>2, AppendToRange
  <2>5. <<x[1], x[2]>> \notin Range(inodes[x[3]]) /\ ~(x[1] = cur /\ x[2] = fd)
    BY <2>1, <2>3, <2>4
  <2> QED
    BY <1>1, <2>5 DEF WalkInv
<1>9. TablesInv'
  BY <1>1, <1>2 DEF TablesInv
<1>10. OwnersHeldIt' /\ GivingUpHasCause'
  BY <1>1, <1>2 DEF OwnersHeldIt, GivingUpHasCause, PlaceInv
<1> QED
  BY <1>4, <1>5, <1>6, <1>7, <1>8, <1>9, <1>10

\* The process has no further descriptors.
LEMMA NextProcStep ==
    ASSUME IInv, NextProc
    PROVE  IInv'
<1> USE DEF IInv
<1>1. /\ pc = "exists" /\ fds = {} /\ pc' = "walk"
      /\ UNCHANGED <<table, alive, denied, starved, kind, filter, pids, cur, fds, fd, inodes, todo,
                     ret, ever, kept, lost>>
  BY DEF NextProc, sysVars, askVars, history
<1>2. TypeOK'
  BY <1>1 DEF TypeOK
<1>3. SystemInv'
  BY <1>1, SystemAlone
<1>4. PlaceInv'
  BY <1>1 DEF PlaceInv, Running, Wanted
<1>5. FoundInv'
  BY <1>1, FoundAlone DEF FoundOnce, FoundInv
<1>6. WalkInv'
  BY <1>1 DEF WalkInv, Asked, Wanted
<1>7. TablesInv'
  BY <1>1 DEF TablesInv
<1>8. OwnersHeldIt' /\ GivingUpHasCause'
  BY <1>1 DEF OwnersHeldIt, GivingUpHasCause
<1> QED
  BY <1>2, <1>3, <1>4, <1>5, <1>6, <1>7, <1>8

\* There are no further processes: all that was to be found has been.
LEMMA EndWalkStep ==
    ASSUME IInv, EndWalk
    PROVE  IInv'
<1> USE DEF IInv
<1>1. /\ pc = "walk" /\ pids = {} /\ pc' = "tables"
      /\ UNCHANGED <<table, alive, denied, starved, kind, filter, pids, cur, fds, fd, inodes, todo,
                     ret, ever, kept, lost>>
  BY DEF EndWalk, sysVars, askVars, history
<1>2. TypeOK'
  BY <1>1 DEF TypeOK
<1>3. SystemInv'
  BY <1>1, SystemAlone
<1>4. PlaceInv'
  BY <1>1 DEF PlaceInv, Running, Wanted
<1>5. FoundInv'
  BY <1>1, FoundAlone
<1>6. WalkInv'
  BY <1>1 DEF WalkInv, Asked, Wanted
<1>7. TablesInv'
  <2>1. todo = tmap[kind] /\ todo \in Seq(Files) /\ DOMAIN todo = 1..Len(todo)
    BY <1>1 DEF TablesInv
  <2> QED
    BY <1>1, <2>1 DEF TablesInv, TableRead
<1>8. OwnersHeldIt' /\ GivingUpHasCause'
  BY <1>1 DEF OwnersHeldIt, GivingUpHasCause
<1> QED
  BY <1>2, <1>3, <1>4, <1>5, <1>6, <1>7, <1>8

-----------------------------------------------------------------------------
(* The socket tables.                                                      *)

\* The rows of a socket: of the right type, and attributed to who held it.
LEMMA RowsRegular ==
    ASSUME IInv, NEW s \in Socks, NEW r \in RowsOf(s)
    PROVE  /\ r \in [sock : Socks, pid : Procs \cup {NoPid}, fd : Fds \cup {-1}]
           /\ \/ r.pid = NoPid /\ filter = NoPid
              \/ <<r.pid, r.fd, r.sock>> \in ever /\ filter \in {NoPid, r.pid}
<1>1. r \in RowsOfUnfiltered(s) /\ (filter # NoPid => r.pid = filter)
  BY DEF RowsOf
<1>2. CASE inodes[s] = <<>>
  <2>1. r = Unowned(s)
    BY <1>1, <1>2 DEF RowsOfUnfiltered
  <2>2. /\ Unowned(s) \in [sock : Socks, pid : Procs \cup {NoPid}, fd : Fds \cup {-1}]
        /\ Unowned(s).pid = NoPid
    BY DEF Unowned, Row
  <2> QED
    BY <1>1, <2>1, <2>2
<1>3. CASE inodes[s] # <<>>
  <2>1. Chosen(s) \subseteq Range(inodes[s])
    <3>1. inodes[s] \in Seq(Procs \X Fds)
      BY PairsRegular
    <3>2. 1 \in 1..Len(inodes[s])
      BY <1>3, <3>1, EmptySeq
    <3> QED
      BY <3>2, PairsRegular DEF Chosen
  <2>2. PICK x \in Chosen(s) : r = Row(s, x[1], x[2])
    BY <1>1, <1>3 DEF RowsOfUnfiltered
  <2>3. x \in Procs \X Fds /\ <<x[1], x[2], s>> \in ever /\ Wanted(x[1])
    BY <2>1, <2>2, PairsRegular
  <2>4. r.sock = s /\ r.pid = x[1] /\ r.fd = x[2]
    BY <2>2 DEF Row
  <2>5. r \in [sock : Socks, pid : Procs \cup {NoPid}, fd : Fds \cup {-1}]
    BY <2>2, <2>3 DEF Row
  <2> QED
    BY <2>3, <2>4, <2>5 DEF Wanted
<1> QED
  BY <1>2, <1>3

\* A socket for which a pair was found is reported with an owner, and with that
\* pair if it is the only one or the socket is a unix socket.
LEMMA PairReported ==
    ASSUME IInv, NEW s \in Socks, NEW x \in Range(inodes[s])
    PROVE  /\ \E r \in RowsOf(s) : r.sock = s /\ r.pid # NoPid
           /\ TableOf[s] = "unix" \/ Len(inodes[s]) = 1 => Row(s, x[1], x[2]) \in RowsOf(s)
<1>1. /\ inodes[s] \in Seq(Procs \X Fds) /\ Len(inodes[s]) \in Nat
      /\ x \in Procs \X Fds
  BY PairsRegular
<1>2. PICK i \in 1..Len(inodes[s]) : x = inodes[s][i]
  BY PairsRegular
<1>3. inodes[s] # <<>> /\ 1 \in 1..Len(inodes[s]) /\ (Len(inodes[s]) = 1 => x = inodes[s][1])
  BY <1>1, <1>2
\* A chosen pair gets its row, whatever the filter.
<1>4. ASSUME NEW y \in Chosen(s)
      PROVE  /\ Row(s, y[1], y[2]) \in RowsOf(s)
             /\ Row(s, y[1], y[2]).sock = s /\ Row(s, y[1], y[2]).pid # NoPid
  <2>1. y \in Range(inodes[s])
    BY <1>3, <1>4, PairsRegular DEF Chosen
  <2>2. y[1] \in Procs /\ Wanted(y[1])
    BY <2>1, PairsRegular
  <2>3. Row(s, y[1], y[2]).sock = s /\ Row(s, y[1], y[2]).pid = y[1]
    BY DEF Row
  <2>4. Row(s, y[1], y[2]) \in RowsOfUnfiltered(s)
    BY <1>3 DEF RowsOfUnfiltered
  <2> QED
    BY <2>2, <2>3, <2>4, ProcsAssumption DEF RowsOf, Wanted
<1>5. \E y \in Chosen(s) : TRUE
  BY DEF Chosen
<1>6. TableOf[s] = "unix" \/ Len(inodes[s]) = 1 => x \in Chosen(s)
  BY <1>3 DEF Chosen
<1> QED
  BY <1>4, <1>5, <1>6

\* A socket that is refused is a UDP socket for which two pairs were found.
LEMMA TwoHolders ==
    ASSUME IInv, NEW s \in Socks, Ambiguous(s), TableOf[s] \notin Ipv6Tables
    PROVE  \E x, y \in ever : x # y /\ x[3] = y[3] /\ TableOf[x[3]] = "udp" /\ Asked(x) /\ Asked(y)
<1>1. TableOf[s] = "udp"
  <2>1. TableOf[s] \in {"tcp", "udp", "unix"}
    BY TablesAssumption DEF Ipv6Tables, Files
  <2>2. TypeOf["tcp"] = AF_UNIX
    BY DEF TypeOf, SOCK_STREAM, AF_UNIX
  <2> QED
    BY <2>1, <2>2 DEF Ambiguous
<1>2. 1 \in 1..Len(inodes[s]) /\ 2 \in 1..Len(inodes[s])
  <2>1. Len(inodes[s]) \in Nat /\ Len(inodes[s]) > 1
    BY PairsRegular DEF Ambiguous
  <2> QED
    BY <2>1
<1> DEFINE x == inodes[s][1]
           y == inodes[s][2]
<1>3. FoundOnce(s, 1) /\ FoundOnce(s, 2)
  BY <1>2 DEF IInv, FoundInv
<1>4. <<x[1], x[2], s>> \in ever /\ <<y[1], y[2], s>> \in ever /\ Wanted(x[1]) /\ Wanted(y[1])
  BY <1>3 DEF FoundOnce
<1>5. x # y
  BY <1>2, <1>3 DEF FoundOnce
<1>6. x \in Procs \X Fds /\ y \in Procs \X Fds
  BY <1>2, PairsRegular
<1> HIDE DEF x, y
<1>7. <<x[1], x[2], s>> # <<y[1], y[2], s>>
  BY <1>5, <1>6
<1> QED
  BY <1>1, <1>4, <1>7 DEF Asked

\* A table is read and joined with what the walk has found.
LEMMA ReadTableStep ==
    ASSUME IInv, ReadTable
    PROVE  IInv'
<1> USE DEF IInv
<1> DEFINE file == Head(todo)
           rows == IF file \in Ipv6Tables THEN {} ELSE Listed(file)
<1>1. /\ pc = "tables" /\ todo # <<>>
      /\ UNCHANGED <<table, alive, denied, starved, kind, filter, pids, cur, fds, fd, inodes,
                     ever, kept, lost>>
  BY DEF ReadTable, sysVars, askVars, history
<1>2. \/ starved /\ pc' = "thrown" /\ todo' = todo /\ ret' = ret
      \/ (\E s \in rows : Ambiguous(s)) /\ pc' = "ambiguous" /\ todo' = todo /\ ret' = ret
      \/ /\ ~\E s \in rows : Ambiguous(s)
         /\ ret' = ret \cup UNION {RowsOf(s) : s \in rows} /\ todo' = Tail(todo) /\ pc' = pc
  BY DEF ReadTable
<1>3. /\ \A s \in rows : s \in Socks /\ TableOf[s] \notin Ipv6Tables
      /\ file \notin Ipv6Tables => \A s \in Existing : TableOf[s] = file => s \in rows
  <2>1. Existing \subseteq Socks
    BY DEF Existing, Holding, Triples
  <2> QED
    BY <2>1 DEF Listed
<1>4. /\ todo \in Seq(Files) /\ Tail(todo) \in Seq(Files) /\ Len(Tail(todo)) = Len(todo) - 1
      /\ file = todo[1]
      /\ \A i \in 1..Len(todo) : i # 1 => todo[i] = Tail(todo)[i - 1] /\ i - 1 \in 1..Len(Tail(todo))
  BY <1>1, HeadTailProperties DEF TablesInv
<1> HIDE DEF rows, file
<1>5. ASSUME NEW r \in ret' PROVE r \in ret \/ \E s \in rows : r \in RowsOf(s)
  BY <1>2, <1>5
<1>6. ASSUME NEW s \in rows, NEW r \in RowsOf(s)
      PROVE  /\ r \in [sock : Socks, pid : Procs \cup {NoPid}, fd : Fds \cup {-1}]
             /\ \/ r.pid = NoPid /\ filter = NoPid
                \/ <<r.pid, r.fd, r.sock>> \in ever /\ filter \in {NoPid, r.pid}
  BY <1>3, <1>6, RowsRegular
<1>7. TypeOK'
  <2>1. ret' \subseteq [sock : Socks, pid : Procs \cup {NoPid}, fd : Fds \cup {-1}]
    BY <1>5, <1>6 DEF TypeOK
  <2> QED
    BY <1>1, <1>2, <2>1 DEF TypeOK
<1>8. SystemInv'
  BY <1>1, SystemAlone
<1>9. PlaceInv'
  BY <1>1, <1>2 DEF PlaceInv, Running, Wanted
<1>10. FoundInv'
  <2>1. pc' \notin {"new", "pids", "walk", "exists", "readlink"}
    BY <1>1, <1>2
  <2>2. ASSUME NEW s \in Socks, NEW i \in 1..Len(inodes'[s]) PROVE FoundOnce(s, i)'
    <3>1. FoundOnce(s, i)
      BY <1>1, <2>2 DEF FoundInv
    <3> QED
      BY <1>1, <2>1, <3>1 DEF FoundOnce, Wanted
  <2> QED
    BY <1>1, <1>2, <2>1, <2>2 DEF FoundInv
<1>11. WalkInv'
  BY <1>1, <1>2 DEF WalkInv, Asked, Wanted
<1>12. TablesInv'
  <2>1. CASE pc' # pc
    BY <1>1, <1>2, <2>1 DEF TablesInv
  <2>2. CASE pc' = pc
    <3>1. /\ ~\E s \in rows : Ambiguous(s)
          /\ ret' = ret \cup UNION {RowsOf(s) : s \in rows} /\ todo' = Tail(todo)
      BY <1>1, <1>2, <2>2
    <3>2. ASSUME NEW x \in kept, Asked(x), TableRead(x)
          PROVE  (\E i \in 1..Len(todo') : todo'[i] = TableOf[x[3]]) \/ Reported(x)'
      <4>1. CASE Reported(x)
        BY <1>1, <3>1, <4>1 DEF Reported, Row
      <4>2. CASE \E i \in 1..Len(todo) : todo[i] = TableOf[x[3]]
        <5>1. PICK i \in 1..Len(todo) : todo[i] = TableOf[x[3]]
          BY <4>2
        <5>2. CASE i = 1
          <6>1. x[3] \in rows /\ x[3] \in Socks
            BY <1>3, <1>4, <3>2, <5>1, <5>2, KeptIsHeld DEF TableRead
          <6>2. <<x[1], x[2]>> \in Range(inodes[x[3]])
            BY <1>1, <3>2 DEF WalkInv
          <6>3. /\ \E r \in RowsOf(x[3]) : r.sock = x[3] /\ r.pid # NoPid
                /\ TableOf[x[3]] = "unix" \/ Len(inodes[x[3]]) = 1 =>
                      Row(x[3], x[1], x[2]) \in RowsOf(x[3])
            BY <6>1, <6>2, PairReported
          <6>4. TableOf[x[3]] # "tcp" => TableOf[x[3]] = "unix" \/ Len(inodes[x[3]]) = 1
            <7>1. TableOf[x[3]] \in {"tcp", "udp", "unix"}
              BY <3>2, <6>1, TablesAssumption DEF TableRead, Ipv6Tables, Files
            <7>2. TypeOf["udp"] # AF_UNIX /\ "udp" # "unix"
              BY DEF TypeOf, SOCK_DGRAM, AF_UNIX
            <7> DEFINE n == Len(inodes[x[3]])
            <7>3. n \in Nat /\ \E i0 \in 1..n : TRUE
              BY <6>1, <6>2, PairsRegular
            <7>4. ~Ambiguous(x[3])
              BY <3>1, <6>1
            <7>5. TableOf[x[3]] = "udp" => ~(n > 1)
              BY <7>2, <7>4 DEF Ambiguous
            <7> HIDE DEF n
            <7>6. n > 1 \/ n = 1
              BY <7>3
            <7>7. TableOf[x[3]] # "tcp" => TableOf[x[3]] = "unix" \/ n = 1
              BY <7>1, <7>5, <7>6
            <7> QED
              BY <7>7 DEF n
          <6>5. \A r \in RowsOf(x[3]) : r \in ret'
            BY <3>1, <6>1
          <6> QED
            BY <6>3, <6>4, <6>5 DEF Reported, Row
        <5>3. CASE i # 1
          BY <1>4, <3>1, <5>1, <5>3
        <5> QED
          BY <5>2, <5>3
      <4> QED
        BY <1>1, <3>2, <4>1, <4>2 DEF TablesInv
    <3>3. \A x \in kept : (Asked(x)' <=> Asked(x)) /\ (TableRead(x)' <=> TableRead(x))
      BY <1>1 DEF Asked, Wanted, TableRead
    <3> QED
      BY <1>1, <1>4, <2>2, <3>1, <3>2, <3>3 DEF TablesInv
  <2> QED
    BY <2>1, <2>2
<1>13. OwnersHeldIt'
  BY <1>1, <1>5, <1>6 DEF OwnersHeldIt
<1>14. GivingUpHasCause'
  <2>1. CASE \E s \in rows : Ambiguous(s)
    <3>1. \E x, y \in ever : x # y /\ x[3] = y[3] /\ TableOf[x[3]] = "udp" /\ Asked(x) /\ Asked(y)
      BY <1>3, <2>1, TwoHolders
    <3>2. pc' # "thrown" \/ starved
      BY <1>1, <1>2
    <3> QED
      BY <1>1, <3>1, <3>2 DEF GivingUpHasCause, PlaceInv, Asked, Wanted
  <2>2. CASE ~\E s \in rows : Ambiguous(s)
    BY <1>1, <1>2, <2>2 DEF GivingUpHasCause, PlaceInv
  <2> QED
    BY <2>1, <2>2
<1> QED
  BY <1>7, <1>8, <1>9, <1>10, <1>11, <1>12, <1>13, <1>14

\* All tables have been read.
LEMMA ReturnStep ==
    ASSUME IInv, Return
    PROVE  IInv'
<1> USE DEF IInv
<1>1. /\ pc = "tables" /\ todo = <<>> /\ pc' = "returned"
      /\ UNCHANGED <<table, alive, denied, starved, kind, filter, pids, cur, fds, fd, inodes, todo,
                     ret, ever, kept, lost>>
  BY DEF Return, sysVars, askVars, history
<1>2. TypeOK'
  BY <1>1 DEF TypeOK
<1>3. SystemInv'
  BY <1>1, SystemAlone
<1>4. PlaceInv'
  BY <1>1 DEF PlaceInv, Running, Wanted
<1>5. FoundInv'
  BY <1>1, FoundAlone
<1>6. WalkInv'
  BY <1>1 DEF WalkInv, Asked, Wanted
<1>7. TablesInv'
  BY <1>1 DEF TablesInv, Asked, Wanted, TableRead, Reported, Row
<1>8. OwnersHeldIt' /\ GivingUpHasCause'
  BY <1>1 DEF OwnersHeldIt, GivingUpHasCause
<1> QED
  BY <1>2, <1>3, <1>4, <1>5, <1>6, <1>7, <1>8

-----------------------------------------------------------------------------
(* The inductive invariant and what follows from it.                       *)

\* It holds before the call.
LEMMA IInvInit == Init => IInv
<1> SUFFICES ASSUME Init PROVE IInv
  OBVIOUS
<1>1. /\ alive \in SUBSET Procs /\ denied \in SUBSET alive
      /\ table \in [Procs -> [Fds -> Socks \cup {Closed, File}]]
      /\ \A p \in Procs \ alive : \A f \in Fds : table[p][f] = Closed
      /\ pc = "new" /\ kind = "inet" /\ filter = NoPid
      /\ pids = {} /\ fds = {} /\ inodes = [s \in Socks |-> <<>>]
      /\ todo = <<>> /\ ret = {} /\ ever = {} /\ kept = {} /\ lost = FALSE /\ starved = FALSE
  BY DEF Init
<1>2. TypeOK
  <2>1. lost \in BOOLEAN /\ starved \in BOOLEAN
    BY <1>1
  <2>2. <<>> \in Seq(Procs \X Fds)
    OBVIOUS
  <2>3. inodes \in [Socks -> Seq(Procs \X Fds)]
    BY <1>1, <2>2
  <2> QED
    BY <1>1, <2>1, <2>3 DEF TypeOK
<1>3. SystemInv /\ PlaceInv /\ WalkInv
  BY <1>1 DEF SystemInv, PlaceInv, WalkInv, Running
<1>4. FoundInv
  <2>1. Len(<<>>) = 0
    OBVIOUS
  <2>2. \A s \in Socks : \A i \in 1..Len(inodes[s]) : FALSE
    BY <1>1, <2>1
  <2> QED
    BY <1>1, <2>2 DEF FoundInv
<1>5. TablesInv
  <2>1. todo \in Seq(Files)
    BY <1>1
  <2> QED
    BY <1>1, <2>1 DEF TablesInv
<1>6. OwnersHeldIt /\ GivingUpHasCause
  BY <1>1 DEF OwnersHeldIt, GivingUpHasCause
<1> QED
  BY <1>2, <1>3, <1>4, <1>5, <1>6 DEF IInv

\* Every step of the call, and of the system around it, preserves it.
LEMMA IInvStep == IInv /\ [Next]_vars => IInv'
<1> SUFFICES ASSUME IInv, [Next]_vars PROVE IInv'
  OBVIOUS
<1>0. CASE Begin
  BY <1>0, CallStarts DEF Begin, NetConnections, Connections
<1>1. CASE CallStep
  BY <1>0, <1>1, PidsStep, ListFdsStep, ExistsStep, ReadlinkStep, NextProcStep,
     EndWalkStep, ReadTableStep, ReturnStep DEF CallStep
<1>2. CASE Environment
  BY <1>2, EnvironmentStep
<1>3. CASE UNCHANGED vars
  <2>1. UNCHANGED <<table, alive, denied, starved, pc, kind, filter, pids, cur, fds, fd, inodes,
                    todo, ret, ever, kept, lost>>
    BY <1>3 DEF vars, sysVars, askVars, history
  <2>2. TypeOK' /\ SystemInv' /\ PlaceInv'
    BY <2>1 DEF IInv, TypeOK, SystemInv, Holding, Readable, PlaceInv, Running, Wanted
  <2>3. FoundInv'
    BY <2>1 DEF IInv, FoundInv, FoundOnce, Wanted
  <2>4. WalkInv' /\ TablesInv'
    BY <2>1 DEF IInv, WalkInv, TablesInv, Asked, Wanted, TableRead, Reported, Row
  <2>5. OwnersHeldIt' /\ GivingUpHasCause'
    BY <2>1 DEF IInv, OwnersHeldIt, GivingUpHasCause, Asked, Wanted
  <2> QED
    BY <2>2, <2>3, <2>4, <2>5 DEF IInv
<1> QED
  BY <1>1, <1>2, <1>3 DEF Next

\* The inductive invariant: what the walk has found, what is still ahead of it
\* and of the reading of the tables, whatever the other processes do.
THEOREM Invariance == Spec => []IInv
  BY IInvInit, IInvStep, PTL DEF Spec

\* Types, those of the rows returned among them.
THEOREM TypeCorrect == Spec => []TypeOK
<1>1. IInv => TypeOK
  BY DEF IInv
<1> QED
  BY <1>1, Invariance, PTL

\* A socket is attributed to a descriptor only if that one held it during the
\* call; and one held and readable all along is reported if its table is among
\* those read, with this holder unless it is a TCP socket.
THEOREM RowsInterval == Spec => []BetweenThroughoutAndEver
<1>1. IInv => BetweenThroughoutAndEver
  <2> SUFFICES ASSUME IInv PROVE OwnersHeldIt /\ KeptIsReported
    BY DEF BetweenThroughoutAndEver
  <2>1. TablesInv /\ OwnersHeldIt
    BY DEF IInv
  <2>2. pc = "returned" => Len(todo) = 0
    BY <2>1 DEF TablesInv
  <2>3. KeptIsReported
    BY <2>1, <2>2 DEF TablesInv, KeptIsReported
  <2> QED
    BY <2>1, <2>3
<1> QED
  BY <1>1, Invariance, PTL

\* An exception means that something to be walked went away under the call or
\* could not be read, and a refusal that two descriptors asked for held a UDP
\* socket during it.
THEOREM GivingUp == Spec => []GivingUpHasCause
<1>1. IInv => GivingUpHasCause
  BY DEF IInv
<1> QED
  BY <1>1, Invariance, PTL
================================================================================
