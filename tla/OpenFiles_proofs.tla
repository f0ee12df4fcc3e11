--------------------------- MODULE OpenFiles_proofs ---------------------------
(* Theorems about proto.openFiles (module OpenFiles), for every set of calls, *)
(* every finite set of descriptors and every set of paths.                    *)
EXTENDS OpenFiles, FiniteSetTheorems, TLAPS

\* The one answer a call gives: it makes a sequence of one reply, and leaves the
\* other calls' replies alone.
LEMMA FirstReply ==
    ASSUME TypeOK, NEW c \in Calls, reply[c] = <<>>,
           NEW e \in BOOLEAN, NEW a \in SUBSET Paths, CallBack(c, e, a)
    PROVE  /\ reply' \in [Calls -> Seq(Replies)]
           /\ Len(reply'[c]) = 1
           /\ reply'[c][1] = [err |-> e, arr |-> a]
           /\ \A d \in Calls \ {c} : reply'[d] = reply[d]
<1> DEFINE r == [err |-> e, arr |-> a]
<1>1. r \in Replies
  BY DEF Replies
<1>2. reply' = [reply EXCEPT ![c] = Append(<<>>, r)]
  BY DEF CallBack
<1> HIDE DEF r
<1>3. /\ Append(<<>>, r) \in Seq(Replies)
      /\ Len(Append(<<>>, r)) = 1
      /\ Append(<<>>, r)[1] = r
  BY <1>1
<1>4. reply'[c] = Append(<<>>, r)
  BY <1>2 DEF TypeOK
<1>5. reply'[c][1] = r /\ Len(reply'[c]) = 1
  BY <1>3, <1>4
<1>6. reply' \in [Calls -> Seq(Replies)] /\ \A d \in Calls \ {c} : reply'[d] = reply[d]
  BY <1>2, <1>3 DEF TypeOK
<1> QED
  BY <1>5, <1>6 DEF r

\* The outstanding requests of a call are finitely many, and settling one of
\* them makes them one less.
LEMMA OutstandingFinite ==
    ASSUME NEW c \in Calls
    PROVE  /\ IsFiniteSet(Outstanding(c))
           /\ Cardinality(Outstanding(c)) \in Nat
           /\ Cardinality(Outstanding(c)) = 0 <=> Outstanding(c) = {}
           /\ \A f \in Outstanding(c) :
                 /\ Cardinality(Outstanding(c) \ {f}) = Cardinality(Outstanding(c)) - 1
                 /\ Cardinality(Outstanding(c) \ {f}) \in Nat
                 /\ Cardinality(Outstanding(c) \ {f}) = 0 <=> Outstanding(c) \ {f} = {}
<1>1. Outstanding(c) \subseteq Fds
  BY DEF Outstanding
<1>2. IsFiniteSet(Outstanding(c))
  BY <1>1, FdsAssumption, FS_Subset
<1>3. \A f \in Outstanding(c) : IsFiniteSet(Outstanding(c) \ {f})
  BY <1>2, FS_Subset
<1> QED
  BY <1>2, <1>3, FS_CardinalityType, FS_EmptySet, FS_RemoveElement

\* What the callback of a readlink does to the array and the counter keeps
\* their types.
LEMMA SettleTypes ==
    ASSUME TypeOK, NEW c \in Calls, NEW f \in Fds, CountInv(c), ReadlinkCallback(c, f)
    PROVE  /\ pc[c] = "reading" /\ reply[c] = <<>>
           /\ f \in Outstanding(c) /\ count[c] - 1 \in Nat
           /\ Pushed(c, f) \in SUBSET Paths
<1>1. f \in Outstanding(c)
  BY DEF ReadlinkCallback, Settle, Outstanding
<1>2. pc[c] = "reading" /\ reply[c] = <<>>
  BY <1>1 DEF CountInv, Ended
<1>3. count[c] - 1 \in Nat
  BY <1>1, <1>2, OutstandingFinite DEF CountInv
<1>4. Pushed(c, f) \in SUBSET Paths
  BY DEF Pushed, IsPath, TypeOK
<1> QED
  BY <1>1, <1>2, <1>3, <1>4

-----------------------------------------------------------------------------
(* Types.                                                                  *)

\* The initial states are well typed; there is a descriptor to start from.
LEMMA TypeInit == Init => TypeOK
<1> SUFFICES ASSUME Init PROVE TypeOK
  OBVIOUS
<1>1. (CHOOSE f \in Fds : TRUE) \in Fds
  BY FdsAssumption
<1>2. reply \in [Calls -> Seq(Replies)]
  BY DEF Init
<1> QED
  BY <1>1, <1>2 DEF Init, TypeOK, PCs, Requests

\* What is held are paths.
LEMMA HeldTypes == Held \in SUBSET Paths /\ HeldPairs \in SUBSET (Fds \X Paths)
  BY DEF Held, HeldPairs

\* The observed process and the file system keep the types.
LEMMA TypeEnvironment ==
    ASSUME TypeOK, Environment
    PROVE  TypeOK'
<1>1. /\ alive' \in BOOLEAN
      /\ table' \in [Fds -> Paths \cup {NoPath, Closed}]
      /\ removed' \in SUBSET Paths
      /\ Observe
  <2>1. ASSUME NEW f \in Fds, NEW p \in Paths \cup {NoPath}, Open(f, p)
        PROVE  /\ alive' = alive /\ removed' = removed /\ Observe
               /\ table' \in [Fds -> Paths \cup {NoPath, Closed}]
    BY <2>1 DEF Open, TypeOK
  <2>2. ASSUME NEW f \in Fds, Close(f)
        PROVE  /\ alive' = alive /\ removed' = removed /\ Observe
               /\ table' \in [Fds -> Paths \cup {NoPath, Closed}]
    BY <2>2 DEF Close, TypeOK
  <2>3. ASSUME NEW p \in Paths, Unlink(p)
        PROVE  /\ alive' = alive /\ table' = table /\ Observe
               /\ removed' \in SUBSET Paths
    BY <2>3 DEF Unlink, TypeOK
  <2>4. CASE Exit
    BY <2>4 DEF Exit, TypeOK
  <2> QED
    BY <2>1, <2>2, <2>3, <2>4 DEF Environment, TypeOK
<1>2. Held' \in SUBSET Paths
  BY DEF Held
<1>3. ever' \in [Calls -> SUBSET Paths] /\ kept' \in [Calls -> SUBSET (Fds \X Paths)]
  BY <1>1, <1>2 DEF Observe, TypeOK
<1> QED
  BY <1>1, <1>3 DEF Observe, TypeOK, asyncVars, syncVars

\* Every step of a call keeps the types.
LEMMA TypeCall ==
    ASSUME TypeOK, NEW c \in Calls, CountInv(c), CallStep(c)
    PROVE  TypeOK'
<1> USE DEF PCs, Ended, Synchronous
<1>1. CASE CallAsync(c) \/ CallSync(c)
  BY <1>1, HeldTypes DEF CallAsync, CallSync, Begin, TypeOK, procVars, asyncVars, syncVars
<1>2. CASE ReaddirExec(c)
  <2>0. OpenFds \in SUBSET Fds
    BY DEF OpenFds
  <2>1. TRUE \in BOOLEAN
    OBVIOUS
  <2>2. err' \in [Calls -> BOOLEAN] /\ files' \in [Calls -> SUBSET Fds]
    <3>1. err \in [Calls -> BOOLEAN] /\ files \in [Calls -> SUBSET Fds]
      BY DEF TypeOK
    <3>2. CASE err' = [err EXCEPT ![c] = TRUE] /\ files' = files
      <4>1. err' \in [Calls -> BOOLEAN]
        BY <2>1, <3>1, <3>2, Zenon
      <4> QED
        BY <3>1, <3>2, <4>1
    <3>3. CASE files' = [files EXCEPT ![c] = OpenFds] /\ err' = err
      BY <2>0, <3>1, <3>3
    <3> QED
      BY <1>2, <3>2, <3>3 DEF ReaddirExec
  <2>3. pc' \in [Calls -> PCs]
    BY <1>2 DEF ReaddirExec, TypeOK
  <2> QED
    BY <1>2, <2>2, <2>3 DEF ReaddirExec, TypeOK, procVars, syncVars
<1>3. CASE ReaddirCallback(c)
  <2>1. CASE err[c]
    <3>1. CallBack(c, TRUE, {}) /\ reply[c] = <<>>
      BY <1>3, <2>1 DEF ReaddirCallback, CountInv
    <3>2. reply' \in [Calls -> Seq(Replies)]
      BY <3>1, FirstReply
    <3> QED
      BY <1>3, <2>1, <3>2 DEF ReaddirCallback, TypeOK, procVars, syncVars
  <2>2. CASE ~err[c]
    <3>1. Cardinality(files[c]) \in Nat
      BY FdsAssumption, FS_Subset, FS_CardinalityType DEF TypeOK
    <3>2. [f \in Fds |-> IF f \in files[c] THEN "queued" ELSE "none"] \in [Fds -> Requests]
      BY DEF Requests
    <3>3. /\ count' = [count EXCEPT ![c] = Cardinality(files[c])]
          /\ req' = [req EXCEPT ![c] =
                       [f \in Fds |-> IF f \in files[c] THEN "queued" ELSE "none"]]
      BY <1>3, <2>2 DEF ReaddirCallback
    <3>5. count' \in [Calls -> Nat]
      BY <3>1, <3>3 DEF TypeOK
    <3>6. req' \in [Calls -> [Fds -> Requests]]
      BY <3>2, <3>3 DEF TypeOK
    <3>4. pc' \in [Calls -> PCs]
      BY <1>3, <2>2 DEF ReaddirCallback, TypeOK
    <3> QED
      BY <1>3, <2>2, <3>4, <3>5, <3>6 DEF ReaddirCallback, TypeOK, procVars, syncVars
  <2> QED
    BY <2>1, <2>2
<1>4. CASE SyncReaddir(c)
  <2>1. CASE /\ files' = [files EXCEPT ![c] = OpenFds] /\ todo' = [todo EXCEPT ![c] = OpenFds]
             /\ Goto(c, "syncExists")
    <3>1. OpenFds \in SUBSET Fds
      BY DEF OpenFds
    <3> QED
      BY <1>4, <2>1, <3>1 DEF SyncReaddir, Goto, TypeOK, procVars, asyncVars
  <2>2. CASE Throw(c) /\ UNCHANGED <<files, todo>>
    <3>1. CallBack(c, TRUE, {}) /\ reply[c] = <<>>
      BY <1>4, <2>2 DEF SyncReaddir, Throw, CountInv
    <3>2. reply' \in [Calls -> Seq(Replies)]
      BY <3>1, FirstReply
    <3> QED
      BY <1>4, <2>2, <3>2 DEF SyncReaddir, Throw, TypeOK, procVars, asyncVars
  <2> QED
    BY <1>4, <2>1, <2>2 DEF SyncReaddir
<1>5. CASE SyncReadlink(c)
  <2>1. CASE table[cur[c]] = Closed
    <3>1. CallBack(c, TRUE, {}) /\ reply[c] = <<>>
      BY <1>5, <2>1 DEF SyncReadlink, Throw, CountInv
    <3>2. reply' \in [Calls -> Seq(Replies)]
      BY <3>1, FirstReply
    <3> QED
      BY <1>5, <2>1, <3>2 DEF SyncReadlink, Throw, TypeOK, procVars, asyncVars, syncVars
  <2>2. CASE table[cur[c]] # Closed
    <3>0. link' = [link EXCEPT ![c][cur[c]] =
                     IF table[cur[c]] \in Paths THEN table[cur[c]] ELSE NoPath]
      BY <1>5, <2>2 DEF SyncReadlink
    <3>1. link' \in [Calls -> [Fds -> Paths \cup {NoPath}]]
      BY <3>0 DEF TypeOK
    <3>2. pc' \in [Calls -> PCs] /\ UNCHANGED <<main, reply>>
      BY <1>5, <2>2 DEF SyncReadlink, Goto, TypeOK
    <3> QED
      BY <1>5, <3>1, <3>2 DEF SyncReadlink, TypeOK, procVars, asyncVars, syncVars
  <2> QED
    BY <2>1, <2>2
<1>6. CASE SyncStat(c)
  <2>1. CASE link[c][cur[c]] \in removed
    <3>1. CallBack(c, TRUE, {}) /\ reply[c] = <<>>
      BY <1>6, <2>1 DEF SyncStat, Throw, CountInv
    <3>2. reply' \in [Calls -> Seq(Replies)]
      BY <3>1, FirstReply
    <3> QED
      BY <1>6, <2>1, <3>2 DEF SyncStat, Throw, TypeOK, procVars, asyncVars, syncVars
  <2>2. CASE link[c][cur[c]] \notin removed
    <3>1. arr[c] \cup ({link[c][cur[c]]} \cap Regular) \in SUBSET Paths
      BY PathsAssumption DEF TypeOK
    <3> QED
      BY <1>6, <2>2, <3>1 DEF SyncStat, Goto, TypeOK, procVars, asyncVars, syncVars
  <2> QED
    BY <2>1, <2>2
<1>7. CASE SyncReturn(c)
  <2>1. CallBack(c, FALSE, arr[c]) /\ reply[c] = <<>> /\ arr[c] \in SUBSET Paths
    BY <1>7 DEF SyncReturn, CountInv, TypeOK
  <2>2. reply' \in [Calls -> Seq(Replies)]
    BY <2>1, FirstReply
  <2> QED
    BY <1>7, <2>2 DEF SyncReturn, TypeOK, procVars, asyncVars, syncVars
<1>8. ASSUME NEW f \in Fds, ReadlinkExec(c, f) PROVE TypeOK'
  BY <1>8 DEF ReadlinkExec, TypeOK, procVars, syncVars, Requests
<1>9. ASSUME NEW f \in Fds, ReadlinkCallback(c, f) PROVE TypeOK'
  <2>1. /\ reply[c] = <<>> /\ count[c] - 1 \in Nat /\ Pushed(c, f) \in SUBSET Paths
    BY <1>9, SettleTypes
  <2>2. reply' \in [Calls -> Seq(Replies)]
    <3>1. CASE CallBack(c, FALSE, Pushed(c, f))
      BY <2>1, <3>1, FirstReply
    <3>2. CASE UNCHANGED reply
      BY <3>2 DEF TypeOK
    <3> QED
      BY <1>9, <3>1, <3>2 DEF ReadlinkCallback, Settle
  <2> QED
    BY <1>9, <2>1, <2>2 DEF ReadlinkCallback, Settle, TypeOK, procVars, syncVars, Requests
<1>10. ASSUME NEW f \in Fds, ReadlinkCrash(c, f) PROVE TypeOK'
  BY <1>10 DEF ReadlinkCrash, TypeOK, procVars, asyncVars, syncVars
<1>11. ASSUME NEW f \in Fds, SyncExists(c, f) PROVE TypeOK'
  BY <1>11 DEF SyncExists, Goto, TypeOK, procVars, asyncVars
<1> QED
  BY <1>1, <1>2, <1>3, <1>4, <1>5, <1>6, <1>7, <1>8, <1>9, <1>10, <1>11 DEF CallStep

-----------------------------------------------------------------------------
(* The invariant of one call.                                              *)

\* A step that leaves a call, the descriptor table and the files alone leaves
\* its invariant alone.
LEMMA CallFrame ==
    ASSUME NEW c \in Calls, CountInv(c), ReplyInv(c), EverInv(c), KeptInv(c),
           table' = table, removed' = removed,
           pc'[c] = pc[c], files'[c] = files[c], err'[c] = err[c], count'[c] = count[c],
           req'[c] = req[c], link'[c] = link[c], todo'[c] = todo[c], cur'[c] = cur[c],
           arr'[c] = arr[c], reply'[c] = reply[c], ever'[c] = ever[c], kept'[c] = kept[c]
    PROVE  CountInv(c)' /\ ReplyInv(c)' /\ EverInv(c)' /\ KeptInv(c)'
<1>1. Outstanding(c)' = Outstanding(c) /\ Held' = Held /\ HeldPairs' = HeldPairs
      /\ InFlight(c)' = InFlight(c)
  BY DEF Outstanding, Held, HeldPairs, OpenFds, InFlight
<1>2. CountInv(c)' /\ ReplyInv(c)'
  BY <1>1 DEF CountInv, ReplyInv
<1>3. EverInv(c)'
  BY <1>1 DEF EverInv
<1>4. KeptInv(c)'
  BY <1>1 DEF KeptInv, OnItsWay
<1> QED
  BY <1>2, <1>3, <1>4

\* A step of one call leaves every other call, the table and the files alone.
LEMMA OtherCallsAlone ==
    ASSUME TypeOK, NEW c \in Calls, NEW d \in Calls, c # d, CallStep(c)
    PROVE  /\ table' = table /\ removed' = removed
           /\ pc'[d] = pc[d] /\ files'[d] = files[d] /\ err'[d] = err[d] /\ count'[d] = count[d]
           /\ req'[d] = req[d] /\ link'[d] = link[d] /\ todo'[d] = todo[d] /\ cur'[d] = cur[d]
           /\ arr'[d] = arr[d] /\ reply'[d] = reply[d] /\ ever'[d] = ever[d]
           /\ kept'[d] = kept[d]
<1> USE DEF TypeOK, procVars, asyncVars, syncVars
<1>1. CASE CallAsync(c) \/ CallSync(c)
  BY <1>1 DEF CallAsync, CallSync, Begin
<1>2. CASE ReaddirExec(c)
  BY <1>2 DEF ReaddirExec
<1>3. CASE ReaddirCallback(c)
  BY <1>3 DEF ReaddirCallback, CallBack
<1>4. CASE SyncReaddir(c)
  BY <1>4 DEF SyncReaddir, Throw, CallBack, Goto
<1>5. CASE SyncReadlink(c)
  BY <1>5 DEF SyncReadlink, Throw, CallBack, Goto
<1>6. CASE SyncStat(c)
  BY <1>6 DEF SyncStat, Throw, CallBack, Goto
<1>7. CASE SyncReturn(c)
  BY <1>7 DEF SyncReturn, CallBack
<1>8. CASE \E f \in Fds : ReadlinkExec(c, f)
  BY <1>8 DEF ReadlinkExec
<1>9. CASE \E f \in Fds : ReadlinkCallback(c, f)
  BY <1>9 DEF ReadlinkCallback, Settle, CallBack
<1>10. CASE \E f \in Fds : ReadlinkCrash(c, f)
  BY <1>10 DEF ReadlinkCrash
<1>11. CASE \E f \in Fds : SyncExists(c, f)
  BY <1>11 DEF SyncExists, Goto
<1> QED
  BY <1>1, <1>2, <1>3, <1>4, <1>5, <1>6, <1>7, <1>8, <1>9, <1>10, <1>11 DEF CallStep

\* The observed process moves: what a call in flight has read stays within what
\* it saw, and what it still counts as kept is still held.
LEMMA EnvironmentStep ==
    ASSUME TypeOK, NEW c \in Calls, CountInv(c), ReplyInv(c), EverInv(c), KeptInv(c),
           Environment
    PROVE  CountInv(c)' /\ ReplyInv(c)' /\ EverInv(c)' /\ KeptInv(c)'
<1>1. Observe
  BY DEF Environment, Open, Close, Exit, Unlink
<1>2. /\ pc' = pc /\ files' = files /\ err' = err /\ count' = count /\ req' = req
      /\ link' = link /\ todo' = todo /\ cur' = cur /\ arr' = arr /\ reply' = reply
      /\ ever'[c] = (IF InFlight(c) THEN ever[c] \cup Held' ELSE ever[c])
      /\ kept'[c] = (IF InFlight(c) THEN kept[c] \cap HeldPairs' ELSE kept[c])
  BY <1>1 DEF Observe, asyncVars, syncVars
<1>3. Outstanding(c)' = Outstanding(c) /\ InFlight(c)' = InFlight(c)
  BY <1>2 DEF Outstanding, InFlight
<1>4. CountInv(c)' /\ ReplyInv(c)'
  BY <1>2, <1>3 DEF CountInv, ReplyInv
<1>5. EverInv(c)'
  BY <1>2, <1>3 DEF EverInv
<1>6. KeptInv(c)'
  <2>1. kept'[c] \subseteq kept[c]
    BY <1>2
  <2>2. \A f, p : OnItsWay(c, f, p)' = OnItsWay(c, f, p)
    BY <1>2 DEF OnItsWay
  <2>3. InFlight(c)' => kept'[c] \subseteq HeldPairs'
    BY <1>2, <1>3
  <2> QED
    BY <2>1, <2>2, <2>3 DEF KeptInv
<1> QED
  BY <1>4, <1>5, <1>6

\* The call begins: it sees what is held now.
LEMMA BeginStep ==
    ASSUME TypeOK, NEW c \in Calls, CountInv(c), ReplyInv(c), EverInv(c), KeptInv(c),
           CallAsync(c) \/ CallSync(c)
    PROVE  CountInv(c)' /\ ReplyInv(c)' /\ EverInv(c)' /\ KeptInv(c)'
<1>1. /\ pc[c] = "new" /\ pc'[c] \in {"listing", "syncListing"}
      /\ ever'[c] = Held /\ kept'[c] = HeldPairs
      /\ table' = table /\ removed' = removed
      /\ req' = req /\ link' = link /\ cur' = cur /\ arr' = arr /\ reply' = reply
  BY DEF CallAsync, CallSync, Begin, TypeOK, procVars, asyncVars, syncVars
<1>2. Outstanding(c)' = Outstanding(c) /\ Held' = Held /\ HeldPairs' = HeldPairs
  BY <1>1 DEF Outstanding, Held, HeldPairs, OpenFds
<1>3. CountInv(c)' /\ ReplyInv(c)'
  BY <1>1, <1>2 DEF CountInv, ReplyInv, Ended
<1>4. EverInv(c)'
  BY <1>1, <1>2, PathsAssumption DEF EverInv, Synchronous
<1>5. KeptInv(c)'
  BY <1>1, <1>2 DEF KeptInv, OnItsWay
<1> QED
  BY <1>3, <1>4, <1>5

\* readdir: every pair still held is listed.
LEMMA ReaddirExecStep ==
    ASSUME TypeOK, NEW c \in Calls, CountInv(c), ReplyInv(c), EverInv(c), KeptInv(c),
           ReaddirExec(c)
    PROVE  CountInv(c)' /\ ReplyInv(c)' /\ EverInv(c)' /\ KeptInv(c)'
<1>1. /\ pc[c] = "listing" /\ pc'[c] = "listed" /\ (files'[c] = OpenFds \/ err'[c])
      /\ ever' = ever /\ kept' = kept /\ table' = table /\ removed' = removed
      /\ req' = req /\ link' = link /\ cur' = cur /\ arr' = arr /\ reply' = reply
  BY DEF ReaddirExec, TypeOK, procVars, syncVars
<1>2. Outstanding(c)' = Outstanding(c) /\ Held' = Held /\ HeldPairs' = HeldPairs
  BY <1>1 DEF Outstanding, Held, HeldPairs, OpenFds
<1>3. CountInv(c)' /\ ReplyInv(c)'
  BY <1>1, <1>2 DEF CountInv, ReplyInv, Ended
<1>4. EverInv(c)'
  BY <1>1, <1>2 DEF EverInv, Synchronous, InFlight, Ended
<1>5. KeptInv(c)'
  <2>1. kept[c] \subseteq HeldPairs
    BY <1>1 DEF KeptInv, InFlight, Ended
  <2>2. \A fp \in kept[c] : fp[1] \in OpenFds
    BY <2>1 DEF HeldPairs
  <2> QED
    BY <1>1, <1>2, <2>1, <2>2 DEF KeptInv, OnItsWay
<1> QED
  BY <1>3, <1>4, <1>5

\* The readdir callback: one request for each listed descriptor, or the error.
LEMMA ReaddirCallbackStep ==
    ASSUME TypeOK, NEW c \in Calls, CountInv(c), ReplyInv(c), EverInv(c), KeptInv(c),
           ReaddirCallback(c)
    PROVE  CountInv(c)' /\ ReplyInv(c)' /\ EverInv(c)' /\ KeptInv(c)'
<1>1. /\ pc[c] = "listed" /\ files' = files /\ err' = err /\ reply[c] = <<>>
      /\ ever' = ever /\ kept' = kept /\ table' = table /\ removed' = removed
      /\ link' = link /\ cur' = cur /\ arr' = arr
      /\ Outstanding(c) = {} /\ arr[c] = {}
  BY DEF ReaddirCallback, procVars, syncVars, CountInv, EverInv, Ended
<1>2. Held' = Held /\ HeldPairs' = HeldPairs
  BY <1>1 DEF Held, HeldPairs, OpenFds
<1>3. CASE err[c]
  <2>1. /\ pc'[c] = "answered" /\ req' = req
        /\ CallBack(c, TRUE, {})
    BY <1>3 DEF ReaddirCallback, TypeOK
  <2>2. Len(reply'[c]) = 1 /\ reply'[c][1] = [err |-> TRUE, arr |-> {}]
    BY <1>1, <2>1, FirstReply
  <2>3. Outstanding(c)' = {}
    BY <1>1, <2>1 DEF Outstanding
  <2>4. CountInv(c)'
    BY <2>1, <2>2, <2>3 DEF CountInv, Ended
  <2>5. ReplyInv(c)'
    <3>1. err'[c] = TRUE /\ arr'[c] = {}
      BY <1>1, <1>3 DEF TypeOK
    <3> QED
      BY <2>1, <2>2, <3>1 DEF ReplyInv
  <2>6. EverInv(c)'
    BY <1>1, <2>1 DEF EverInv, InFlight, Ended, Synchronous
  <2>7. KeptInv(c)'
    BY <1>1, <1>3, <2>1 DEF KeptInv, OnItsWay, InFlight, Ended
  <2> QED
    BY <2>4, <2>5, <2>6, <2>7
<1>4. CASE ~err[c]
  <2>1. /\ pc'[c] = "reading" /\ reply' = reply
        /\ count'[c] = Cardinality(files[c])
        /\ req'[c] = [f \in Fds |-> IF f \in files[c] THEN "queued" ELSE "none"]
    BY <1>4 DEF ReaddirCallback, TypeOK
  <2>2. Outstanding(c)' = files[c]
    <3>1. files[c] \subseteq Fds
      BY DEF TypeOK
    <3> QED
      BY <2>1, <3>1 DEF Outstanding
  <2>3. CountInv(c)'
    BY <1>1, <2>1, <2>2 DEF CountInv, Ended
  <2>4. ReplyInv(c)'
    BY <1>1, <1>4, <2>1 DEF ReplyInv
  <2>5. EverInv(c)'
    BY <1>1, <1>2, <2>1 DEF EverInv, InFlight, Ended, Synchronous
  <2>6. KeptInv(c)'
    <3>1. \A fp \in kept[c] : fp[1] \in files[c] /\ fp[1] \in Fds
      BY <1>1, <1>4 DEF KeptInv, OnItsWay, TypeOK
    <3>2. kept[c] \subseteq HeldPairs
      BY <1>1 DEF KeptInv, InFlight, Ended
    <3> QED
      BY <1>1, <1>2, <2>1, <3>1, <3>2 DEF KeptInv, OnItsWay
  <2> QED
    BY <2>3, <2>4, <2>5, <2>6
<1> QED
  BY <1>3, <1>4

\* A link is read: its target is held now, and if it is a kept one, it is the
\* kept target.
LEMMA ReadlinkExecStep ==
    ASSUME TypeOK, NEW c \in Calls, CountInv(c), ReplyInv(c), EverInv(c), KeptInv(c),
           NEW f \in Fds, ReadlinkExec(c, f)
    PROVE  CountInv(c)' /\ ReplyInv(c)' /\ EverInv(c)' /\ KeptInv(c)'
<1>1. /\ pc' = pc /\ files' = files /\ err' = err /\ count' = count /\ reply' = reply
      /\ ever' = ever /\ kept' = kept /\ table' = table /\ removed' = removed
      /\ cur' = cur /\ todo' = todo /\ arr' = arr
      /\ req[c][f] = "queued"
      /\ req'[c] = [req[c] EXCEPT ![f] = IF table[f] = Closed THEN "error" ELSE "data"]
      /\ link'[c] = [link[c] EXCEPT ![f] = IF table[f] \in Paths THEN table[f] ELSE NoPath]
  BY DEF ReadlinkExec, TypeOK, procVars, syncVars
<1>2. Held' = Held /\ HeldPairs' = HeldPairs
  BY <1>1 DEF Held, HeldPairs, OpenFds
<1>3. pc[c] = "reading"
  BY <1>1 DEF CountInv, Outstanding
<1>4. req[c] \in [Fds -> Requests] /\ link[c] \in [Fds -> Paths \cup {NoPath}]
  BY DEF TypeOK
<1>5. Outstanding(c)' = Outstanding(c)
  BY <1>1, <1>4 DEF Outstanding
<1>6. CountInv(c)'
  BY <1>1, <1>5 DEF CountInv
<1>7. ReplyInv(c)'
  BY <1>1, <1>3 DEF ReplyInv
<1>8. EverInv(c)'
  <2>1. Held \subseteq ever[c]
    BY <1>3 DEF EverInv, InFlight, Ended
  <2>2. table[f] \in Paths => table[f] \in ever[c]
    BY <2>1, PathsAssumption DEF Held, OpenFds
  <2>3. \A g \in Fds : link'[c][g] \in Paths => link'[c][g] \in ever[c]
    BY <1>1, <1>4, <2>2, PathsAssumption DEF EverInv
  <2> QED
    BY <1>1, <1>2, <1>3, <2>1, <2>3 DEF EverInv, Synchronous
<1>9. KeptInv(c)'
  <2>1. kept[c] \subseteq HeldPairs
    BY <1>3 DEF KeptInv, InFlight, Ended
  <2> SUFFICES ASSUME NEW fp \in kept[c]
               PROVE  OnItsWay(c, fp[1], fp[2])'
    BY <1>1, <1>2, <2>1 DEF KeptInv
  <2>2. fp[1] \in Fds /\ table[fp[1]] = fp[2] /\ fp[2] \in Paths /\ table[fp[1]] # Closed
    BY <2>1 DEF HeldPairs, OpenFds
  <2>3. OnItsWay(c, fp[1], fp[2])
    BY DEF KeptInv
  <2>4. CASE fp[1] = f
    BY <1>1, <1>3, <1>4, <2>2, <2>4 DEF OnItsWay
  <2>5. CASE fp[1] # f
    BY <1>1, <1>3, <1>4, <2>2, <2>3, <2>5 DEF OnItsWay
  <2> QED
    BY <2>4, <2>5
<1> QED
  BY <1>6, <1>7, <1>8, <1>9

\* The callback of a readlink: one request less; the last one answers.
LEMMA ReadlinkCallbackStep ==
    ASSUME TypeOK, NEW c \in Calls, CountInv(c), ReplyInv(c), EverInv(c), KeptInv(c),
           NEW f \in Fds, ReadlinkCallback(c, f)
    PROVE  CountInv(c)' /\ ReplyInv(c)' /\ EverInv(c)' /\ KeptInv(c)'
<1>1. /\ pc[c] = "reading" /\ reply[c] = <<>> /\ f \in Outstanding(c)
      /\ Pushed(c, f) \in SUBSET Paths
      /\ files' = files /\ err' = err
      /\ ever' = ever /\ kept' = kept /\ table' = table /\ removed' = removed
      /\ cur' = cur /\ todo' = todo /\ link' = link
      /\ req'[c] = [req[c] EXCEPT ![f] = "settled"]
      /\ arr'[c] = Pushed(c, f) /\ count'[c] = count[c] - 1
      /\ req[c][f] \in {"data", "error"}
  BY SettleTypes DEF ReadlinkCallback, Settle, TypeOK, procVars, syncVars
<1>2. Held' = Held /\ HeldPairs' = HeldPairs
  BY <1>1 DEF Held, HeldPairs, OpenFds
<1>3. ~err[c]
  BY <1>1 DEF ReplyInv
<1>4. req[c] \in [Fds -> Requests]
  BY DEF TypeOK
<1>5. Outstanding(c)' = Outstanding(c) \ {f}
  BY <1>1, <1>4 DEF Outstanding
<1>6. /\ count[c] - 1 = Cardinality(Outstanding(c)')
      /\ count[c] - 1 = 0 <=> Outstanding(c)' = {}
  BY <1>1, <1>5, OutstandingFinite DEF CountInv
<1>7. pc'[c] = IF count[c] - 1 = 0 THEN "answered" ELSE "reading"
  BY <1>1 DEF ReadlinkCallback, Settle, TypeOK
<1>8. CountInv(c)' /\ ReplyInv(c)'
  <2>1. CASE count[c] - 1 = 0
    <3>1. CallBack(c, FALSE, Pushed(c, f))
      BY <2>1 DEF ReadlinkCallback, Settle
    <3>2. Len(reply'[c]) = 1 /\ reply'[c][1] = [err |-> FALSE, arr |-> Pushed(c, f)]
      BY <1>1, <3>1, FirstReply
    <3>3. err'[c] = FALSE
      BY <1>1, <1>3 DEF TypeOK
    <3> QED
      BY <1>1, <1>6, <1>7, <2>1, <3>2, <3>3 DEF CountInv, ReplyInv, Ended
  <2>2. CASE count[c] - 1 # 0
    <3>1. reply'[c] = <<>>
      BY <1>1, <2>2 DEF ReadlinkCallback, Settle
    <3> QED
      BY <1>1, <1>3, <1>6, <1>7, <2>2, <3>1 DEF CountInv, ReplyInv, Ended
  <2> QED
    BY <2>1, <2>2
<1>9. EverInv(c)'
  <2>1. Pushed(c, f) \subseteq ever[c]
    BY DEF EverInv, Pushed, IsPath
  <2> QED
    BY <1>1, <1>2, <1>7, <2>1 DEF EverInv, InFlight, Ended, Synchronous
<1>10. KeptInv(c)'
  <2>1. kept[c] \subseteq HeldPairs
    BY <1>1 DEF KeptInv, InFlight, Ended
  <2> SUFFICES ASSUME NEW fp \in kept[c]
               PROVE  OnItsWay(c, fp[1], fp[2])'
    BY <1>1, <1>2, <2>1 DEF KeptInv
  <2>2. fp[1] \in Fds /\ fp[2] \in Paths
    BY <2>1 DEF HeldPairs
  <2>3. \/ req[c][fp[1]] = "queued"
        \/ req[c][fp[1]] = "data" /\ link[c][fp[1]] = fp[2]
        \/ req[c][fp[1]] = "settled" /\ fp[2] \in arr[c]
    BY <1>1, <1>3 DEF KeptInv, OnItsWay
  <2>4. arr[c] \subseteq Pushed(c, f)
    BY DEF Pushed
  <2>5. CASE fp[1] = f
    <3>1. fp[2] \in Pushed(c, f)
      BY <1>1, <2>2, <2>3, <2>5 DEF Pushed, IsPath
    <3> QED
      BY <1>1, <1>4, <1>7, <2>5, <3>1 DEF OnItsWay
  <2>6. CASE fp[1] # f
    BY <1>1, <1>4, <1>7, <2>2, <2>3, <2>4, <2>6 DEF OnItsWay
  <2> QED
    BY <2>5, <2>6
<1> QED
  BY <1>8, <1>9, <1>10

\* A call without a callback that throws: the facts every throw has in common.
LEMMA ThrowStep ==
    ASSUME TypeOK, NEW c \in Calls, CountInv(c), EverInv(c),
           pc[c] \in Synchronous, Throw(c), table' = table, removed' = removed,
           req' = req, link' = link, arr' = arr, ever' = ever, kept' = kept, cur' = cur
    PROVE  CountInv(c)' /\ ReplyInv(c)' /\ EverInv(c)' /\ KeptInv(c)'
<1>1. /\ pc'[c] = "thrown" /\ reply[c] = <<>> /\ Outstanding(c) = {}
      /\ CallBack(c, TRUE, {})
  BY DEF Throw, TypeOK, CountInv, Synchronous, Ended
<1>2. Len(reply'[c]) = 1 /\ reply'[c][1] = [err |-> TRUE, arr |-> {}]
  BY <1>1, FirstReply
<1>3. Outstanding(c)' = {}
  BY <1>1 DEF Outstanding
<1>4. CountInv(c)' /\ ReplyInv(c)'
  BY <1>1, <1>2, <1>3 DEF CountInv, ReplyInv, Ended
<1>5. EverInv(c)' /\ KeptInv(c)'
  BY <1>1 DEF EverInv, KeptInv, OnItsWay, InFlight, Ended, Synchronous
<1> QED
  BY <1>4, <1>5

\* A step inside a call without a callback that answers nothing.
LEMMA SyncQuiet ==
    ASSUME NEW c \in Calls, CountInv(c), pc[c] \in Synchronous, pc'[c] \in Synchronous,
           req' = req, reply' = reply
    PROVE  CountInv(c)' /\ ReplyInv(c)'
<1>1. Outstanding(c)' = Outstanding(c)
  BY DEF Outstanding
<1> QED
  BY <1>1 DEF CountInv, ReplyInv, Ended, Synchronous

\* readdirSync: every pair still held is still to be looked at.
LEMMA SyncReaddirStep ==
    ASSUME TypeOK, NEW c \in Calls, CountInv(c), ReplyInv(c), EverInv(c), KeptInv(c),
           SyncReaddir(c)
    PROVE  CountInv(c)' /\ ReplyInv(c)' /\ EverInv(c)' /\ KeptInv(c)'
<1>1. /\ pc[c] = "syncListing" /\ pc[c] \in Synchronous
      /\ ever' = ever /\ kept' = kept /\ table' = table /\ removed' = removed
      /\ req' = req /\ link' = link /\ cur' = cur /\ arr' = arr
  BY DEF SyncReaddir, procVars, asyncVars, Synchronous
<1>2. CASE Throw(c)
  BY <1>1, <1>2, ThrowStep DEF SyncReaddir
<1>3. CASE /\ todo' = [todo EXCEPT ![c] = OpenFds] /\ Goto(c, "syncExists")
  <2>1. pc'[c] = "syncExists" /\ todo'[c] = OpenFds /\ reply' = reply
    BY <1>3 DEF SyncReaddir, Goto, TypeOK
  <2>2. Held' = Held /\ HeldPairs' = HeldPairs
    BY <1>1 DEF Held, HeldPairs, OpenFds
  <2>3. kept[c] \subseteq HeldPairs /\ \A fp \in kept[c] : fp[1] \in OpenFds
    BY <1>1 DEF KeptInv, InFlight, Ended, HeldPairs
  <2>4. CountInv(c)' /\ ReplyInv(c)'
    BY <1>1, <2>1, SyncQuiet DEF Synchronous
  <2>5. EverInv(c)'
    BY <1>1, <2>1, <2>2 DEF EverInv, InFlight, Ended, Synchronous
  <2>6. KeptInv(c)'
    BY <1>1, <2>1, <2>2, <2>3 DEF KeptInv, OnItsWay
  <2> QED
    BY <2>4, <2>5, <2>6
<1> QED
  BY <1>2, <1>3 DEF SyncReaddir

\* existsSync takes one descriptor: it is at hand, unless it is closed, and then
\* it is not a kept one.
LEMMA SyncExistsStep ==
    ASSUME TypeOK, NEW c \in Calls, CountInv(c), ReplyInv(c), EverInv(c), KeptInv(c),
           NEW f \in Fds, SyncExists(c, f)
    PROVE  CountInv(c)' /\ ReplyInv(c)' /\ EverInv(c)' /\ KeptInv(c)'
<1>1. /\ pc[c] = "syncExists" /\ pc[c] \in Synchronous
      /\ pc'[c] = IF table[f] # Closed THEN "syncReadlink" ELSE "syncExists"
      /\ todo'[c] = todo[c] \ {f} /\ cur'[c] = f
      /\ ever' = ever /\ kept' = kept /\ table' = table /\ removed' = removed
      /\ req' = req /\ link' = link /\ arr' = arr /\ reply' = reply
  BY DEF SyncExists, Goto, TypeOK, procVars, asyncVars, Synchronous
<1>2. Held' = Held /\ HeldPairs' = HeldPairs
  BY <1>1 DEF Held, HeldPairs, OpenFds
<1>3. CountInv(c)' /\ ReplyInv(c)'
  BY <1>1, SyncQuiet DEF Synchronous
<1>4. EverInv(c)'
  BY <1>1, <1>2 DEF EverInv, InFlight, Ended, Synchronous
<1>5. KeptInv(c)'
  <2>1. kept[c] \subseteq HeldPairs /\ \A fp \in kept[c] : table[fp[1]] # Closed
    BY <1>1 DEF KeptInv, InFlight, Ended, HeldPairs, OpenFds
  <2> QED
    BY <1>1, <1>2, <2>1 DEF KeptInv, OnItsWay
<1> QED
  BY <1>3, <1>4, <1>5

\* readlinkSync: the target is held now; if the pair is kept it is that target.
LEMMA SyncReadlinkStep ==
    ASSUME TypeOK, NEW c \in Calls, CountInv(c), ReplyInv(c), EverInv(c), KeptInv(c),
           SyncReadlink(c)
    PROVE  CountInv(c)' /\ ReplyInv(c)' /\ EverInv(c)' /\ KeptInv(c)'
<1> DEFINE f == cur[c]
<1>1. /\ pc[c] = "syncReadlink" /\ pc[c] \in Synchronous /\ f \in Fds
      /\ ever' = ever /\ kept' = kept /\ table' = table /\ removed' = removed
      /\ req' = req /\ arr' = arr /\ cur' = cur /\ todo' = todo
  BY DEF SyncReadlink, TypeOK, procVars, asyncVars, syncVars, Synchronous
<1>2. CASE table[f] = Closed
  BY <1>1, <1>2, ThrowStep DEF SyncReadlink
<1>3. CASE table[f] # Closed
  <2>1. /\ pc'[c] = IF table[f] \in Paths THEN "syncStat" ELSE "syncExists"
        /\ reply' = reply
    BY <1>3 DEF SyncReadlink, Goto, TypeOK
  <2>2. link' = [link EXCEPT ![c][f] = IF table[f] \in Paths THEN table[f] ELSE NoPath]
    BY <1>3 DEF SyncReadlink
  <2>3. link'[c] = [link[c] EXCEPT ![f] = IF table[f] \in Paths THEN table[f] ELSE NoPath]
    BY <2>2 DEF TypeOK
  <2>4. link[c] \in [Fds -> Paths \cup {NoPath}]
    BY DEF TypeOK
  <2>5. Held' = Held /\ HeldPairs' = HeldPairs
    BY <1>1 DEF Held, HeldPairs, OpenFds
  <2>6. CountInv(c)' /\ ReplyInv(c)'
    BY <1>1, <2>1, SyncQuiet DEF Synchronous
  <2>7. EverInv(c)'
    <3>1. Held \subseteq ever[c]
      BY <1>1 DEF EverInv, InFlight, Ended
    <3>2. table[f] \in Paths => table[f] \in ever[c]
      BY <1>1, <3>1, PathsAssumption DEF Held, OpenFds
    <3>3. \A g \in Fds : link'[c][g] \in Paths => link'[c][g] \in ever[c]
      BY <1>1, <2>3, <2>4, <3>2, PathsAssumption DEF EverInv
    <3>4. pc'[c] = "syncStat" => link'[c][cur'[c]] \in Paths
      BY <1>1, <2>1, <2>3, <2>4
    <3> QED
      BY <1>1, <2>1, <2>5, <3>1, <3>3, <3>4 DEF EverInv, Synchronous
  <2>8. KeptInv(c)'
    <3>1. kept[c] \subseteq HeldPairs
      BY <1>1 DEF KeptInv, InFlight, Ended
    <3> SUFFICES ASSUME NEW fp \in kept[c]
                 PROVE  OnItsWay(c, fp[1], fp[2])'
      BY <1>1, <2>5, <3>1 DEF KeptInv
    <3>2. fp[1] \in Fds /\ table[fp[1]] = fp[2] /\ fp[2] \in Paths
      BY <3>1 DEF HeldPairs, OpenFds
    <3>3. \/ fp[2] \in Regular => fp[2] \in arr[c]
          \/ fp[1] \in todo[c]
          \/ fp[1] = f
      BY <1>1 DEF KeptInv, OnItsWay
    <3>4. CASE fp[1] = f
      BY <1>1, <2>1, <2>3, <2>4, <3>2, <3>4 DEF OnItsWay
    <3>5. CASE fp[1] # f
      BY <1>1, <2>1, <3>3, <3>5 DEF OnItsWay
    <3> QED
      BY <3>4, <3>5
  <2> QED
    BY <2>6, <2>7, <2>8
<1> QED
  BY <1>2, <1>3

\* statSync(...).isFile(): a regular file is kept; a kept one is in place, so
\* that statSync does not throw for it.
LEMMA SyncStatStep ==
    ASSUME TypeOK, NEW c \in Calls, CountInv(c), ReplyInv(c), EverInv(c), KeptInv(c),
           SyncStat(c)
    PROVE  CountInv(c)' /\ ReplyInv(c)' /\ EverInv(c)' /\ KeptInv(c)'
<1> DEFINE p == link[c][cur[c]]
<1>1. /\ pc[c] = "syncStat" /\ pc[c] \in Synchronous /\ cur[c] \in Fds
      /\ ever' = ever /\ kept' = kept /\ table' = table /\ removed' = removed
      /\ req' = req /\ link' = link /\ cur' = cur /\ todo' = todo
  BY DEF SyncStat, TypeOK, procVars, asyncVars, syncVars, Synchronous
<1>2. CASE p \in removed
  BY <1>1, <1>2, ThrowStep DEF SyncStat
<1>3. CASE p \notin removed
  <2>1. /\ pc'[c] = "syncExists" /\ reply' = reply
        /\ arr'[c] = arr[c] \cup ({p} \cap Regular)
    BY <1>3 DEF SyncStat, Goto, TypeOK
  <2>2. Held' = Held /\ HeldPairs' = HeldPairs
    BY <1>1 DEF Held, HeldPairs, OpenFds
  <2>3. CountInv(c)' /\ ReplyInv(c)'
    BY <1>1, <2>1, SyncQuiet DEF Synchronous
  <2>4. EverInv(c)'
    <3>1. p \in ever[c]
      BY <1>1 DEF EverInv
    <3> QED
      BY <1>1, <2>1, <2>2, <3>1 DEF EverInv, InFlight, Ended, Synchronous
  <2>5. KeptInv(c)'
    <3>1. kept[c] \subseteq HeldPairs
      BY <1>1 DEF KeptInv, InFlight, Ended
    <3> QED
      BY <1>1, <2>1, <2>2, <3>1 DEF KeptInv, OnItsWay
  <2> QED
    BY <2>3, <2>4, <2>5
<1> QED
  BY <1>2, <1>3

\* The call without a callback returns the array when nothing is to be looked at.
LEMMA SyncReturnStep ==
    ASSUME TypeOK, NEW c \in Calls, CountInv(c), ReplyInv(c), EverInv(c), KeptInv(c),
           SyncReturn(c)
    PROVE  CountInv(c)' /\ ReplyInv(c)' /\ EverInv(c)' /\ KeptInv(c)'
<1>1. /\ pc[c] = "syncExists" /\ pc'[c] = "returned" /\ todo[c] = {}
      /\ CallBack(c, FALSE, arr[c]) /\ reply[c] = <<>> /\ arr[c] \in SUBSET Paths
      /\ Outstanding(c) = {}
      /\ ever' = ever /\ kept' = kept /\ arr' = arr
      /\ req' = req /\ link' = link /\ cur' = cur /\ todo' = todo
  BY DEF SyncReturn, TypeOK, CountInv, Ended, asyncVars, syncVars
<1>2. Len(reply'[c]) = 1 /\ reply'[c][1] = [err |-> FALSE, arr |-> arr[c]]
  BY <1>1, FirstReply
<1>3. Outstanding(c)' = {}
  BY <1>1 DEF Outstanding
<1>4. CountInv(c)' /\ ReplyInv(c)'
  BY <1>1, <1>2, <1>3 DEF CountInv, ReplyInv, Ended
<1>5. EverInv(c)' /\ KeptInv(c)'
  BY <1>1 DEF EverInv, KeptInv, OnItsWay, InFlight, Ended, Synchronous
<1> QED
  BY <1>4, <1>5

\* Every step of a call keeps its own invariant; a crash only stops node.
LEMMA CallOwnStep ==
    ASSUME TypeOK, NEW c \in Calls, CountInv(c), ReplyInv(c), EverInv(c), KeptInv(c),
           CallStep(c)
    PROVE  CountInv(c)' /\ ReplyInv(c)' /\ EverInv(c)' /\ KeptInv(c)'
<1>1. ASSUME NEW f \in Fds, ReadlinkCrash(c, f)
      PROVE  CountInv(c)' /\ ReplyInv(c)' /\ EverInv(c)' /\ KeptInv(c)'
  BY <1>1, CallFrame DEF ReadlinkCrash, procVars, asyncVars, syncVars
<1> QED
  BY <1>1, BeginStep, ReaddirExecStep, ReaddirCallbackStep, ReadlinkExecStep,
     ReadlinkCallbackStep, SyncReaddirStep, SyncExistsStep, SyncReadlinkStep, SyncStatStep,
     SyncReturnStep
     DEF CallStep

-----------------------------------------------------------------------------
(* The inductive invariant and what follows from it.                       *)

\* It holds before the first call.
LEMMA IInvInit == Init => IInv
<1> SUFFICES ASSUME Init, NEW c \in Calls
             PROVE  CountInv(c) /\ ReplyInv(c) /\ EverInv(c) /\ KeptInv(c)
  BY TypeInit DEF IInv
<1>1. /\ pc[c] = "new" /\ reply[c] = <<>> /\ arr[c] = {} /\ kept[c] = {}
      /\ \A f \in Fds : req[c][f] = "none" /\ link[c][f] = NoPath
  BY DEF Init
<1>2. CountInv(c) /\ ReplyInv(c)
  BY <1>1 DEF CountInv, ReplyInv, Ended, Outstanding
<1>3. EverInv(c) /\ KeptInv(c)
  BY <1>1, PathsAssumption DEF EverInv, KeptInv, InFlight, Ended, Synchronous
<1> QED
  BY <1>2, <1>3

\* Every step preserves it: of the observed process, of a call, of another call.
LEMMA IInvStep == IInv /\ [Next]_vars => IInv'
<1> SUFFICES ASSUME IInv, [Next]_vars PROVE IInv'
  OBVIOUS
<1>0. TypeOK /\ \A d \in Calls : CountInv(d) /\ ReplyInv(d) /\ EverInv(d) /\ KeptInv(d)
  BY DEF IInv
<1>1. CASE Environment
  BY <1>0, <1>1, TypeEnvironment, EnvironmentStep DEF IInv
<1>2. ASSUME NEW c \in Calls, CallStep(c) PROVE IInv'
  <2>1. TypeOK'
    BY <1>0, <1>2, TypeCall
  <2>2. ASSUME NEW d \in Calls
        PROVE  CountInv(d)' /\ ReplyInv(d)' /\ EverInv(d)' /\ KeptInv(d)'
    <3>1. CASE c = d
      BY <1>0, <1>2, <3>1, CallOwnStep
    <3>2. CASE c # d
      BY <1>0, <1>2, <3>2, OtherCallsAlone, CallFrame
    <3> QED
      BY <3>1, <3>2
  <2> QED
    BY <2>1, <2>2 DEF IInv
<1>3. CASE UNCHANGED vars
  <2>1. TypeOK'
    BY <1>0, <1>3 DEF TypeOK, vars, procVars, asyncVars, syncVars
  <2> QED
    BY <1>0, <1>3, <2>1, CallFrame DEF IInv, vars, procVars, asyncVars, syncVars
<1> QED
  BY <1>1, <1>2, <1>3 DEF Next

\* The inductive invariant holds in every state, for any number of calls.
THEOREM Invariance == Spec => []IInv
  BY IInvInit, IInvStep, PTL DEF Spec

\* Types; the counter in particular never goes below 0.
THEOREM TypeCorrect == Spec => []TypeOK
<1>1. IInv => TypeOK
  BY DEF IInv
<1> QED
  BY <1>1, Invariance, PTL

\* The caller is answered at most once, after the last link it asked for: no
\* callback pushes to the array it was given.
THEOREM AnsweredOnce == Spec => []AnsweredOnceAndLast
<1>1. IInv => AnsweredOnceAndLast
  <2> SUFFICES ASSUME IInv, NEW c \in Calls
               PROVE  /\ Len(reply[c]) <= 1
                      /\ reply[c] # <<>> => Outstanding(c) = {} /\ ~InFlight(c)
    BY DEF AnsweredOnceAndLast
  <2>1. CountInv(c)
    BY DEF IInv
  <2>2. CASE pc[c] \in Ended
    <3>1. Len(reply[c]) = 1
      BY <2>1, <2>2 DEF CountInv
    <3>2. Outstanding(c) = {} /\ ~InFlight(c)
      BY <2>1, <2>2 DEF CountInv, InFlight, Ended
    <3> QED
      BY <3>1, <3>2
  <2>3. CASE pc[c] \notin Ended
    BY <2>1, <2>3 DEF CountInv
  <2> QED
    BY <2>2, <2>3
<1> QED
  BY <1>1, Invariance, PTL

\* What any answer is, in terms of the variables of its call.
LEMMA AnswerShape ==
    ASSUME IInv, NEW c \in Calls, NEW k \in DOMAIN reply[c]
    PROVE  \/ pc[c] = "answered" /\ reply[c][k] = [err |-> err[c], arr |-> arr[c]]
           \/ pc[c] = "returned" /\ reply[c][k] = [err |-> FALSE, arr |-> arr[c]]
           \/ pc[c] = "thrown" /\ reply[c][k] = [err |-> TRUE, arr |-> {}]
<1>1. TypeOK /\ CountInv(c) /\ ReplyInv(c)
  BY DEF IInv
<1>2. reply[c] \in Seq(Replies)
  BY <1>1 DEF TypeOK
<1>3. pc[c] \in Ended
  <2>1. reply[c] # <<>>
    BY <1>2
  <2> QED
    BY <1>1, <2>1 DEF CountInv
<1>4. k = 1
  BY <1>1, <1>2, <1>3 DEF CountInv
<1> QED
  BY <1>1, <1>3, <1>4 DEF ReplyInv, Ended

\* An answer lists nothing that was not open during the call, and everything
\* that stayed open and in place during it, for any interleaving of the calls
\* with a process that opens, closes, reuses and removes.
THEOREM AnswerInterval == Spec => []BetweenThroughoutAndEver
<1>1. IInv => BetweenThroughoutAndEver
  <2> SUFFICES ASSUME IInv, NEW c \in Calls, NEW k \in DOMAIN reply[c]
               PROVE  /\ reply[c][k].arr \subseteq ever[c]
                      /\ ~reply[c][k].err =>
                           /\ \A fp \in kept[c] :
                                 pc[c] = "answered" \/ fp[2] \in Regular => fp[2] \in reply[c][k].arr
                           /\ pc[c] = "returned" => reply[c][k].arr \subseteq Regular
    BY DEF BetweenThroughoutAndEver, ListedWasOpen, KeptIsListed
  <2>1. CountInv(c) /\ EverInv(c) /\ KeptInv(c) /\ TypeOK
    BY DEF IInv
  <2>2. CASE pc[c] = "answered" /\ reply[c][k] = [err |-> err[c], arr |-> arr[c]]
    <3>1. reply[c][k].arr = arr[c] /\ reply[c][k].err = err[c]
      BY <2>2
    <3>2. ASSUME NEW fp \in kept[c], ~err[c] PROVE fp[2] \in arr[c]
      <4>1. fp[1] \in Fds /\ req[c][fp[1]] \notin {"queued", "data"}
        BY <2>1, <2>2 DEF TypeOK, CountInv, Outstanding
      <4> QED
        BY <2>1, <2>2, <3>2, <4>1 DEF KeptInv, OnItsWay
    <3> QED
      BY <2>1, <2>2, <3>1, <3>2 DEF EverInv
  <2>3. CASE pc[c] = "returned" /\ reply[c][k] = [err |-> FALSE, arr |-> arr[c]]
    <3>1. reply[c][k].arr = arr[c]
      BY <2>3
    <3>2. \A fp \in kept[c] : fp[2] \in Regular => fp[2] \in arr[c]
      BY <2>1, <2>3 DEF KeptInv, OnItsWay
    <3> QED
      BY <2>1, <2>3, <3>1, <3>2 DEF EverInv
  <2>4. CASE pc[c] = "thrown" /\ reply[c][k] = [err |-> TRUE, arr |-> {}]
    <3>1. reply[c][k].arr = {} /\ reply[c][k].err = TRUE
      BY <2>4
    <3> QED
      BY <3>1
  <2> QED
    BY <2>2, <2>3, <2>4, AnswerShape
<1> QED
  BY <1>1, Invariance, PTL
================================================================================
