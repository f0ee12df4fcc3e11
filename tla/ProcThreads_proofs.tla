-------------------------- MODULE ProcThreads_proofs --------------------------
(* Theorems about proto.threads (module ProcThreads), for every set of calls *)
(* and every finite set of threads.                                          *)
EXTENDS ProcThreads, FiniteSetTheorems, TLAPS

\* Appending to a sequence adds one element to its range and one to its length.
LEMMA AppendProperties ==
    ASSUME NEW S, NEW s \in Seq(S), NEW x \in S
    PROVE  /\ Append(s, x) \in Seq(S)
           /\ Len(Append(s, x)) = Len(s) + 1
           /\ Range(Append(s, x)) = Range(s) \cup {x}
<1>1. /\ Append(s, x) \in Seq(S)
      /\ Len(Append(s, x)) = Len(s) + 1
      /\ DOMAIN Append(s, x) = 1..(Len(s) + 1)
      /\ \A i \in 1..Len(s) : Append(s, x)[i] = s[i]
      /\ Append(s, x)[Len(s) + 1] = x
  OBVIOUS
<1>2. DOMAIN s = 1..Len(s) /\ Len(s) \in Nat
  OBVIOUS
<1>3. Range(Append(s, x)) \subseteq Range(s) \cup {x}
  <2> SUFFICES ASSUME NEW i \in 1..(Len(s) + 1)
               PROVE  Append(s, x)[i] \in Range(s) \cup {x}
    BY <1>1 DEF Range
  <2>1. CASE i = Len(s) + 1
    BY <1>1, <2>1
  <2>2. CASE i \in 1..Len(s)
    BY <1>1, <1>2, <2>2 DEF Range
  <2> QED
    BY <1>2, <2>1, <2>2
<1>4. Range(s) \cup {x} \subseteq Range(Append(s, x))
  <2>1. ASSUME NEW i \in 1..Len(s)
        PROVE  s[i] \in Range(Append(s, x))
    <3>1. i \in 1..(Len(s) + 1)
      BY <1>2
    <3> QED
      BY <1>1, <3>1 DEF Range
  <2>2. x \in Range(Append(s, x))
    <3>1. Len(s) + 1 \in 1..(Len(s) + 1)
      BY <1>2
    <3> QED
      BY <1>1, <3>1 DEF Range
  <2> QED
    BY <1>2, <2>1, <2>2 DEF Range
<1> QED
  BY <1>1, <1>3, <1>4

\* What one answer adds to the replies of its call.
LEMMA CallBackProperties ==
    ASSUME TypeOK, NEW c \in Calls, NEW r \in Replies,
           reply' = [reply EXCEPT ![c] = Append(@, r)]
    PROVE  /\ reply' \in [Calls -> Seq(Replies)]
           /\ reply'[c] = Append(reply[c], r)
           /\ \A d \in Calls \ {c} : reply'[d] = reply[d]
<1>1. Append(reply[c], r) \in Seq(Replies)
  BY AppendProperties DEF TypeOK
<1> QED
  BY <1>1 DEF TypeOK

\* An answer is a record of an error flag and a sequence of thread ids.
LEMMA ReplyType ==
    ASSUME NEW e \in BOOLEAN, NEW a \in Seq(Tids)
    PROVE  [err |-> e, arr |-> a] \in Replies
  BY DEF Replies

\* What a synchronous call that throws leaves behind is such an answer.
LEMMA ThrowType == [err |-> TRUE, arr |-> <<>>] \in Replies
<1>1. <<>> \in Seq(Tids)
  OBVIOUS
<1> QED
  BY <1>1 DEF Replies

\* The array after one more readFile callback.
LEMMA PushedProperties ==
    ASSUME TypeOK, NEW c \in Calls, NEW t \in Tids
    PROVE  Pushed(c, t) \in Seq(Tids)
  BY AppendProperties DEF TypeOK, Pushed

-----------------------------------------------------------------------------
\* Every variable keeps its type.
LEMMA TypeInit == Init => TypeOK
  BY DEF Init, TypeOK, PCs, Requests

\* Every action of the calls and of the observed process keeps the types.
LEMMA TypeStep == TypeOK /\ [Next]_vars => TypeOK'
<1> SUFFICES ASSUME TypeOK, [Next]_vars PROVE TypeOK'
  OBVIOUS
<1>1. ASSUME NEW t \in Tids, ThreadStart(t) PROVE TypeOK'
  BY <1>1 DEF ThreadStart, TypeOK
<1>2. ASSUME NEW S \in SUBSET Tids, ThreadsEnd(S) PROVE TypeOK'
  BY <1>2 DEF ThreadsEnd, TypeOK
<1>3. ASSUME NEW c \in Calls, CallAsync(c) PROVE TypeOK'
  BY <1>3 DEF CallAsync, Begin, TypeOK, PCs
<1>4. ASSUME NEW c \in Calls, ReaddirOpen(c) \/ ReaddirExec(c) PROVE TypeOK'
  <2>1. err' \in [Calls -> BOOLEAN]
    BY <1>4 DEF ReaddirOpen, ReaddirExec, TypeOK
  <2>2. pc' \in [Calls -> PCs] /\ ids' \in [Calls -> SUBSET Tids]
    BY <1>4 DEF ReaddirOpen, ReaddirExec, TypeOK, PCs
  <2> QED
    BY <1>4, <2>1, <2>2 DEF ReaddirOpen, ReaddirExec, TypeOK, envVars
<1>5. ASSUME NEW c \in Calls, ReaddirCallback(c) PROVE TypeOK'
  <2>1. CASE err[c] /\ CallBack(c, TRUE, <<>>)
    <3>1. reply' \in [Calls -> Seq(Replies)]
      BY <2>1, ThrowType, CallBackProperties DEF CallBack
    <3> QED
      BY <1>5, <2>1, <3>1 DEF ReaddirCallback, TypeOK, PCs, envVars
  <2>2. CASE ~err[c]
    <3>1. Cardinality(ids[c]) \in Int
      BY TidsAssumption, FS_Subset, FS_CardinalityType DEF TypeOK
    <3>2. count' = [count EXCEPT ![c] = Cardinality(ids[c])]
      BY <1>5, <2>2 DEF ReaddirCallback
    <3>3. req' \in [Calls -> [Tids -> Requests]]
      <4>1. [t \in Tids |-> IF t \in ids[c] THEN "queued" ELSE "none"]
              \in [Tids -> Requests]
        BY DEF Requests
      <4> QED
        BY <1>5, <2>2, <4>1 DEF ReaddirCallback, TypeOK
    <3> QED
      BY <1>5, <2>2, <3>1, <3>2, <3>3 DEF ReaddirCallback, TypeOK, PCs, envVars
  <2> QED
    BY <1>5, <2>1, <2>2 DEF ReaddirCallback
<1>6. ASSUME NEW c \in Calls, CallSync(c) PROVE TypeOK'
  BY <1>6 DEF CallSync, Begin, TypeOK, PCs
<1>7. ASSUME NEW c \in Calls, SyncOpen(c) \/ SyncReaddir(c) PROVE TypeOK'
  <2>1. CASE Throw(c)
    <3>1. reply' \in [Calls -> Seq(Replies)]
      BY <2>1, ThrowType, CallBackProperties DEF Throw, CallBack
    <3>2. ids' \in [Calls -> SUBSET Tids]
      BY <1>7 DEF SyncOpen, SyncReaddir, TypeOK
    <3> QED
      BY <1>7, <2>1, <3>1, <3>2 DEF SyncOpen, SyncReaddir, Throw, TypeOK, PCs, envVars
  <2>2. CASE Return(c, <<>>)
    <3>0. <<>> \in Seq(Tids)
      OBVIOUS
    <3>1. [err |-> FALSE, arr |-> <<>>] \in Replies
      BY <3>0, ReplyType
    <3>2. reply' \in [Calls -> Seq(Replies)]
      BY <2>2, <3>1, CallBackProperties DEF Return, CallBack
    <3>3. ids' \in [Calls -> SUBSET Tids]
      BY <1>7 DEF SyncOpen, SyncReaddir, TypeOK
    <3> QED
      BY <1>7, <2>2, <3>2, <3>3 DEF SyncOpen, SyncReaddir, Return, TypeOK, PCs, envVars
  <2>3. CASE UNCHANGED <<main, reply>> /\ pc' \in [Calls -> PCs]
    BY <1>7, <2>3 DEF SyncOpen, SyncReaddir, TypeOK, envVars
  <2>4. \A p \in {"syncOpened", "syncReading"} : pc' = [pc EXCEPT ![c] = p] => pc' \in [Calls -> PCs]
    BY DEF TypeOK, PCs
  <2>5. CASE SyncOpen(c)
    BY <2>1, <2>3, <2>4, <2>5 DEF SyncOpen
  <2>6. CASE SyncReaddir(c)
    BY <2>1, <2>2, <2>3, <2>4, <2>6 DEF SyncReaddir
  <2> QED
    BY <1>7, <2>5, <2>6
<1>8. ASSUME NEW c \in Calls, NEW t \in Tids, ReadExec(c, t) PROVE TypeOK'
  <2>1. \A r \in Requests : [req EXCEPT ![c][t] = r] \in [Calls -> [Tids -> Requests]]
    BY DEF TypeOK
  <2>2. req' \in [Calls -> [Tids -> Requests]]
    BY <1>8, <2>1 DEF ReadExec, Requests
  <2> QED
    BY <1>8, <2>2 DEF ReadExec, TypeOK, envVars
<1>9. ASSUME NEW c \in Calls, NEW t \in Tids, ReadCallback(c, t) PROVE TypeOK'
  <2>1. /\ Pushed(c, t) \in Seq(Tids)
        /\ (err[c] \/ Failed(c, t)) \in BOOLEAN
    BY PushedProperties DEF TypeOK, Failed
  <2>2. reply' \in [Calls -> Seq(Replies)]
    <3>0. [err |-> err[c] \/ Failed(c, t), arr |-> Pushed(c, t)] \in Replies
      BY <2>1, ReplyType
    <3>1. CASE CallBack(c, err[c] \/ Failed(c, t), Pushed(c, t))
      BY <3>0, <3>1, CallBackProperties DEF CallBack
    <3>2. CASE UNCHANGED reply
      BY <3>2 DEF TypeOK
    <3> QED
      BY <1>9, <3>1, <3>2 DEF ReadCallback, Settle
  <2>3. err' \in [Calls -> BOOLEAN]
    BY <1>9, <2>1 DEF ReadCallback, Settle, TypeOK
  <2>4. pc' \in [Calls -> PCs]
    BY <1>9 DEF ReadCallback, Settle, TypeOK, PCs
  <2>5. req' \in [Calls -> [Tids -> Requests]]
    BY <1>9 DEF ReadCallback, Settle, TypeOK, Requests
  <2>6. arr' \in [Calls -> Seq(Tids)] /\ count' \in [Calls -> Int]
    BY <1>9, <2>1 DEF ReadCallback, Settle, TypeOK
  <2> QED
    BY <1>9, <2>2, <2>3, <2>4, <2>5, <2>6 DEF ReadCallback, Settle, TypeOK, envVars
<1>10. ASSUME NEW c \in Calls, NEW t \in Tids, SyncRead(c, t) PROVE TypeOK'
  <2>1. CASE Throw(c) /\ UNCHANGED arr
    <3>1. reply' \in [Calls -> Seq(Replies)]
      BY <2>1, ThrowType, CallBackProperties DEF Throw, CallBack
    <3> QED
      BY <1>10, <2>1, <3>1 DEF SyncRead, Throw, TypeOK, PCs, envVars
  <2>2. CASE arr' = [arr EXCEPT ![c] = Append(@, t)]
    <3>1. Append(arr[c], t) \in Seq(Tids)
      BY AppendProperties DEF TypeOK
    <3>2. arr' \in [Calls -> Seq(Tids)] /\ arr'[c] \in Seq(Tids)
      BY <2>2, <3>1 DEF TypeOK
    <3>3. CASE Return(c, arr'[c])
      <4>1. [err |-> FALSE, arr |-> arr'[c]] \in Replies
        BY <3>2, ReplyType
      <4>2. reply' \in [Calls -> Seq(Replies)]
        BY <3>3, <4>1, CallBackProperties DEF Return, CallBack
      <4> QED
        BY <1>10, <3>2, <3>3, <4>2 DEF SyncRead, Return, TypeOK, PCs, envVars
    <3>4. CASE UNCHANGED <<reply, pc, main>>
      BY <1>10, <3>2, <3>4 DEF SyncRead, TypeOK, PCs, envVars
    <3> QED
      BY <1>10, <2>2, <3>3, <3>4, <2>1 DEF SyncRead, TypeOK
  <2> QED
    BY <1>10, <2>1, <2>2 DEF SyncRead
<1>11. ASSUME NEW c \in Calls, Starve(c) PROVE TypeOK'
  BY <1>11 DEF Starve, TypeOK
<1>12. CASE UNCHANGED vars
  BY <1>12 DEF vars, envVars, TypeOK
<1> QED
  BY <1>1, <1>2, <1>3, <1>4, <1>5, <1>6, <1>7, <1>8, <1>9, <1>10, <1>11, <1>12 DEF Next, CallStep

\* The type invariant, for any finite set of thread ids and any set of calls.
THEOREM TypeCorrect == Spec => []TypeOK
  BY TypeInit, TypeStep, PTL DEF Spec

-----------------------------------------------------------------------------
(* The counter.                                                            *)

\* A finite set has 0 elements iff it is empty; removing one takes 1 away.
LEMMA OutstandingFinite ==
    ASSUME NEW c \in Calls
    PROVE  /\ IsFiniteSet(Outstanding(c))
           /\ Cardinality(Outstanding(c)) \in Nat
           /\ Cardinality(Outstanding(c)) = 0 <=> Outstanding(c) = {}
           /\ \A t \in Outstanding(c) :
                 Cardinality(Outstanding(c) \ {t}) = Cardinality(Outstanding(c)) - 1
<1>1. Outstanding(c) \subseteq Tids
  BY DEF Outstanding
<1>2. IsFiniteSet(Outstanding(c))
  BY <1>1, TidsAssumption, FS_Subset
<1> QED
  BY <1>2, FS_CardinalityType, FS_EmptySet, FS_RemoveElement

\* A step that leaves a call's variables alone leaves its invariant alone.
LEMMA CountFrame ==
    ASSUME NEW c \in Calls, CountInv(c),
           pc'[c] = pc[c], ids'[c] = ids[c], err'[c] = err[c], count'[c] = count[c],
           req'[c] = req[c], reply'[c] = reply[c]
    PROVE  CountInv(c)'
<1>1. Outstanding(c)' = Outstanding(c)
  BY DEF Outstanding
<1> QED
  BY <1>1 DEF CountInv

\* Before the first call no request is outstanding and every counter is 0.
LEMMA CountInit == Init => \A c \in Calls : CountInv(c)
<1> SUFFICES ASSUME Init, NEW c \in Calls PROVE CountInv(c)
  OBVIOUS
<1>1. Outstanding(c) = {} /\ count[c] = 0 /\ pc[c] = "new" /\ reply[c] = <<>>
  BY DEF Init, Outstanding
<1>2. Cardinality(Outstanding(c)) = 0
  BY <1>1, FS_EmptySet
<1> QED
  BY <1>1, <1>2 DEF CountInv, Init, Ended

\* The step of a readFile callback: one request less, and the last one answers.
LEMMA CountReadCallback ==
    ASSUME TypeOK, NEW c \in Calls, NEW t \in Tids, CountInv(c), ReadCallback(c, t)
    PROVE  CountInv(c)'
<1>1. t \in Outstanding(c) /\ pc[c] = "reading" /\ reply[c] = <<>>
  <2>1. t \in Outstanding(c)
    BY DEF ReadCallback, Settle, Outstanding
  <2> QED
    BY <2>1 DEF CountInv, ReadCallback, Settle, Ended
<1>2. Outstanding(c)' = Outstanding(c) \ {t}
  BY DEF ReadCallback, Settle, Outstanding, TypeOK
<1>3. count'[c] = Cardinality(Outstanding(c)')
  BY <1>1, <1>2, OutstandingFinite DEF ReadCallback, Settle, TypeOK, CountInv
<1>4. Outstanding(c)' = {} <=> count[c] - 1 = 0
  <2>1. IsFiniteSet(Outstanding(c)')
    BY <1>2, OutstandingFinite, FS_Subset
  <2> QED
    BY <1>3, <2>1, FS_EmptySet DEF ReadCallback, Settle, TypeOK
<1>5. CASE count[c] - 1 = 0
  <2>1. pc'[c] = "answered"
    BY <1>5 DEF ReadCallback, Settle, TypeOK
  <2>2. reply'[c] = Append(<<>>, [err |-> err[c] \/ Failed(c, t), arr |-> Pushed(c, t)])
    BY <1>1, <1>5 DEF ReadCallback, Settle, CallBack, TypeOK
  <2>3. Len(reply'[c]) = 1
    BY <2>2
  <2> QED
    BY <1>3, <1>4, <1>5, <2>1, <2>3 DEF CountInv, Ended
<1>6. CASE count[c] - 1 # 0
  <2>1. pc'[c] = "reading" /\ reply'[c] = <<>>
    BY <1>1, <1>6 DEF ReadCallback, Settle
  <2> QED
    BY <1>3, <1>4, <1>6, <2>1 DEF CountInv, Ended
<1> QED
  BY <1>5, <1>6

\* The readdir callback issues as many requests as it counts.
LEMMA CountReaddirCallback ==
    ASSUME TypeOK, NEW c \in Calls, CountInv(c), ReaddirCallback(c)
    PROVE  CountInv(c)'
<1>1. pc[c] = "listed" /\ reply[c] = <<>> /\ \A t \in Tids : req[c][t] = "none"
  BY DEF CountInv, ReaddirCallback, Ended
<1>2. CASE err[c]
  <2>1. pc'[c] = "answered" /\ Outstanding(c)' = {} /\ Outstanding(c) = {}
    BY <1>1, <1>2 DEF ReaddirCallback, TypeOK, Outstanding
  <2>2. Len(reply'[c]) = 1
    <3>1. reply'[c] = Append(<<>>, [err |-> TRUE, arr |-> <<>>])
      BY <1>1, <1>2 DEF ReaddirCallback, CallBack, TypeOK
    <3> QED
      BY <3>1
  <2>3. count'[c] = count[c]
    BY <1>2 DEF ReaddirCallback
  <2> QED
    BY <2>1, <2>2, <2>3 DEF CountInv, Ended
<1>3. CASE ~err[c]
  <2>1. /\ pc'[c] = "reading" /\ reply'[c] = <<>> /\ ids'[c] = ids[c]
        /\ count'[c] = Cardinality(ids[c])
    BY <1>1, <1>3 DEF ReaddirCallback, TypeOK
  <2>2. req'[c] = [t \in Tids |-> IF t \in ids[c] THEN "queued" ELSE "none"]
    BY <1>3 DEF ReaddirCallback, TypeOK
  <2>3. Outstanding(c)' = ids[c]
    <3>1. ids[c] \subseteq Tids
      BY DEF TypeOK
    <3> QED
      BY <2>2, <3>1 DEF Outstanding
  <2> QED
    BY <2>1, <2>3 DEF CountInv, Ended
<1> QED
  BY <1>2, <1>3

\* A thread pool step changes no request from outstanding to settled.
LEMMA CountReadExec ==
    ASSUME TypeOK, NEW c \in Calls, NEW t \in Tids, CountInv(c), ReadExec(c, t)
    PROVE  CountInv(c)'
<1>1. Outstanding(c)' = Outstanding(c)
  BY DEF ReadExec, Outstanding, TypeOK
<1>2. pc[c] \in {"reading", "answered"}
  BY DEF ReadExec, CountInv
<1> QED
  BY <1>1, <1>2 DEF ReadExec, CountInv, Ended

\* A step of the same call that moves no request: it may end the call.
LEMMA CountQuiet ==
    ASSUME NEW c \in Calls, CountInv(c), pc[c] \notin Ended \cup {"reading"},
           pc'[c] \notin {"listed", "reading", "answered"},
           count'[c] = count[c], req'[c] = req[c],
           IF pc'[c] \in Ended THEN Len(reply'[c]) = 1 ELSE reply'[c] = reply[c]
    PROVE  CountInv(c)'
<1>1. Outstanding(c)' = Outstanding(c)
  BY DEF Outstanding
<1> QED
  BY <1>1 DEF CountInv, Ended

\* The synchronous form ends by throwing or by returning, and that is its answer.
LEMMA EndsWithOne ==
    ASSUME TypeOK, NEW c \in Calls, reply[c] = <<>>
    PROVE  /\ Throw(c) => /\ pc'[c] = "thrown" /\ Len(reply'[c]) = 1
                          /\ reply'[c] = <<[err |-> TRUE, arr |-> <<>>]>>
           /\ \A a : Return(c, a) => /\ pc'[c] = "returned" /\ Len(reply'[c]) = 1
                                     /\ reply'[c] = <<[err |-> FALSE, arr |-> a]>>
<1>1. ASSUME Throw(c)
      PROVE  /\ pc'[c] = "thrown" /\ Len(reply'[c]) = 1
             /\ reply'[c] = <<[err |-> TRUE, arr |-> <<>>]>>
  <2>1. pc'[c] = "thrown" /\ reply'[c] = Append(<<>>, [err |-> TRUE, arr |-> <<>>])
    BY <1>1 DEF Throw, CallBack, TypeOK
  <2>2. reply'[c] = <<[err |-> TRUE, arr |-> <<>>]>>
    BY <2>1
  <2> QED
    BY <2>1, <2>2
<1>2. ASSUME NEW a, Return(c, a)
      PROVE  /\ pc'[c] = "returned" /\ Len(reply'[c]) = 1
             /\ reply'[c] = <<[err |-> FALSE, arr |-> a]>>
  <2>1. pc'[c] = "returned" /\ reply'[c] = Append(<<>>, [err |-> FALSE, arr |-> a])
    BY <1>2 DEF Return, CallBack, TypeOK
  <2>2. reply'[c] = <<[err |-> FALSE, arr |-> a]>>
    BY <2>1
  <2> QED
    BY <2>1, <2>2
<1> QED
  BY <1>1, <1>2

\* A step of one call preserves that call's invariant.
LEMMA CountOwnStep ==
    ASSUME TypeOK, NEW c \in Calls, CountInv(c), CallStep(c)
    PROVE  CountInv(c)'
<1>1. CASE CallAsync(c)
  BY <1>1, CountQuiet DEF CallAsync, Begin, TypeOK, Ended
<1>2. CASE CallSync(c)
  BY <1>2, CountQuiet DEF CallSync, Begin, TypeOK, Ended
<1>3. CASE ReaddirOpen(c) \/ ReaddirExec(c)
  <2>1. /\ pc[c] \in {"listing", "opened"} /\ pc'[c] \in {"opened", "listed"}
        /\ count'[c] = count[c] /\ req'[c] = req[c] /\ reply'[c] = reply[c]
    BY <1>3 DEF ReaddirOpen, ReaddirExec, TypeOK
  <2>2. Outstanding(c)' = Outstanding(c)
    BY <2>1 DEF Outstanding
  <2> QED
    BY <2>1, <2>2 DEF CountInv, Ended
<1>4. CASE ReaddirCallback(c)
  BY <1>4, CountReaddirCallback
<1>5. CASE SyncOpen(c) \/ SyncReaddir(c)
  <2>1. /\ pc[c] \in {"syncListing", "syncOpened"} /\ reply[c] = <<>>
        /\ count'[c] = count[c] /\ req'[c] = req[c]
    BY <1>5 DEF SyncOpen, SyncReaddir, CountInv, Ended
  <2>2. CASE Throw(c)
    BY <2>1, <2>2, EndsWithOne, CountQuiet DEF Ended
  <2>3. CASE Return(c, <<>>)
    BY <2>1, <2>3, EndsWithOne, CountQuiet DEF Ended
  <2>4. CASE pc'[c] \in {"syncOpened", "syncReading"} /\ reply'[c] = reply[c]
    BY <2>1, <2>4, CountQuiet DEF Ended
  <2> QED
    BY <1>5, <2>2, <2>3, <2>4 DEF SyncOpen, SyncReaddir, TypeOK
<1>6. ASSUME NEW t \in Tids, ReadExec(c, t) PROVE CountInv(c)'
  BY <1>6, CountReadExec
<1>7. ASSUME NEW t \in Tids, ReadCallback(c, t) PROVE CountInv(c)'
  BY <1>7, CountReadCallback
<1>8. ASSUME NEW t \in Tids, SyncRead(c, t) PROVE CountInv(c)'
  <2>1. pc[c] = "syncReading" /\ count'[c] = count[c] /\ req'[c] = req[c] /\ reply[c] = <<>>
    BY <1>8 DEF SyncRead, CountInv, Ended
  <2>2. CASE Throw(c)
    BY <2>1, <2>2, EndsWithOne, CountQuiet DEF Ended
  <2>3. CASE Return(c, arr'[c])
    BY <2>1, <2>3, EndsWithOne, CountQuiet DEF Ended
  <2>4. CASE UNCHANGED <<reply, pc, main>>
    BY <2>1, <2>4, CountQuiet DEF Ended
  <2> QED
    BY <1>8, <2>2, <2>3, <2>4 DEF SyncRead
<1> QED
  BY <1>1, <1>2, <1>3, <1>4, <1>5, <1>6, <1>7, <1>8 DEF CallStep

\* What a step of one call leaves alone: everything of every other call.
LEMMA OtherCallsAlone ==
    ASSUME TypeOK, NEW c \in Calls, NEW d \in Calls, c # d, CallStep(c)
    PROVE  /\ pc'[d] = pc[d] /\ ids'[d] = ids[d] /\ err'[d] = err[d]
           /\ count'[d] = count[d] /\ req'[d] = req[d] /\ arr'[d] = arr[d]
           /\ reply'[d] = reply[d] /\ start'[d] = start[d] /\ ever'[d] = ever[d]
           /\ gone'[d] = gone[d] /\ starved'[d] = starved[d] /\ live' = live
<1>1. CASE CallAsync(c) \/ CallSync(c)
  BY <1>1 DEF CallAsync, CallSync, Begin, TypeOK
<1>2. CASE ReaddirOpen(c) \/ ReaddirExec(c)
  BY <1>2 DEF ReaddirOpen, ReaddirExec, TypeOK, envVars
<1>3. CASE ReaddirCallback(c)
  BY <1>3 DEF ReaddirCallback, CallBack, TypeOK, envVars
<1>4. CASE SyncOpen(c) \/ SyncReaddir(c)
  BY <1>4 DEF SyncOpen, SyncReaddir, Throw, Return, CallBack, TypeOK, envVars
<1>5. CASE \E t \in Tids : ReadExec(c, t)
  BY <1>5 DEF ReadExec, TypeOK, envVars
<1>6. CASE \E t \in Tids : ReadCallback(c, t)
  BY <1>6 DEF ReadCallback, Settle, CallBack, TypeOK, envVars
<1>7. CASE \E t \in Tids : SyncRead(c, t)
  BY <1>7 DEF SyncRead, Throw, Return, CallBack, TypeOK, envVars
<1> QED
  BY <1>1, <1>2, <1>3, <1>4, <1>5, <1>6, <1>7 DEF CallStep

-----------------------------------------------------------------------------
(* The array and the listing.                                              *)

\* A step that leaves a call's listing, requests and array alone leaves the
\* invariant about them alone.
LEMMA ArrayFrame ==
    ASSUME NEW c \in Calls, ArrayInv(c),
           pc'[c] = pc[c], ids'[c] = ids[c], err'[c] = err[c], arr'[c] = arr[c],
           req'[c] = req[c], reply'[c] = reply[c]
    PROVE  ArrayInv(c)'
  BY DEF ArrayInv, Range

\* The empty array has an empty range, of cardinality 0.
LEMMA EmptyArray == Range(<<>>) = {} /\ Len(<<>>) = Cardinality(Range(<<>>))
<1>1. Range(<<>>) = {}
  BY DEF Range
<1> QED
  BY <1>1, FS_EmptySet

\* One push of a thread that is not yet in the array.
LEMMA PushOnce ==
    ASSUME NEW s \in Seq(Tids), NEW t \in Tids, t \notin Range(s), Len(s) = Cardinality(Range(s))
    PROVE  /\ Range(Append(s, t)) = Range(s) \cup {t}
           /\ Len(Append(s, t)) = Cardinality(Range(Append(s, t)))
<1>1. Range(s) \subseteq Tids
  BY DEF Range
<1>2. IsFiniteSet(Range(s))
  BY <1>1, TidsAssumption, FS_Subset
<1>3. Cardinality(Range(s) \cup {t}) = Cardinality(Range(s)) + 1
  BY <1>2, FS_AddElement
<1>4. /\ Range(Append(s, t)) = Range(s) \cup {t}
      /\ Len(Append(s, t)) = Len(s) + 1
  BY AppendProperties
<1> QED
  BY <1>3, <1>4

\* A readFile callback pushes the thread it has read, or notes the error.
LEMMA ArrayReadCallback ==
    ASSUME TypeOK, NEW c \in Calls, NEW t \in Tids, CountInv(c), ArrayInv(c), HistoryInv(c),
           ReadCallback(c, t)
    PROVE  ArrayInv(c)'
<1>1. /\ pc[c] = "reading" /\ reply[c] = <<>> /\ t \in ids[c] /\ t \notin Range(arr[c])
      /\ req[c][t] \in {"data", "error"}
  <2>1. t \in Outstanding(c) /\ req[c][t] \in {"data", "error"}
    BY DEF ReadCallback, Settle, Outstanding
  <2> QED
    BY <2>1 DEF CountInv, ArrayInv, HistoryInv, Ended
<1>2. /\ ids'[c] = ids[c] /\ arr'[c] = Pushed(c, t)
      /\ req'[c] = [req[c] EXCEPT ![t] = "settled"]
      /\ err'[c] = (err[c] \/ Failed(c, t))
  BY DEF ReadCallback, Settle, TypeOK
<1>3. /\ Range(arr'[c]) = Range(arr[c]) \cup (IF Failed(c, t) THEN {} ELSE {t})
      /\ Len(arr'[c]) = Cardinality(Range(arr'[c]))
  <2>1. CASE Failed(c, t)
    BY <1>2, <2>1 DEF Pushed, ArrayInv
  <2>2. CASE ~Failed(c, t)
    <3>1. arr[c] \in Seq(Tids) /\ Len(arr[c]) = Cardinality(Range(arr[c]))
      BY DEF TypeOK, ArrayInv
    <3> QED
      BY <1>1, <1>2, <2>2, <3>1, PushOnce DEF Pushed
  <2> QED
    BY <2>1, <2>2
<1>4. pc'[c] \in {"reading", "answered"}
  BY <1>1 DEF ReadCallback, Settle, TypeOK
<1>5. pc'[c] = "answered" => reply'[c] = <<[err |-> err'[c], arr |-> arr'[c]]>>
  <2> SUFFICES ASSUME pc'[c] = "answered"
               PROVE  reply'[c] = <<[err |-> err'[c], arr |-> arr'[c]]>>
    OBVIOUS
  <2>1. CallBack(c, err[c] \/ Failed(c, t), Pushed(c, t))
    BY <1>1 DEF ReadCallback, Settle
  <2>2. reply'[c] = Append(<<>>, [err |-> err[c] \/ Failed(c, t), arr |-> Pushed(c, t)])
    BY <1>1, <2>1 DEF CallBack, TypeOK
  <2> QED
    BY <1>2, <2>2
<1>6. /\ Range(arr'[c]) \subseteq ids'[c]
      /\ \A u \in Range(arr'[c]) : req'[c][u] = "settled"
  <2>1. Range(arr[c]) \subseteq ids[c] /\ \A u \in Range(arr[c]) : req[c][u] = "settled"
    BY <1>1 DEF ArrayInv
  <2>2. req[c] \in [Tids -> Requests] /\ ids[c] \subseteq Tids
    BY DEF TypeOK
  <2> QED
    BY <1>1, <1>2, <1>3, <2>1, <2>2
<1>7. ~err'[c] => \A u \in ids'[c] :
         req'[c][u] # "none" /\ (req'[c][u] = "settled" => u \in Range(arr'[c]))
  <2> SUFFICES ASSUME ~err'[c], NEW u \in ids[c]
               PROVE  req'[c][u] # "none" /\ (req'[c][u] = "settled" => u \in Range(arr'[c]))
    BY <1>2
  <2>1. ~err[c] /\ ~Failed(c, t)
    BY <1>2
  <2>2. req[c] \in [Tids -> Requests] /\ u \in Tids
    BY DEF TypeOK
  <2>3. req[c][u] # "none" /\ (req[c][u] = "settled" => u \in Range(arr[c]))
    BY <1>1, <2>1 DEF ArrayInv
  <2> QED
    BY <1>1, <1>2, <1>3, <2>1, <2>2, <2>3
<1> QED
  BY <1>3, <1>4, <1>5, <1>6, <1>7 DEF ArrayInv

\* The readdir callback starts with an empty array and nothing settled.
LEMMA ArrayReaddirCallback ==
    ASSUME TypeOK, NEW c \in Calls, CountInv(c), ArrayInv(c), ReaddirCallback(c)
    PROVE  ArrayInv(c)'
<1>1. /\ pc[c] = "listed" /\ reply[c] = <<>> /\ arr[c] = <<>>
      /\ ids'[c] = ids[c] /\ arr'[c] = <<>> /\ err'[c] = err[c]
  BY DEF ReaddirCallback, CountInv, ArrayInv, Ended
<1>2. Range(arr'[c]) = {} /\ Len(arr'[c]) = Cardinality(Range(arr'[c]))
  BY <1>1, EmptyArray
<1>3. CASE err[c]
  <2>1. pc'[c] = "answered" /\ reply'[c] = Append(<<>>, [err |-> TRUE, arr |-> <<>>])
    BY <1>1, <1>3 DEF ReaddirCallback, CallBack, TypeOK
  <2>2. err'[c] = TRUE /\ reply'[c] = <<[err |-> err'[c], arr |-> arr'[c]]>>
    BY <1>1, <1>3, <2>1 DEF TypeOK
  <2> QED
    BY <1>1, <1>2, <2>1, <2>2 DEF ArrayInv
<1>4. CASE ~err[c]
  <2>1. /\ pc'[c] = "reading"
        /\ req'[c] = [t \in Tids |-> IF t \in ids[c] THEN "queued" ELSE "none"]
    BY <1>1, <1>4 DEF ReaddirCallback, TypeOK
  <2>2. ids[c] \subseteq Tids
    BY DEF TypeOK
  <2> QED
    BY <1>1, <1>2, <2>1, <2>2 DEF ArrayInv
<1> QED
  BY <1>3, <1>4

\* A synchronous read pushes the next thread, throws, or returns the array.
LEMMA ArraySyncRead ==
    ASSUME TypeOK, NEW c \in Calls, NEW t \in Tids, CountInv(c), ArrayInv(c), SyncRead(c, t)
    PROVE  ArrayInv(c)'
<1>1. /\ pc[c] = "syncReading" /\ reply[c] = <<>> /\ t \in ids[c] /\ t \notin Range(arr[c])
      /\ ids'[c] = ids[c]
  BY DEF SyncRead, NextUnread, CountInv, Ended
<1>2. CASE Throw(c) /\ UNCHANGED arr
  <2>1. pc'[c] = "thrown" /\ reply'[c] = <<[err |-> TRUE, arr |-> <<>>]>>
    BY <1>1, <1>2, EndsWithOne
  <2>2. arr'[c] = arr[c]
    BY <1>2
  <2>3. /\ Range(arr'[c]) \subseteq ids'[c]
        /\ Len(arr'[c]) = Cardinality(Range(arr'[c]))
    BY <1>1, <2>2 DEF ArrayInv
  <2> QED
    BY <1>1, <2>1, <2>2, <2>3 DEF ArrayInv
<1>3. CASE /\ arr' = [arr EXCEPT ![c] = Append(@, t)]
           /\ IF ids[c] \ Range(arr'[c]) = {} THEN Return(c, arr'[c])
                                              ELSE UNCHANGED <<reply, pc, main>>
  <2>1. arr[c] \in Seq(Tids) /\ arr'[c] = Append(arr[c], t)
    BY <1>3 DEF TypeOK
  <2>2. /\ Range(arr'[c]) = Range(arr[c]) \cup {t}
        /\ Len(arr'[c]) = Cardinality(Range(arr'[c]))
    <3>1. Len(arr[c]) = Cardinality(Range(arr[c]))
      BY DEF ArrayInv
    <3> QED
      BY <1>1, <2>1, <3>1, PushOnce
  <2>3. Range(arr'[c]) \subseteq ids'[c]
    BY <1>1, <2>2 DEF ArrayInv
  <2>4. CASE ids[c] \ Range(arr'[c]) = {}
    <3>1. pc'[c] = "returned" /\ reply'[c] = <<[err |-> FALSE, arr |-> arr'[c]]>>
      BY <1>1, <1>3, <2>4, EndsWithOne
    <3> QED
      BY <1>1, <2>2, <2>3, <2>4, <3>1 DEF ArrayInv
  <2>5. CASE ids[c] \ Range(arr'[c]) # {}
    <3>1. pc'[c] = "syncReading"
      BY <1>1, <1>3, <2>5
    <3> QED
      BY <2>2, <2>3, <3>1 DEF ArrayInv
  <2> QED
    BY <2>4, <2>5
<1> QED
  BY <1>2, <1>3 DEF SyncRead

\* A step of one call preserves the invariant about its own array.
LEMMA ArrayOwnStep ==
    ASSUME TypeOK, NEW c \in Calls, CountInv(c), ArrayInv(c), HistoryInv(c), CallStep(c)
    PROVE  ArrayInv(c)'
<1>1. CASE CallAsync(c) \/ CallSync(c)
  <2>1. /\ pc[c] = "new" /\ pc'[c] \in {"listing", "syncListing"}
        /\ arr'[c] = arr[c] /\ ids'[c] = ids[c]
    BY <1>1 DEF CallAsync, CallSync, Begin, TypeOK
  <2> QED
    BY <2>1 DEF ArrayInv, Range
<1>2. CASE ReaddirOpen(c) \/ ReaddirExec(c)
  <2>1. /\ pc[c] \in {"listing", "opened"} /\ pc'[c] \in {"opened", "listed"}
        /\ arr'[c] = arr[c] /\ arr[c] = <<>>
    BY <1>2 DEF ReaddirOpen, ReaddirExec, TypeOK, ArrayInv
  <2> QED
    BY <2>1, EmptyArray DEF ArrayInv
<1>3. CASE ReaddirCallback(c)
  BY <1>3, ArrayReaddirCallback
<1>4. CASE SyncOpen(c) \/ SyncReaddir(c)
  <2>1. /\ pc[c] \in {"syncListing", "syncOpened"} /\ arr[c] = <<>> /\ arr'[c] = <<>>
        /\ reply[c] = <<>> /\ ids[c] = {}
    BY <1>4 DEF SyncOpen, SyncReaddir, ArrayInv, HistoryInv, CountInv, Ended
  <2>2. CASE Throw(c)
    <3>1. pc'[c] = "thrown" /\ reply'[c] = <<[err |-> TRUE, arr |-> <<>>]>>
      BY <2>1, <2>2, EndsWithOne
    <3> QED
      BY <2>1, <3>1, EmptyArray DEF ArrayInv
  <2>3. CASE Return(c, <<>>) /\ ids'[c] = {}
    <3>1. pc'[c] = "returned" /\ reply'[c] = <<[err |-> FALSE, arr |-> <<>>]>>
      BY <2>1, <2>3, EndsWithOne
    <3> QED
      BY <2>1, <2>3, <3>1, EmptyArray DEF ArrayInv
  <2>4. CASE pc'[c] \in {"syncOpened", "syncReading"}
    BY <2>1, <2>4, EmptyArray DEF ArrayInv
  <2>5. Return(c, <<>>) /\ SyncReaddir(c) => Throw(c) \/ ids'[c] = {} \/ pc'[c] = "syncReading"
    BY DEF SyncReaddir, TypeOK
  <2> QED
    BY <1>4, <2>2, <2>3, <2>4, <2>5 DEF SyncOpen, SyncReaddir, TypeOK
<1>5. ASSUME NEW t \in Tids, ReadExec(c, t) PROVE ArrayInv(c)'
  <2>1. /\ pc'[c] = pc[c] /\ ids'[c] = ids[c] /\ err'[c] = err[c] /\ arr'[c] = arr[c]
        /\ reply'[c] = reply[c] /\ pc[c] \in {"reading", "answered"}
    BY <1>5 DEF ReadExec, CountInv
  <2>2. req[c][t] = "queued" /\ \E o \in {"data", "error"} : req'[c] = [req[c] EXCEPT ![t] = o]
    BY <1>5 DEF ReadExec, TypeOK
  <2>3. req[c] \in [Tids -> Requests] /\ ids[c] \subseteq Tids /\ Range(arr[c]) \subseteq ids[c]
    BY DEF TypeOK, ArrayInv
  <2>4. \A u \in Tids : /\ req'[c][u] = "none" <=> req[c][u] = "none"
                        /\ req'[c][u] = "settled" <=> req[c][u] = "settled"
    BY <2>2, <2>3
  <2>5. Range(arr[c])' = Range(arr[c])
    BY <2>1 DEF Range
  <2> QED
    BY <2>1, <2>3, <2>4, <2>5 DEF ArrayInv
<1>6. ASSUME NEW t \in Tids, ReadCallback(c, t) PROVE ArrayInv(c)'
  BY <1>6, ArrayReadCallback
<1>7. ASSUME NEW t \in Tids, SyncRead(c, t) PROVE ArrayInv(c)'
  BY <1>7, ArraySyncRead
<1> QED
  BY <1>1, <1>2, <1>3, <1>4, <1>5, <1>6, <1>7 DEF CallStep

-----------------------------------------------------------------------------
(* The history: what the listing and the errors say of the process.        *)

\* A step that leaves a call's listing and history alone leaves the invariant
\* about them alone.
LEMMA HistoryFrame ==
    ASSUME NEW c \in Calls, HistoryInv(c), live' = live,
           pc'[c] = pc[c], ids'[c] = ids[c], err'[c] = err[c], req'[c] = req[c],
           start'[c] = start[c], ever'[c] = ever[c], gone'[c] = gone[c], starved'[c] = starved[c]
    PROVE  HistoryInv(c)'
  BY DEF HistoryInv, InFlight, Dropped, Ended

\* The observed process moves, or descriptors run out: calls in flight take note.
LEMMA HistoryEnvironment ==
    ASSUME TypeOK, NEW c \in Calls, HistoryInv(c),
           \/ \E t \in Tids : ThreadStart(t)
           \/ \E S \in SUBSET Tids : ThreadsEnd(S)
           \/ \E d \in Calls : Starve(d)
    PROVE  HistoryInv(c)'
<1>1. ASSUME NEW t \in Tids, ThreadStart(t) PROVE HistoryInv(c)'
  <2>1. /\ live # {} /\ live' = live \cup {t}
        /\ ever'[c] = (IF InFlight(c) THEN ever[c] \cup {t} ELSE ever[c])
        /\ pc'[c] = pc[c] /\ ids'[c] = ids[c] /\ err'[c] = err[c] /\ req'[c] = req[c]
        /\ start'[c] = start[c] /\ gone'[c] = gone[c] /\ starved'[c] = starved[c]
    BY <1>1 DEF ThreadStart
  <2> QED
    BY <2>1 DEF HistoryInv, InFlight, Dropped, Ended
<1>2. ASSUME NEW S \in SUBSET Tids, ThreadsEnd(S) PROVE HistoryInv(c)'
  <2>1. /\ S # {} /\ S \subseteq live /\ live' = live \ S
        /\ gone'[c] = (IF InFlight(c) THEN gone[c] \cup S ELSE gone[c])
        /\ pc'[c] = pc[c] /\ ids'[c] = ids[c] /\ err'[c] = err[c] /\ req'[c] = req[c]
        /\ start'[c] = start[c] /\ ever'[c] = ever[c] /\ starved'[c] = starved[c]
    BY <1>2 DEF ThreadsEnd
  <2>2. CASE InFlight(c)
    BY <2>1, <2>2 DEF HistoryInv, InFlight, Dropped, Ended
  <2>3. CASE ~InFlight(c)
    BY <2>1, <2>3 DEF HistoryInv, InFlight, Dropped, Ended
  <2> QED
    BY <2>2, <2>3
<1>3. ASSUME NEW d \in Calls, Starve(d) PROVE HistoryInv(c)'
  <2>1. /\ starved[c] => starved'[c]
        /\ pc'[c] = pc[c] /\ ids'[c] = ids[c] /\ err'[c] = err[c] /\ req'[c] = req[c]
        /\ start'[c] = start[c] /\ ever'[c] = ever[c] /\ gone'[c] = gone[c] /\ live' = live
    BY <1>3 DEF Starve, TypeOK
  <2> QED
    BY <2>1 DEF HistoryInv, InFlight, Dropped, Ended
<1> QED
  BY <1>1, <1>2, <1>3

\* The listing is what there was when it was made, or there is none.
LEMMA HistoryListing ==
    ASSUME TypeOK, NEW c \in Calls, CountInv(c), HistoryInv(c),
           \/ ReaddirOpen(c) \/ ReaddirExec(c) \/ SyncOpen(c) \/ SyncReaddir(c)
    PROVE  HistoryInv(c)'
<1>1. /\ pc[c] \in {"listing", "opened", "syncListing", "syncOpened"}
      /\ req'[c] = req[c] /\ live' = live
      /\ start'[c] = start[c] /\ ever'[c] = ever[c] /\ gone'[c] = gone[c]
      /\ starved'[c] = starved[c]
  BY DEF ReaddirOpen, ReaddirExec, SyncOpen, SyncReaddir, envVars
<1>2. ids[c] = {} /\ ~err[c] /\ InFlight(c) /\ \A t \in Tids : req[c][t] = "none"
  BY <1>1 DEF HistoryInv, CountInv, InFlight, Dropped, Ended
<1>3. live \subseteq ever[c] /\ start[c] \ gone[c] \subseteq live
  BY <1>2 DEF HistoryInv
<1>4. CASE ReaddirOpen(c)
  <2>1. \/ pc'[c] = "listed" /\ err'[c] /\ (live = {} \/ starved[c])
        \/ pc'[c] = "opened" /\ ~err'[c] /\ live # {}
    BY <1>2, <1>4 DEF ReaddirOpen, NoDirectory, TypeOK
  <2>2. ids'[c] = {}
    BY <1>2, <1>4 DEF ReaddirOpen
  <2> QED
    BY <1>1, <1>2, <1>3, <2>1, <2>2 DEF HistoryInv, InFlight, Dropped, Ended
<1>5. CASE ReaddirExec(c)
  <2>1. /\ pc[c] = "opened" /\ pc'[c] = "listed"
        /\ \/ err'[c] /\ live = {} /\ ids'[c] = {}
           \/ ~err'[c] /\ ids'[c] = live
    BY <1>2, <1>5 DEF ReaddirExec, TypeOK
  <2>2. live = {} => gone[c] # {}
    BY <2>1 DEF HistoryInv
  <2> QED
    BY <1>1, <1>2, <1>3, <2>1, <2>2 DEF HistoryInv, InFlight, Dropped, Ended
<1>6. CASE SyncOpen(c)
  <2>1. /\ err'[c] = err[c] /\ ids'[c] = {}
        /\ \/ pc'[c] = "thrown" /\ (live = {} \/ starved[c])
           \/ pc'[c] = "syncOpened" /\ live # {}
    BY <1>2, <1>6 DEF SyncOpen, NoDirectory, Throw, TypeOK
  <2> QED
    BY <1>1, <1>2, <1>3, <2>1 DEF HistoryInv, InFlight, Dropped, Ended
<1>7. CASE SyncReaddir(c)
  <2>1. /\ err'[c] = err[c]
        /\ \/ pc'[c] = "thrown" /\ live = {} /\ ids'[c] = {}
           \/ pc'[c] \in {"returned", "syncReading"} /\ ids'[c] = live
    BY <1>2, <1>7 DEF SyncReaddir, Throw, Return, TypeOK
  <2> QED
    BY <1>1, <1>2, <1>3, <2>1 DEF HistoryInv, InFlight, Dropped, Ended
<1> QED
  BY <1>4, <1>5, <1>6, <1>7

\* A step of one call preserves what its listing, its reads and its errors say
\* about the observed process.
LEMMA HistoryOwnStep ==
    ASSUME TypeOK, NEW c \in Calls, CountInv(c), HistoryInv(c), CallStep(c)
    PROVE  HistoryInv(c)'
<1>1. CASE CallAsync(c) \/ CallSync(c)
  <2>1. /\ pc[c] = "new" /\ pc'[c] \in {"listing", "syncListing"}
        /\ start'[c] = live /\ ever'[c] = live /\ gone'[c] = gone[c] /\ live' = live
        /\ ids'[c] = ids[c] /\ err'[c] = err[c] /\ req'[c] = req[c] /\ starved'[c] = starved[c]
    BY <1>1 DEF CallAsync, CallSync, Begin, TypeOK
  <2>2. ids[c] = {} /\ ~err[c] /\ \A t \in Tids : req[c][t] = "none"
    BY <2>1 DEF HistoryInv, CountInv
  <2> QED
    BY <2>1, <2>2 DEF HistoryInv, InFlight, Dropped, Ended
<1>2. CASE ReaddirOpen(c) \/ ReaddirExec(c) \/ SyncOpen(c) \/ SyncReaddir(c)
  BY <1>2, HistoryListing
<1>3. CASE ReaddirCallback(c)
  <2>1. /\ pc[c] = "listed" /\ ids'[c] = ids[c] /\ err'[c] = err[c] /\ starved'[c] = starved[c]
        /\ pc'[c] = "answered" \/ (pc'[c] = "reading" /\ ~err[c])
        /\ start'[c] = start[c] /\ ever'[c] = ever[c] /\ gone'[c] = gone[c] /\ live' = live
    BY <1>3 DEF ReaddirCallback, TypeOK, envVars
  <2>2. \A t \in Tids : req'[c][t] \in {"none", "queued"} /\ (req'[c][t] # "none" => t \in ids[c])
    <3>1. \A t \in Tids : req[c][t] = "none"
      BY <2>1 DEF CountInv
    <3>2. CASE err[c]
      BY <1>3, <3>1, <3>2 DEF ReaddirCallback
    <3>3. CASE ~err[c]
      <4>1. req'[c] = [t \in Tids |-> IF t \in ids[c] THEN "queued" ELSE "none"]
        BY <1>3, <3>3 DEF ReaddirCallback, TypeOK
      <4> QED
        BY <4>1
    <3> QED
      BY <3>2, <3>3
  <2> QED
    BY <2>1, <2>2 DEF HistoryInv, InFlight, Dropped, Ended
<1>4. ASSUME NEW t \in Tids, ReadExec(c, t) PROVE HistoryInv(c)'
  <2>1. /\ pc'[c] = pc[c] /\ ids'[c] = ids[c] /\ err'[c] = err[c] /\ live' = live
        /\ start'[c] = start[c] /\ ever'[c] = ever[c] /\ gone'[c] = gone[c]
        /\ starved'[c] = starved[c]
        /\ pc[c] = "reading" /\ t \in ids[c]
    <3>1. t \in Outstanding(c)
      BY <1>4 DEF ReadExec, Outstanding
    <3> QED
      BY <1>4, <3>1 DEF ReadExec, envVars, CountInv, HistoryInv
  <2>2. InFlight(c)
    BY <2>1 DEF InFlight, Dropped, Ended
  <2>3. PICK o \in {"data", "error"} : /\ req'[c] = [req[c] EXCEPT ![t] = o]
                                       /\ o = "error" => NoFile(c, t)
    BY <1>4 DEF ReadExec, TypeOK
  <2>4. o = "error" => gone[c] # {} \/ starved[c]
    BY <2>1, <2>2, <2>3 DEF NoFile, HistoryInv
  <2>5. \A u \in Tids : /\ req'[c][u] = "error" => req[c][u] = "error" \/ o = "error"
                        /\ req'[c][u] # "none" => u \in ids[c]
    <3>1. req[c] \in [Tids -> Requests]
      BY DEF TypeOK
    <3> QED
      BY <2>1, <2>3, <3>1 DEF HistoryInv
  <2>6. (\E u \in Tids : req'[c][u] = "error") => gone[c] # {} \/ live = {} \/ starved[c]
    BY <2>4, <2>5 DEF HistoryInv
  <2> QED
    BY <2>1, <2>2, <2>5, <2>6 DEF HistoryInv, InFlight, Dropped, Ended
<1>5. ASSUME NEW t \in Tids, ReadCallback(c, t) PROVE HistoryInv(c)'
  <2>1. /\ ids'[c] = ids[c] /\ live' = live /\ pc[c] = "reading" /\ starved'[c] = starved[c]
        /\ start'[c] = start[c] /\ ever'[c] = ever[c] /\ gone'[c] = gone[c]
        /\ pc'[c] \in {"reading", "answered"}
    <3>1. t \in Outstanding(c) /\ pc[c] = "reading"
      BY <1>5 DEF ReadCallback, Settle, Outstanding, CountInv
    <3> QED
      BY <1>5, <3>1 DEF ReadCallback, Settle, envVars, TypeOK
  <2>2. req'[c] = [req[c] EXCEPT ![t] = "settled"] /\ req[c] \in [Tids -> Requests]
    BY <1>5 DEF ReadCallback, Settle, TypeOK
  <2>3. err'[c] <=> err[c] \/ req[c][t] = "error"
    BY <1>5 DEF ReadCallback, Settle, Failed, TypeOK
  <2>4. \A u \in Tids : /\ req'[c][u] = "error" => req[c][u] = "error"
                        /\ req'[c][u] # "none" => req[c][u] # "none" \/ u = t
    BY <2>2
  <2>5. t \in ids[c]
    BY <1>5 DEF ReadCallback, Settle, HistoryInv
  <2> QED
    BY <2>1, <2>3, <2>4, <2>5 DEF HistoryInv, InFlight, Dropped, Ended
<1>6. ASSUME NEW t \in Tids, SyncRead(c, t) PROVE HistoryInv(c)'
  <2>1. /\ ids'[c] = ids[c] /\ err'[c] = err[c] /\ req'[c] = req[c] /\ live' = live
        /\ start'[c] = start[c] /\ ever'[c] = ever[c] /\ gone'[c] = gone[c]
        /\ pc[c] = "syncReading" /\ t \in ids[c] /\ starved'[c] = starved[c]
    BY <1>6 DEF SyncRead, NextUnread, envVars
  <2>2. \/ NoFile(c, t) /\ pc'[c] = "thrown"
        \/ pc'[c] \in {"syncReading", "returned"}
    BY <1>6, <2>1 DEF SyncRead, Throw, Return, TypeOK
  <2>3. NoFile(c, t) => gone[c] # {} \/ starved[c]
    BY <2>1 DEF NoFile, HistoryInv, InFlight, Dropped, Ended
  <2> QED
    BY <2>1, <2>2, <2>3 DEF HistoryInv, InFlight, Dropped, Ended
<1> QED
  BY <1>1, <1>2, <1>3, <1>4, <1>5, <1>6 DEF CallStep

-----------------------------------------------------------------------------
(* The inductive invariant and what follows from it.                       *)

\* The inductive invariant holds before the first call.
LEMMA IInvInit == Init => IInv
<1> SUFFICES ASSUME Init, NEW c \in Calls
             PROVE  CountInv(c) /\ ArrayInv(c) /\ HistoryInv(c)
  BY TypeInit DEF IInv
<1>1. /\ pc[c] = "new" /\ arr[c] = <<>> /\ ids[c] = {} /\ ~err[c] /\ ever[c] = {}
      /\ \A t \in Tids : req[c][t] = "none"
  BY DEF Init
<1>2. ArrayInv(c)
  BY <1>1, EmptyArray DEF ArrayInv
<1>3. HistoryInv(c)
  BY <1>1 DEF HistoryInv, InFlight, Dropped, Ended
<1> QED
  BY <1>2, <1>3, CountInit

\* Every step preserves it: those of the process, and those of each call.
LEMMA IInvStep == IInv /\ [Next]_vars => IInv'
<1> SUFFICES ASSUME IInv, [Next]_vars, NEW d \in Calls
             PROVE  CountInv(d)' /\ ArrayInv(d)' /\ HistoryInv(d)'
  BY TypeStep DEF IInv
<1>0. TypeOK /\ CountInv(d) /\ ArrayInv(d) /\ HistoryInv(d)
  BY DEF IInv
<1>1. CASE \/ \E t \in Tids : ThreadStart(t)
           \/ \E S \in SUBSET Tids : ThreadsEnd(S)
           \/ \E c \in Calls : Starve(c)
  <2>1. /\ pc'[d] = pc[d] /\ ids'[d] = ids[d] /\ err'[d] = err[d] /\ count'[d] = count[d]
        /\ req'[d] = req[d] /\ arr'[d] = arr[d] /\ reply'[d] = reply[d]
    BY <1>1 DEF ThreadStart, ThreadsEnd, Starve
  <2> QED
    BY <1>0, <1>1, <2>1, CountFrame, ArrayFrame, HistoryEnvironment
<1>2. ASSUME NEW c \in Calls, CallStep(c)
      PROVE  CountInv(d)' /\ ArrayInv(d)' /\ HistoryInv(d)'
  <2>1. CASE c = d
    BY <1>0, <1>2, <2>1, CountOwnStep, ArrayOwnStep, HistoryOwnStep
  <2>2. CASE c # d
    BY <1>0, <1>2, <2>2, OtherCallsAlone, CountFrame, ArrayFrame, HistoryFrame
  <2> QED
    BY <2>1, <2>2
<1>3. CASE UNCHANGED vars
  BY <1>0, <1>3, CountFrame, ArrayFrame, HistoryFrame DEF vars, envVars
<1> QED
  BY <1>1, <1>2, <1>3 DEF Next

\* The inductive invariant: counter, array and history of every call, always.
THEOREM Invariance == Spec => []IInv
  BY IInvInit, IInvStep, PTL DEF Spec

\* The shared counter always equals the number of reads whose callback has not
\* run, for any number of calls, threads and exits in between.
THEOREM CounterCorrect == Spec => []CountIsOutstanding
<1>1. IInv => CountIsOutstanding
  BY DEF IInv, CountInv, CountIsOutstanding
<1> QED
  BY <1>1, Invariance, PTL

\* The caller gets at most one answer, after the last read has been settled.
THEOREM AnsweredOnce == Spec => []AnsweredOnceAndLast
<1>1. IInv => AnsweredOnceAndLast
  <2> SUFFICES ASSUME IInv, NEW c \in Calls
               PROVE  /\ Len(reply[c]) <= 1
                      /\ reply[c] # <<>> => Outstanding(c) = {} /\ ~InFlight(c)
    BY DEF AnsweredOnceAndLast
  <2>1. CountInv(c) /\ TypeOK
    BY DEF IInv
  <2>2. CASE pc[c] \in Ended
    <3>1. pc[c] # "answered" => Outstanding(c) = {}
      BY <2>1, <2>2 DEF CountInv, Ended, Outstanding
    <3>2. pc[c] = "answered" => Outstanding(c) = {}
      BY <2>1 DEF CountInv
    <3>3. Len(reply[c]) = 1 /\ ~InFlight(c)
      BY <2>1, <2>2 DEF CountInv, InFlight
    <3> QED
      BY <3>1, <3>2, <3>3
  <2>3. CASE pc[c] \notin Ended
    <3>1. reply[c] = <<>>
      BY <2>1, <2>3 DEF CountInv
    <3> QED
      BY <3>1
  <2> QED
    BY <2>2, <2>3
<1> QED
  BY <1>1, Invariance, PTL

\* What any answer is, in terms of the variables of its call.
LEMMA AnswerShape ==
    ASSUME IInv, NEW c \in Calls, NEW k \in DOMAIN reply[c]
    PROVE  /\ pc[c] \in Ended
           /\ k = 1
           /\ pc[c] = "answered" => /\ reply[c][k].err <=> err[c]
                                    /\ reply[c][k].arr = arr[c]
           /\ pc[c] = "returned" => /\ ~reply[c][k].err
                                    /\ reply[c][k].arr = arr[c] /\ Range(arr[c]) = ids[c]
           /\ pc[c] = "thrown" => reply[c][k].err /\ reply[c][k].arr = <<>>
<1>1. TypeOK /\ CountInv(c) /\ ArrayInv(c)
  BY DEF IInv
<1>2. reply[c] \in Seq(Replies)
  BY <1>1 DEF TypeOK
<1>3. reply[c] # <<>>
  BY <1>2
<1>4. pc[c] \in Ended
  BY <1>1, <1>3 DEF CountInv
<1>5. DOMAIN reply[c] = 1..Len(reply[c]) /\ Len(reply[c]) = 1
  BY <1>1, <1>2, <1>4 DEF CountInv
<1>6. k = 1
  BY <1>5
<1>7. CASE pc[c] = "answered"
  <2>1. reply[c] = <<[err |-> err[c], arr |-> arr[c]]>>
    BY <1>1, <1>7 DEF ArrayInv
  <2>2. reply[c][1].err = err[c] /\ reply[c][1].arr = arr[c]
    BY <2>1
  <2> QED
    BY <1>4, <1>6, <1>7, <2>2
<1>8. CASE pc[c] = "returned"
  <2>1. reply[c] = <<[err |-> FALSE, arr |-> arr[c]]>> /\ Range(arr[c]) = ids[c]
    BY <1>1, <1>8 DEF ArrayInv
  <2>2. reply[c][1].err = FALSE /\ reply[c][1].arr = arr[c]
    BY <2>1
  <2> QED
    BY <1>4, <1>6, <1>8, <2>1, <2>2
<1>9. CASE pc[c] = "thrown"
  <2>1. reply[c] = <<[err |-> TRUE, arr |-> <<>>]>>
    BY <1>1, <1>9 DEF ArrayInv
  <2>2. reply[c][1].err = TRUE /\ reply[c][1].arr = <<>>
    BY <2>1
  <2> QED
    BY <1>4, <1>6, <1>9, <2>2
<1> QED
  BY <1>4, <1>7, <1>8, <1>9 DEF Ended

\* An answer without an error holds every listed thread exactly once.
LEMMA CompleteOfIInv == IInv => CompleteUnlessError
<1> SUFFICES ASSUME IInv, NEW c \in Calls, NEW k \in DOMAIN reply[c], ~reply[c][k].err
             PROVE  /\ Range(reply[c][k].arr) = ids[c]
                    /\ Len(reply[c][k].arr) = Cardinality(ids[c])
  BY DEF CompleteUnlessError
<1>1. TypeOK /\ CountInv(c) /\ ArrayInv(c) /\ HistoryInv(c)
  BY DEF IInv
<1>2. CASE pc[c] = "answered"
  <2>1. reply[c][k].arr = arr[c] /\ ~err[c]
    BY <1>2, AnswerShape
  <2>2. ids[c] \subseteq Range(arr[c])
    <3>1. ids[c] \subseteq Tids /\ Outstanding(c) = {} /\ req[c] \in [Tids -> Requests]
      BY <1>1, <1>2 DEF TypeOK, CountInv
    <3>2. \A t \in ids[c] : req[c][t] = "settled"
      BY <1>1, <1>2, <2>1, <3>1 DEF ArrayInv, Outstanding, Requests
    <3> QED
      BY <1>1, <1>2, <2>1, <3>2 DEF ArrayInv
  <2>3. Range(arr[c]) = ids[c]
    BY <1>1, <2>2 DEF ArrayInv
  <2>4. Len(arr[c]) = Cardinality(Range(arr[c]))
    BY <1>1 DEF ArrayInv
  <2> QED
    BY <2>1, <2>3, <2>4
<1>3. CASE pc[c] = "returned"
  <2>1. reply[c][k].arr = arr[c] /\ Range(arr[c]) = ids[c]
    BY <1>3, AnswerShape
  <2>2. Len(arr[c]) = Cardinality(Range(arr[c]))
    BY <1>1 DEF ArrayInv
  <2> QED
    BY <2>1, <2>2
<1>4. pc[c] # "thrown"
  BY AnswerShape
<1> QED
  BY <1>2, <1>3, <1>4, AnswerShape DEF Ended

\* An answer without an error is complete, however many calls run at once.
THEOREM AnswerComplete == Spec => []CompleteUnlessError
  BY CompleteOfIInv, Invariance, PTL

\* The answer lies between the threads that lived through the call and those
\* that lived at some time during it.
LEMMA IntervalOfIInv == IInv => BetweenThroughoutAndEver
<1> SUFFICES ASSUME IInv, NEW c \in Calls, NEW k \in DOMAIN reply[c]
             PROVE  /\ Range(reply[c][k].arr) \subseteq ever[c]
                    /\ ~reply[c][k].err => start[c] \ gone[c] \subseteq Range(reply[c][k].arr)
  BY DEF BetweenThroughoutAndEver
<1>1. TypeOK /\ CountInv(c) /\ ArrayInv(c) /\ HistoryInv(c)
  BY DEF IInv
<1>2. Range(arr[c]) \subseteq ever[c] /\ Range(<<>>) \subseteq ever[c]
  BY <1>1, EmptyArray DEF ArrayInv, HistoryInv
<1>3. Range(reply[c][k].arr) \subseteq ever[c]
  <2>1. reply[c][k].arr = arr[c] \/ reply[c][k].arr = <<>>
    BY AnswerShape DEF Ended
  <2> QED
    BY <1>2, <2>1
<1>4. ASSUME ~reply[c][k].err PROVE start[c] \ gone[c] \subseteq Range(reply[c][k].arr)
  <2>1. pc[c] \in {"answered", "returned"} /\ ~err[c]
    <3>1. pc[c] = "answered" \/ pc[c] = "returned"
      BY <1>4, AnswerShape DEF Ended
    <3>2. pc[c] = "answered" => ~err[c]
      BY <1>4, AnswerShape
    <3> QED
      BY <1>1, <3>1, <3>2 DEF HistoryInv
  <2>2. start[c] \ gone[c] \subseteq ids[c]
    BY <1>1, <2>1 DEF HistoryInv
  <2>3. Range(reply[c][k].arr) = ids[c]
    BY <1>4, CompleteOfIInv DEF CompleteUnlessError
  <2> QED
    BY <2>2, <2>3
<1> QED
  BY <1>3, <1>4

\* Every answer lies between what lived throughout the call and what lived at
\* some time during it, for any number of threads that come and go.
THEOREM AnswerInterval == Spec => []BetweenThroughoutAndEver
  BY IntervalOfIInv, Invariance, PTL

\* An error is given only if a thread ended under the call or a descriptor was
\* wanting.
LEMMA ErrorOfIInv == IInv => ErrorHasCause
<1> SUFFICES ASSUME IInv, NEW c \in Calls, NEW k \in DOMAIN reply[c], reply[c][k].err
             PROVE  gone[c] # {} \/ live = {} \/ starved[c]
  BY DEF ErrorHasCause
<1>1. err[c] \/ pc[c] = "thrown"
  BY AnswerShape DEF Ended
<1>2. HistoryInv(c)
  BY DEF IInv
<1> QED
  BY <1>1, <1>2 DEF HistoryInv

\* An error is reported only if a thread, or the process, went away, or node ran
\* out of descriptors during that call.
THEOREM ErrorJustified == Spec => []ErrorHasCause
  BY ErrorOfIInv, Invariance, PTL

-----------------------------------------------------------------------------
(* What a step may do to an answer.                                        *)

\* A call that has been answered takes no step, and leaves none to be taken.
LEMMA EndedIsQuiet ==
    ASSUME IInv, NEW c \in Calls, CallStep(c)
    PROVE  pc[c] \notin Ended /\ reply[c] = <<>>
<1>0. TypeOK /\ CountInv(c)
  BY DEF IInv
<1>1. pc[c] \notin Ended
  <2>1. CASE \/ CallAsync(c) \/ CallSync(c) \/ ReaddirOpen(c) \/ ReaddirExec(c)
             \/ ReaddirCallback(c) \/ SyncOpen(c) \/ SyncReaddir(c)
             \/ \E t \in Tids : SyncRead(c, t)
    BY <2>1 DEF CallAsync, CallSync, Begin, ReaddirOpen, ReaddirExec, ReaddirCallback, SyncOpen,
                SyncReaddir, SyncRead, Ended
  <2>2. CASE \E t \in Tids : ReadExec(c, t) \/ ReadCallback(c, t)
    <3>1. \E t \in Tids : req[c][t] \in {"queued", "data", "error"}
      BY <2>2 DEF ReadExec, ReadCallback, Settle
    <3>2. Outstanding(c) # {} /\ \E t \in Tids : req[c][t] # "none"
      BY <3>1 DEF Outstanding
    <3> QED
      BY <1>0, <3>2 DEF CountInv, Ended
  <2> QED
    BY <2>1, <2>2 DEF CallStep
<1> QED
  BY <1>0, <1>1 DEF CountInv

\* No step touches the array or the answer of a call that has been answered.
LEMMA FinalStep ==
    IInv /\ [Next]_vars => [\A c \in Calls : reply[c] # <<>> => UNCHANGED <<arr[c], reply[c]>>]_vars
<1> SUFFICES ASSUME IInv, Next, NEW d \in Calls, reply[d] # <<>>
             PROVE  UNCHANGED <<arr[d], reply[d]>>
  OBVIOUS
<1>1. CASE \/ \E t \in Tids : ThreadStart(t)
           \/ \E S \in SUBSET Tids : ThreadsEnd(S)
           \/ \E c \in Calls : Starve(c)
  BY <1>1 DEF ThreadStart, ThreadsEnd, Starve
<1>2. ASSUME NEW c \in Calls, CallStep(c)
      PROVE  UNCHANGED <<arr[d], reply[d]>>
  <2>1. c # d
    BY <1>2, EndedIsQuiet
  <2> QED
    BY <1>2, <2>1, OtherCallsAlone DEF IInv
<1> QED
  BY <1>1, <1>2 DEF Next

\* An answer is final: the array that the caller has been given by reference is
\* never pushed to, and no second answer follows.
THEOREM AnswerNeverChanges == Spec => AnswerIsFinal
  BY FinalStep, Invariance, PTL DEF Spec, AnswerIsFinal

-----------------------------------------------------------------------------
(* proto.threads implements IntervalQuery, step by step.                   *)

\* The refinement mapping: how far a call is, and its answer.
PhaseBar == [c \in Calls |-> PhaseOf(pc[c], ids[c])]
AnswerBar == [c \in Calls |-> IF reply[c] = <<>> THEN [err |-> FALSE, items |-> {}]
                                                 ELSE AnswerOf(reply[c][1])]

\* A call runs, for the promise, from its beginning to its end.
LEMMA Phases ==
    ASSUME TypeOK, NEW c \in Calls
    PROVE  /\ PhaseOf(pc[c], ids[c]) = "new" <=> pc[c] = "new"
           /\ PhaseOf(pc[c], ids[c]) = "running" <=> InFlight(c)
           /\ PhaseOf(pc[c], ids[c]) = "answered" <=> pc[c] \in Ended
           /\ PhaseOf(pc[c], ids[c]) = "dropped" <=> Dropped(c)
<1>1. pc[c] \in PCs
  BY DEF TypeOK
<1> QED
  BY <1>1 DEF PhaseOf, InFlight, Dropped, Ended, PCs

\* The initial states are initial states of the promise.
LEMMA RefinesInit == Init => IQ!Init
<1> SUFFICES ASSUME Init PROVE IQ!Init
  OBVIOUS
<1>1. /\ live \in SUBSET Tids /\ pc = [c \in Calls |-> "new"] /\ reply = [c \in Calls |-> <<>>]
      /\ start = [c \in Calls |-> {}] /\ ever = [c \in Calls |-> {}] /\ gone = [c \in Calls |-> {}]
      /\ starved = [c \in Calls |-> FALSE]
  BY DEF Init
<1>2. PhaseBar = [c \in Calls |-> "new"]
  <2>1. \A s : PhaseOf("new", s) = "new"
    BY DEF PhaseOf, Ended
  <2>2. \A c \in Calls : pc[c] = "new"
    BY <1>1
  <2> QED
    BY <2>1, <2>2 DEF PhaseBar
<1>3. AnswerBar = [c \in Calls |-> [err |-> FALSE, items |-> {}]]
  BY <1>1 DEF AnswerBar
<1> QED
  BY <1>1, <1>2, <1>3 DEF IQ!Init, IQ!NoAnswer, PhaseBar, AnswerBar

\* A thread that starts is an item that appears.
LEMMA RefinesStart ==
    ASSUME IInv, NEW t \in Tids, ThreadStart(t)
    PROVE  IQ!Appear(t)
<1>1. PhaseBar' = PhaseBar /\ AnswerBar' = AnswerBar
  BY DEF ThreadStart, PhaseBar, AnswerBar
<1>2. \A c \in Calls : c \in IQ!Running <=> InFlight(c)
  BY Phases DEF IInv, IQ!Running
<1>3. ever' = [c \in Calls |-> IF c \in IQ!Running THEN ever[c] \cup {t} ELSE ever[c]]
  BY <1>2 DEF ThreadStart
<1> QED
  BY <1>1, <1>3 DEF ThreadStart, IQ!Appear, PhaseBar, AnswerBar

\* Threads that end, one or all of them, are items that vanish.
LEMMA RefinesEnd ==
    ASSUME IInv, NEW S \in SUBSET Tids, ThreadsEnd(S)
    PROVE  IQ!Vanish(S)
<1>1. PhaseBar' = PhaseBar /\ AnswerBar' = AnswerBar
  BY DEF ThreadsEnd, PhaseBar, AnswerBar
<1>2. \A c \in Calls : c \in IQ!Running <=> InFlight(c)
  BY Phases DEF IInv, IQ!Running
<1>3. gone' = [c \in Calls |-> IF c \in IQ!Running THEN gone[c] \cup S ELSE gone[c]]
  BY <1>2 DEF ThreadsEnd
<1> QED
  BY <1>1, <1>3 DEF ThreadsEnd, IQ!Vanish, PhaseBar, AnswerBar

\* Descriptors that run out are the promise's fault.
LEMMA RefinesFault ==
    ASSUME IInv, NEW c \in Calls, Starve(c)
    PROVE  IQ!Fault(c)
<1>1. PhaseBar' = PhaseBar /\ AnswerBar' = AnswerBar
  BY DEF Starve, PhaseBar, AnswerBar
<1>2. PhaseOf(pc[c], ids[c]) = "running"
  BY Phases DEF IInv, Starve
<1> QED
  BY <1>1, <1>2 DEF Starve, IQ!Fault, PhaseBar, AnswerBar

\* Both forms of a call begin as the promise's question.
LEMMA RefinesAsk ==
    ASSUME IInv, NEW c \in Calls, CallAsync(c) \/ CallSync(c)
    PROVE  IQ!Ask(c)
<1>1. /\ pc[c] = "new" /\ start' = [start EXCEPT ![c] = live] /\ ever' = [ever EXCEPT ![c] = live]
      /\ reply' = reply /\ live' = live /\ gone' = gone /\ starved' = starved /\ ids' = ids
  BY DEF CallAsync, CallSync, Begin
<1>2. PICK p \in {"listing", "syncListing"} : pc' = [pc EXCEPT ![c] = p]
  BY DEF CallAsync, CallSync, Begin
<1>3. PhaseBar' = [PhaseBar EXCEPT ![c] = "running"] /\ PhaseBar[c] = "new"
  <2>1. \A s : PhaseOf(p, s) = "running" /\ PhaseOf("new", s) = "new"
    BY DEF PhaseOf, Ended
  <2>2. pc \in [Calls -> PCs]
    BY DEF IInv, TypeOK
  <2> QED
    BY <1>1, <1>2, <2>1, <2>2 DEF PhaseBar
<1>4. AnswerBar' = AnswerBar
  BY <1>1 DEF AnswerBar
<1> QED
  BY <1>1, <1>3, <1>4 DEF IQ!Ask, PhaseBar, AnswerBar

\* Any other step of a call is the one that answers, the one that finds the
\* listing empty and drops the call, or no step at all.
LEMMA RefinesAnswer ==
    ASSUME IInv, IInv', NEW c \in Calls, CallStep(c), ~CallAsync(c), ~CallSync(c)
    PROVE  IQ!Answer(c) \/ IQ!Drop(c) \/ UNCHANGED IQ!vars
<1>0. /\ TypeOK /\ TypeOK' /\ CountInv(c)' /\ HistoryInv(c)'
      /\ BetweenThroughoutAndEver' /\ ErrorHasCause'
  <2>1. TypeOK /\ TypeOK' /\ CountInv(c)' /\ HistoryInv(c)'
    BY DEF IInv
  <2>2. BetweenThroughoutAndEver'
    BY IntervalOfIInv, PTL
  <2>3. ErrorHasCause'
    BY ErrorOfIInv, PTL
  <2> QED
    BY <2>1, <2>2, <2>3
<1>1. UNCHANGED <<live, start, ever, gone, starved>>
  BY DEF CallStep, ReaddirOpen, ReaddirExec, ReaddirCallback, SyncOpen, SyncReaddir, ReadExec,
         ReadCallback, Settle, SyncRead, envVars
<1>2. InFlight(c) /\ reply[c] = <<>>
  <2>1. pc[c] \notin Ended /\ reply[c] = <<>>
    BY EndedIsQuiet
  <2>2. pc[c] # "new"
    <3>1. CASE \/ ReaddirOpen(c) \/ ReaddirExec(c) \/ ReaddirCallback(c)
               \/ SyncOpen(c) \/ SyncReaddir(c) \/ \E t \in Tids : SyncRead(c, t)
      BY <3>1 DEF ReaddirOpen, ReaddirExec, ReaddirCallback, SyncOpen, SyncReaddir, SyncRead
    <3>2. CASE \E t \in Tids : ReadExec(c, t) \/ ReadCallback(c, t)
      <4>1. \E t \in Tids : req[c][t] # "none"
        BY <3>2 DEF ReadExec, ReadCallback, Settle
      <4> QED
        BY <4>1 DEF IInv, CountInv
    <3> QED
      BY <3>1, <3>2 DEF CallStep
  <2>3. ~Dropped(c)
    <3>1. CASE \/ ReaddirOpen(c) \/ ReaddirExec(c) \/ ReaddirCallback(c)
               \/ SyncOpen(c) \/ SyncReaddir(c) \/ \E t \in Tids : SyncRead(c, t)
      BY <3>1 DEF ReaddirOpen, ReaddirExec, ReaddirCallback, SyncOpen, SyncReaddir, SyncRead, Dropped
    <3>2. CASE \E t \in Tids : ReadExec(c, t) \/ ReadCallback(c, t)
      <4>1. \E t \in Tids : req[c][t] # "none"
        BY <3>2 DEF ReadExec, ReadCallback, Settle
      <4> QED
        BY <4>1 DEF IInv, HistoryInv, Dropped
    <3> QED
      BY <3>1, <3>2 DEF CallStep
  <2> QED
    BY <2>1, <2>2, <2>3 DEF InFlight
<1>3. pc'[c] # "new"
  <2>1. pc \in [Calls -> PCs] /\ pc[c] # "new"
    BY <1>0, <1>2 DEF TypeOK, InFlight
  <2>2. \/ ReaddirOpen(c) \/ ReaddirExec(c) \/ ReaddirCallback(c)
        \/ SyncOpen(c) \/ SyncReaddir(c)
        => pc'[c] # "new"
    BY <2>1 DEF ReaddirOpen, ReaddirExec, ReaddirCallback, SyncOpen, SyncReaddir, Throw, Return
  <2>3. \A t \in Tids : ReadExec(c, t) \/ ReadCallback(c, t) \/ SyncRead(c, t) => pc'[c] # "new"
    BY <2>1 DEF ReadExec, ReadCallback, Settle, SyncRead, Throw, Return
  <2> QED
    BY <2>2, <2>3 DEF CallStep
<1>4. \A d \in Calls \ {c} : pc'[d] = pc[d] /\ reply'[d] = reply[d] /\ ids'[d] = ids[d]
  BY <1>0, OtherCallsAlone
<1>5. PhaseBar \in [Calls -> {"new", "running", "answered", "dropped"}] /\ PhaseBar[c] = "running"
      /\ AnswerBar[c] = [err |-> FALSE, items |-> {}]
  BY <1>0, <1>2, Phases DEF PhaseBar, AnswerBar, PhaseOf
<1>6. CASE pc'[c] \in Ended
  <2> DEFINE r == reply'[c][1]
             S == Range(r.arr)
  <2>1. reply'[c] # <<>> /\ 1 \in DOMAIN reply'[c] /\ r \in Replies
    <3>1. Len(reply'[c]) = 1 /\ reply'[c] \in Seq(Replies)
      BY <1>0, <1>6 DEF CountInv, TypeOK
    <3> QED
      BY <3>1
  <2>2. /\ r.err \in BOOLEAN /\ S \subseteq ever[c]
        /\ r.err => gone[c] # {} \/ live = {} \/ starved[c]
        /\ ~r.err => start[c] \ gone[c] \subseteq S
    BY <1>0, <1>1, <2>1 DEF BetweenThroughoutAndEver, ErrorHasCause, Replies
  <2>3. AnswerBar' = [AnswerBar EXCEPT ![c] = [err |-> r.err, items |-> S]]
    BY <1>4, <2>1 DEF AnswerBar, AnswerOf
  <2>4. PhaseBar' = [PhaseBar EXCEPT ![c] = "answered"]
    <3>1. PhaseOf(pc'[c], ids'[c]) = "answered"
      BY <1>6 DEF PhaseOf, Ended
    <3> QED
      BY <1>4, <3>1 DEF PhaseBar
  <2> HIDE DEF r, S
  <2> QED
    BY <1>1, <1>5, <2>2, <2>3, <2>4 DEF IQ!Answer, IQ!Throughout, PhaseBar, AnswerBar
<1>7. CASE Dropped(c)'
  <2>1. reply'[c] = <<>> /\ live = {} /\ gone[c] # {}
    BY <1>0, <1>1, <1>7 DEF CountInv, HistoryInv, Dropped, Ended
  <2>2. PhaseBar' = [PhaseBar EXCEPT ![c] = "dropped"]
    <3>1. PhaseOf(pc'[c], ids'[c]) = "dropped"
      BY <1>7 DEF Dropped, PhaseOf, Ended
    <3> QED
      BY <1>4, <3>1 DEF PhaseBar
  <2>3. AnswerBar' = AnswerBar
    BY <1>2, <1>4, <2>1 DEF AnswerBar
  <2> QED
    BY <1>1, <1>5, <2>1, <2>2, <2>3 DEF IQ!Drop, PhaseBar, AnswerBar
<1>8. CASE pc'[c] \notin Ended /\ ~Dropped(c)'
  <2>1. reply'[c] = <<>>
    BY <1>0, <1>8 DEF CountInv
  <2>2. PhaseBar' = PhaseBar
    <3>1. PhaseOf(pc'[c], ids'[c]) = "running" /\ PhaseOf(pc[c], ids[c]) = "running"
      BY <1>0, <1>2, <1>3, <1>8, Phases DEF PhaseOf, Dropped, Ended
    <3> QED
      BY <1>4, <3>1 DEF PhaseBar
  <2>3. AnswerBar' = AnswerBar
    BY <1>2, <1>4, <2>1 DEF AnswerBar
  <2> QED
    BY <1>1, <2>2, <2>3 DEF IQ!vars, PhaseBar, AnswerBar
<1> QED
  BY <1>6, <1>7, <1>8

\* Every step maps to a step of the promise or to none.
LEMMA RefinesStep == IInv /\ IInv' /\ [Next]_vars => [IQ!Next]_IQ!vars
<1> SUFFICES ASSUME IInv, IInv', [Next]_vars PROVE [IQ!Next]_IQ!vars
  OBVIOUS
<1>1. ASSUME NEW t \in Tids, ThreadStart(t) PROVE IQ!Next
  BY <1>1, RefinesStart DEF IQ!Next
<1>2. ASSUME NEW S \in SUBSET Tids, ThreadsEnd(S) PROVE IQ!Next
  BY <1>2, RefinesEnd DEF IQ!Next
<1>3. ASSUME NEW c \in Calls, CallStep(c) PROVE IQ!Next \/ UNCHANGED IQ!vars
  BY <1>3, RefinesAsk, RefinesAnswer DEF IQ!Next
<1>4. ASSUME NEW c \in Calls, Starve(c) PROVE IQ!Next
  BY <1>4, RefinesFault DEF IQ!Next
<1>5. CASE UNCHANGED vars
  <2>1. /\ PhaseBar' = PhaseBar /\ AnswerBar' = AnswerBar
        /\ UNCHANGED <<live, start, ever, gone, starved>>
    BY <1>5 DEF vars, envVars, PhaseBar, AnswerBar
  <2> QED
    BY <2>1 DEF IQ!vars, PhaseBar, AnswerBar
<1> QED
  BY <1>1, <1>2, <1>3, <1>4, <1>5 DEF Next

\* proto.threads keeps the safety part of the interval promise, for every number
\* of calls and threads: one answer per call, each in its interval, each error
\* with its cause.
THEOREM Refinement == Spec => StepsOfIntervalQuery
  BY RefinesInit, RefinesStep, Invariance, PTL DEF Spec, StepsOfIntervalQuery
================================================================================
