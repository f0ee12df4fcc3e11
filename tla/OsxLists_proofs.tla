---------------------------- MODULE OsxLists_proofs ----------------------------
(***************************************************************************)
(* Theorems about OsxLists, for every set of slots and of objects, every   *)
(* choice of functions, number of tries and growth of the buffer: a copied *)
(* table lies between what was in the kernel's all along the call and what *)
(* was in it at some time (BetweenThroughoutAndEver), nothing stays        *)
(* allocated but the known proc_conn objects (HeapBalance), and the list   *)
(* of processes is given up for growth only after Attempts starts          *)
(* (GivesUpOnGrowth).  All of it follows from one inductive invariant,     *)
(* IInv of OsxLists.                                                       *)
(***************************************************************************)
EXTENDS OsxLists, FiniteSetTheorems, TLAPS

-----------------------------------------------------------------------------
(* Tables and the part of them that fits.                                  *)

\* What is in a table.
LEMMA PairsMembers ==
    ASSUME NEW t
    PROVE  /\ \A s \in Slots : t[s] # Free => <<s, t[s]>> \in Pairs(t)
           /\ \A x \in Pairs(t) : /\ x[1] \in Slots /\ x[2] = t[x[1]] /\ x[2] # Free
                                  /\ x = <<x[1], x[2]>>
  BY DEF Pairs

\* A table has finitely many entries.
LEMMA UsedFinite ==
    /\ Used \subseteq Slots /\ IsFiniteSet(Used) /\ N \in Nat
    /\ N = 0 <=> Used = {}
<1>1. Used \subseteq Slots
  BY DEF Used
<1>2. IsFiniteSet(Used)
  BY <1>1, SlotsAssumption, FS_Subset
<1> QED
  BY <1>1, <1>2, FS_CardinalityType, FS_EmptySet DEF N

\* Nothing of a set that fits is cut off.
LEMMA PrefixWhole ==
    ASSUME NEW S \in SUBSET Slots, NEW n \in Nat, Cardinality(S) <= n
    PROVE  Prefix(S, n) = S
<1>1. IsFiniteSet(S)
  BY SlotsAssumption, FS_Subset
<1>2. ASSUME NEW s \in S PROVE Cardinality({r \in S : r < s}) < n
  <2>1. IsFiniteSet(S \ {s}) /\ Cardinality(S \ {s}) = Cardinality(S) - 1
    BY <1>1, FS_RemoveElement
  <2>2. {r \in S : r < s} \subseteq S \ {s}
    BY SlotsAssumption
  <2>3. Cardinality({r \in S : r < s}) <= Cardinality(S \ {s})
    BY <2>1, <2>2, FS_Subset
  <2> QED
    BY <1>1, <2>1, <2>2, <2>3, FS_CardinalityType, FS_Subset
<1> QED
  BY <1>2 DEF Prefix

\* A table without entries has no pairs.
LEMMA EmptyTable == N = 0 => Pairs(table) = {}
  BY UsedFinite DEF Pairs, Used

\* An eighth of a size is a size.
LEMMA EighthOf ==
    ASSUME NEW n \in Nat
    PROVE  n \div Eighth \in Nat
  BY BoundsAssumption

-----------------------------------------------------------------------------
(* The kernel's table changes.                                             *)

\* What holds however it changes: only the room in the buffer and the tries
\* depend on how.
LEMMA Observed ==
    ASSUME IInv, Running, Observe,
           table' \in [Slots -> Objects \cup {Free}],
           ~alive' => \A s \in Slots : table'[s] = Free,
           ~opened' => ~opened /\ Used' \subseteq Used
    PROVE  /\ found \subseteq Slots \X Objects /\ ever' \subseteq Slots \X Objects /\ kept' \subseteq ever'
           /\ TableInv' /\ PhaseInv' /\ RoomInv' /\ ListInv' /\ LookedInv'
           /\ BetweenThroughoutAndEver' /\ HeapBalance' /\ GivesUpOnGrowth'
<1> USE DEF IInv
<1>1. /\ UNCHANGED <<fn, pc, size, lim, listed, todo, found, bufs, leaked, answer, refused>>
      /\ ever' = ever \cup Pairs(table') /\ kept' = kept \cap Pairs(table')
      /\ pc \in {"size", "read", "loop"} /\ answer = "none"
  BY DEF Observe, callVars, Running, TypeOK, PhaseInv
<1>2. /\ found \subseteq Slots \X Objects /\ ever' \subseteq Slots \X Objects /\ kept' \subseteq ever'
  <2>1. Pairs(table') \subseteq Slots \X Objects
    BY DEF Pairs
  <2> QED
    BY <1>1, <2>1 DEF TypeOK
<1>3. TableInv'
  BY <1>1 DEF TableInv, Pairs
<1>4. PhaseInv'
  BY <1>1 DEF PhaseInv
<1>5. RoomInv'
  <2> SUFFICES ASSUME pc' = "read", ~opened' PROVE N' <= size'
    BY DEF RoomInv
  <2>1. Used' \subseteq Used /\ N <= size /\ IsFiniteSet(Used)
    BY <1>1, UsedFinite DEF RoomInv
  <2>2. Cardinality(Used') <= Cardinality(Used) /\ Cardinality(Used') \in Nat
    BY <2>1, FS_Subset, FS_CardinalityType
  <2> QED
    BY <1>1, <2>1, <2>2, UsedFinite DEF N, TypeOK
<1>6. ListInv'
  <2>1. kept' \subseteq kept /\ Wanted' = Wanted /\ (~opened' => ~opened)
    BY <1>1 DEF Wanted
  <2> QED
    BY <1>1, <2>1 DEF ListInv
<1>7. LookedInv'
  BY <1>1 DEF LookedInv
<1>8. BetweenThroughoutAndEver'
  BY <1>1 DEF BetweenThroughoutAndEver, FoundWasThere, KeptIsFound
<1>9. HeapBalance'
  BY <1>1 DEF HeapBalance
<1>10. GivesUpOnGrowth'
  BY <1>1 DEF GivesUpOnGrowth
<1> QED
  BY <1>2, <1>3, <1>4, <1>5, <1>6, <1>7, <1>8, <1>9, <1>10

\* A slot is filled: a process starts, a descriptor is opened, and so on.
LEMMA FillStep ==
    ASSUME IInv, NEW s \in Slots, NEW o \in Objects, Fill(s, o)
    PROVE  IInv'
<1> USE DEF IInv
<1>1. /\ Running /\ Observe /\ alive /\ alive' = alive /\ opened' = TRUE
      /\ table' = [table EXCEPT ![s] = o]
      /\ starts' = IF starts < Attempts THEN starts + 1 ELSE starts
      /\ UNCHANGED <<fn, pc, size, lim, listed, todo, found, bufs, leaked, answer, refused>>
  BY DEF Fill, Observe, callVars
<1>2. table' \in [Slots -> Objects \cup {Free}]
  BY <1>1 DEF TypeOK
<1>3. /\ found \subseteq Slots \X Objects /\ ever' \subseteq Slots \X Objects /\ kept' \subseteq ever'
      /\ TableInv' /\ PhaseInv' /\ RoomInv' /\ ListInv' /\ LookedInv'
      /\ BetweenThroughoutAndEver' /\ HeapBalance' /\ GivesUpOnGrowth'
  BY <1>1, <1>2, Observed
<1>4. TypeOK'
  <2>1. starts' \in 0..Attempts
    BY <1>1, BoundsAssumption DEF TypeOK
  <2>2. alive' \in BOOLEAN /\ opened' \in BOOLEAN /\ refused' \in BOOLEAN
    BY <1>1 DEF TypeOK
  <2> QED
    BY <1>1, <1>2, <1>3, <2>1, <2>2 DEF TypeOK
<1>5. TriesInv'
  BY <1>1, BoundsAssumption DEF TriesInv, Running, TypeOK
<1> QED
  BY <1>3, <1>4, <1>5

\* A slot is emptied.
LEMMA ClearStep ==
    ASSUME IInv, NEW s \in Slots, Clear(s)
    PROVE  IInv'
<1> USE DEF IInv
<1>1. /\ Running /\ Observe /\ alive' = alive /\ opened' = opened /\ starts' = starts
      /\ table' = [table EXCEPT ![s] = Free]
      /\ UNCHANGED <<fn, pc, size, lim, listed, todo, found, bufs, leaked, answer, refused>>
  BY DEF Clear, Observe, callVars
<1>2. table' \in [Slots -> Objects \cup {Free}] /\ Used' \subseteq Used
  BY <1>1 DEF TypeOK, Used
<1>3. ~alive' => \A r \in Slots : table'[r] = Free
  BY <1>1 DEF TableInv, TypeOK
<1>4. /\ found \subseteq Slots \X Objects /\ ever' \subseteq Slots \X Objects /\ kept' \subseteq ever'
      /\ TableInv' /\ PhaseInv' /\ RoomInv' /\ ListInv' /\ LookedInv'
      /\ BetweenThroughoutAndEver' /\ HeapBalance' /\ GivesUpOnGrowth'
  BY <1>1, <1>2, <1>3, Observed
<1>5. TypeOK'
  BY <1>1, <1>2, <1>4 DEF TypeOK
<1>6. TriesInv'
  BY <1>1 DEF TriesInv
<1> QED
  BY <1>4, <1>5, <1>6

\* The observed process ends.
LEMMA ExitStep ==
    ASSUME IInv, Exit
    PROVE  IInv'
<1> USE DEF IInv
<1>1. /\ Running /\ Observe /\ alive' = FALSE /\ opened' = opened /\ starts' = starts
      /\ table' = [s \in Slots |-> Free]
      /\ UNCHANGED <<fn, pc, size, lim, listed, todo, found, bufs, leaked, answer, refused>>
  BY DEF Exit, Observe, callVars
<1>2. table' \in [Slots -> Objects \cup {Free}] /\ Used' \subseteq Used
  BY <1>1 DEF Used
<1>3. \A r \in Slots : table'[r] = Free
  BY <1>1
<1>4. /\ found \subseteq Slots \X Objects /\ ever' \subseteq Slots \X Objects /\ kept' \subseteq ever'
      /\ TableInv' /\ PhaseInv' /\ RoomInv' /\ ListInv' /\ LookedInv'
      /\ BetweenThroughoutAndEver' /\ HeapBalance' /\ GivesUpOnGrowth'
  BY <1>1, <1>2, <1>3, Observed
<1>5. TypeOK'
  <2>1. alive' \in BOOLEAN
    BY <1>1
  <2> QED
    BY <1>1, <1>2, <1>4, <2>1 DEF TypeOK
<1>6. TriesInv'
  BY <1>1 DEF TriesInv
<1> QED
  BY <1>4, <1>5, <1>6

-----------------------------------------------------------------------------
(* The call.                                                               *)

\* What holds when a call ends, whatever its answer.
LEMMA Ends ==
    ASSUME IInv, pc # "new", pc' = "done", bufs' = 0, answer' \in {"list", "failure"},
           UNCHANGED <<table, alive, fn, ever, kept>>
    PROVE  TableInv' /\ PhaseInv' /\ RoomInv' /\ TriesInv'
<1>1. TableInv'
  BY DEF IInv, TableInv, Pairs
<1>2. PhaseInv'
  BY DEF PhaseInv
<1>3. RoomInv' /\ TriesInv'
  BY DEF RoomInv, TriesInv
<1> QED
  BY <1>1, <1>2, <1>3

\* What holds when a call that was not in the loop, or leaves it, changes none
\* of what it has listed and found.
LEMMA Untouched ==
    ASSUME IInv, pc' # "loop",
           UNCHANGED <<fn, listed, todo, found, leaked, ever, kept>>
    PROVE  /\ ListInv' /\ LookedInv' /\ FoundWasThere'
           /\ (pc' = "done" => bufs' = 0) => HeapBalance'
<1> USE DEF IInv
<1>1. ListInv' /\ LookedInv'
  BY DEF ListInv, LookedInv
<1>2. FoundWasThere'
  BY DEF BetweenThroughoutAndEver, FoundWasThere
<1>3. (pc' = "done" => bufs' = 0) => HeapBalance'
  BY DEF HeapBalance
<1> QED
  BY <1>1, <1>2, <1>3

\* A call begins.
LEMMA CallStarts ==
    ASSUME IInv, Call
    PROVE  IInv'
<1> USE DEF IInv
<1>1. /\ pc = "new" /\ pc' = "size" /\ ever' = Pairs(table) /\ kept' = Pairs(table)
      /\ UNCHANGED <<table, alive, fn, size, lim, listed, todo, found, bufs, leaked, answer,
                     opened, starts, refused>>
      /\ found = {} /\ DOMAIN listed = {} /\ answer = "none"
  BY DEF Call, PhaseInv
<1>2. Pairs(table) \subseteq Slots \X Objects
  BY DEF TypeOK, Pairs
<1>3. TypeOK'
  BY <1>1, <1>2 DEF TypeOK
<1>4. TableInv'
  BY <1>1 DEF TableInv, Pairs
<1>5. PhaseInv' /\ RoomInv' /\ TriesInv'
  BY <1>1 DEF PhaseInv, RoomInv, TriesInv
<1>6. ListInv' /\ LookedInv'
  BY <1>1 DEF ListInv, LookedInv
<1>7. BetweenThroughoutAndEver' /\ GivesUpOnGrowth'
  BY <1>1 DEF BetweenThroughoutAndEver, FoundWasThere, KeptIsFound, GivesUpOnGrowth
<1>8. HeapBalance'
  BY <1>1 DEF HeapBalance
<1> QED
  BY <1>3, <1>4, <1>5, <1>6, <1>7, <1>8

\* The size is known and the buffer allocated.
LEMMA AskSizeStep ==
    ASSUME IInv, AskSize
    PROVE  IInv'
<1> USE DEF IInv
<1>1. /\ pc = "size" /\ pc' = "read" /\ bufs' = bufs + 1 /\ opened' = FALSE
      /\ size' \in {N + N \div Eighth, N}
      /\ UNCHANGED <<table, alive, fn, lim, listed, todo, found, leaked, answer,
                     ever, kept, starts, refused>>
      /\ bufs = 0 /\ answer = "none"
  BY DEF AskSize, PhaseInv
<1>2. size' \in Nat /\ N <= size' /\ N' = N
  <2>1. N \in Nat /\ N \div Eighth \in Nat /\ N' = N
    BY <1>1, UsedFinite, EighthOf DEF N, Used
  <2> QED
    BY <1>1, <2>1
<1>3. TypeOK'
  <2>1. opened' \in BOOLEAN
    BY <1>1
  <2> QED
    BY <1>1, <1>2, <2>1 DEF TypeOK
<1>4. TableInv' /\ PhaseInv'
  BY <1>1 DEF TableInv, Pairs, PhaseInv
<1>5. RoomInv' /\ TriesInv'
  BY <1>1, <1>2 DEF RoomInv, TriesInv
<1>6. ListInv' /\ LookedInv' /\ FoundWasThere' /\ HeapBalance'
  BY <1>1, Untouched
<1>7. KeptIsFound' /\ GivesUpOnGrowth'
  BY <1>1 DEF KeptIsFound, GivesUpOnGrowth
<1> QED
  BY <1>3, <1>4, <1>5, <1>6, <1>7 DEF BetweenThroughoutAndEver

\* A request is refused, or finds no descriptors: of the functions that answer
\* with what they have, only connections gets here.
LEMMA FailureAnswer ==
    ASSUME IInv, NEW c \in BOOLEAN, refused' = (refused \/ c), Answer(TRUE),
           UNCHANGED <<fn, found, kept, starts, table>>,
           ~c => (fn # "pids" /\ N = 0) \/ fn = "net_io"
    PROVE  KeptIsFound' /\ GivesUpOnGrowth' /\ refused' \in BOOLEAN
<1> USE DEF IInv
<1>1. refused' \in BOOLEAN
  BY DEF TypeOK
<1>2. answer' = IF fn # "connections" THEN "failure" ELSE "list"
  BY DEF Answer
<1>3. GivesUpOnGrowth'
  BY <1>2 DEF GivesUpOnGrowth
<1>4. KeptIsFound'
  <2> SUFFICES ASSUME fn = "connections", ~refused' PROVE kept = {}
    BY <1>2 DEF KeptIsFound
  <2>1. N = 0
    OBVIOUS
  <2> QED
    BY <2>1, EmptyTable DEF TableInv
<1> QED
  BY <1>1, <1>3, <1>4

\* The first request, or the allocation, fails.
LEMMA AskSizeFailsStep ==
    ASSUME IInv, AskSizeFails
    PROVE  IInv'
<1> USE DEF IInv
<1> DEFINE c == ~(fn \in FdFunctions /\ N = 0)
<1>1. /\ pc = "size" /\ pc' = "done" /\ bufs' = 0 /\ answer' \in {"list", "failure"}
      /\ UNCHANGED <<table, alive, fn, size, lim, listed, todo, found, bufs, leaked,
                     ever, kept, opened, starts>>
  BY DEF AskSizeFails, Answer, PhaseInv
<1>2. c \in BOOLEAN /\ refused' = (refused \/ c) /\ Answer(TRUE)
  BY DEF AskSizeFails, Cause
<1>3. ~c => (fn # "pids" /\ N = 0) \/ fn = "net_io"
  BY DEF FdFunctions
<1> HIDE DEF c
<1>4. KeptIsFound' /\ GivesUpOnGrowth' /\ refused' \in BOOLEAN
  BY <1>1, <1>2, <1>3, FailureAnswer
<1>5. TypeOK'
  BY <1>1, <1>4 DEF TypeOK
<1>6. TableInv' /\ PhaseInv' /\ RoomInv' /\ TriesInv'
  BY <1>1, Ends
<1>7. ListInv' /\ LookedInv' /\ FoundWasThere' /\ HeapBalance'
  BY <1>1, Untouched
<1> QED
  BY <1>4, <1>5, <1>6, <1>7 DEF BetweenThroughoutAndEver

\* The list of processes has outgrown the buffer.
LEMMA TooSmallStep ==
    ASSUME IInv, TooSmall
    PROVE  IInv'
<1> USE DEF IInv
<1>1. /\ pc = "read" /\ fn = "pids" /\ N > size /\ bufs' = bufs - 1 /\ lim' = lim - 1
      /\ IF lim - 1 = 0 THEN Answer(TRUE) ELSE pc' = "size" /\ UNCHANGED answer
      /\ UNCHANGED <<table, alive, fn, size, listed, todo, found, leaked,
                     ever, kept, opened, starts, refused>>
      /\ bufs = 1 /\ answer = "none"
  BY DEF TooSmall, Retry, history, PhaseInv
<1>2. opened /\ lim >= 1 /\ starts > Attempts - lim
  BY <1>1, UsedFinite DEF RoomInv, TriesInv, TypeOK
<1>3. TypeOK'
  BY <1>1, <1>2, BoundsAssumption DEF TypeOK, Answer
<1>4. CASE lim = 1
  <2>1. pc' = "done" /\ bufs' = 0 /\ answer' = "failure"
    BY <1>1, <1>4 DEF Answer
  <2>2. TableInv' /\ PhaseInv' /\ RoomInv' /\ TriesInv'
    BY <1>1, <2>1, Ends
  <2>3. ListInv' /\ LookedInv' /\ FoundWasThere' /\ HeapBalance'
    BY <1>1, <2>1, Untouched
  <2>4. KeptIsFound'
    BY <2>1 DEF KeptIsFound
  <2>5. GivesUpOnGrowth'
    BY <1>1, <1>2, <1>4, BoundsAssumption DEF GivesUpOnGrowth, TypeOK
  <2> QED
    BY <1>3, <2>2, <2>3, <2>4, <2>5 DEF BetweenThroughoutAndEver
<1>5. CASE lim # 1
  <2>1. pc' = "size" /\ bufs' = 0 /\ answer' = "none"
    BY <1>1, <1>5 DEF TypeOK
  <2>2. TableInv' /\ PhaseInv' /\ RoomInv'
    BY <1>1, <2>1 DEF TableInv, Pairs, PhaseInv, RoomInv
  <2>3. TriesInv'
    BY <1>1, <1>2, <1>5, <2>1, BoundsAssumption DEF TriesInv, TypeOK
  <2>4. ListInv' /\ LookedInv' /\ FoundWasThere' /\ HeapBalance'
    BY <1>1, <2>1, Untouched
  <2>5. KeptIsFound' /\ GivesUpOnGrowth'
    BY <2>1 DEF KeptIsFound, GivesUpOnGrowth
  <2> QED
    BY <1>3, <2>2, <2>3, <2>4, <2>5 DEF BetweenThroughoutAndEver
<1> QED
  BY <1>4, <1>5

\* The whole table is copied: the lists of processes and of interfaces.
LEMMA ReadAllStep ==
    ASSUME IInv, ReadAll
    PROVE  IInv'
<1> USE DEF IInv
<1>1. /\ pc = "read" /\ fn \in {"pids", "net_io"} /\ found' = Pairs(table)
      /\ pc' = "done" /\ bufs' = 0 /\ answer' = "list"
      /\ UNCHANGED <<table, alive, fn, size, lim, listed, todo, leaked,
                     ever, kept, opened, starts, refused>>
  BY DEF ReadAll, Answer, history, PhaseInv
<1>2. TypeOK'
  <2>1. Pairs(table) \subseteq Slots \X Objects
    BY DEF TypeOK, Pairs
  <2> QED
    BY <1>1, <2>1 DEF TypeOK
<1>3. TableInv' /\ PhaseInv' /\ RoomInv' /\ TriesInv'
  BY <1>1, Ends
<1>4. ListInv' /\ LookedInv'
  BY <1>1 DEF ListInv, LookedInv
<1>5. FoundWasThere' /\ KeptIsFound'
  BY <1>1 DEF FoundWasThere, KeptIsFound, TableInv
<1>6. HeapBalance' /\ GivesUpOnGrowth'
  BY <1>1 DEF HeapBalance, GivesUpOnGrowth
<1> QED
  BY <1>2, <1>3, <1>4, <1>5, <1>6 DEF BetweenThroughoutAndEver

\* The mounts that fit are copied.
LEMMA ReadMountsStep ==
    ASSUME IInv, ReadMounts
    PROVE  IInv'
<1> USE DEF IInv
<1>1. /\ pc = "read" /\ fn = "partitions"
      /\ found' = {<<s, table[s]>> : s \in Prefix(Used, size)}
      /\ pc' = "done" /\ bufs' = 0 /\ answer' = "list"
      /\ UNCHANGED <<table, alive, fn, size, lim, listed, todo, leaked,
                     ever, kept, opened, starts, refused>>
  BY DEF ReadMounts, Answer, history, PhaseInv
<1>2. found' \subseteq Pairs(table) /\ (~opened => found' = Pairs(table))
  <2>1. Prefix(Used, size) \subseteq Used
    BY DEF Prefix
  <2>2. ~opened => Prefix(Used, size) = Used
    BY <1>1, UsedFinite, PrefixWhole DEF RoomInv, N, TypeOK
  <2> QED
    BY <1>1, <2>1, <2>2 DEF Pairs, Used
<1>3. TypeOK'
  <2>1. Pairs(table) \subseteq Slots \X Objects
    BY DEF TypeOK, Pairs
  <2> QED
    BY <1>1, <1>2, <2>1 DEF TypeOK
<1>4. TableInv' /\ PhaseInv' /\ RoomInv' /\ TriesInv'
  BY <1>1, Ends
<1>5. ListInv' /\ LookedInv'
  BY <1>1 DEF ListInv, LookedInv
<1>6. FoundWasThere' /\ KeptIsFound'
  BY <1>1, <1>2 DEF FoundWasThere, KeptIsFound, TableInv
<1>7. HeapBalance' /\ GivesUpOnGrowth'
  BY <1>1 DEF HeapBalance, GivesUpOnGrowth
<1> QED
  BY <1>3, <1>4, <1>5, <1>6, <1>7 DEF BetweenThroughoutAndEver

\* The descriptors that fit are copied: to be counted, or to be looked at.
LEMMA ReadFdsStep ==
    ASSUME IInv, ReadFds
    PROVE  IInv'
<1> USE DEF IInv
<1> DEFINE P == Prefix(Used, size)
<1>1. /\ pc = "read" /\ fn \in FdFunctions
      /\ listed' = [s \in P |-> FamilyOf[table[s]]]
      /\ IF fn = "num_fds" THEN pc' = "done" /\ answer' = "list" /\ bufs' = 0 /\ todo' = todo
                           ELSE pc' = "loop" /\ todo' = P /\ bufs' = 1 /\ answer' = "none"
      /\ UNCHANGED <<table, alive, fn, size, lim, found, leaked, ever, kept, opened, starts, refused>>
      /\ found = {} /\ DOMAIN listed = {} /\ leaked = 0 /\ todo = {}
  BY DEF ReadFds, Answer, history, PhaseInv, TypeOK
<1>2. P \subseteq Slots /\ (~opened => P = Used)
  <2>1. P \subseteq Used
    BY DEF Prefix
  <2>2. ~opened => P = Used
    BY <1>1, UsedFinite, PrefixWhole DEF RoomInv, N, TypeOK
  <2> QED
    BY <2>1, <2>2, UsedFinite
<1> HIDE DEF P
<1>3. TypeOK'
  BY <1>1, <1>2 DEF TypeOK
<1>4. TableInv' /\ RoomInv' /\ TriesInv'
  BY <1>1 DEF TableInv, Pairs, RoomInv, TriesInv
<1>5. PhaseInv'
  BY <1>1 DEF PhaseInv, FdFunctions
<1>6. ListInv'
  <2>1. ASSUME NEW x \in kept
        PROVE  x[1] \in Used /\ table[x[1]] = x[2]
    BY PairsMembers DEF TableInv, Used
  <2>2. pc' = "loop" => todo' = DOMAIN listed'
    BY <1>1
  <2> QED
    BY <1>1, <1>2, <2>1, <2>2 DEF ListInv
<1>7. LookedInv'
  BY <1>1 DEF LookedInv
<1>8. FoundWasThere' /\ KeptIsFound' /\ GivesUpOnGrowth'
  BY <1>1 DEF FoundWasThere, KeptIsFound, GivesUpOnGrowth, FdFunctions
<1>9. HeapBalance'
  <2> SUFFICES ASSUME fn = "connections"
               PROVE  leaked = Cardinality({s \in DOMAIN listed' \ todo' : listed'[s] \in Sockets})
                               - Cardinality(found)
    BY <1>1 DEF HeapBalance
  <2> DEFINE L == {s \in DOMAIN listed' \ todo' : listed'[s] \in Sockets}
  <2>1. L = {}
    BY <1>1
  <2> HIDE DEF L
  <2>2. Cardinality(L) = 0 /\ Cardinality(found) = 0 /\ leaked = 0
    BY <1>1, <2>1, FS_EmptySet
  <2>3. leaked = Cardinality(L) - Cardinality(found)
    BY <2>2
  <2> QED
    BY <2>3 DEF L
<1> QED
  BY <1>3, <1>4, <1>5, <1>6, <1>7, <1>8, <1>9 DEF BetweenThroughoutAndEver

\* The second request fails.
LEMMA ReadFailsStep ==
    ASSUME IInv, ReadFails
    PROVE  IInv'
<1> USE DEF IInv
<1> DEFINE c == ~(fn = "net_io" /\ N > size) /\ ~(fn \in FdFunctions /\ N = 0)
<1>1. /\ pc = "read" /\ pc' = "done" /\ bufs' = 0 /\ answer' \in {"list", "failure"}
      /\ UNCHANGED <<table, alive, fn, size, lim, listed, todo, found, leaked,
                     ever, kept, opened, starts>>
  BY DEF ReadFails, Answer, PhaseInv
<1>2. c \in BOOLEAN /\ refused' = (refused \/ c) /\ Answer(TRUE)
  BY DEF ReadFails, Cause
<1>3. ~c => (fn # "pids" /\ N = 0) \/ fn = "net_io"
  BY DEF FdFunctions
<1> HIDE DEF c
<1>4. KeptIsFound' /\ GivesUpOnGrowth' /\ refused' \in BOOLEAN
  BY <1>1, <1>2, <1>3, FailureAnswer
<1>5. TypeOK'
  BY <1>1, <1>4 DEF TypeOK
<1>6. TableInv' /\ PhaseInv' /\ RoomInv' /\ TriesInv'
  BY <1>1, Ends
<1>7. ListInv' /\ LookedInv' /\ FoundWasThere' /\ HeapBalance'
  BY <1>1, Untouched
<1> QED
  BY <1>4, <1>5, <1>6, <1>7 DEF BetweenThroughoutAndEver

-----------------------------------------------------------------------------
(* The loop over the descriptors.                                          *)

\* What a call takes is something it looks at.
LEMMA WantedLooked == Wanted \subseteq Looked
  BY DEF Wanted, Looked, AfFilter, Sockets

\* The sockets that have been looked at: one more, or the same.
LEMMA OneMoreLooked ==
    ASSUME IInv, NEW s \in todo
    PROVE  LET was == {r \in DOMAIN listed \ todo : listed[r] \in Sockets}
               is == {r \in DOMAIN listed \ (todo \ {s}) : listed[r] \in Sockets}
           IN /\ Cardinality(was) \in Nat
              /\ listed[s] \in Sockets => Cardinality(is) = Cardinality(was) + 1
              /\ listed[s] \notin Sockets => is = was
<1> DEFINE was == {r \in DOMAIN listed \ todo : listed[r] \in Sockets}
           is == {r \in DOMAIN listed \ (todo \ {s}) : listed[r] \in Sockets}
<1>1. was \subseteq Slots /\ s \in DOMAIN listed /\ s \notin was
  BY DEF IInv, TypeOK
<1>2. IsFiniteSet(was)
  BY <1>1, SlotsAssumption, FS_Subset
<1>3. listed[s] \in Sockets => is = was \cup {s}
  BY <1>1
<1>4. listed[s] \notin Sockets => is = was
  BY <1>1
<1> HIDE DEF was, is
<1>5. Cardinality(was) \in Nat /\ Cardinality(was \cup {s}) = Cardinality(was) + 1
  BY <1>1, <1>2, FS_AddElement, FS_CardinalityType
<1> QED
  BY <1>3, <1>4, <1>5 DEF was, is

\* What holds after each turn of the loop: the rest depends on what was found.
LEMMA Turn ==
    ASSUME IInv, NEW s \in Slots, Next1(s), Advance(s)
    PROVE  /\ s \in todo /\ pc = "loop" /\ fn \in {"open_files", "connections"}
           /\ TableInv' /\ PhaseInv' /\ RoomInv' /\ TriesInv'
           /\ KeptIsFound' /\ GivesUpOnGrowth'
           /\ \A x \in kept : x[1] \in DOMAIN listed => listed[x[1]] = FamilyOf[x[2]]
<1> USE DEF IInv
<1>1. /\ pc = "loop" /\ s \in todo /\ todo' = todo \ {s} /\ answer = "none"
      /\ UNCHANGED <<table, alive, fn, pc, size, lim, listed, bufs, answer,
                     ever, kept, opened, starts, refused>>
  BY DEF Next1, Advance, history, PhaseInv
<1>2. TableInv' /\ PhaseInv' /\ RoomInv' /\ TriesInv'
  BY <1>1 DEF TableInv, Pairs, PhaseInv, RoomInv, TriesInv
<1>3. KeptIsFound' /\ GivesUpOnGrowth'
  BY <1>1 DEF KeptIsFound, GivesUpOnGrowth
<1> QED
  BY <1>1, <1>2, <1>3 DEF PhaseInv, ListInv

\* A descriptor is passed over, or found closed: nothing is found.
LEMMA FoundNothing ==
    ASSUME IInv, NEW s \in Slots, Next1(s), Advance(s), UNCHANGED found,
           leaked' \in Nat,
           \A x \in kept : x[1] = s => FamilyOf[x[2]] \notin Wanted,
           fn = "connections" => leaked' = IF listed[s] \in Sockets THEN leaked + 1 ELSE leaked
    PROVE  IInv'
<1> USE DEF IInv
<1>1. /\ s \in todo /\ pc = "loop"
      /\ TableInv' /\ PhaseInv' /\ RoomInv' /\ TriesInv'
      /\ KeptIsFound' /\ GivesUpOnGrowth'
  BY Turn
<1>2. /\ todo' = todo \ {s}
      /\ UNCHANGED <<table, alive, fn, pc, size, lim, listed, bufs, answer,
                     ever, kept, opened, starts, refused>>
  BY DEF Advance, history
<1>3. TypeOK'
  BY <1>2 DEF TypeOK
<1>4. ListInv' /\ LookedInv'
  <2>1. Wanted' = Wanted
    BY <1>2 DEF Wanted
  <2> QED
    BY <1>2, <2>1 DEF ListInv, LookedInv
<1>5. FoundWasThere'
  BY <1>2 DEF BetweenThroughoutAndEver, FoundWasThere
<1>6. HeapBalance'
  <2> DEFINE was == {r \in DOMAIN listed \ todo : listed[r] \in Sockets}
             is == {r \in DOMAIN listed \ (todo \ {s}) : listed[r] \in Sockets}
  <2>1. /\ Cardinality(was) \in Nat
        /\ listed[s] \in Sockets => Cardinality(is) = Cardinality(was) + 1
        /\ listed[s] \notin Sockets => is = was
    BY <1>1, OneMoreLooked
  <2>2. fn = "connections" => leaked = Cardinality(was) - Cardinality(found)
    BY DEF HeapBalance
  <2>3. is = {r \in DOMAIN listed' \ todo' : listed'[r] \in Sockets}
    BY <1>2
  <2> HIDE DEF was, is
  <2>4. fn = "connections" => Cardinality(found) \in Nat
    BY FS_CardinalityType DEF LookedInv
  <2>5. fn = "connections" => leaked' = Cardinality(is) - Cardinality(found)
    BY <2>1, <2>2, <2>4
  <2> QED
    BY <1>1, <1>2, <2>3, <2>5 DEF HeapBalance
<1> QED
  BY <1>1, <1>3, <1>4, <1>5, <1>6 DEF BetweenThroughoutAndEver

\* The descriptor is as it was listed, and is taken or passed over.
LEMMA LookStep ==
    ASSUME IInv, NEW s \in Slots, Look(s)
    PROVE  IInv'
<1> USE DEF IInv
<1>0. /\ s \in todo /\ pc = "loop" /\ fn \in {"open_files", "connections"}
      /\ TableInv' /\ PhaseInv' /\ RoomInv' /\ TriesInv'
      /\ KeptIsFound' /\ GivesUpOnGrowth'
      /\ \A x \in kept : x[1] \in DOMAIN listed => listed[x[1]] = FamilyOf[x[2]]
  BY Turn DEF Look
<1>1. /\ Next1(s) /\ IsStill(s) /\ Advance(s) /\ todo' = todo \ {s}
      /\ UNCHANGED <<table, alive, fn, pc, size, lim, listed, bufs, answer,
                     ever, kept, opened, starts, refused>>
  BY DEF Look, Advance, history
<1>2. CASE Family(s) \notin Wanted
  <2>1. found' = found /\ leaked' = leaked + 1 /\ leaked' \in Nat
    BY <1>2 DEF Look, TypeOK
  <2>2. \A x \in kept : x[1] = s => FamilyOf[x[2]] \notin Wanted
    BY <1>2, PairsMembers DEF TableInv, Family
  <2>3. fn = "connections" => listed[s] \in Sockets
    BY <1>1 DEF IsStill, Looked
  <2> QED
    BY <1>1, <2>1, <2>2, <2>3, FoundNothing
<1>3. CASE Family(s) \in Wanted
  <2> DEFINE x == <<s, table[s]>>
  <2>1. /\ found' = found \cup {x} /\ leaked' = leaked
        /\ x \in Pairs(table) /\ x \in Slots \X Objects /\ x[1] = s
    BY <1>1, <1>3, PairsMembers DEF Look, IsStill, TypeOK
  <2> HIDE DEF x
  <2>2. x \in ever
    BY <1>0, <2>1 DEF TableInv
  <2>3. TypeOK'
    BY <1>1, <2>1 DEF TypeOK
  <2>4. ListInv'
    <3>1. Wanted' = Wanted
      BY <1>1 DEF Wanted
    <3>2. \A y \in kept : y[1] = s => y = x
      BY PairsMembers DEF TableInv, x
    <3> QED
      BY <1>0, <1>1, <2>1, <3>1, <3>2 DEF ListInv
  <2>5. LookedInv'
    BY <1>0, <1>1, <2>1, FS_AddElement DEF LookedInv, TypeOK
  <2>6. FoundWasThere'
    BY <1>1, <2>1, <2>2 DEF BetweenThroughoutAndEver, FoundWasThere
  <2>7. HeapBalance'
    <3> DEFINE was == {r \in DOMAIN listed \ todo : listed[r] \in Sockets}
               is == {r \in DOMAIN listed \ (todo \ {s}) : listed[r] \in Sockets}
    <3>1. /\ Cardinality(was) \in Nat
          /\ listed[s] \in Sockets => Cardinality(is) = Cardinality(was) + 1
      BY <1>0, OneMoreLooked
    <3>2. fn = "connections" => leaked = Cardinality(was) - Cardinality(found)
      BY DEF HeapBalance
    <3>3. is = {r \in DOMAIN listed' \ todo' : listed'[r] \in Sockets}
      BY <1>1
    <3>4. fn = "connections" => listed[s] \in Sockets
      BY <1>1 DEF IsStill, Looked
    <3> HIDE DEF was, is
    <3>5. fn = "connections" => x \notin found /\ IsFiniteSet(found)
      BY <1>0, <2>1 DEF LookedInv
    <3>6. fn = "connections" =>
            Cardinality(found) \in Nat /\ Cardinality(found') = Cardinality(found) + 1
      BY <2>1, <3>5, FS_AddElement, FS_CardinalityType
    <3>7. fn = "connections" => leaked' = Cardinality(is) - Cardinality(found')
      BY <2>1, <3>1, <3>2, <3>4, <3>6
    <3> QED
      BY <1>0, <1>1, <3>3, <3>7 DEF HeapBalance
  <2> QED
    BY <1>0, <2>3, <2>4, <2>5, <2>6, <2>7 DEF BetweenThroughoutAndEver
<1> QED
  BY <1>2, <1>3

\* An entry of another type.
LEMMA SkipStep ==
    ASSUME IInv, NEW s \in Slots, Skip(s)
    PROVE  IInv'
<1> USE DEF IInv
<1>1. /\ Next1(s) /\ Advance(s) /\ listed[s] \notin Looked /\ found' = found /\ leaked' = leaked
      /\ s \in DOMAIN listed
  BY DEF Skip, Next1, TypeOK
<1>2. \A x \in kept : x[1] = s => FamilyOf[x[2]] \notin Wanted
  BY <1>1, WantedLooked DEF ListInv
<1>3. fn = "connections" => listed[s] \notin Sockets
  BY <1>1 DEF Looked
<1> QED
  BY <1>1, <1>2, <1>3, FoundNothing DEF TypeOK

\* The descriptor has been closed, or is something else by now.
LEMMA LookClosedStep ==
    ASSUME IInv, NEW s \in Slots, LookClosed(s)
    PROVE  IInv'
<1> USE DEF IInv
<1>1. /\ Next1(s) /\ Advance(s) /\ listed[s] \in Looked /\ ~IsStill(s) /\ found' = found
      /\ leaked' = IF fn = "connections" THEN leaked + 1 ELSE leaked
      /\ leaked' \in Nat
  BY DEF LookClosed, TypeOK
<1>2. \A x \in kept : x[1] = s => FamilyOf[x[2]] \notin Wanted
  BY <1>1, PairsMembers, WantedLooked DEF TableInv, IsStill, Family
<1>3. fn = "connections" => listed[s] \in Sockets
  BY <1>1 DEF Looked
<1> QED
  BY <1>1, <1>2, <1>3, FoundNothing

\* The process is gone, or the kernel refuses to tell.
LEMMA LookFailsStep ==
    ASSUME IInv, NEW s \in Slots, LookFails(s)
    PROVE  IInv'
<1> USE DEF IInv
<1>1. /\ pc = "loop" /\ pc' = "done" /\ bufs' = 0 /\ answer' \in {"list", "failure"}
      /\ fn \in {"open_files", "connections"}
      /\ UNCHANGED <<table, alive, fn, size, lim, listed, todo, found, leaked,
                     ever, kept, opened, starts>>
  BY DEF LookFails, Next1, Answer, PhaseInv
<1>2. alive \in BOOLEAN /\ refused' = (refused \/ alive) /\ Answer(TRUE)
  BY DEF LookFails, Cause, TypeOK
<1>3. ~alive => (fn # "pids" /\ N = 0) \/ fn = "net_io"
  BY <1>1, UsedFinite DEF TableInv, Used
<1>4. KeptIsFound' /\ GivesUpOnGrowth' /\ refused' \in BOOLEAN
  BY <1>1, <1>2, <1>3, FailureAnswer
<1>5. TypeOK'
  BY <1>1, <1>4 DEF TypeOK
<1>6. TableInv' /\ PhaseInv' /\ RoomInv' /\ TriesInv'
  BY <1>1, Ends
<1>7. ListInv' /\ LookedInv' /\ FoundWasThere' /\ HeapBalance'
  BY <1>1, Untouched
<1> QED
  BY <1>4, <1>5, <1>6, <1>7 DEF BetweenThroughoutAndEver

\* Every descriptor of the buffer has been looked at.
LEMMA FinishStep ==
    ASSUME IInv, Finish
    PROVE  IInv'
<1> USE DEF IInv
<1>1. /\ pc = "loop" /\ todo = {} /\ pc' = "done" /\ bufs' = 0 /\ answer' = "list"
      /\ fn \in {"open_files", "connections"}
      /\ UNCHANGED <<table, alive, fn, size, lim, listed, todo, found, leaked,
                     ever, kept, opened, starts, refused>>
  BY DEF Finish, Answer, history, PhaseInv
<1>2. TypeOK'
  BY <1>1 DEF TypeOK
<1>3. TableInv' /\ PhaseInv' /\ RoomInv' /\ TriesInv'
  BY <1>1, Ends
<1>4. ListInv' /\ LookedInv' /\ FoundWasThere' /\ HeapBalance'
  BY <1>1, Untouched
<1>5. KeptIsFound'
  <2>1. Wanted' = Wanted
    BY <1>1 DEF Wanted
  <2>2. ~opened => \A x \in kept : FamilyOf[x[2]] \in Wanted => x \in found
    BY <1>1 DEF ListInv
  <2> QED
    BY <1>1, <2>1, <2>2 DEF KeptIsFound
<1>6. GivesUpOnGrowth'
  BY <1>1 DEF GivesUpOnGrowth
<1> QED
  BY <1>2, <1>3, <1>4, <1>5, <1>6 DEF BetweenThroughoutAndEver

-----------------------------------------------------------------------------
(* The inductive invariant and what follows from it.                       *)

\* It holds before the call.
LEMMA IInvInit == Init => IInv
<1> SUFFICES ASSUME Init PROVE IInv
  OBVIOUS
<1>1. /\ fn \in Functions /\ table \in [Slots -> Objects \cup {Free}]
      /\ alive = TRUE /\ pc = "new" /\ size = 0 /\ lim = Attempts
      /\ DOMAIN listed = {} /\ todo = {} /\ found = {}
      /\ bufs = 0 /\ leaked = 0 /\ answer = "none"
      /\ ever = {} /\ kept = {} /\ opened = FALSE /\ starts = 0 /\ refused = FALSE
  BY DEF Init, Tables
<1>2. TypeOK
  <2>1. alive \in BOOLEAN /\ opened \in BOOLEAN /\ refused \in BOOLEAN
    BY <1>1
  <2> QED
    BY <1>1, <2>1, BoundsAssumption DEF TypeOK
<1>3. TableInv /\ PhaseInv /\ RoomInv
  BY <1>1 DEF TableInv, PhaseInv, RoomInv
<1>4. TriesInv
  BY <1>1, BoundsAssumption DEF TriesInv
<1>5. ListInv /\ LookedInv
  BY <1>1, FS_EmptySet DEF ListInv, LookedInv
<1>6. BetweenThroughoutAndEver /\ GivesUpOnGrowth
  BY <1>1 DEF BetweenThroughoutAndEver, FoundWasThere, KeptIsFound, GivesUpOnGrowth
<1>7. HeapBalance
  <2>1. {s \in DOMAIN listed \ todo : listed[s] \in Sockets} = {}
    BY <1>1
  <2> QED
    BY <1>1, <2>1, FS_EmptySet DEF HeapBalance
<1> QED
  BY <1>2, <1>3, <1>4, <1>5, <1>6, <1>7 DEF IInv

\* Every step of the call, and of the system around it, preserves it.
LEMMA IInvStep == IInv /\ [Next]_vars => IInv'
<1> SUFFICES ASSUME IInv, [Next]_vars PROVE IInv'
  OBVIOUS
<1>1. CASE CallStep
  BY <1>1, CallStarts, AskSizeStep, AskSizeFailsStep, TooSmallStep, ReadAllStep, ReadFdsStep,
     ReadMountsStep, ReadFailsStep, FinishStep, SkipStep, LookStep, LookClosedStep, LookFailsStep
     DEF CallStep
<1>2. CASE Environment
  BY <1>2, ClearStep, FillStep, ExitStep DEF Environment
<1>3. CASE UNCHANGED vars
  <2>1. UNCHANGED <<table, alive, fn, pc, size, lim, listed, todo, found, bufs, leaked, answer,
                    ever, kept, opened, starts, refused>>
    BY <1>3 DEF vars, callVars, history
  <2>2. TypeOK' /\ TableInv' /\ PhaseInv'
    BY <2>1 DEF IInv, TypeOK, TableInv, Pairs, PhaseInv
  <2>3. RoomInv' /\ TriesInv' /\ ListInv' /\ LookedInv'
    BY <2>1 DEF IInv, RoomInv, N, Used, TriesInv, ListInv, Wanted, LookedInv
  <2>4. BetweenThroughoutAndEver' /\ HeapBalance' /\ GivesUpOnGrowth'
    BY <2>1 DEF IInv, BetweenThroughoutAndEver, FoundWasThere, KeptIsFound, Wanted,
                HeapBalance, GivesUpOnGrowth
  <2> QED
    BY <2>2, <2>3, <2>4 DEF IInv
<1> QED
  BY <1>1, <1>2, <1>3 DEF Next

\* The inductive invariant: what a call holds, has listed, has found and has
\* tried, at every step of it, whatever the kernel's table does.
THEOREM Invariance == Spec => []IInv
  BY IInvInit, IInvStep, PTL DEF Spec

\* Types, the number of leaked proc_conn objects among them: never negative.
THEOREM TypeCorrect == Spec => []TypeOK
<1>1. IInv => TypeOK
  BY DEF IInv
<1> QED
  BY <1>1, Invariance, PTL

\* What is in an answer was in the table at some time of the call, and what was
\* there all along is in the answer, with the exceptions the property lists.
THEOREM CopyInterval == Spec => []BetweenThroughoutAndEver
<1>1. IInv => BetweenThroughoutAndEver
  BY DEF IInv
<1> QED
  BY <1>1, Invariance, PTL

\* A call that is over has freed its buffer; connections has lost as many
\* proc_conn objects as it has looked at sockets that are not in the answer.
THEOREM HeapIsBalanced == Spec => []HeapBalance
<1>1. IInv => HeapBalance
  BY DEF IInv
<1> QED
  BY <1>1, Invariance, PTL

\* If the kernel refuses nothing, the list of processes is given up only after
\* as many starts of processes as there are tries.
THEOREM GivingUp == Spec => []GivesUpOnGrowth
<1>1. IInv => GivesUpOnGrowth
  BY DEF IInv
<1> QED
  BY <1>1, Invariance, PTL
================================================================================
