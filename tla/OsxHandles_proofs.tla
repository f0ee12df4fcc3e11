--------------------------- MODULE OsxHandles_proofs ---------------------------
(***************************************************************************)
(* Theorems about OsxHandles, for every set of regions (finitely many, of  *)
(* any sizes, mapped without overlap), threads and disks, whichever of     *)
(* them are submaps or physical: what was there all along is listed once   *)
(* (KeptIsListedOnce), and what a call leaves behind (LeftBehind).         *)
(*                                                                         *)
(* The walk by addresses is the interesting part: it never comes back to a *)
(* region because the ends of what it lists increase, although the starts  *)
(* need not, and it misses nothing that stays because mapped regions are   *)
(* disjoint (ListInv).                                                     *)
(***************************************************************************)
EXTENDS OsxHandles, FiniteSetTheorems, SequenceTheorems, TLAPS

-----------------------------------------------------------------------------
(* Regions, lists and handles.                                             *)

\* A region ends above its start.
LEMMA RegionTypes ==
    \A r \in Regions : r[1] \in Nat /\ End(r) \in Nat /\ r[1] < End(r)
<1>1. \A r \in Regions : r[1] \in Nat /\ r[2] \in Nat /\ r[2] # 0
  BY RegionsAssumption
<1> QED
  BY <1>1 DEF End

\* Which function is called does not change.
LEMMA SameFunction ==
    ASSUME fn' = fn
    PROVE  /\ Things' = Things /\ Worlds' = Worlds /\ Wanted' = Wanted
           /\ (fn = "memory_maps" => Things = Regions)
           /\ (fn = "threads" => Things = Threads) /\ (fn = "disk_io" => Things = Disks)
<1>1. Things' = Things
  BY DEF Things
<1>2. Worlds' = Worlds
  BY <1>1 DEF Worlds, Disjoint
<1>3. Wanted' = Wanted
  BY <1>1 DEF Wanted
<1> QED
  BY <1>1, <1>2, <1>3 DEF Things

\* A part of a world is a world.
LEMMA PartOfWorld == \A W \in Worlds : \A V \in SUBSET W : V \in Worlds
  BY DEF Worlds, Disjoint

\* An entry that the list does not have is added to it.
LEMMA EntryAdded ==
    ASSUME TypeOK, ListInv, NEW x \in Things, x \notin Listed, seen' = Append(seen, x)
    PROVE  /\ seen' \in Seq(Things) /\ Listed' = Listed \cup {x}
           /\ \A i, j \in DOMAIN seen' : seen'[i] = seen'[j] => i = j
<1>1. seen \in Seq(Things)
  BY DEF TypeOK
<1>2. /\ seen' \in Seq(Things) /\ Len(seen') = Len(seen) + 1
      /\ \A i \in 1..Len(seen) : seen'[i] = seen[i]
      /\ seen'[Len(seen) + 1] = x
  BY <1>1, AppendProperties
<1>3. DOMAIN seen = 1..Len(seen) /\ DOMAIN seen' = 1..Len(seen') /\ Len(seen) \in Nat
  BY <1>1, <1>2
<1>4. Listed = {seen[i] : i \in 1..Len(seen)} /\ Listed' = {seen'[i] : i \in 1..Len(seen')}
  BY <1>3 DEF Listed
<1>5. \A i \in 1..Len(seen') : i \in 1..Len(seen) \/ i = Len(seen) + 1
  BY <1>2, <1>3
<1>6. \A i \in 1..Len(seen) : i \in 1..Len(seen') /\ seen'[i] \in Listed
  BY <1>2, <1>3, <1>4
<1>7. Len(seen) + 1 \in 1..Len(seen')
  BY <1>2, <1>3
<1>8. Listed' = Listed \cup {x}
  <2>1. Listed' \subseteq Listed \cup {x}
    BY <1>2, <1>4, <1>5, <1>6
  <2>2. Listed \subseteq Listed'
    BY <1>2, <1>4, <1>6
  <2>3. x \in Listed'
    BY <1>2, <1>4, <1>7
  <2> QED
    BY <2>1, <2>2, <2>3
<1>9. ASSUME NEW i \in DOMAIN seen', NEW j \in DOMAIN seen', seen'[i] = seen'[j]
      PROVE  i = j
  <2>1. CASE i \in 1..Len(seen) /\ j \in 1..Len(seen)
    BY <1>2, <1>3, <1>9, <2>1 DEF ListInv
  <2>2. CASE i = Len(seen) + 1 /\ j = Len(seen) + 1
    BY <2>2
  <2>3. CASE i \in 1..Len(seen) /\ j = Len(seen) + 1
    BY <1>2, <1>6, <1>9, <2>3
  <2>4. CASE j \in 1..Len(seen) /\ i = Len(seen) + 1
    BY <1>2, <1>6, <1>9, <2>4
  <2> QED
    BY <1>3, <1>5, <2>1, <2>2, <2>3, <2>4
<1> QED
  BY <1>2, <1>8, <1>9

\* The handles there are.
Handles == ({"task", "array", "iterator"} \X {""}) \cup ThreadRights(Threads)
              \cup UNION {Entries(d) \cup Dictionaries(d) : d \in Disks}
LEMMA HandleKinds ==
    /\ <<"task", "">> \in Handles /\ <<"array", "">> \in Handles /\ <<"iterator", "">> \in Handles
    /\ \A T \in SUBSET Threads : ThreadRights(T) \subseteq Handles /\ Array(T) \subseteq Handles
    /\ \A d \in Disks : Entries(d) \subseteq Handles /\ Dictionaries(d) \subseteq Handles
    /\ \A T : <<"task", "">> \notin ThreadRights(T) /\ <<"task", "">> \notin Array(T)
    /\ \A d : <<"iterator", "">> \notin Entries(d)
<1>1. /\ <<"task", "">> \in Handles /\ <<"array", "">> \in Handles
      /\ <<"iterator", "">> \in Handles
  BY DEF Handles
<1>2. \A T \in SUBSET Threads : ThreadRights(T) \subseteq Handles /\ Array(T) \subseteq Handles
  BY <1>1 DEF Handles, ThreadRights, Array
<1>3. ASSUME NEW d \in Disks
      PROVE  Entries(d) \subseteq Handles /\ Dictionaries(d) \subseteq Handles
  <2>1. Entries(d) \cup Dictionaries(d) \subseteq UNION {Entries(x) \cup Dictionaries(x) : x \in Disks}
    OBVIOUS
  <2> QED
    BY <2>1 DEF Handles
<1>4. \A T : <<"task", "">> \notin ThreadRights(T) /\ <<"task", "">> \notin Array(T)
  BY DEF ThreadRights, Array
<1>5. \A d : <<"iterator", "">> \notin Entries(d)
  BY DEF Entries
<1> QED
  BY <1>1, <1>2, <1>3, <1>4, <1>5

-----------------------------------------------------------------------------
(* What is looked at changes.                                              *)

LEMMA InitKeeps == Init => IInv
<1> SUFFICES ASSUME Init PROVE IInv
  OBVIOUS
<1> USE DEF Init
<1>1. seen \in Seq(Things) /\ DOMAIN seen = {}
  OBVIOUS
<1>2. Listed = {}
  BY <1>1 DEF Listed
<1>3. /\ alive \in BOOLEAN /\ up \in BOOLEAN /\ lost \in BOOLEAN /\ wounded \in BOOLEAN
  OBVIOUS
<1>4. TypeOK
  BY <1>1, <1>3 DEF TypeOK
<1>5. HistoryInv /\ HeldInv /\ LeftBehind
  BY DEF HistoryInv, HeldInv, LeftBehind
<1>6. ListInv
  BY <1>1, <1>2 DEF ListInv
<1> QED
  BY <1>4, <1>5, <1>6 DEF IInv

LEMMA EnvironmentKeeps ==
    ASSUME IInv, Exit \/ \E x \in Things : Appear(x) \/ Vanish(x)
    PROVE  IInv'
<1> USE DEF IInv
<1>1. /\ UNCHANGED <<fn, up, pc, at, snap, todo, seen, held, lost, wounded, noStats, answer>>
      /\ ever' = ever \cup world' /\ kept' = kept \cap world'
  BY DEF Exit, Appear, Vanish, Observe, callVars
<1>2. pc \notin {"new", "done"} /\ alive' \in BOOLEAN
  <2>1. CASE Exit
    BY <2>1 DEF Exit, Running
  <2>2. ASSUME NEW x, Appear(x) \/ Vanish(x) PROVE <1>2!:
    BY <2>2 DEF Appear, Vanish, Running, TypeOK
  <2> QED
    BY <2>1, <2>2
<1>3. world' \in Worlds
  <2>1. world \in Worlds
    BY DEF TypeOK
  <2>2. CASE Exit
    BY <2>1, <2>2, PartOfWorld DEF Exit
  <2>3. ASSUME NEW x, Appear(x) PROVE <1>3!:
    BY <2>3 DEF Appear
  <2>4. ASSUME NEW x, Vanish(x) PROVE <1>3!:
    <3>1. world' = world \ {x}
      BY <2>4 DEF Vanish
    <3> QED
      BY <2>1, <3>1, PartOfWorld
  <2> QED
    BY <2>2, <2>3, <2>4
<1>4. Things' = Things /\ Worlds' = Worlds /\ Wanted' = Wanted
  BY <1>1, SameFunction
<1>5. world' \subseteq Things
  BY <1>3 DEF Worlds
<1>6. TypeOK'
  BY <1>1, <1>2, <1>3, <1>4, <1>5 DEF TypeOK
<1>7. HistoryInv'
  BY <1>1, <1>2 DEF HistoryInv
<1>8. ListInv'
  BY <1>1, <1>2, <1>4 DEF ListInv, Listed, HistoryInv, End
<1>9. HeldInv' /\ LeftBehind'
  BY <1>1, <1>2 DEF HeldInv, LeftBehind
<1> QED
  BY <1>6, <1>7, <1>8, <1>9

-----------------------------------------------------------------------------
(* Steps that have a form in common.                                       *)

\* A step that leaves the lists alone keeps the parts of the invariant that
\* are about them, and what remains to be seen is the rest.
LEMMA ListsAlone ==
    ASSUME IInv,
           UNCHANGED <<world, alive, fn, ever, kept, at, snap, todo, seen>>,
           up' \in BOOLEAN, lost' \in BOOLEAN, wounded' \in BOOLEAN,
           noStats' \subseteq Physical, held' \subseteq Handles,
           pc' \in {"new", "open", "list", "walk", "done"},
           answer' \in {"none", "list", "undefined"}
    PROVE  /\ TypeOK' /\ Listed' = Listed /\ Wanted' = Wanted
           /\ (pc' = "walk" /\ fn # "memory_maps" => kept \subseteq snap)
              /\ (answer' = "list" => IF fn = "memory_maps"
                                        THEN \A r \in kept : End(r) <= at
                                        ELSE todo = {} /\ kept \subseteq snap)
              => ListInv'
<1>1. Things' = Things /\ Worlds' = Worlds /\ Wanted' = Wanted
  BY SameFunction
<1>2. Listed' = Listed
  BY DEF Listed
<1>3. TypeOK'
  BY <1>1 DEF TypeOK, IInv, Handles
<1> QED
  BY <1>1, <1>2, <1>3 DEF ListInv, IInv, End

\* The end of a call.
LEMMA CallEnds ==
    ASSUME IInv, pc' = "done", pc # "new",
           UNCHANGED <<world, alive, fn, ever, kept, up, at, snap, todo, seen, lost>>,
           wounded' \in BOOLEAN, noStats' \subseteq Physical, held' \subseteq Handles,
           answer' \in {"list", "undefined"},
           answer' = "list" => IF fn = "memory_maps" THEN \A r \in kept : End(r) <= at
                                                     ELSE todo = {} /\ kept \subseteq snap,
           wounded' => fn = "threads" /\ answer' = "list",
           LeftBehind'
    PROVE  IInv'
<1>1. up \in BOOLEAN /\ lost \in BOOLEAN
  BY DEF IInv, TypeOK
<1>2. TypeOK' /\ ListInv'
  BY <1>1, ListsAlone
<1>3. HistoryInv'
  BY DEF IInv, HistoryInv
<1>4. HeldInv'
  BY DEF HeldInv
<1> QED
  BY <1>2, <1>3, <1>4 DEF IInv

-----------------------------------------------------------------------------
(* The call and its end.                                                   *)

LEMMA CallKeeps == ASSUME IInv, Call PROVE IInv'
<1> USE DEF IInv
<1>1. /\ pc = "new" /\ pc' = "open" /\ ever' = world /\ kept' = world
      /\ UNCHANGED <<world, alive, fn, up, at, snap, todo, seen, held, lost, wounded,
                     noStats, answer>>
  BY DEF Call
<1>2. snap = {} /\ seen = <<>> /\ at = 0
  BY <1>1 DEF HistoryInv
<1>3. Things' = Things /\ Worlds' = Worlds /\ Wanted' = Wanted
  BY <1>1, SameFunction
<1>4. DOMAIN seen = {} /\ DOMAIN seen' = {}
  BY <1>1, <1>2
<1>5. Listed = {} /\ Listed' = {}
  BY <1>4 DEF Listed
<1>6. world \subseteq Things
  BY DEF TypeOK, Worlds
<1>7. TypeOK'
  BY <1>1, <1>3, <1>6 DEF TypeOK
<1>8. HistoryInv' /\ HeldInv' /\ LeftBehind'
  BY <1>1 DEF HistoryInv, HeldInv, LeftBehind
<1>9. ListInv'
  <2>1. fn = "memory_maps" => \A r \in world : ~(End(r) <= 0)
    BY <1>6, RegionTypes, SameFunction DEF Things
  <2>2. answer' = "none"
    BY <1>1 DEF HistoryInv
  <2>3. snap \ todo = {}
    BY <1>2
  <2> QED
    BY <1>1, <1>2, <1>4, <1>5, <2>1, <2>2, <2>3 DEF ListInv, End
<1> QED
  BY <1>7, <1>8, <1>9

LEMMA OpenFailsKeeps == ASSUME IInv, OpenFails PROVE IInv'
<1> USE DEF IInv
<1>1. /\ pc = "open" /\ pc' = "done" /\ answer' = "undefined"
      /\ UNCHANGED <<world, alive, fn, ever, kept, up, at, snap, todo, seen, held, lost,
                     wounded, noStats>>
  BY DEF OpenFails, Done, Stay
<1>2. held = {} /\ snap = {} /\ noStats = {}
  BY <1>1 DEF HistoryInv, HeldInv
<1>3. ~wounded
  BY <1>1 DEF HistoryInv
<1>4. ThreadRights({}) = {} /\ (snap \ todo) \ Physical = {}
  BY <1>2 DEF ThreadRights
<1>5. LeftBehind'
  BY <1>1, <1>2, <1>3, <1>4 DEF LeftBehind
<1>6. wounded' \in BOOLEAN /\ held' \subseteq Handles /\ noStats' \subseteq Physical
  BY <1>1, <1>2 DEF TypeOK
<1> QED
  BY <1>1, <1>3, <1>5, <1>6, CallEnds

LEMMA TaskForPidKeeps == ASSUME IInv, TaskForPid PROVE IInv'
<1> USE DEF IInv
<1>1. /\ pc = "open" /\ fn \in {"memory_maps", "threads"} /\ held' = {<<"task", "">>}
      /\ pc' = IF fn = "threads" THEN "list" ELSE "walk"
      /\ UNCHANGED <<world, alive, fn, ever, kept, up, at, snap, todo, seen, lost,
                     wounded, noStats, answer>>
  BY DEF TaskForPid, OfProcess, Stay
<1>2. held' \subseteq Handles
  BY <1>1, HandleKinds
<1>3. answer' = "none" /\ noStats' = {} /\ ~wounded'
  BY <1>1 DEF HistoryInv, HeldInv
<1>4. TypeOK' /\ ListInv'
  <2>1. up' \in BOOLEAN /\ lost' \in BOOLEAN
    BY <1>1 DEF TypeOK
  <2>2. wounded' \in BOOLEAN
    BY <1>1 DEF TypeOK
  <2> QED
    BY <1>1, <1>2, <1>3, <2>1, <2>2, ListsAlone
<1>5. HistoryInv'
  BY <1>1, <1>3 DEF HistoryInv
<1>6. HeldInv' /\ LeftBehind'
  BY <1>1, <1>3 DEF HeldInv, LeftBehind
<1> QED
  BY <1>4, <1>5, <1>6

-----------------------------------------------------------------------------
(* memory_maps                                                             *)

\* The first region above an address is the only one that can stay between
\* that address and the end of it.
LEMMA NextRegionKeeps == ASSUME IInv, NEW r \in Regions, NextRegion(r) PROVE IInv'
<1> USE DEF IInv
<1>1. /\ fn = "memory_maps" /\ pc = "walk" /\ r \in world /\ End(r) > at
      /\ \A s \in world : End(s) > at => r[1] <= s[1]
      /\ seen' = (IF r \in Submaps THEN seen ELSE Append(seen, r)) /\ at' = End(r)
      /\ UNCHANGED <<world, alive, fn, ever, kept, up, pc, snap, todo, held, lost, wounded,
                     noStats, answer>>
  BY DEF NextRegion, Walk, Found, Stay
<1>2. Things' = Things /\ Worlds' = Worlds /\ Wanted' = Wanted /\ Things = Regions
  BY <1>1, SameFunction
<1>3. End(r) \in Nat /\ at \in Nat /\ at < End(r)
  BY <1>1, RegionTypes DEF TypeOK
<1>4. world \subseteq Regions /\ Disjoint(world) /\ kept \subseteq world /\ r \in ever
  BY <1>1, <1>2 DEF TypeOK, Worlds, HistoryInv
<1>5. r \notin Listed
  BY <1>1, <1>3 DEF ListInv
<1>6. ASSUME NEW x \in kept, End(x) <= End(r), x # r
      PROVE  End(x) <= at
  <2>1. /\ x \in world /\ x[1] \in Nat /\ r[1] \in Nat /\ End(x) \in Nat
        /\ x[1] < End(x) /\ r[1] < End(r)
    BY <1>4, RegionTypes
  <2>2. End(x) <= r[1] \/ End(r) <= x[1]
    BY <1>1, <1>4, <1>6, <2>1 DEF Disjoint
  <2>3. End(x) > at => r[1] <= x[1]
    BY <1>1, <2>1
  <2> QED
    BY <1>3, <1>6, <2>1, <2>2, <2>3
<1>7. \A x \in Listed : x \in Regions /\ End(x) \in Nat /\ End(x) <= at
  BY <1>1, <1>2, RegionTypes DEF ListInv, Listed, TypeOK
<1>8. /\ seen' \in Seq(Things) /\ \A i, j \in DOMAIN seen' : seen'[i] = seen'[j] => i = j
      /\ Listed \subseteq Listed' /\ Listed' \subseteq Listed \cup {r}
      /\ r \notin Submaps => r \in Listed'
  <2>1. CASE r \in Submaps
    <3>1. seen' = seen /\ Listed' = Listed
      BY <1>1, <2>1 DEF Listed
    <3> QED
      BY <2>1, <3>1 DEF TypeOK, ListInv
  <2>2. CASE r \notin Submaps
    <3>1. seen' = Append(seen, r) /\ r \in Things
      BY <1>1, <1>2, <2>2
    <3> QED
      BY <1>5, <3>1, EntryAdded
  <2> QED
    BY <2>1, <2>2
<1>9. TypeOK'
  BY <1>1, <1>2, <1>3, <1>8 DEF TypeOK
<1>10. HistoryInv'
  BY <1>1 DEF HistoryInv
<1>11. ListInv'
  <2>1. \A x \in Listed' : End(x) <= at'
    BY <1>1, <1>3, <1>7, <1>8
  <2>2. ASSUME NEW x \in kept \cap Wanted, End(x) <= at' PROVE x \in Listed'
    <3>1. x \in Listed \/ x = r
      BY <1>1, <1>6, <2>2 DEF ListInv
    <3>2. x \notin Submaps
      BY <1>1 DEF Wanted
    <3> QED
      BY <1>8, <3>1, <3>2
  <2>3. Listed' \subseteq ever
    BY <1>4, <1>8 DEF ListInv
  <2>4. answer = "none"
    BY <1>1 DEF HistoryInv
  <2> QED
    BY <1>1, <1>2, <1>8, <2>1, <2>2, <2>3, <2>4 DEF ListInv, End
<1>12. HeldInv' /\ LeftBehind'
  BY <1>1 DEF HeldInv, LeftBehind
<1> QED
  BY <1>9, <1>10, <1>11, <1>12

LEMMA NoMoreRegionsKeeps == ASSUME IInv, NoMoreRegions PROVE IInv'
<1> USE DEF IInv
<1>1. /\ fn = "memory_maps" /\ pc = "walk" /\ pc' = "done" /\ answer' = "list"
      /\ \A r \in world : End(r) <= at
      /\ UNCHANGED <<world, alive, fn, ever, kept, up, at, snap, todo, seen, lost, wounded, noStats>>
  BY DEF NoMoreRegions, Done, Stay
<1>2. held' = held \ {<<"task", "">>}
  BY DEF NoMoreRegions
<1>3. held' = {} /\ ~wounded
  BY <1>1, <1>2 DEF HeldInv, HistoryInv
<1>4. LeftBehind'
  BY <1>1, <1>3 DEF LeftBehind
<1>5. \A r \in kept : End(r) <= at
  BY <1>1 DEF HistoryInv
<1>6. wounded' \in BOOLEAN /\ held' \subseteq Handles /\ noStats' \subseteq Physical
  BY <1>1, <1>3 DEF TypeOK
<1> QED
  BY <1>1, <1>3, <1>4, <1>5, <1>6, CallEnds

\* The loop goes on with a dead right, or node stops over it.
LEMMA NodeFails ==
    ASSUME IInv, up' \in BOOLEAN, lost' \in BOOLEAN, pc = "walk",
           UNCHANGED <<world, alive, fn, ever, kept, pc, at, snap, todo, seen, held, wounded,
                       noStats, answer>>
    PROVE  IInv'
<1> USE DEF IInv
<1>1. /\ held' \subseteq Handles /\ noStats' \subseteq Physical
      /\ pc' \in {"new", "open", "list", "walk", "done"} /\ answer' \in {"none", "list", "undefined"}
  BY DEF TypeOK, Handles
<1>2. wounded' \in BOOLEAN
  BY DEF TypeOK
<1>3. TypeOK' /\ ListInv'
  <2>1. answer' = "none"
    BY DEF HistoryInv
  <2>2. fn # "memory_maps" => kept \subseteq snap
    BY DEF ListInv
  <2> QED
    BY <1>1, <1>2, <2>1, <2>2, ListsAlone
<1>4. HistoryInv'
  BY DEF HistoryInv
<1>5. HeldInv' /\ LeftBehind'
  BY DEF HeldInv, LeftBehind
<1> QED
  BY <1>3, <1>4, <1>5

-----------------------------------------------------------------------------
(* threads                                                                 *)

LEMMA TaskThreadsKeeps == ASSUME IInv, TaskThreads PROVE IInv'
<1> USE DEF IInv
<1>1. /\ pc = "list" /\ pc' = "walk" /\ snap' = world /\ todo' = world
      /\ held' = held \cup ThreadRights(world) \cup Array(world)
      /\ UNCHANGED <<world, alive, fn, ever, kept, up, at, seen, lost, wounded, noStats, answer>>
  BY DEF TaskThreads, Stay, Array
<1>2. /\ fn = "threads" /\ seen = <<>> /\ held = {<<"task", "">>} /\ noStats = {}
      /\ answer = "none" /\ ~wounded /\ kept \subseteq world /\ world \subseteq ever
  BY <1>1 DEF HistoryInv, HeldInv
<1>3. Things' = Things /\ Worlds' = Worlds /\ Wanted' = Wanted /\ Things = Threads
  BY <1>1, <1>2, SameFunction
<1>4. world \subseteq Threads
  BY <1>3 DEF TypeOK, Worlds
<1>5. DOMAIN seen' = {} /\ DOMAIN seen = {}
  <2>1. seen' = <<>> /\ seen = <<>>
    BY <1>1, <1>2
  <2>2. DOMAIN <<>> = {}
    OBVIOUS
  <2> QED
    BY <2>1, <2>2
<1>6. Listed' = {}
  BY <1>5 DEF Listed
<1>7. held' \subseteq Handles
  BY <1>1, <1>2, <1>4, HandleKinds
<1>8. TypeOK'
  BY <1>1, <1>3, <1>4, <1>7 DEF TypeOK, Handles
<1>9. HistoryInv'
  BY <1>1, <1>2 DEF HistoryInv
<1>10. ListInv'
  BY <1>1, <1>2, <1>5, <1>6 DEF ListInv
<1>11. HeldInv' /\ LeftBehind'
  BY <1>1, <1>2 DEF HeldInv, LeftBehind
<1> QED
  BY <1>8, <1>9, <1>10, <1>11

LEMMA ListFailsKeeps == ASSUME IInv, TaskThreadsFails PROVE IInv'
<1> USE DEF IInv
<1>1. /\ pc = "list" /\ pc' = "done" /\ answer' = "undefined" /\ held' = {}
      /\ UNCHANGED <<world, alive, fn, ever, kept, up, at, snap, todo, seen, lost, wounded, noStats>>
  BY DEF TaskThreadsFails, Done, Stay
<1>2. fn = "threads" /\ snap = {} /\ ~wounded
  BY <1>1 DEF HistoryInv
<1>3. ThreadRights({}) = {}
  BY DEF ThreadRights
<1>4. LeftBehind'
  BY <1>1, <1>2, <1>3 DEF LeftBehind
<1>5. wounded' \in BOOLEAN /\ held' \subseteq Handles /\ noStats' \subseteq Physical
  BY <1>1 DEF TypeOK
<1> QED
  BY <1>1, <1>2, <1>4, <1>5, CallEnds

LEMMA ThreadInfoKeeps == ASSUME IInv, NEW t \in Threads, ThreadInfo(t) PROVE IInv'
<1> USE DEF IInv
<1>1. /\ fn = "threads" /\ pc = "walk" /\ t \in todo /\ t \in world
      /\ seen' = Append(seen, t) /\ todo' = todo \ {t}
      /\ UNCHANGED <<world, alive, fn, ever, kept, up, pc, at, snap, held, lost, wounded,
                     noStats, answer>>
  BY DEF ThreadInfo, Stay
<1>2. Things' = Things /\ Worlds' = Worlds /\ Wanted' = Wanted /\ Things = Threads
  BY <1>1, SameFunction
<1>3. t \notin Listed /\ t \in snap
  BY <1>1 DEF ListInv, TypeOK
<1>4. /\ seen' \in Seq(Things) /\ Listed' = Listed \cup {t}
      /\ \A i, j \in DOMAIN seen' : seen'[i] = seen'[j] => i = j
  BY <1>1, <1>2, <1>3, EntryAdded
<1>5. TypeOK'
  BY <1>1, <1>2, <1>4 DEF TypeOK
<1>6. HistoryInv'
  BY <1>1 DEF HistoryInv
<1>7. ListInv'
  <2>1. Listed' = snap \ todo'
    BY <1>1, <1>3, <1>4 DEF ListInv
  <2>2. answer = "none"
    BY <1>1 DEF HistoryInv
  <2> QED
    BY <1>1, <1>4, <2>1, <2>2 DEF ListInv
<1>8. HeldInv' /\ LeftBehind'
  BY <1>1 DEF HeldInv, LeftBehind
<1> QED
  BY <1>5, <1>6, <1>7, <1>8

\* What the walk over the threads holds when it ends: all but the task right.
LEMMA ThreadsLeft ==
    ASSUME IInv, fn = "threads", pc = "walk"
    PROVE  /\ held \ {<<"task", "">>} = ThreadRights(snap) \cup Array(snap)
           /\ held \ {<<"task", "">>} \subseteq Handles /\ ~wounded /\ noStats = {}
<1>1. held = {<<"task", "">>} \cup ThreadRights(snap) \cup Array(snap)
  BY DEF IInv, HeldInv
<1>2. <<"task", "">> \notin ThreadRights(snap) /\ <<"task", "">> \notin Array(snap)
  BY HandleKinds
<1>3. held \subseteq Handles
  BY DEF IInv, TypeOK, Handles
<1>4. ~wounded /\ noStats = {}
  BY DEF IInv, HistoryInv, HeldInv
<1> QED
  BY <1>1, <1>2, <1>3, <1>4

LEMMA ThreadGoneKeeps == ASSUME IInv, NEW t \in Threads, ThreadGone(t) PROVE IInv'
<1>1. /\ fn = "threads" /\ pc = "walk" /\ pc' = "done" /\ answer' = "undefined"
      /\ UNCHANGED <<world, alive, fn, ever, kept, up, at, snap, todo, seen, lost, wounded, noStats>>
  BY DEF ThreadGone, Done, Stay
<1>2. held' = held \ {<<"task", "">>}
  BY DEF ThreadGone
<1>3. /\ held' = ThreadRights(snap) \cup Array(snap) /\ held' \subseteq Handles
      /\ ~wounded /\ noStats = {}
  BY <1>1, <1>2, ThreadsLeft
<1>4. LeftBehind'
  BY <1>1, <1>3 DEF LeftBehind, Array
<1>5. wounded' \in BOOLEAN /\ noStats' \subseteq Physical
  BY <1>1, <1>3 DEF IInv, TypeOK
<1> QED
  BY <1>1, <1>3, <1>4, <1>5, CallEnds

LEMMA ThreadsDoneKeeps == ASSUME IInv, ThreadsDone PROVE IInv'
<1>1. /\ fn = "threads" /\ pc = "walk" /\ todo = {} /\ pc' = "done" /\ answer' = "list"
      /\ UNCHANGED <<world, alive, fn, ever, kept, up, at, snap, todo, seen, lost, noStats>>
  BY DEF ThreadsDone, Done, Stay
<1>2. held' = held \ {<<"task", "">>} /\ wounded' = (alive /\ snap # {})
  BY DEF ThreadsDone
<1>3. /\ held' = ThreadRights(snap) \cup Array(snap) /\ held' \subseteq Handles /\ noStats = {}
  BY <1>1, <1>2, ThreadsLeft
<1>4. LeftBehind'
  BY <1>1, <1>3 DEF LeftBehind, Array
<1>5. wounded' \in BOOLEAN
  BY <1>2
<1>6. kept \subseteq snap /\ noStats' \subseteq Physical
  BY <1>1, <1>3 DEF IInv, ListInv
<1> QED
  BY <1>1, <1>3, <1>4, <1>5, <1>6, CallEnds

-----------------------------------------------------------------------------
(* disk_io_counters                                                        *)

LEMMA ListDisksKeeps == ASSUME IInv, ListDisks PROVE IInv'
<1> USE DEF IInv
<1>1. /\ fn = "disk_io" /\ pc = "open" /\ pc' = "walk" /\ snap' = world /\ todo' = world
      /\ held' = {<<"iterator", "">>}
      /\ UNCHANGED <<world, alive, fn, ever, kept, up, at, seen, lost, wounded, noStats, answer>>
  BY DEF ListDisks, Stay
<1>2. /\ seen = <<>> /\ noStats = {} /\ answer = "none" /\ ~wounded
      /\ kept \subseteq world /\ world \subseteq ever
  BY <1>1 DEF HistoryInv, HeldInv
<1>3. Things' = Things /\ Worlds' = Worlds /\ Wanted' = Wanted /\ Things = Disks
  BY <1>1, SameFunction
<1>4. world \subseteq Disks
  BY <1>3 DEF TypeOK, Worlds
<1>5. DOMAIN seen' = {} /\ DOMAIN seen = {}
  <2>1. seen' = <<>> /\ seen = <<>>
    BY <1>1, <1>2
  <2>2. DOMAIN <<>> = {}
    OBVIOUS
  <2> QED
    BY <2>1, <2>2
<1>6. Listed' = {} /\ snap' \ todo' = {}
  BY <1>1, <1>5 DEF Listed
<1>7. held' \subseteq Handles
  BY <1>1, HandleKinds
<1>8. TypeOK'
  BY <1>1, <1>3, <1>4, <1>7 DEF TypeOK, Handles
<1>9. HistoryInv'
  BY <1>1, <1>2 DEF HistoryInv
<1>10. ListInv'
  BY <1>1, <1>2, <1>5, <1>6 DEF ListInv
<1>11. HeldInv' /\ LeftBehind'
  <2>1. UNION {Entries(d) : d \in (snap' \ todo') \ Physical} = {}
    BY <1>6
  <2> QED
    BY <1>1, <1>2, <2>1 DEF HeldInv, LeftBehind
<1> QED
  BY <1>8, <1>9, <1>10, <1>11

\* What the walk over the disks holds: the iterator, and what it did not release.
LEMMA DisksHeld ==
    ASSUME IInv, fn = "disk_io", pc = "walk"
    PROVE  /\ held = {<<"iterator", "">>} \cup UNION {Entries(d) : d \in (snap \ todo) \ Physical}
           /\ <<"iterator", "">> \notin UNION {Entries(d) : d \in (snap \ todo) \ Physical}
           /\ noStats = {} /\ ~wounded /\ answer = "none" /\ held \subseteq Handles
           /\ kept \subseteq snap /\ todo \subseteq snap /\ snap \subseteq Disks
<1>1. held = {<<"iterator", "">>} \cup UNION {Entries(d) : d \in (snap \ todo) \ Physical}
  BY DEF IInv, HeldInv
<1>2. noStats = {} /\ ~wounded /\ answer = "none"
  BY DEF IInv, HistoryInv, HeldInv
<1>3. kept \subseteq snap /\ todo \subseteq snap /\ snap \subseteq Disks
  BY SameFunction DEF IInv, ListInv, TypeOK, Things
<1>4. held \subseteq Handles
  BY DEF IInv, TypeOK, Handles
<1> QED
  BY <1>1, <1>2, <1>3, <1>4, HandleKinds

LEMMA PassOverKeeps == ASSUME IInv, NEW d \in Disks, PassOver(d) PROVE IInv'
<1> USE DEF IInv
<1>1. /\ fn = "disk_io" /\ pc = "walk" /\ d \in todo /\ d \notin Physical
      /\ held' = held \cup Entries(d) /\ todo' = todo \ {d}
      /\ UNCHANGED <<world, alive, fn, ever, kept, up, pc, at, snap, seen, lost, wounded,
                     noStats, answer>>
  BY DEF PassOver, AtDisk, Stay
<1>2. /\ held = {<<"iterator", "">>} \cup UNION {Entries(x) : x \in (snap \ todo) \ Physical}
      /\ answer = "none" /\ held \subseteq Handles /\ todo \subseteq snap
  BY <1>1, DisksHeld
<1>3. Things' = Things /\ Worlds' = Worlds /\ Wanted' = Wanted
  BY <1>1, SameFunction
<1>4. held' \subseteq Handles
  BY <1>1, <1>2, HandleKinds
<1>5. TypeOK'
  BY <1>1, <1>3, <1>4 DEF TypeOK, Handles
<1>6. HistoryInv'
  BY <1>1 DEF HistoryInv
<1>7. Listed' = Listed
  BY <1>1 DEF Listed
<1>8. ListInv'
  <2>1. (snap \ todo') \cap Physical = (snap \ todo) \cap Physical
    BY <1>1
  <2> QED
    BY <1>1, <1>2, <1>7, <2>1 DEF ListInv
<1>9. HeldInv' /\ LeftBehind'
  <2>1. (snap' \ todo') \ Physical = ((snap \ todo) \ Physical) \cup {d}
    BY <1>1, <1>2
  <2>2. UNION {Entries(x) : x \in ((snap \ todo) \ Physical) \cup {d}}
          = (UNION {Entries(x) : x \in (snap \ todo) \ Physical}) \cup Entries(d)
    OBVIOUS
  <2>3. held' = {<<"iterator", "">>} \cup UNION {Entries(x) : x \in (snap' \ todo') \ Physical}
    BY <1>1, <1>2, <2>1, <2>2
  <2> QED
    BY <1>1, <2>3 DEF HeldInv, LeftBehind
<1> QED
  BY <1>5, <1>6, <1>8, <1>9

LEMMA ReadDiskKeeps == ASSUME IInv, NEW d \in Disks, ReadDisk(d) PROVE IInv'
<1> USE DEF IInv
<1>1. /\ fn = "disk_io" /\ pc = "walk" /\ d \in todo /\ d \in world /\ d \in Physical
      /\ seen' = Append(seen, d) /\ todo' = todo \ {d}
      /\ UNCHANGED <<world, alive, fn, ever, kept, up, pc, at, snap, held, lost, wounded,
                     noStats, answer>>
  BY DEF ReadDisk, AtDisk, Stay
<1>2. Things' = Things /\ Worlds' = Worlds /\ Wanted' = Wanted /\ Things = Disks
  BY <1>1, SameFunction
<1>3. d \notin Listed /\ d \in snap /\ answer = "none"
  BY <1>1 DEF ListInv, TypeOK, HistoryInv
<1>4. /\ seen' \in Seq(Things) /\ Listed' = Listed \cup {d}
      /\ \A i, j \in DOMAIN seen' : seen'[i] = seen'[j] => i = j
  BY <1>1, <1>2, <1>3, EntryAdded
<1>5. TypeOK'
  BY <1>1, <1>2, <1>4 DEF TypeOK
<1>6. HistoryInv'
  BY <1>1 DEF HistoryInv
<1>7. ListInv'
  <2>1. Listed' = (snap \ todo') \cap Physical
    BY <1>1, <1>3, <1>4 DEF ListInv
  <2> QED
    BY <1>1, <1>3, <1>4, <2>1 DEF ListInv
<1>8. HeldInv' /\ LeftBehind'
  <2>1. (snap' \ todo') \ Physical = (snap \ todo) \ Physical
    BY <1>1
  <2> QED
    BY <1>1, <2>1 DEF HeldInv, LeftBehind
<1> QED
  BY <1>5, <1>6, <1>7, <1>8

LEMMA DiskFailsKeeps == ASSUME IInv, NEW d \in Disks, DiskFails(d) PROVE IInv'
<1>1. /\ fn = "disk_io" /\ pc = "walk" /\ d \in todo /\ pc' = "done" /\ answer' = "undefined"
      /\ UNCHANGED <<world, alive, fn, ever, kept, up, at, snap, todo, seen, held, lost,
                     wounded, noStats>>
  BY DEF DiskFails, AtDisk, Done, Stay
<1>2. /\ held = {<<"iterator", "">>} \cup UNION {Entries(x) : x \in (snap \ todo) \ Physical}
      /\ noStats = {} /\ ~wounded /\ held \subseteq Handles /\ d \in snap
  BY <1>1, DisksHeld
<1>3. /\ ((snap \ todo) \ Physical) \cup noStats = (snap \ todo) \ Physical
      /\ UNION {Dictionaries(x) : x \in noStats} = {}
  BY <1>2
<1>4. LeftBehind'
  BY <1>1, <1>2, <1>3 DEF LeftBehind
<1>5. wounded' \in BOOLEAN /\ noStats' \subseteq Physical
  BY <1>1 DEF IInv, TypeOK
<1> QED
  BY <1>1, <1>2, <1>4, <1>5, CallEnds

LEMMA NoStatsKeeps == ASSUME IInv, NEW d \in Disks, NoStats(d) PROVE IInv'
<1>1. /\ fn = "disk_io" /\ pc = "walk" /\ d \in todo /\ d \in Physical
      /\ pc' = "done" /\ answer' = "undefined"
      /\ UNCHANGED <<world, alive, fn, ever, kept, up, at, snap, todo, seen, lost, wounded>>
      /\ held' = held \cup Entries(d) \cup Dictionaries(d) /\ noStats' = {d}
  BY DEF NoStats, AtDisk, Done, Stay
<1>2. /\ held = {<<"iterator", "">>} \cup UNION {Entries(x) : x \in (snap \ todo) \ Physical}
      /\ ~wounded /\ held \subseteq Handles /\ d \in snap
  BY <1>1, DisksHeld
<1>3. held' \subseteq Handles
  BY <1>1, <1>2, HandleKinds
<1>4. /\ UNION {Entries(x) : x \in ((snap \ todo) \ Physical) \cup {d}}
           = (UNION {Entries(x) : x \in (snap \ todo) \ Physical}) \cup Entries(d)
      /\ UNION {Dictionaries(x) : x \in {d}} = Dictionaries(d)
  OBVIOUS
<1>5. LeftBehind'
  BY <1>1, <1>2, <1>4 DEF LeftBehind
<1>6. wounded' \in BOOLEAN /\ noStats' \subseteq Physical
  BY <1>1 DEF IInv, TypeOK
<1> QED
  BY <1>1, <1>2, <1>3, <1>5, <1>6, CallEnds

LEMMA DisksDoneKeeps == ASSUME IInv, DisksDone PROVE IInv'
<1>1. /\ fn = "disk_io" /\ pc = "walk" /\ todo = {} /\ pc' = "done" /\ answer' = "list"
      /\ UNCHANGED <<world, alive, fn, ever, kept, up, at, snap, todo, seen, lost, wounded, noStats>>
  BY DEF DisksDone, Done, Stay
<1>2. held' = held \ {<<"iterator", "">>}
  BY DEF DisksDone
<1>3. /\ held = {<<"iterator", "">>} \cup UNION {Entries(x) : x \in (snap \ todo) \ Physical}
      /\ <<"iterator", "">> \notin UNION {Entries(x) : x \in (snap \ todo) \ Physical}
      /\ noStats = {} /\ ~wounded /\ held \subseteq Handles /\ kept \subseteq snap
  BY <1>1, DisksHeld
<1>4. held' = UNION {Entries(x) : x \in (snap \ todo) \ Physical} /\ held' \subseteq Handles
  BY <1>2, <1>3
<1>5. /\ ((snap \ todo) \ Physical) \cup noStats = (snap \ todo) \ Physical
      /\ UNION {Dictionaries(x) : x \in noStats} = {}
  BY <1>3
<1>6. LeftBehind'
  BY <1>1, <1>3, <1>4, <1>5 DEF LeftBehind
<1>7. wounded' \in BOOLEAN /\ noStats' \subseteq Physical
  BY <1>1 DEF IInv, TypeOK
<1> QED
  BY <1>1, <1>3, <1>4, <1>6, <1>7, CallEnds

-----------------------------------------------------------------------------
(* The theorems.                                                           *)

LEMMA CallStepKeeps == ASSUME IInv, CallStep PROVE IInv'
<1>1. CASE TaskIsDead
  <2>1. /\ pc = "walk" /\ lost' \in BOOLEAN
        /\ UNCHANGED <<world, alive, fn, ever, kept, pc, at, snap, todo, seen, held, wounded,
                       noStats, answer>>
    BY <1>1 DEF TaskIsDead, Stay
  <2>2. up' \in BOOLEAN
    BY <1>1 DEF TaskIsDead
  <2> QED
    BY <2>1, <2>2, NodeFails
<1>2. ASSUME NEW d \in Disks, ParentFails(d) PROVE IInv'
  <2>1. /\ pc = "walk" /\ up' = FALSE /\ lost' = lost
        /\ UNCHANGED <<world, alive, fn, ever, kept, pc, at, snap, todo, seen, held, wounded,
                       noStats, answer>>
    BY <1>2 DEF ParentFails, AtDisk, Stay
  <2>2. up' \in BOOLEAN
    BY <2>1
  <2>3. lost' \in BOOLEAN
    BY <2>1 DEF IInv, TypeOK
  <2> QED
    BY <2>1, <2>2, <2>3, NodeFails
<1>3. CASE Call \/ OpenFails \/ TaskForPid \/ NoMoreRegions \/ \E r \in Regions : NextRegion(r)
  BY <1>3, CallKeeps, OpenFailsKeeps, TaskForPidKeeps, NoMoreRegionsKeeps, NextRegionKeeps
<1>4. CASE \/ TaskThreads \/ TaskThreadsFails \/ ThreadsDone
           \/ \E t \in Threads : ThreadInfo(t) \/ ThreadGone(t)
  BY <1>4, TaskThreadsKeeps, ListFailsKeeps, ThreadsDoneKeeps, ThreadInfoKeeps,
     ThreadGoneKeeps
<1>5. CASE \/ ListDisks \/ DisksDone
           \/ \E d \in Disks : PassOver(d) \/ ReadDisk(d) \/ DiskFails(d) \/ NoStats(d)
  BY <1>5, ListDisksKeeps, DisksDoneKeeps, PassOverKeeps, ReadDiskKeeps, DiskFailsKeeps,
     NoStatsKeeps
<1> QED
  BY <1>1, <1>2, <1>3, <1>4, <1>5 DEF CallStep

LEMMA StepKeeps == IInv /\ [Next]_vars => IInv'
<1> SUFFICES ASSUME IInv, [Next]_vars PROVE IInv'
  OBVIOUS
<1>1. CASE Next
  BY <1>1, CallStepKeeps, EnvironmentKeeps DEF Next
<1>2. CASE UNCHANGED vars
  <2>1. UNCHANGED <<world, alive, fn, up, pc, at, snap, todo, seen, held, lost, wounded,
                    noStats, answer, ever, kept>>
    BY <1>2 DEF vars, callVars
  <2>2. Things' = Things /\ Worlds' = Worlds /\ Wanted' = Wanted /\ Listed' = Listed
    BY <2>1, SameFunction DEF Listed
  <2>3. TypeOK'
    BY <2>1, <2>2 DEF IInv, TypeOK
  <2>4. HistoryInv' /\ HeldInv' /\ LeftBehind'
    BY <2>1 DEF IInv, HistoryInv, HeldInv, LeftBehind
  <2>5. ListInv'
    BY <2>1, <2>2 DEF IInv, ListInv, End
  <2> QED
    BY <2>3, <2>4, <2>5 DEF IInv
<1> QED
  BY <1>1, <1>2

\* A thing that is listed, and in no two places, is listed once.
LEMMA ListedOnce == IInv => KeptIsListedOnce
<1> SUFFICES ASSUME IInv, answer = "list"
             PROVE  /\ Listed \subseteq ever
                    /\ \A x \in kept \cap Wanted : Cardinality({i \in DOMAIN seen : seen[i] = x}) = 1
  BY DEF KeptIsListedOnce
<1> USE DEF IInv
<1>1. Listed \subseteq ever
  BY DEF ListInv
<1>2. ASSUME NEW x \in kept \cap Wanted
      PROVE  Cardinality({i \in DOMAIN seen : seen[i] = x}) = 1
  <2>1. x \in Listed
    <3>1. CASE fn = "memory_maps"
      BY <3>1 DEF ListInv
    <3>2. CASE fn = "threads"
      BY <3>2 DEF ListInv
    <3>3. CASE fn = "disk_io"
      <4>1. x \in Physical
        BY <3>3 DEF Wanted
      <4> QED
        BY <3>3, <4>1 DEF ListInv
    <3> QED
      BY <3>1, <3>2, <3>3, FunctionsAssumption DEF TypeOK
  <2>2. PICK i \in DOMAIN seen : seen[i] = x
    BY <2>1 DEF Listed
  <2>3. {j \in DOMAIN seen : seen[j] = x} = {i}
    BY <2>2 DEF ListInv
  <2> QED
    BY <2>3, FS_Singleton
<1> QED
  BY <1>1, <1>2

\* The inductive invariant holds in every state of every call.
THEOREM Invariance == Spec => []IInv
  BY InitKeeps, StepKeeps, PTL DEF Spec

\* The variables stay what the code's variables can be.
THEOREM TypeCorrect == Spec => []TypeOK
<1>1. IInv => TypeOK
  BY DEF IInv
<1> QED
  BY <1>1, Invariance, PTL

\* Whatever is mapped, unmapped, started, ended, plugged or pulled around the
\* walk, the list holds only what was there during the call, and exactly once
\* each region, thread or disk that was there all along.
THEOREM WalkListsOnce == Spec => []KeptIsListedOnce
  BY Invariance, ListedOnce, PTL

\* What a call leaves behind when it ends is exactly what LeftBehind says.
THEOREM HandlesLeft == Spec => []LeftBehind
<1>1. IInv => LeftBehind
  BY DEF IInv
<1> QED
  BY <1>1, Invariance, PTL

================================================================================
