---------------------------- MODULE Terminal_proofs ----------------------------
(***************************************************************************)
(* Theorems about Terminal, for every set of consoles and pseudo-terminals:*)
(* a success is the only answer of the call with a callback and comes      *)
(* after all three requests (SuccessIsTheOnlyAnswer), and a terminal that  *)
(* stayed all along is the one that is named (KeptTerminalIsNamed).  The   *)
(* first needs an equation between the requests settled, the two joins and *)
(* the answers given (JoinInv); the second needs, for every way the call   *)
(* can be under way, where the name of the terminal has got to (MapInv).   *)
(***************************************************************************)
EXTENDS Terminal, SequenceTheorems, TLAPS

-----------------------------------------------------------------------------
(* What the steps are made of.                                             *)

\* An answer is added behind the others.
LEMMA CallBackAdds ==
    ASSUME TypeOK, NEW e \in BOOLEAN, NEW t \in Terms \cup {NoTerm}, CallBack(e, t)
    PROVE  /\ reply' \in Seq([err : BOOLEAN, term : Terms \cup {NoTerm}])
           /\ Len(reply') = Len(reply) + 1
           /\ e => Successes' = Successes
           /\ Successes' \subseteq Successes \cup {Len(reply) + 1}
           /\ \A k \in Successes : k \in Successes' /\ reply'[k] = reply[k]
           /\ reply'[Len(reply) + 1] = [err |-> e, term |-> t]
<1> DEFINE x == [err |-> e, term |-> t]
           S == [err : BOOLEAN, term : Terms \cup {NoTerm}]
<1>1. x \in S /\ x.err = e
  OBVIOUS
<1>2. reply \in Seq(S) /\ reply' = Append(reply, x)
  BY DEF CallBack, TypeOK
<1> HIDE DEF x, S
<1>3. /\ reply' \in Seq(S) /\ Len(reply') = Len(reply) + 1
      /\ \A k \in 1..Len(reply) : reply'[k] = reply[k]
      /\ reply'[Len(reply) + 1] = x
  BY <1>1, <1>2, AppendProperties
<1>4. /\ DOMAIN reply = 1..Len(reply) /\ DOMAIN reply' = 1..Len(reply') /\ Len(reply) \in Nat
  BY <1>2, <1>3
<1>5. /\ Successes = {k \in 1..Len(reply) : ~reply[k].err}
      /\ Successes' = {k \in 1..Len(reply') : ~reply'[k].err}
  BY <1>4 DEF Successes
<1>6. Successes' \subseteq Successes \cup {Len(reply) + 1}
  BY <1>3, <1>4, <1>5
<1>7. \A k \in Successes : k \in Successes' /\ reply'[k] = reply[k]
  BY <1>3, <1>4, <1>5
<1>8. e => Len(reply) + 1 \notin Successes'
  BY <1>1, <1>3, <1>5
<1>9. e => Successes' = Successes
  BY <1>6, <1>7, <1>8
<1> QED
  BY <1>3, <1>6, <1>7, <1>9 DEF x, S

\* What the lookup gives is a terminal or nothing.
LEMMA LookupType ==
    ASSUME tty \in Terms, NEW map \in SUBSET Terms
    PROVE  /\ Lookup(map) \subseteq Terms \cup {NoTerm}
           /\ ~spaced /\ tty \in map => Lookup(map) = {tty}
  BY DEF Lookup

\* The requests, by name.
LEMMA Requests ==
    /\ RequestNames = {"dev", "pts", "stat"} /\ Dirs \subseteq RequestNames
    /\ Home \in Dirs /\ Other \in Dirs /\ Home # Other /\ Dirs = {Home, Other}
  BY DEF RequestNames, Dirs, Home, Other

\* A request that is settled now and was not before.
LEMMA Settling ==
    ASSUME TypeOK, NEW r \in RequestNames, req[r] # "settled",
           req' = [req EXCEPT ![r] = "settled"]
    PROVE  /\ IsSettled(r) = 0 /\ IsSettled(r)' = 1
           /\ \A q \in RequestNames : q # r => IsSettled(q)' = IsSettled(q) /\ req'[q] = req[q]
           /\ req'[r] = "settled"
           /\ \A q \in RequestNames : IsSettled(q) \in {0, 1}
           /\ req' \in [RequestNames -> {"none", "queued", "data", "error", "settled"}]
  BY DEF TypeOK, IsSettled, Flag

\* A request that goes on without being settled.
LEMMA Going ==
    ASSUME TypeOK, NEW r \in RequestNames, req[r] = "queued", NEW v \in {"data", "error"},
           req' = [req EXCEPT ![r] = v]
    PROVE  /\ \A q \in RequestNames : IsSettled(q)' = IsSettled(q)
           /\ \A q \in RequestNames : q # r => req'[q] = req[q]
           /\ req'[r] = v
           /\ \A q \in RequestNames : IsSettled(q) \in {0, 1}
           /\ req' \in [RequestNames -> {"none", "queued", "data", "error", "settled"}]
  BY DEF TypeOK, IsSettled, Flag

-----------------------------------------------------------------------------
(* Every action keeps the invariant.                                       *)

LEMMA InitKeeps == Init => IInv
<1> SUFFICES ASSUME Init PROVE IInv
  OBVIOUS
<1> USE DEF Init
<1>1. reply = <<>> /\ reply \in Seq([err : BOOLEAN, term : Terms \cup {NoTerm}]) /\ DOMAIN reply = {}
  OBVIOUS
<1>2. TypeOK
  <2>1. /\ mounted \in BOOLEAN /\ alive \in BOOLEAN /\ spaced \in BOOLEAN /\ up \in BOOLEAN
        /\ tm \in BOOLEAN /\ fc \in BOOLEAN /\ kept \in BOOLEAN
    OBVIOUS
  <2> QED
    BY <1>1, <2>1 DEF TypeOK, Terms
<1>3. EnvInv
  BY DEF EnvInv
<1>4. JoinInv
  BY DEF JoinInv
<1>5. MapInv
  BY Requests DEF MapInv
<1>6. KeptTerminalIsNamed
  BY <1>1 DEF KeptTerminalIsNamed, Successes
<1> QED
  BY <1>2, <1>3, <1>4, <1>5, <1>6 DEF IInv

\* A pseudo-terminal opens or closes, or the process exits.
LEMMA EnvironmentKeeps ==
    ASSUME IInv, Exit \/ \E p \in Ptys : PtyOpens(p) \/ PtyCloses(p)
    PROVE  IInv'
<1> USE DEF IInv
<1>1. /\ UNCHANGED <<tty, spaced, mounted, up, pc, req, listed, count, tmap, tm, fc, reply>>
      /\ ptys' \in SUBSET Ptys /\ (~mounted => ptys' = {})
      /\ kept' => kept /\ alive' /\ (tty \in ptys => tty \in ptys')
  <2>1. CASE Exit
    BY <2>1 DEF Exit, NodeUnchanged, EnvInv, TypeOK
  <2>2. ASSUME NEW p \in Ptys, PtyOpens(p)
        PROVE  <1>1!:
    BY <2>2 DEF PtyOpens, NodeUnchanged, EnvInv, TypeOK
  <2>3. ASSUME NEW p \in Ptys, PtyCloses(p)
        PROVE  <1>1!:
    BY <2>3 DEF PtyCloses, NodeUnchanged, EnvInv, TypeOK
  <2> QED
    BY <2>1, <2>2, <2>3
<1>2. alive' \in BOOLEAN
  BY DEF Exit, PtyOpens, PtyCloses, TypeOK
<1>3. kept' \in BOOLEAN
  BY DEF Exit, PtyOpens, PtyCloses, TypeOK
<1>4. TypeOK'
  BY <1>1, <1>2, <1>3 DEF TypeOK, Terms
<1>5. EnvInv'
  BY <1>1 DEF EnvInv
<1>6. Successes' = Successes
  BY <1>1 DEF Successes
<1>7. JoinInv'
  BY <1>1, <1>6 DEF JoinInv, IsSettled, Flag
<1>8. MapInv'
  BY <1>1 DEF MapInv, IsSettled, Flag, Home, Other
<1>9. KeptTerminalIsNamed'
  BY <1>1, <1>6 DEF KeptTerminalIsNamed
<1> QED
  BY <1>4, <1>5, <1>7, <1>8, <1>9

LEMMA CallKeeps == ASSUME IInv, CallAsync \/ CallSync PROVE IInv'
<1> USE DEF IInv
<1>1. /\ pc = "new" /\ pc' \in {"async", "syncDev"}
      /\ UNCHANGED <<alive, tty, spaced, mounted, ptys, up, listed, count, tmap, tm, fc, reply, kept>>
      /\ \/ pc' = "async" /\ req' = [r \in RequestNames |-> "queued"]
         \/ pc' = "syncDev" /\ req' = req
  BY DEF CallAsync, CallSync, envVars
<1>2. /\ reply = <<>> /\ count = 2 /\ ~tm /\ ~fc /\ \A r \in RequestNames : req[r] = "none"
  BY <1>1 DEF JoinInv
<1>3. Len(reply) = 0 /\ DOMAIN reply = {}
  BY <1>2
<1>4. Successes = {} /\ Successes' = {}
  BY <1>1, <1>3 DEF Successes
<1>5. TypeOK'
  BY <1>1 DEF TypeOK
<1>6. EnvInv'
  BY <1>1 DEF EnvInv
<1>7. JoinInv'
  <2>1. \A r \in RequestNames : IsSettled(r)' = 0
    BY <1>1, <1>2 DEF IsSettled, Flag
  <2> QED
    BY <1>1, <1>2, <1>3, <1>4, <2>1, Requests DEF JoinInv, Flag
<1>8. MapInv'
  <2>1. Home' = Home /\ Other' = Other
    BY <1>1 DEF Home, Other
  <2>2. req'[Home] # "data"
    BY <1>1, <1>2, Requests
  <2>3. IsSettled(Other)' = 0
    BY <1>1, <1>2, <2>1, Requests DEF IsSettled, Flag
  <2> QED
    BY <1>1, <1>2, <2>1, <2>2, <2>3 DEF MapInv
<1>9. KeptTerminalIsNamed'
  BY <1>4 DEF KeptTerminalIsNamed
<1> QED
  BY <1>5, <1>6, <1>7, <1>8, <1>9

\* The pool has done its part.
LEMMA ExecKeeps ==
    ASSUME IInv, ReadFileExec \/ \E d \in Dirs : ReaddirExec(d)
    PROVE  IInv'
<1> USE DEF IInv
<1>1. PICK r \in RequestNames, v \in {"data", "error"} :
        /\ req[r] = "queued" /\ req' = [req EXCEPT ![r] = v]
        /\ UNCHANGED <<alive, tty, spaced, mounted, ptys, up, pc, count, tmap, tm, fc, reply, kept>>
        /\ \/ listed' = listed /\ (v = "error" \/ r = "stat")
           \/ r \in Dirs /\ listed' = [listed EXCEPT ![r] = Names(r)]
  <2>1. CASE ReadFileExec
    BY <2>1, Requests DEF ReadFileExec, envVars
  <2>2. CASE \E d \in Dirs : ReaddirExec(d)
    BY <2>2, Requests DEF ReaddirExec, envVars
  <2> QED
    BY <2>1, <2>2
<1>2. /\ \A q \in RequestNames : IsSettled(q)' = IsSettled(q)
      /\ \A q \in RequestNames : q # r => req'[q] = req[q]
      /\ req'[r] = v
      /\ req' \in [RequestNames -> {"none", "queued", "data", "error", "settled"}]
  BY <1>1, Going
<1>3. pc = "async"
  BY <1>1 DEF JoinInv
<1>4. TypeOK'
  <2>1. \A d \in Dirs : Names(d) \subseteq Terms
    BY DEF Names, Terms, TypeOK
  <2>2. listed' \in [Dirs -> SUBSET Terms]
    BY <1>1, <2>1 DEF TypeOK
  <2> QED
    BY <1>1, <1>2, <2>2 DEF TypeOK
<1>5. EnvInv'
  BY <1>1 DEF EnvInv
<1>6. Successes' = Successes
  BY <1>1 DEF Successes
<1>7. JoinInv'
  <2>1. IsSettled("dev")' = IsSettled("dev") /\ IsSettled("pts")' = IsSettled("pts")
        /\ IsSettled("stat")' = IsSettled("stat")
    BY <1>2, Requests
  <2>2. req["stat"] = "settled" => req'["stat"] = "settled"
    BY <1>1, <1>2, Requests
  <2> QED
    BY <1>1, <1>3, <1>6, <2>1, <2>2 DEF JoinInv, Flag
<1>8. MapInv'
  <2>1. Home' = Home /\ Other' = Other
    BY <1>1 DEF Home, Other
  <2>2. IsSettled(Other)' = IsSettled(Other)
    BY <1>2, <2>1, Requests DEF IsSettled
  <2>3. kept /\ req'[Home] = "data" => tty \in listed'[Home]
    <3>1. CASE r = Home
      <4>1. kept => tty \in Names(Home)
        BY DEF Names, Home, EnvInv
      <4>2. Home \in Dirs /\ Home # "stat"
        BY DEF Home, Dirs
      <4> QED
        BY <1>1, <1>2, <3>1, <4>1, <4>2 DEF TypeOK
    <3>2. CASE r # Home
      BY <1>1, <1>2, <3>2, Requests DEF MapInv, TypeOK
    <3> QED
      BY <3>1, <3>2
  <2> QED
    BY <1>1, <1>3, <2>1, <2>2, <2>3 DEF MapInv
<1>9. KeptTerminalIsNamed'
  BY <1>1, <1>6 DEF KeptTerminalIsNamed
<1> QED
  BY <1>4, <1>5, <1>7, <1>8, <1>9

\* A request that failed answers by itself.
LEMMA ErrorCallbackKeeps ==
    ASSUME IInv, NEW r \in RequestNames, ErrorCallback(r)
    PROVE  IInv'
<1> USE DEF IInv
<1>1. /\ req[r] = "error" /\ req' = [req EXCEPT ![r] = "settled"] /\ CallBack(TRUE, NoTerm)
      /\ UNCHANGED <<alive, tty, spaced, mounted, ptys, up, pc, listed, count, tmap, tm, fc, kept>>
  BY DEF ErrorCallback, envVars
<1>2. /\ IsSettled(r) = 0 /\ IsSettled(r)' = 1
      /\ \A q \in RequestNames : q # r => IsSettled(q)' = IsSettled(q) /\ req'[q] = req[q]
      /\ req'[r] = "settled"
      /\ \A q \in RequestNames : IsSettled(q) \in {0, 1}
      /\ req' \in [RequestNames -> {"none", "queued", "data", "error", "settled"}]
  BY <1>1, Settling
<1>3. /\ reply' \in Seq([err : BOOLEAN, term : Terms \cup {NoTerm}])
      /\ Len(reply') = Len(reply) + 1 /\ Successes' = Successes
      /\ \A k \in Successes : reply'[k] = reply[k]
  BY <1>1, CallBackAdds
<1>4. pc = "async" /\ Len(reply) \in Nat
  BY <1>1 DEF JoinInv, TypeOK
<1>5. TypeOK'
  BY <1>1, <1>2, <1>3 DEF TypeOK
<1>6. EnvInv'
  BY <1>1 DEF EnvInv
<1>7. JoinInv'
  <2>1. /\ IsSettled("dev") + IsSettled("pts") <= IsSettled("dev")' + IsSettled("pts")'
        /\ IsSettled("dev")' + IsSettled("pts")' + IsSettled("stat")'
             = IsSettled("dev") + IsSettled("pts") + IsSettled("stat") + 1
        /\ IsSettled("dev") + IsSettled("pts") \in Nat /\ IsSettled("stat") \in Nat
        /\ IsSettled("dev")' + IsSettled("pts")' \in Nat
    BY <1>2, Requests
  <2>2. fc => req'["stat"] = "settled"
    BY <1>2, <1>4, Requests DEF JoinInv
  <2>3. count \in 0..2
    BY DEF TypeOK
  <2>4. Flag(tm /\ fc)' = Flag(tm /\ fc) /\ Flag(fc)' = Flag(fc)
        /\ Flag(tm /\ fc) \in {0, 1} /\ Flag(fc) \in {0, 1}
    BY <1>1 DEF Flag
  <2>5. 2 - count <= IsSettled("dev")' + IsSettled("pts")'
    BY <1>4, <2>1, <2>3 DEF JoinInv
  <2>6. IsSettled("dev")' + IsSettled("pts")' + IsSettled("stat")' + Flag(tm /\ fc)
                = (2 - count) + Flag(fc) + Len(reply')
    BY <1>3, <1>4, <2>1, <2>3, <2>4 DEF JoinInv
  <2> QED
    BY <1>1, <1>3, <1>4, <2>2, <2>4, <2>5, <2>6 DEF JoinInv
<1>8. MapInv'
  <2>1. Home' = Home /\ Other' = Other
    BY <1>1 DEF Home, Other
  <2>2. IsSettled(Other) <= IsSettled(Other)' /\ IsSettled(Other) \in Nat /\ IsSettled(Other)' \in Nat
    BY <1>2, <2>1, Requests DEF IsSettled
  <2>3. kept /\ req'[Home] = "data" => tty \in listed[Home]
    BY <1>2, Requests DEF MapInv
  <2>4. kept /\ tty \notin tmap => 2 - count <= IsSettled(Other)'
    BY <1>4, <2>2 DEF MapInv, TypeOK
  <2> QED
    BY <1>1, <1>4, <2>1, <2>3, <2>4 DEF MapInv
<1>9. KeptTerminalIsNamed'
  BY <1>1, <1>3 DEF KeptTerminalIsNamed
<1> QED
  BY <1>5, <1>6, <1>7, <1>8, <1>9

\* A name that is gone ends node; nothing else moves.
LEMMA NodeDies ==
    ASSUME IInv, up' = FALSE,
           UNCHANGED <<envVars, pc, req, listed, count, tmap, tm, fc, reply, kept>>
    PROVE  IInv'
<1> USE DEF IInv
<1>1. UNCHANGED <<alive, tty, spaced, mounted, ptys, pc, req, listed, count, tmap, tm, fc, reply, kept>>
  BY DEF envVars
<1>2. up' \in BOOLEAN
  OBVIOUS
<1>3. TypeOK'
  BY <1>1, <1>2 DEF TypeOK, Terms
<1>4. EnvInv' /\ JoinInv'
  BY <1>1 DEF EnvInv, JoinInv, Successes, IsSettled, Flag
<1>5. MapInv'
  BY <1>1 DEF MapInv, IsSettled, Flag, Home, Other
<1>6. KeptTerminalIsNamed'
  BY <1>1 DEF KeptTerminalIsNamed, Successes
<1> QED
  BY <1>3, <1>4, <1>5, <1>6

\* A listing is counted, and the last one hands the map on.
LEMMA ListingKeeps ==
    ASSUME IInv, NEW d \in Dirs, req[d] = "data", listed[d] \subseteq Names(d),
           ReaddirCallback(d)
    PROVE  IInv'
<1> USE DEF IInv
<1>1. /\ req' = [req EXCEPT ![d] = "settled"] /\ tmap' = tmap \cup listed[d]
      /\ count' = count - 1
      /\ UNCHANGED <<alive, tty, spaced, mounted, ptys, up, pc, listed, fc, kept>>
      /\ IF count - 1 = 0 THEN Handle(TRUE, fc, tmap') ELSE UNCHANGED reply
  BY DEF ReaddirCallback, ListingCallback, envVars
<1>2. tm' = (tm \/ count - 1 = 0)
  BY DEF ReaddirCallback, ListingCallback
<1>3. d \in RequestNames /\ d # "stat"
  BY DEF Dirs, RequestNames
<1>4. /\ IsSettled(d) = 0 /\ IsSettled(d)' = 1
      /\ \A q \in RequestNames : q # d => IsSettled(q)' = IsSettled(q) /\ req'[q] = req[q]
      /\ req'[d] = "settled"
      /\ \A q \in RequestNames : IsSettled(q) \in {0, 1}
      /\ req' \in [RequestNames -> {"none", "queued", "data", "error", "settled"}]
  BY <1>1, <1>3, Settling
<1>5. /\ pc = "async" /\ Len(reply) \in Nat /\ fc \in BOOLEAN /\ tm \in BOOLEAN
  BY <1>3 DEF JoinInv, TypeOK
\* The counter counts this listing too.
<1>6. /\ IsSettled("dev") + IsSettled("pts") <= 1
      /\ IsSettled("dev")' + IsSettled("pts")' = IsSettled("dev") + IsSettled("pts") + 1
      /\ IsSettled("dev") \in Nat /\ IsSettled("pts") \in Nat /\ IsSettled("stat") \in Nat
      /\ IsSettled("dev")' \in Nat /\ IsSettled("pts")' \in Nat
      /\ IsSettled("stat")' = IsSettled("stat") /\ req'["stat"] = req["stat"]
  BY <1>3, <1>4, Requests DEF Dirs
<1>7. count \in 1..2 /\ count' \in 0..1 /\ ~tm /\ (tm' <=> count' = 0)
      /\ 2 - count' <= IsSettled("dev")' + IsSettled("pts")'
  <2>1. count \in 0..2 /\ 2 - count <= IsSettled("dev") + IsSettled("pts")
    BY <1>5 DEF TypeOK, JoinInv
  <2>2. count \in 1..2
    BY <1>6, <2>1
  <2>3. ~tm
    BY <1>5, <2>2 DEF JoinInv
  <2>4. count' = count - 1
    BY <1>1
  <2>5. tm' <=> count' = 0
    BY <1>2, <2>3, <2>4
  <2>6. 2 - count' <= IsSettled("dev")' + IsSettled("pts")'
    BY <1>6, <2>1, <2>4
  <2> QED
    BY <2>2, <2>3, <2>4, <2>5, <2>6
<1>8. Successes = {}
  BY <1>5, <1>7 DEF JoinInv
\* The map of all listings has the terminal.
<1>9. /\ Home' = Home /\ Other' = Other
      /\ kept /\ tty \notin tmap' => 2 - count' <= IsSettled(Other)'
      /\ kept /\ req'[Home] = "data" => tty \in listed'[Home]
  <2>1. Home' = Home /\ Other' = Other
    BY <1>1 DEF Home, Other
  <2>2. kept /\ req'[Home] = "data" => tty \in listed'[Home]
    BY <1>1, <1>4, Requests DEF MapInv
  <2>3. ASSUME kept, tty \notin tmap'
        PROVE  2 - count' <= IsSettled(Other)'
    <3>1. d # Home
      BY <1>1, <2>3 DEF MapInv
    <3>2. d = Other
      BY <3>1, Requests
    <3>3. IsSettled(Other) = 0 /\ IsSettled(Other)' = 1
      BY <1>4, <2>1, <3>2 DEF IsSettled
    <3> QED
      BY <1>1, <1>5, <1>7, <2>3, <3>3 DEF MapInv
  <2> QED
    BY <2>1, <2>2, <2>3
<1>10. tm' \in BOOLEAN
  BY <1>2
<1>11. CASE count' = 0 /\ fc
  <2>0. tmap' \in SUBSET Terms /\ tty \in Terms /\ tty' = tty /\ spaced' = spaced
    BY <1>1 DEF TypeOK
  <2>1. PICK t \in Lookup(tmap') : CallBack(FALSE, t)
    BY <1>1, <1>7, <1>11 DEF Handle, CallBackWithTerm
  <2>2. t \in Terms \cup {NoTerm} /\ (~spaced /\ tty \in tmap' => t = tty)
    BY <2>0, <2>1, LookupType
  <2>3. /\ reply' \in Seq([err : BOOLEAN, term : Terms \cup {NoTerm}])
        /\ Len(reply') = Len(reply) + 1 /\ Successes' \subseteq {Len(reply) + 1}
        /\ reply'[Len(reply) + 1] = [err |-> FALSE, term |-> t]
    BY <1>8, <2>1, <2>2, CallBackAdds
  <2>4. TypeOK'
    <3>1. tmap' \subseteq Terms
      BY <1>1 DEF TypeOK
    <3> QED
      BY <1>1, <1>4, <1>7, <1>10, <2>3, <3>1 DEF TypeOK
  <2>5. EnvInv'
    BY <1>1 DEF EnvInv
  <2>6. JoinInv'
    <3>1. Flag(tm /\ fc)' = 1 /\ Flag(fc)' = 1 /\ Flag(tm /\ fc) = 0 /\ Flag(fc) = 1
      BY <1>1, <1>7, <1>11 DEF Flag
    <3>2. IsSettled("dev") + IsSettled("pts") + IsSettled("stat") + Flag(tm /\ fc)
                = (2 - count) + Flag(fc) + Len(reply)
      BY <1>5 DEF JoinInv
    <3>3. IsSettled("dev")' + IsSettled("pts")' + IsSettled("stat")' + 1
                = (2 - count') + 1 + Len(reply')
      <4> DEFINE x == IsSettled("dev")
                 y == IsSettled("pts")
                 z == IsSettled("stat")
                 x1 == IsSettled("dev")'
                 y1 == IsSettled("pts")'
                 z1 == IsSettled("stat")'
                 n == Len(reply)
                 n1 == Len(reply')
      <4>1. x + y + z = (2 - count) + 1 + n
        BY <1>5, <1>6, <3>1, <3>2
      <4>2. /\ x1 + y1 = x + y + 1 /\ z1 = z /\ n1 = n + 1 /\ count' = count - 1
            /\ x \in Nat /\ y \in Nat /\ z \in Nat /\ x1 \in Nat /\ y1 \in Nat /\ n \in Nat
            /\ count \in 1..2
        BY <1>1, <1>5, <1>6, <1>7, <2>3
      <4> HIDE DEF x, y, z, x1, y1, z1, n, n1
      <4>3. x1 + y1 + z1 + 1 = (2 - count') + 1 + n1
        BY <4>1, <4>2
      <4> QED
        BY <4>3 DEF x1, y1, z1, n1
    <3>4. req'["stat"] = "settled"
      BY <1>5, <1>6, <1>11 DEF JoinInv
    <3> QED
      BY <1>1, <1>5, <1>7, <1>11, <3>1, <3>3, <3>4 DEF JoinInv
  <2>7. MapInv'
    BY <1>1, <1>5, <1>9 DEF MapInv
  <2>8. KeptTerminalIsNamed'
    <3>1. IsSettled(Other)' \in {0, 1}
      BY <1>9, Requests DEF IsSettled, Flag
    <3>2. kept => tty \in tmap'
      BY <1>9, <1>11, <3>1
    <3>3. kept /\ ~spaced => reply'[Len(reply) + 1].term = tty
      BY <2>2, <2>3, <3>2
    <3> QED
      BY <1>1, <2>3, <3>3 DEF KeptTerminalIsNamed
  <2> QED
    BY <2>4, <2>5, <2>6, <2>7, <2>8
<1>12. CASE ~(count' = 0 /\ fc)
  <2>1. reply' = reply
    BY <1>1, <1>7, <1>12 DEF Handle
  <2>2. Successes' = {}
    BY <1>8, <2>1 DEF Successes
  <2>4. TypeOK'
    <3>1. tmap' \subseteq Terms
      BY <1>1 DEF TypeOK
    <3> QED
      BY <1>1, <1>4, <1>7, <1>10, <2>1, <3>1 DEF TypeOK
  <2>5. EnvInv'
    BY <1>1 DEF EnvInv
  <2>6. JoinInv'
    <3>1. Flag(tm /\ fc)' = 0 /\ Flag(fc)' = Flag(fc) /\ Flag(tm /\ fc) = 0 /\ Flag(fc) \in {0, 1}
      BY <1>1, <1>7, <1>12 DEF Flag
    <3>2. IsSettled("dev") + IsSettled("pts") + IsSettled("stat") + Flag(tm /\ fc)
                = (2 - count) + Flag(fc) + Len(reply)
      BY <1>5 DEF JoinInv
    <3>3. IsSettled("dev")' + IsSettled("pts")' + IsSettled("stat")' + 0
                = (2 - count') + Flag(fc) + Len(reply)
      <4> DEFINE x == IsSettled("dev")
                 y == IsSettled("pts")
                 z == IsSettled("stat")
                 x1 == IsSettled("dev")'
                 y1 == IsSettled("pts")'
                 z1 == IsSettled("stat")'
                 n == Len(reply)
                 f == Flag(fc)
      <4>1. x + y + z = (2 - count) + f + n
        BY <1>5, <1>6, <3>1, <3>2
      <4>2. /\ x1 + y1 = x + y + 1 /\ z1 = z /\ count' = count - 1
            /\ x \in Nat /\ y \in Nat /\ z \in Nat /\ x1 \in Nat /\ y1 \in Nat /\ n \in Nat
            /\ count \in 1..2
        BY <1>1, <1>5, <1>6, <1>7
      <4>3. f \in 0..1
        BY <3>1
      <4> HIDE DEF x, y, z, x1, y1, z1, n, f
      <4>4. x1 + y1 + z1 + 0 = (2 - count') + f + n
        BY <4>1, <4>2, <4>3
      <4> QED
        BY <4>4 DEF x1, y1, z1, n, f
    <3>4. fc => req'["stat"] = "settled"
      BY <1>5, <1>6 DEF JoinInv
    <3> QED
      BY <1>1, <1>5, <1>7, <2>1, <2>2, <3>1, <3>3, <3>4 DEF JoinInv
  <2>7. MapInv'
    BY <1>1, <1>5, <1>9 DEF MapInv
  <2>8. KeptTerminalIsNamed'
    BY <2>2 DEF KeptTerminalIsNamed
  <2> QED
    BY <2>4, <2>5, <2>6, <2>7, <2>8
<1> QED
  BY <1>11, <1>12

LEMMA ReaddirCallbackKeeps ==
    ASSUME IInv, NEW d \in Dirs, ReaddirCallback(d)
    PROVE  IInv'
<1>1. CASE listed[d] \subseteq Names(d)
  BY <1>1, ListingKeeps DEF ReaddirCallback, ListingCallback
<1>2. CASE ~(listed[d] \subseteq Names(d))
  BY <1>2, NodeDies DEF ReaddirCallback, ListingCallback
<1> QED
  BY <1>1, <1>2

\* The stat file has arrived.
LEMMA ReadFileCallbackKeeps ==
    ASSUME IInv, ReadFileCallback
    PROVE  IInv'
<1> USE DEF IInv
<1>1. /\ req["stat"] = "data" /\ req' = [req EXCEPT !["stat"] = "settled"]
      /\ UNCHANGED <<alive, tty, spaced, mounted, ptys, up, pc, listed, count, tmap, tm, kept>>
      /\ fc' = TRUE
      /\ IF tm THEN CallBackWithTerm(tmap) ELSE UNCHANGED reply
  BY DEF ReadFileCallback, envVars, Handle
<1>2. "stat" \in RequestNames
  BY Requests
<1>3. /\ IsSettled("stat") = 0 /\ IsSettled("stat")' = 1
      /\ \A q \in Dirs : IsSettled(q)' = IsSettled(q) /\ IsSettled(q) \in {0, 1} /\ req'[q] = req[q]
      /\ req'["stat"] = "settled"
      /\ req' \in [RequestNames -> {"none", "queued", "data", "error", "settled"}]
  <2>1. \A q \in Dirs : q # "stat"
    BY DEF Dirs
  <2> QED
    BY <1>1, <1>2, <2>1, Settling, Requests
<1>4. /\ pc = "async" /\ Len(reply) \in Nat /\ tm \in BOOLEAN /\ count \in 0..2
  BY <1>1, <1>2 DEF JoinInv, TypeOK
<1>5. ~fc /\ Successes = {} /\ (tm <=> count = 0)
  BY <1>1, <1>4 DEF JoinInv
<1>6. /\ IsSettled("dev")' = IsSettled("dev") /\ IsSettled("pts")' = IsSettled("pts")
      /\ IsSettled("dev") \in {0, 1} /\ IsSettled("pts") \in {0, 1}
  BY <1>3 DEF Dirs
<1>7. /\ reply' \in Seq([err : BOOLEAN, term : Terms \cup {NoTerm}])
      /\ Len(reply') = Len(reply) + Flag(tm)
      /\ Successes' # {} => tm
      /\ ~spaced /\ tty \in tmap => \A k \in Successes' : reply'[k].term = tty
  <2>1. CASE tm
    <3>1. PICK t \in Lookup(tmap) : CallBack(FALSE, t)
      BY <1>1, <2>1 DEF CallBackWithTerm
    <3>2. t \in Terms \cup {NoTerm} /\ (~spaced /\ tty \in tmap => t = tty)
      BY <3>1, LookupType DEF TypeOK
    <3>3. /\ reply' \in Seq([err : BOOLEAN, term : Terms \cup {NoTerm}])
          /\ Len(reply') = Len(reply) + 1 /\ Successes' \subseteq {Len(reply) + 1}
          /\ reply'[Len(reply) + 1] = [err |-> FALSE, term |-> t]
      BY <1>5, <3>1, <3>2, CallBackAdds
    <3> QED
      BY <2>1, <3>2, <3>3 DEF Flag
  <2>2. CASE ~tm
    <3>1. reply' = reply
      BY <1>1, <2>2
    <3>2. Successes' = {}
      BY <1>5, <3>1 DEF Successes
    <3> QED
      BY <1>4, <2>2, <3>1, <3>2 DEF TypeOK, Flag
  <2> QED
    BY <1>4, <2>1, <2>2
<1>8. TypeOK'
  <2>1. fc' \in BOOLEAN
    BY <1>1
  <2> QED
    BY <1>1, <1>3, <1>7, <2>1 DEF TypeOK
<1>9. EnvInv'
  BY <1>1 DEF EnvInv
<1>10. JoinInv'
  <2>1. Flag(tm /\ fc)' = Flag(tm) /\ Flag(fc)' = 1 /\ Flag(tm /\ fc) = 0 /\ Flag(fc) = 0
        /\ Flag(tm) \in {0, 1}
    BY <1>1, <1>5 DEF Flag
  <2>2. IsSettled("dev") + IsSettled("pts") + IsSettled("stat") + 0
              = (2 - count) + 0 + Len(reply)
    BY <1>4, <2>1 DEF JoinInv
  <2>3. IsSettled("dev")' + IsSettled("pts")' + IsSettled("stat")' + Flag(tm /\ fc)'
              = (2 - count) + 1 + Len(reply')
    <3>1. IsSettled("dev")' + IsSettled("pts")' + IsSettled("stat")'
              = IsSettled("dev") + IsSettled("pts") + IsSettled("stat") + 1
      BY <1>3, <1>6
    <3>2. Len(reply') = Len(reply) + Flag(tm)
      BY <1>7
    <3>3. IsSettled("stat") \in Nat
      BY <1>3
    <3> QED
      BY <1>4, <1>6, <2>1, <2>2, <3>1, <3>2, <3>3
  <2>4. 2 - count <= IsSettled("dev")' + IsSettled("pts")'
    BY <1>4, <1>6 DEF JoinInv
  <2> QED
    BY <1>1, <1>3, <1>4, <1>5, <1>7, <2>1, <2>3, <2>4 DEF JoinInv
<1>11. MapInv'
  <2>1. Home' = Home /\ Other' = Other
    BY <1>1 DEF Home, Other
  <2>2. IsSettled(Other)' = IsSettled(Other) /\ req'[Home] = req[Home]
    BY <1>3, <2>1, Requests DEF IsSettled
  <2> QED
    BY <1>1, <1>4, <2>1, <2>2 DEF MapInv
<1>12. KeptTerminalIsNamed'
  <2>1. IsSettled(Other) \in {0, 1}
    BY <1>3, Requests
  <2>2. kept /\ tm => tty \in tmap
    BY <1>4, <1>5, <2>1 DEF MapInv
  <2> QED
    BY <1>1, <1>7, <2>2 DEF KeptTerminalIsNamed
<1> QED
  BY <1>8, <1>9, <1>10, <1>11, <1>12

\* The call without a callback.
LEMMA SyncKeeps ==
    ASSUME IInv, SyncReaddir \/ SyncStat \/ SyncRead
    PROVE  IInv'
<1> USE DEF IInv
<1>1. /\ pc \in {"syncDev", "syncPts", "statDev", "statPts", "syncRead"}
      /\ UNCHANGED <<alive, tty, spaced, mounted, ptys, up, req, count, tm, fc, kept>>
  BY DEF SyncReaddir, SyncStat, SyncRead, NextDir, StatDir, envVars
<1>2. /\ \A r \in RequestNames : req[r] = "none"
      /\ reply = <<>> /\ Len(reply) = 0 /\ DOMAIN reply = {}
  BY <1>1 DEF JoinInv
<1>3. Successes = {}
  BY <1>2 DEF Successes
\* An exception is an answer too, and ends the call.
<1>4. /\ \/ pc' = "thrown" /\ UNCHANGED <<listed, tmap>> /\ CallBack(TRUE, NoTerm)
         \/ pc = "syncDev" /\ pc' = "statDev" /\ listed' = [listed EXCEPT !["dev"] = Consoles]
            /\ UNCHANGED <<tmap, reply>>
         \/ pc = "syncPts" /\ pc' = "statPts" /\ listed' = [listed EXCEPT !["pts"] = ptys]
            /\ UNCHANGED <<tmap, reply>>
         \/ pc = "syncPts" /\ pc' = "syncRead" /\ ~mounted /\ UNCHANGED <<listed, tmap, reply>>
         \/ pc = "statDev" /\ pc' = "syncPts" /\ tmap' = tmap \cup listed["dev"]
            /\ UNCHANGED <<listed, reply>>
         \/ pc = "statPts" /\ pc' = "syncRead" /\ tmap' = tmap \cup listed["pts"]
            /\ UNCHANGED <<listed, reply>>
         \/ pc = "syncRead" /\ pc' = "returned" /\ CallBackWithTerm(tmap)
            /\ UNCHANGED <<listed, tmap>>
  <2>1. CASE SyncReaddir
    <3>1. pc \in {"syncDev", "syncPts"}
      BY <2>1 DEF SyncReaddir, NextDir
    <3>2. CASE pc = "syncDev"
      <4>1. NextDir[pc] = "dev"
        BY <3>2 DEF NextDir
      <4> QED
        BY <2>1, <3>2, <4>1 DEF SyncReaddir, Throw, Names
    <3>3. CASE pc = "syncPts"
      <4>1. NextDir[pc] = "pts"
        BY <3>3 DEF NextDir
      <4> QED
        BY <2>1, <3>3, <4>1 DEF SyncReaddir, Throw, Names
    <3> QED
      BY <3>1, <3>2, <3>3
  <2>2. CASE SyncStat
    <3>1. pc \in {"statDev", "statPts"}
      BY <2>2 DEF SyncStat, StatDir
    <3>2. CASE pc = "statDev"
      <4>1. StatDir[pc] = "dev"
        BY <3>2 DEF StatDir
      <4> QED
        BY <2>2, <3>2, <4>1 DEF SyncStat, Throw
    <3>3. CASE pc = "statPts"
      <4>1. StatDir[pc] = "pts"
        BY <3>3 DEF StatDir
      <4> QED
        BY <2>2, <3>3, <4>1 DEF SyncStat, Throw
    <3> QED
      BY <3>1, <3>2, <3>3
  <2>3. CASE SyncRead
    BY <2>3 DEF SyncRead, Throw
  <2> QED
    BY <2>1, <2>2, <2>3
<1>5. /\ reply' \in Seq([err : BOOLEAN, term : Terms \cup {NoTerm}])
      /\ pc' \in {"statDev", "statPts", "syncPts", "syncRead"} => reply' = <<>>
      /\ Successes' # {} => pc = "syncRead" /\ pc' = "returned"
      /\ ~spaced /\ tty \in tmap => \A k \in Successes' : reply'[k].term = tty
  <2>1. CASE pc' = "thrown"
    <3>1. CallBack(TRUE, NoTerm) /\ TRUE \in BOOLEAN /\ NoTerm \in Terms \cup {NoTerm}
      BY <1>1, <1>4, <2>1
    <3>2. /\ reply' \in Seq([err : BOOLEAN, term : Terms \cup {NoTerm}])
          /\ Successes' = Successes
      BY <3>1, CallBackAdds
    <3>3. Successes' = {}
      BY <1>3, <3>2
    <3> QED
      BY <2>1, <3>2, <3>3
  <2>2. CASE pc' = "returned"
    <3>1. pc = "syncRead" /\ CallBackWithTerm(tmap)
      BY <1>4, <2>2
    <3>2. PICK t \in Lookup(tmap) : CallBack(FALSE, t)
      BY <3>1 DEF CallBackWithTerm
    <3>3. t \in Terms \cup {NoTerm} /\ (~spaced /\ tty \in tmap => t = tty)
      BY <3>2, LookupType DEF TypeOK
    <3>4. /\ reply' \in Seq([err : BOOLEAN, term : Terms \cup {NoTerm}])
          /\ Successes' \subseteq {Len(reply) + 1}
          /\ reply'[Len(reply) + 1] = [err |-> FALSE, term |-> t]
      BY <1>3, <3>2, <3>3, CallBackAdds
    <3>5. ~spaced /\ tty \in tmap => \A k \in Successes' : reply'[k].term = tty
      BY <3>3, <3>4
    <3> QED
      BY <2>2, <3>1, <3>4, <3>5
  <2>3. CASE pc' \notin {"thrown", "returned"}
    <3>1. reply' = reply
      BY <1>4, <2>3
    <3>2. Successes' = {}
      BY <1>3, <3>1 DEF Successes
    <3> QED
      BY <1>2, <3>1, <3>2 DEF TypeOK
  <2> QED
    BY <2>1, <2>2, <2>3
<1>6. TypeOK'
  <2>1. listed' \in [Dirs -> SUBSET Terms] /\ tmap' \in SUBSET Terms
    BY <1>4 DEF TypeOK, Terms, Dirs
  <2> QED
    BY <1>1, <1>4, <1>5, <2>1 DEF TypeOK
<1>7. EnvInv'
  BY <1>1 DEF EnvInv
<1>8. JoinInv'
  BY <1>1, <1>2, <1>4, <1>5 DEF JoinInv
<1>9. MapInv'
  <2>1. Home' = Home /\ req'[Home] # "data"
    BY <1>1, <1>2, Requests DEF Home
  <2>2. listed \in [Dirs -> SUBSET Terms] /\ {"dev", "pts"} = Dirs
    BY DEF TypeOK, Dirs
  <2>3. kept => tty \in Consoles \cup ptys /\ (~mounted => ptys = {})
    BY DEF EnvInv
  <2> QED
    BY <1>1, <1>4, <2>1, <2>2, <2>3 DEF MapInv
<1>10. KeptTerminalIsNamed'
  BY <1>1, <1>5 DEF KeptTerminalIsNamed, MapInv
<1> QED
  BY <1>6, <1>7, <1>8, <1>9, <1>10

-----------------------------------------------------------------------------
(* The theorems.                                                           *)

LEMMA StepKeeps == IInv /\ [Next]_vars => IInv'
<1> SUFFICES ASSUME IInv, [Next]_vars PROVE IInv'
  OBVIOUS
<1>1. CASE Next
  BY <1>1, EnvironmentKeeps, CallKeeps, ExecKeeps, ErrorCallbackKeeps, ReaddirCallbackKeeps,
     ReadFileCallbackKeeps, SyncKeeps DEF Next
<1>2. CASE UNCHANGED vars
  <2>1. UNCHANGED <<alive, tty, spaced, mounted, ptys, up, pc, req, listed, count, tmap, tm, fc,
                    reply, kept>>
    BY <1>2 DEF vars, envVars
  <2>2. Successes' = Successes /\ Home' = Home /\ Other' = Other
        /\ \A r \in RequestNames : IsSettled(r)' = IsSettled(r)
    BY <2>1 DEF Successes, Home, Other, IsSettled, Flag
  <2>3. TypeOK'
    BY <2>1 DEF IInv, TypeOK, Terms
  <2>4. EnvInv' /\ KeptTerminalIsNamed'
    BY <2>1, <2>2 DEF IInv, EnvInv, KeptTerminalIsNamed
  <2>5. JoinInv'
    BY <2>1, <2>2 DEF IInv, JoinInv, IsSettled, Flag
  <2>6. MapInv'
    BY <2>1, <2>2 DEF IInv, MapInv, IsSettled, Flag
  <2> QED
    BY <2>3, <2>4, <2>5, <2>6 DEF IInv
<1> QED
  BY <1>1, <1>2

\* The equation of JoinInv leaves room for one answer once there is a success.
LEMMA OneAnswer == IInv => SuccessIsTheOnlyAnswer
<1> SUFFICES ASSUME IInv, Successes # {}, pc = "async"
             PROVE  Len(reply) = 1 /\ Settled = RequestNames
  BY DEF SuccessIsTheOnlyAnswer
<1>1. /\ tm /\ fc /\ count = 0 /\ req["stat"] = "settled"
      /\ 2 - count <= IsSettled("dev") + IsSettled("pts")
      /\ IsSettled("dev") + IsSettled("pts") + IsSettled("stat") + Flag(tm /\ fc)
            = (2 - count) + Flag(fc) + Len(reply)
  BY DEF IInv, JoinInv
<1>2. Flag(tm /\ fc) = 1 /\ Flag(fc) = 1 /\ IsSettled("stat") = 1
      /\ IsSettled("dev") \in 0..1 /\ IsSettled("pts") \in 0..1 /\ Len(reply) \in Nat
  BY <1>1 DEF Flag, IsSettled, IInv, TypeOK
<1>3. IsSettled("dev") = 1 /\ IsSettled("pts") = 1 /\ Len(reply) = 1
  <2> DEFINE a == IsSettled("dev")
             b == IsSettled("pts")
             n == Len(reply)
  <2>1. a \in 0..1 /\ b \in 0..1 /\ n \in Nat
    BY <1>2
  <2>2. 2 - count <= a + b
    BY <1>1
  <2>3. a + b + 1 + 1 = (2 - count) + 1 + n
    BY <1>1, <1>2
  <2>4. 2 - count = 2
    BY <1>1
  <2> HIDE DEF a, b, n
  <2>5. a = 1 /\ b = 1 /\ n = 1
    BY <2>1, <2>2, <2>3, <2>4
  <2> QED
    BY <2>5 DEF a, b, n
<1>4. req["dev"] = "settled" /\ req["pts"] = "settled"
  BY <1>3 DEF IsSettled, Flag
<1> QED
  BY <1>1, <1>3, <1>4 DEF Settled, RequestNames, Dirs

\* The inductive invariant holds in every state of every behaviour of the call.
THEOREM Invariance == Spec => []IInv
  BY InitKeeps, StepKeeps, PTL DEF Spec

\* The variables stay what the code's variables can be.
THEOREM TypeCorrect == Spec => []TypeOK
<1>1. IInv => TypeOK
  BY DEF IInv
<1> QED
  BY <1>1, Invariance, PTL

\* A success of the call with a callback is the only answer the caller gets,
\* and it comes when the stat file and both listings have been dealt with.
THEOREM SuccessIsAlone == Spec => []SuccessIsTheOnlyAnswer
  BY Invariance, OneAnswer, PTL

\* If the process and its terminal stay, and the name of the process has no
\* space in it, a success names that terminal, in either form of the call and whatever other terminals open and close.
THEOREM TerminalIsNamed == Spec => []KeptTerminalIsNamed
<1>1. IInv => KeptTerminalIsNamed
  BY DEF IInv
<1> QED
  BY <1>1, Invariance, PTL
================================================================================
