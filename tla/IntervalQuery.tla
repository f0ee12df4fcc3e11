----------------------------- MODULE IntervalQuery -----------------------------
(***************************************************************************)
(* What a query over a changing set of kernel objects promises its caller. *)
(* nsutil reads /proc while the observed process goes on running: its      *)
(* threads start and exit and its descriptors open and close between two   *)
(* system calls of one query.  No answer can be a snapshot; the promise is *)
(* an interval one.  A call is answered at most once, and an answer without*)
(* an error names every item that was there during the whole call and no   *)
(* item that was never there during the call.  An error is given only when *)
(* an item disappeared under the query, there is nothing to look at, or    *)
(* the caller ran out of what it takes to look.  And only a call under     *)
(* which everything disappears may be left without an answer.              *)
(*                                                                         *)
(* proto.threads (module ProcThreads) is shown to implement this module.   *)
(***************************************************************************)
CONSTANTS Calls,   \* the calls made by the program that uses nsutil
          Items    \* what is listed: thread ids

VARIABLES
    present,  \* the items that exist now
    phase,    \* per call: "new", "running", "answered" or "dropped"
    start,    \* per call: the items present when it was made
    ever,     \* per call: the items present at some time during it
    gone,     \* per call: the items that disappeared during it
    fault,    \* per call: a descriptor was wanting during it
    answer    \* per call: the error flag and the items handed to the caller

vars == <<present, phase, start, ever, gone, fault, answer>>

Running == {c \in Calls : phase[c] = "running"}

\* The items that were present from the call until now.
Throughout(c) == start[c] \ gone[c]

NoAnswer == [err |-> FALSE, items |-> {}]

TypeOK ==
    /\ present \in SUBSET Items
    /\ phase \in [Calls -> {"new", "running", "answered", "dropped"}]
    /\ start \in [Calls -> SUBSET Items]
    /\ ever \in [Calls -> SUBSET Items]
    /\ gone \in [Calls -> SUBSET Items]
    /\ fault \in [Calls -> BOOLEAN]
    /\ answer \in [Calls -> [err : BOOLEAN, items : SUBSET Items]]

Init ==
    /\ present \in SUBSET Items
    /\ phase = [c \in Calls |-> "new"]
    /\ start = [c \in Calls |-> {}]
    /\ ever = [c \in Calls |-> {}]
    /\ gone = [c \in Calls |-> {}]
    /\ fault = [c \in Calls |-> FALSE]
    /\ answer = [c \in Calls |-> NoAnswer]

Appear(i) ==
    /\ i \notin present
    /\ present' = present \cup {i}
    /\ ever' = [c \in Calls |-> IF c \in Running THEN ever[c] \cup {i} ELSE ever[c]]
    /\ UNCHANGED <<phase, start, gone, fault, answer>>

\* One item goes, or all of them when the process ends.
Vanish(S) ==
    /\ S # {} /\ S \subseteq present
    /\ present' = present \ S
    /\ gone' = [c \in Calls |-> IF c \in Running THEN gone[c] \cup S ELSE gone[c]]
    /\ UNCHANGED <<phase, start, ever, fault, answer>>

Fault(c) ==
    /\ phase[c] = "running"
    /\ fault' = [fault EXCEPT ![c] = TRUE]
    /\ UNCHANGED <<present, phase, start, ever, gone, answer>>

Ask(c) ==
    /\ phase[c] = "new"
    /\ phase' = [phase EXCEPT ![c] = "running"]
    /\ start' = [start EXCEPT ![c] = present]
    /\ ever' = [ever EXCEPT ![c] = present]
    /\ UNCHANGED <<present, gone, fault, answer>>

Answer(c) ==
    /\ phase[c] = "running"
    /\ \E e \in BOOLEAN, S \in SUBSET ever[c] :
          /\ IF e THEN gone[c] # {} \/ present = {} \/ fault[c]
                  ELSE Throughout(c) \subseteq S
          /\ answer' = [answer EXCEPT ![c] = [err |-> e, items |-> S]]
    /\ phase' = [phase EXCEPT ![c] = "answered"]
    /\ UNCHANGED <<present, start, ever, gone, fault>>

\* Everything has gone under the query, and the caller is never told.
Drop(c) ==
    /\ phase[c] = "running" /\ present = {} /\ gone[c] # {}
    /\ phase' = [phase EXCEPT ![c] = "dropped"]
    /\ UNCHANGED <<present, start, ever, gone, fault, answer>>

Next ==
    \/ \E i \in Items : Appear(i)
    \/ \E S \in SUBSET Items : Vanish(S)
    \/ \E c \in Calls : Fault(c) \/ Ask(c) \/ Answer(c) \/ Drop(c)

\* The callee owes an answer to a call it has not dropped; nobody owes a call, a new item or an exit.
Spec == Init /\ [][Next]_vars /\ \A c \in Calls : WF_vars(Answer(c))
================================================================================
