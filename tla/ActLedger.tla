----------------------------- MODULE ActLedger -----------------------------
(***************************************************************************)
(* What the action kernel promises: one ledger of acts, in one order, in   *)
(* which every act was legal at its own position.  The log alone decides   *)
(* an object's state and version; there are no sessions, locks or          *)
(* partial writes.  An act is the record ActionDispatch writes to          *)
(* core.action.                                                            *)
(***************************************************************************)
EXTENDS Naturals, Sequences, FiniteSets

CONSTANTS Initial, Creator, Start, Transition, Restricted, None

VARIABLE log

LastBefore(l, i, o) ==
  CHOOSE j \in 1 .. (i - 1) :
    /\ o \in l[j].targets
    /\ \A k \in (j + 1) .. (i - 1) : o \notin l[k].targets

NamedBefore(l, i, o) == \E j \in 1 .. (i - 1) : o \in l[j].targets

FirstAct(l, o) ==
  CHOOSE j \in 1 .. Len(l) :
    o \in l[j].targets /\ \A k \in 1 .. (j - 1) : o \notin l[k].targets

StateAt(l, i, o) ==
  IF NamedBefore(l, i, o) THEN l[LastBefore(l, i, o)].after[o] ELSE Start

Moves(type) == \E tr \in Transition : tr.type = type

VersionAt(l, i, o) ==
  1 + Cardinality({j \in 1 .. (i - 1) : o \in l[j].targets /\ Moves(l[j].type)})

CreatorOf(l, o) ==
  IF o \in Initial THEN Creator[o] ELSE l[FirstAct(l, o)].sem.actor

Legal(l, i) ==
  LET a == l[i] IN
  /\ \A j \in 1 .. (i - 1) : <<l[j].type, l[j].key>> # <<a.type, a.key>>
  /\ \A o \in a.targets :
       /\ a.before[o] = StateAt(l, i, o)
       /\ IF Moves(a.type)
          THEN [type |-> a.type, from |-> a.before[o], to |-> a.after[o]] \in Transition
          ELSE a.after[o] = a.before[o]
       /\ a.type \in Restricted => CreatorOf(l, o) # a.sem.actor
  /\ a.sem.expects # None =>
       \A o \in a.sem.targets : VersionAt(l, i, o) = a.sem.expects

Init == log = << >>

(* One transaction: one act, or the acts of a composed transaction.        *)
Record ==
  /\ Len(log') > Len(log)
  /\ SubSeq(log', 1, Len(log)) = log
  /\ \A i \in (Len(log) + 1) .. Len(log') : Legal(log', i)

Spec == Init /\ [][Record]_log
=============================================================================
