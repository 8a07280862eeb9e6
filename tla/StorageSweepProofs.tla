------------------------- MODULE StorageSweepProofs -------------------------
(***************************************************************************)
(* Theorems about StorageSweep, for any set of writers and any bounds.     *)
(***************************************************************************)
EXTENDS StorageSweep, FiniteSetTheorems, WellFoundedInduction, TLAPS

-----------------------------------------------------------------------------
(* As much of the types as the other invariants need.                      *)

Pc == {"idle", "create", "head", "put", "verify", "act", "reread", "lock",
       "confirm", "commit", "done"}

Typed ==
  /\ prefix \in {"evidence", "views"}
  /\ lastVersion \in Nat /\ stored \subseteq 1 .. lastVersion
  /\ wpc \in [Writer -> Pc] /\ held \in [Writer -> Nat]
  /\ lock \in Writer \cup {Sweep, NoOne}
  /\ spc \in {"idle", "check", "delete", "deleting", "recheck"}
  /\ gone \in Nat /\ unrecorded \in Int

(* Only while it deletes a view does the sweep hold the key's lock, or has *)
(* it lost it.                                                             *)
LockInv ==
  lock = Sweep \/ lost => prefix = "views" /\ spc \in {"delete", "deleting"}

(* The two sides of the key's lock: a compilation that is recording its    *)
(* view, with the view confirmed, and a sweep that found no reference.     *)
ViewInv ==
  prefix = "views" =>
    /\ \A w \in Writer :
         /\ wpc[w] \notin {"create", "act", "reread"}
         /\ wpc[w] \in {"confirm", "commit"} => lock = w
    /\ spc \in {"delete", "deleting"} => lost \/ (lock = Sweep /\ refs = {})
    /\ ~ alarm /\ ~ lost =>
         /\ refs \subseteq stored
         /\ \A w \in Writer : wpc[w] = "commit" => held[w] \in stored

(* What was deleted and not recorded yet is what this visit deleted.       *)
CountInv ==
  ~ alarm =>
    /\ spc \in {"idle", "check", "delete"} => gone = 0 /\ unrecorded = 0
    /\ spc = "deleting" => unrecorded = gone
    /\ spc = "recheck" => unrecorded = 0

(* Until the next deletion, the versions records or open acts name are in  *)
(* the store, or were named by an act open at a second look.               *)
OpenInv ==
  prefix = "evidence" /\ ~ alarm /\ spc \in {"idle", "check", "delete"} =>
    (refs \cup InOpenActs) \ stored \subseteq unseen

(* Conditional creates are the only puts.                                  *)
OnceInv ==
  prefix = "evidence" /\ conditional =>
    /\ \A w \in Writer : wpc[w] # "put"
    /\ \A u, v \in stored : u = v

(* The rest of the types: versions that are named have been put.           *)
NamedInv ==
  /\ young \subseteq stored
  /\ refs \subseteq 1 .. lastVersion
  /\ \A w \in Writer : held[w] <= lastVersion
  /\ \A w \in Writer : wpc[w] = "commit" => held[w] >= 1

IInv == Typed /\ LockInv /\ ViewInv /\ CountInv /\ OpenInv /\ OnceInv /\ NamedInv

-----------------------------------------------------------------------------
(* The greatest version.                                                   *)

(* A nonempty set of naturals with a bound has a greatest element: the     *)
(* distance to the bound has a least one.                                  *)
LEMMA MaxExists ==
  ASSUME NEW n \in Nat, NEW S, S \subseteq 1 .. n, S # {}
  PROVE  Max(S) \in S
<1> DEFINE T == {n - x : x \in S}
<1>1. T \subseteq Nat
  <2>1. \A x \in S : x \in Nat /\ x <= n
    OBVIOUS
  <2> QED BY <2>1
<1>2. T # {}
  OBVIOUS
<1>3. PICK d \in T : \A e \in T : <<e, d>> \notin OpToRel(<, Nat)
  BY <1>1, <1>2, NatLessThanWellFounded, WFMin
<1>4. PICK m \in S : d = n - m
  OBVIOUS
<1>5. ASSUME NEW y \in S PROVE m >= y
  <2>1. n - y \in T /\ n - y \in Nat /\ d \in Nat
    BY <1>1
  <2>2. ~ (n - y < d)
    BY <2>1, <1>3 DEF OpToRel
  <2>3. y \in Nat /\ m \in Nat
    OBVIOUS
  <2> QED BY <2>2, <2>3, <1>4
<1> QED BY <1>4, <1>5 DEF Max

(* The version adopted is one that is stored.                              *)
LEMMA CurrentIsStored ==
  ASSUME Typed, stored # {}
  PROVE  Current \in stored
BY MaxExists DEF Typed, Current

-----------------------------------------------------------------------------
(* Which steps leave what alone.                                           *)

WriterAct(w) == WriterStep(w) \/ RefuseRecord(w) \/ WriterCrashes(w) \/ Again(w)
SweepAct == SweepStep \/ SweepFails \/ LoseClaim

(* A writer never touches the sweep, removes a version, or takes a lock    *)
(* that another has.                                                       *)
LEMMA WriterFrame ==
  ASSUME NEW w \in Writer, WriterAct(w)
  PROVE  /\ UNCHANGED <<rigid, sweepVars>> /\ stored \subseteq stored'
         /\ lock' = lock \/ (lock = NoOne /\ lock' = w) \/ (lock = w /\ lock' = NoOne)
BY DEF WriterAct, WriterStep, RefuseRecord, WriterCrashes, Again, Start,
   CreateIfAbsent, HeadObject, PutObject, Verify, RecordEvidence, Reread,
   LockStoredKey, ConfirmStored, CommitRecord, BytesAreGone, EndAttempt, Goto,
   Adopt, PutVersion, storeVars

(* The sweep never touches a writer or a reference.                        *)
LEMMA SweepFrame ==
  ASSUME SweepAct
  PROVE  UNCHANGED <<rigid, writerVars, refs, lastVersion>>
BY DEF SweepAct, SweepStep, SweepFails, LoseClaim, ListKey, Check, ListVersions,
   DeleteVersion, RecordCollection, Recheck, RecordFails, EndVisit, SweepGoto,
   storeVars

-----------------------------------------------------------------------------
(* Types.                                                                  *)

LEMMA TypedStep ==
  ASSUME Typed, [Next]_vars
  PROVE  Typed'
<1> USE SweepAssumption
<1>1. CASE UNCHANGED vars
  BY <1>1 DEF Typed, vars, rigid, storeVars, writerVars, sweepVars
<1>2. CASE GraceElapses
  BY <1>2 DEF Typed, GraceElapses, rigid, writerVars, sweepVars
<1>3. ASSUME NEW w \in Writer, WriterAct(w) PROVE Typed'
  <2>1. UNCHANGED <<prefix, spc, gone, unrecorded>>
    BY <1>3, WriterFrame DEF rigid, sweepVars
  <2>2. ASSUME NEW next \in Pc, PutVersion(w, next), lock' = lock PROVE Typed'
    BY <2>1, <2>2 DEF Typed, PutVersion
  <2>3. ASSUME NEW next \in Pc, Goto(w, next), lock' \in {lock, w} PROVE Typed'
    BY <2>1, <2>3 DEF Typed, Goto, storeVars
  <2>4. ASSUME NEW next \in Pc, EndAttempt(w, next), UNCHANGED storeVars
        PROVE  Typed'
    BY <2>1, <2>4 DEF Typed, EndAttempt, storeVars
  <2>5. ASSUME NEW next \in Pc, Adopt(w, next), stored # {}, lock' = lock
        PROVE  Typed'
    <3>1. Current \in stored
      BY <2>5, CurrentIsStored
    <3>2. Current \in Nat
      BY <3>1 DEF Typed
    <3> QED BY <2>1, <2>5, <3>2 DEF Typed, Adopt, storeVars
  <2>6. CASE Start(w)
    BY <2>6, <2>3 DEF Start, Pc
  <2>7. CASE CreateIfAbsent(w)
    BY <2>7, <2>2, <2>3 DEF CreateIfAbsent, Pc
  <2>8. CASE HeadObject(w)
    BY <2>8, <2>5, <2>3 DEF HeadObject, Pc
  <2>9. CASE PutObject(w)
    BY <2>9, <2>2 DEF PutObject, Pc
  <2>10. CASE Verify(w)
    BY <2>10, <2>3 DEF Verify, Pc
  <2>11. CASE RecordEvidence(w)
    BY <2>11, <2>5 DEF RecordEvidence, Pc
  <2>12. CASE Reread(w)
    BY <2>12, <2>3 DEF Reread, Pc
  <2>13. CASE LockStoredKey(w)
    BY <2>13, <2>3 DEF LockStoredKey, Pc
  <2>14. CASE ConfirmStored(w)
    BY <2>14, <2>3 DEF ConfirmStored, Pc
  <2>15. CASE CommitRecord(w)
    BY <2>15, <2>4 DEF CommitRecord, Pc
  <2>16. CASE BytesAreGone(w)
    BY <2>16, <2>4 DEF BytesAreGone, Pc
  <2>17. CASE RefuseRecord(w)
    BY <2>17, <2>4 DEF RefuseRecord, Pc
  <2>18. CASE WriterCrashes(w)
    BY <2>18, <2>4 DEF WriterCrashes, Pc
  <2>19. CASE Again(w)
    BY <2>19, <2>3 DEF Again, Pc
  <2> QED BY <1>3, <2>6, <2>7, <2>8, <2>9, <2>10, <2>11, <2>12, <2>13, <2>14,
             <2>15, <2>16, <2>17, <2>18, <2>19 DEF WriterAct, WriterStep
<1>4. CASE SweepAct
  <2>1. UNCHANGED <<prefix, lastVersion, wpc, held>>
    BY <1>4, SweepFrame DEF rigid, writerVars
  <2>2. ASSUME stored' \subseteq stored, lock' \in {lock, Sweep, NoOne},
               spc' \in {"idle", "check", "delete", "deleting", "recheck"},
               gone' \in Nat, unrecorded' \in Int
        PROVE  Typed'
    BY <2>1, <2>2 DEF Typed
  <2>3. CASE ListKey
    BY <2>3, <2>2 DEF Typed, ListKey, SweepGoto, storeVars
  <2>4. CASE Check
    BY <2>4, <2>2 DEF Typed, Check, EndVisit, SweepGoto, storeVars
  <2>5. CASE ListVersions
    BY <2>5, <2>2 DEF Typed, ListVersions, storeVars
  <2>6. CASE DeleteVersion
    <3>1. stored' \subseteq stored /\ UNCHANGED <<lock, spc>>
      BY <2>6 DEF DeleteVersion
    <3>2. gone' \in Nat /\ unrecorded' \in Int
      BY <2>6 DEF DeleteVersion, Typed
    <3> QED BY <2>2, <3>1, <3>2 DEF Typed
  <2>7. CASE RecordCollection
    <3>1. unrecorded' \in Int
      BY <2>7 DEF Typed, RecordCollection
    <3> QED BY <2>7, <2>2, <3>1
            DEF Typed, RecordCollection, EndVisit, SweepGoto, storeVars
  <2>8. CASE Recheck \/ RecordFails \/ SweepFails
    BY <2>8, <2>2 DEF Typed, Recheck, RecordFails, SweepFails, EndVisit, storeVars
  <2>9. CASE LoseClaim
    BY <2>9, <2>2 DEF Typed, LoseClaim, storeVars
  <2> QED BY <1>4, <2>3, <2>4, <2>5, <2>6, <2>7, <2>8, <2>9
          DEF SweepAct, SweepStep
<1> QED BY <1>1, <1>2, <1>3, <1>4 DEF Next, WriterAct, SweepAct

(* Neither does time, or a stuttering step.                                *)
LEMMA IdleFrame ==
  ASSUME GraceElapses \/ UNCHANGED vars
  PROVE  UNCHANGED <<prefix, conditional, stored, refs, lock, wpc, held, spc, todo,
                     gone, lost, unrecorded, alarm, unseen>>
BY DEF GraceElapses, vars, rigid, storeVars, writerVars, sweepVars

(* Every step is one of these.                                             *)
LEMMA StepCases ==
  ASSUME [Next]_vars
  PROVE  \/ GraceElapses \/ UNCHANGED vars
         \/ \E w \in Writer : WriterAct(w)
         \/ SweepAct
BY DEF Next, WriterAct, SweepAct

-----------------------------------------------------------------------------
(* The key's lock.                                                         *)

LEMMA LockStep ==
  ASSUME LockInv, [Next]_vars
  PROVE  LockInv'
<1>1. CASE GraceElapses \/ UNCHANGED vars
  BY <1>1, IdleFrame DEF LockInv
<1>2. ASSUME NEW w \in Writer, WriterAct(w) PROVE LockInv'
  BY <1>2, WriterFrame, SweepAssumption DEF LockInv, rigid, sweepVars
<1>3. CASE SweepAct
  <2>1. UNCHANGED prefix
    BY <1>3, SweepFrame DEF rigid
  <2>2. CASE ListKey
    BY <2>1, <2>2 DEF LockInv, ListKey, SweepGoto
  <2>3. CASE Check
    BY <2>1, <2>3 DEF LockInv, Check, EndVisit, SweepGoto
  <2>4. CASE ListVersions
    BY <2>1, <2>4 DEF LockInv, ListVersions
  <2>5. CASE DeleteVersion
    BY <2>1, <2>5 DEF LockInv, DeleteVersion
  <2>6. CASE RecordCollection
    BY <2>1, <2>6, SweepAssumption
       DEF LockInv, RecordCollection, EndVisit, SweepGoto
  <2>7. CASE Recheck \/ RecordFails \/ SweepFails
    BY <2>1, <2>7, SweepAssumption
       DEF LockInv, Recheck, RecordFails, SweepFails, EndVisit
  <2>8. CASE LoseClaim
    BY <2>1, <2>8, SweepAssumption DEF LockInv, LoseClaim
  <2> QED BY <1>3, <2>2, <2>3, <2>4, <2>5, <2>6, <2>7, <2>8
          DEF SweepAct, SweepStep
<1> QED BY <1>1, <1>2, <1>3, StepCases

-----------------------------------------------------------------------------
(* Deletions and their records.                                            *)

(* A visit that ended without an alarm, and none before.                   *)
LEMMA VisitEnds ==
  ASSUME NEW alarmed, EndVisit(alarmed)
  PROVE  /\ spc' = "idle" /\ gone' = 0 /\ ~ lost'
         /\ lock' = IF lock = Sweep THEN NoOne ELSE lock
         /\ ~ alarm' => ~ alarm /\ ~ alarmed
BY DEF EndVisit

LEMMA CountStep ==
  ASSUME Typed, CountInv, [Next]_vars
  PROVE  CountInv'
<1>1. CASE GraceElapses \/ UNCHANGED vars
  BY <1>1, IdleFrame DEF CountInv
<1>2. ASSUME NEW w \in Writer, WriterAct(w) PROVE CountInv'
  BY <1>2, WriterFrame DEF CountInv, sweepVars
<1>3. CASE SweepAct
  <2>1. CASE ListKey
    BY <2>1 DEF CountInv, ListKey, SweepGoto
  <2>2. CASE Check
    <3>1. CASE EndVisit(FALSE)
      <4>1. spc' = "idle" /\ gone' = 0 /\ (~ alarm' => ~ alarm)
        BY <3>1, VisitEnds
      <4>2. spc = "check" /\ UNCHANGED unrecorded
        BY <2>2 DEF Check
      <4> QED BY <4>1, <4>2 DEF CountInv
    <3>2. CASE SweepGoto("delete")
      BY <2>2, <3>2 DEF CountInv, Check, SweepGoto
    <3> QED BY <2>2, <3>1, <3>2 DEF Check
  <2>3. CASE ListVersions
    BY <2>3 DEF CountInv, ListVersions
  <2>4. CASE DeleteVersion
    BY <2>4 DEF CountInv, DeleteVersion
  <2>5. CASE RecordCollection
    <3>1. CASE prefix = "evidence"
      BY <2>5, <3>1 DEF Typed, CountInv, RecordCollection, SweepGoto
    <3>2. CASE prefix = "views"
      <4>1. EndVisit(refs # {})
        BY <2>5, <3>2 DEF RecordCollection
      <4>2. spc' = "idle" /\ gone' = 0 /\ (~ alarm' => ~ alarm /\ refs = {})
        BY <4>1, VisitEnds
      <4>3. spc = "deleting" /\ (refs = {} => unrecorded' = unrecorded - gone)
        BY <2>5, <3>2 DEF RecordCollection
      <4> QED BY <4>2, <4>3 DEF Typed, CountInv
    <3> QED BY <3>1, <3>2 DEF Typed
  <2>6. CASE Recheck
    BY <2>6, VisitEnds DEF CountInv, Recheck
  <2>7. CASE RecordFails \/ SweepFails
    BY <2>7, VisitEnds DEF CountInv, RecordFails, SweepFails
  <2>8. CASE LoseClaim
    BY <2>8 DEF CountInv, LoseClaim
  <2> QED BY <1>3, <2>1, <2>2, <2>3, <2>4, <2>5, <2>6, <2>7, <2>8
          DEF SweepAct, SweepStep
<1> QED BY <1>1, <1>2, <1>3, StepCases

-----------------------------------------------------------------------------
(* Compilations and the sweep.                                             *)

(* A writer's step is its own.                                             *)
LEMMA WriterLocal ==
  ASSUME Typed, NEW w \in Writer, WriterAct(w), NEW x \in Writer, x # w
  PROVE  wpc'[x] = wpc[x] /\ held'[x] = held[x]
<1>1. wpc \in [Writer -> Pc] /\ held \in [Writer -> Nat]
  BY DEF Typed
<1> QED BY <1>1 DEF WriterAct, WriterStep, RefuseRecord, WriterCrashes, Again,
        Start, CreateIfAbsent, HeadObject, PutObject, Verify, RecordEvidence,
        Reread, LockStoredKey, ConfirmStored, CommitRecord, BytesAreGone,
        EndAttempt, Goto, Adopt, PutVersion

(* What a compilation's step does, by where it was.                        *)
LEMMA CompilationStep ==
  ASSUME Typed, ViewInv, prefix = "views", NEW w \in Writer, WriterAct(w)
  PROVE  /\ wpc'[w] \notin {"create", "act", "reread"}
         /\ wpc'[w] \in {"confirm", "commit"} => lock' = w
         /\ wpc'[w] = "commit" => held'[w] \in stored
         /\ \/ refs' = refs
            \/ lock = w /\ wpc[w] = "commit" /\ refs' = refs \cup {held[w]}
<1> wpc \in [Writer -> Pc] /\ held \in [Writer -> Nat]
  BY DEF Typed
<1> wpc[w] \notin {"create", "act", "reread"}
    /\ (wpc[w] \in {"confirm", "commit"} => lock = w)
  BY DEF ViewInv
<1>1. ASSUME NEW next \in {"idle", "done"}, EndAttempt(w, next)
      PROVE  wpc'[w] = next
  BY <1>1 DEF EndAttempt
<1>2. ASSUME NEW next, Goto(w, next) PROVE wpc'[w] = next /\ held'[w] = held[w]
  BY <1>2 DEF Goto
<1>3. CASE Start(w)
  BY <1>3, <1>2 DEF Start
<1>4. CASE CreateIfAbsent(w) \/ RecordEvidence(w) \/ Reread(w) \/ Again(w)
  BY <1>4 DEF CreateIfAbsent, RecordEvidence, Reread, Again
<1>5. CASE HeadObject(w)
  BY <1>5, <1>2 DEF HeadObject, Adopt
<1>6. CASE PutObject(w)
  BY <1>6 DEF PutObject, PutVersion
<1>7. CASE Verify(w)
  BY <1>7, <1>2 DEF Verify
<1>8. CASE LockStoredKey(w)
  BY <1>8, <1>2 DEF LockStoredKey
<1>9. CASE ConfirmStored(w)
  BY <1>9, <1>2 DEF ConfirmStored
<1>10. CASE CommitRecord(w)
  BY <1>10, <1>1 DEF CommitRecord
<1>11. CASE BytesAreGone(w)
  BY <1>11, <1>1 DEF BytesAreGone
<1>12. CASE RefuseRecord(w)
  BY <1>12, <1>1 DEF RefuseRecord
<1>13. CASE WriterCrashes(w)
  BY <1>13, <1>1 DEF WriterCrashes
<1> QED BY <1>3, <1>4, <1>5, <1>6, <1>7, <1>8, <1>9, <1>10, <1>11, <1>12, <1>13
        DEF WriterAct, WriterStep

LEMMA ViewStep ==
  ASSUME Typed, LockInv, ViewInv, [Next]_vars
  PROVE  ViewInv'
<1>1. CASE GraceElapses \/ UNCHANGED vars
  BY <1>1, IdleFrame DEF ViewInv
<1>2. ASSUME NEW w \in Writer, WriterAct(w), prefix = "views" PROVE ViewInv'
  <2>1. /\ UNCHANGED <<prefix, spc, lost, alarm>> /\ stored \subseteq stored'
        /\ lock' = lock \/ (lock = NoOne /\ lock' = w) \/ (lock = w /\ lock' = NoOne)
    BY <1>2, WriterFrame DEF rigid, sweepVars
  <2>2. \A x \in Writer : x # w => wpc'[x] = wpc[x] /\ held'[x] = held[x]
    BY <1>2, WriterLocal
  <2>3. /\ wpc'[w] \notin {"create", "act", "reread"}
        /\ wpc'[w] \in {"confirm", "commit"} => lock' = w
        /\ wpc'[w] = "commit" => held'[w] \in stored
        /\ \/ refs' = refs
           \/ lock = w /\ wpc[w] = "commit" /\ refs' = refs \cup {held[w]}
    BY <1>2, CompilationStep
  <2>4. \A x \in Writer : /\ wpc'[x] \notin {"create", "act", "reread"}
                          /\ wpc'[x] \in {"confirm", "commit"} => lock' = x
    BY <1>2, <2>1, <2>2, <2>3, SweepAssumption DEF ViewInv
  <2>5. spc' \in {"delete", "deleting"} => lost' \/ (lock' = Sweep /\ refs' = {})
    BY <1>2, <2>1, <2>3, SweepAssumption DEF ViewInv
  <2>6. ASSUME ~ alarm', ~ lost'
        PROVE  /\ refs' \subseteq stored'
               /\ \A x \in Writer : wpc'[x] = "commit" => held'[x] \in stored'
    <3>1. /\ refs \subseteq stored
          /\ \A x \in Writer : wpc[x] = "commit" => held[x] \in stored
      BY <1>2, <2>1, <2>6 DEF ViewInv
    <3>2. refs' \subseteq stored
      BY <2>3, <3>1
    <3> QED BY <2>1, <2>2, <2>3, <3>1, <3>2
  <2> QED BY <2>4, <2>5, <2>6 DEF ViewInv
<1>3. ASSUME SweepAct, prefix = "views" PROVE ViewInv'
  <2>1. UNCHANGED <<prefix, wpc, held, refs>>
    BY <1>3, SweepFrame DEF rigid, writerVars
  <2>2. ASSUME lock' = lock \/ lock = NoOne \/ lock = Sweep,
               spc' \in {"delete", "deleting"} => lost' \/ (lock' = Sweep /\ refs = {}),
               ~ alarm' /\ ~ lost' =>
                 ~ alarm /\ ~ lost /\ (stored' = stored \/ (lock = Sweep /\ refs = {}))
        PROVE  ViewInv'
    <3>1. \A x \in Writer : /\ wpc'[x] \notin {"create", "act", "reread"}
                            /\ wpc'[x] \in {"confirm", "commit"} => lock' = x
      BY <1>3, <2>1, <2>2, SweepAssumption DEF ViewInv
    <3>2. ASSUME ~ alarm', ~ lost'
          PROVE  /\ refs' \subseteq stored'
                 /\ \A x \in Writer : wpc'[x] = "commit" => held'[x] \in stored'
      BY <1>3, <2>1, <2>2, <3>2, SweepAssumption DEF ViewInv
    <3> QED BY <2>1, <2>2, <3>1, <3>2 DEF ViewInv
  <2>3. CASE ListKey
    <3>1. spc' = "check" /\ (~ alarm' => ~ alarm) /\ (~ lost' => ~ lost)
      BY <2>3 DEF ListKey, SweepGoto
    <3>2. stored' = stored /\ lock' = lock
      BY <2>3 DEF ListKey, storeVars
    <3>3. ~ (spc' \in {"delete", "deleting"})
      BY <3>1
    <3> QED BY <2>2, <3>1, <3>2, <3>3
  <2>4. CASE Check
    <3>1. stored' = stored /\ spc = "check" /\ lock = NoOne /\ ~ lost
      BY <1>3, <2>4 DEF LockInv, Check, storeVars
    <3>2. CASE EndVisit(FALSE)
      <4>1. spc' = "idle" /\ (~ alarm' => ~ alarm) /\ lock' = lock
        BY <3>1, <3>2, VisitEnds, SweepAssumption
      <4>2. ~ (spc' \in {"delete", "deleting"})
        BY <4>1
      <4> QED BY <2>2, <3>1, <4>1, <4>2
    <3>3. CASE refs = {} /\ SweepGoto("delete") /\ lock' = Sweep
      <4>1. ~ alarm' => ~ alarm
        BY <3>3 DEF SweepGoto
      <4> QED BY <2>2, <3>1, <3>3, <4>1
    <3> QED BY <1>3, <2>4, <3>2, <3>3 DEF Check
  <2>5. CASE ListVersions
    BY <1>3, <2>5, <2>2 DEF ViewInv, ListVersions, storeVars
  <2>6. CASE DeleteVersion
    BY <1>3, <2>6, <2>2 DEF ViewInv, DeleteVersion
  <2>7. CASE RecordCollection
    BY <1>3, <2>7, <2>2, VisitEnds DEF RecordCollection, storeVars
  <2>8. CASE Recheck
    BY <1>3, <2>8, <2>2, VisitEnds DEF LockInv, Recheck, storeVars
  <2>9. CASE RecordFails \/ SweepFails
    BY <1>3, <2>9, <2>2, VisitEnds DEF RecordFails, SweepFails, storeVars
  <2>10. CASE LoseClaim
    BY <1>3, <2>10, <2>2 DEF LoseClaim, storeVars
  <2> QED BY <1>3, <2>3, <2>4, <2>5, <2>6, <2>7, <2>8, <2>9, <2>10
          DEF SweepAct, SweepStep
<1>4. prefix' = prefix
  BY StepCases, IdleFrame, WriterFrame, SweepFrame DEF rigid
<1> QED BY <1>1, <1>2, <1>3, <1>4, StepCases DEF ViewInv

-----------------------------------------------------------------------------
(* Ingests and the sweep.                                                  *)

(* What an ingest's step does to the versions that records and open acts   *)
(* name: only a version that is stored, or was named, is named.            *)
LEMMA IngestStep ==
  ASSUME Typed, NEW w \in Writer, WriterAct(w)
  PROVE  (refs \cup InOpenActs)' \subseteq stored \cup refs \cup InOpenActs
<1> wpc \in [Writer -> Pc] /\ held \in [Writer -> Nat]
  BY DEF Typed
<1>1. ASSUME \/ wpc'[w] \notin {"reread", "commit"}
             \/ held'[w] \in stored
             \/ wpc[w] \in {"reread", "commit"} /\ held'[w] = held[w],
             \/ refs' = refs
             \/ wpc[w] \in {"reread", "commit"} /\ refs' = refs \cup {held[w]}
      PROVE  (refs \cup InOpenActs)' \subseteq stored \cup refs \cup InOpenActs
  <2>1. \A x \in Writer : x # w => wpc'[x] = wpc[x] /\ held'[x] = held[x]
    BY WriterLocal
  <2>2. ASSUME NEW v, v \in InOpenActs'
        PROVE  v \in stored \cup refs \cup InOpenActs
    <3>1. PICK x \in Writer : wpc'[x] \in {"reread", "commit"} /\ v = held'[x]
      BY <2>2 DEF InOpenActs
    <3>2. CASE x = w
      BY <1>1, <3>1, <3>2 DEF InOpenActs
    <3>3. CASE x # w
      BY <2>1, <3>1, <3>3 DEF InOpenActs
    <3> QED BY <3>2, <3>3
  <2>3. refs' \subseteq refs \cup InOpenActs
    BY <1>1 DEF InOpenActs
  <2> QED BY <2>2, <2>3
<1>2. ASSUME NEW next, Goto(w, next) PROVE wpc'[w] = next /\ held'[w] = held[w]
  BY <1>2 DEF Goto
<1>3. ASSUME NEW next \in {"idle", "done"}, EndAttempt(w, next)
      PROVE  wpc'[w] = next
  BY <1>3 DEF EndAttempt
<1>4. ASSUME NEW next \in {"verify"}, PutVersion(w, next) PROVE wpc'[w] = next
  BY <1>4 DEF PutVersion
<1>5. CASE Start(w) \/ Verify(w) \/ LockStoredKey(w) \/ Again(w)
  BY <1>5, <1>1, <1>2 DEF Start, Verify, LockStoredKey, Again
<1>6. CASE CreateIfAbsent(w) \/ PutObject(w)
  BY <1>6, <1>1, <1>2, <1>4 DEF CreateIfAbsent, PutObject
<1>7. CASE HeadObject(w)
  <2>1. Adopt(w, "verify") => wpc'[w] = "verify"
    BY DEF Adopt
  <2> QED BY <1>7, <2>1, <1>1, <1>2 DEF HeadObject
<1>8. CASE RecordEvidence(w)
  <2>1. held'[w] = Current /\ refs' = refs /\ stored # {}
    BY <1>8 DEF RecordEvidence, Adopt
  <2> QED BY <2>1, <1>1, CurrentIsStored
<1>9. CASE Reread(w) \/ ConfirmStored(w)
  BY <1>9, <1>1, <1>2 DEF Reread, ConfirmStored
<1>10. CASE CommitRecord(w)
  BY <1>10, <1>1, <1>3 DEF CommitRecord
<1>11. CASE BytesAreGone(w) \/ RefuseRecord(w) \/ WriterCrashes(w)
  BY <1>11, <1>1, <1>3 DEF BytesAreGone, RefuseRecord, WriterCrashes
<1> QED BY <1>5, <1>6, <1>7, <1>8, <1>9, <1>10, <1>11 DEF WriterAct, WriterStep

LEMMA OpenStep ==
  ASSUME Typed, OpenInv, [Next]_vars
  PROVE  OpenInv'
<1>1. CASE GraceElapses \/ UNCHANGED vars
  BY <1>1, IdleFrame DEF OpenInv, InOpenActs
<1>2. ASSUME NEW w \in Writer, WriterAct(w) PROVE OpenInv'
  <2>1. UNCHANGED <<prefix, spc, alarm, unseen>> /\ stored \subseteq stored'
    BY <1>2, WriterFrame DEF rigid, sweepVars
  <2>2. (refs \cup InOpenActs)' \subseteq stored \cup refs \cup InOpenActs
    BY <1>2, IngestStep
  <2> QED BY <2>1, <2>2 DEF OpenInv
<1>3. CASE SweepAct
  <2>1. UNCHANGED <<prefix, refs, InOpenActs>>
    BY <1>3, SweepFrame DEF rigid, writerVars, InOpenActs
  <2>2. ASSUME stored' = stored, unseen' = unseen, ~ alarm' => ~ alarm,
               spc \in {"idle", "check", "delete"}
        PROVE  OpenInv'
    BY <2>1, <2>2 DEF OpenInv
  <2>3. CASE ListKey
    BY <2>3, <2>2 DEF ListKey, SweepGoto, storeVars
  <2>4. CASE Check
    <3>1. ~ alarm' => ~ alarm
      BY <2>4, VisitEnds DEF Check, SweepGoto
    <3> QED BY <2>4, <2>2, <3>1 DEF Check, storeVars
  <2>5. CASE ListVersions \/ DeleteVersion
    BY <2>5 DEF OpenInv, ListVersions, DeleteVersion
  <2>6. CASE RecordCollection
    BY <2>1, <2>6 DEF OpenInv, RecordCollection, SweepGoto
  <2>7. CASE Recheck
    <3>1. ~ alarm' => refs = {}
      BY <2>7, VisitEnds DEF Recheck
    <3>2. unseen' = unseen \cup InOpenActs
      BY <2>7 DEF Recheck
    <3> QED BY <2>1, <3>1, <3>2 DEF OpenInv
  <2>8. CASE RecordFails \/ SweepFails
    <3>1. alarm'
      BY <2>8, VisitEnds DEF RecordFails, SweepFails
    <3> QED BY <3>1 DEF OpenInv
  <2>9. CASE LoseClaim
    BY <2>1, <2>9 DEF OpenInv, LoseClaim, storeVars
  <2> QED BY <1>3, <2>3, <2>4, <2>5, <2>6, <2>7, <2>8, <2>9
          DEF SweepAct, SweepStep
<1> QED BY <1>1, <1>2, <1>3, StepCases

-----------------------------------------------------------------------------
(* Create-only.                                                            *)

LEMMA OnceStep ==
  ASSUME Typed, OnceInv, [Next]_vars
  PROVE  OnceInv'
<1>1. CASE GraceElapses \/ UNCHANGED vars
  BY <1>1, IdleFrame DEF OnceInv
<1>2. ASSUME NEW w \in Writer, WriterAct(w), prefix = "evidence", conditional
      PROVE  OnceInv'
  <2>1. wpc \in [Writer -> Pc] /\ wpc[w] # "put"
    BY <1>2 DEF Typed, OnceInv
  <2>2. \A x \in Writer : x # w => wpc'[x] = wpc[x]
    BY <1>2, WriterLocal
  <2>3. ASSUME wpc'[w] # "put",
               stored' = stored \/ (stored = {} /\ \E v : stored' = {v})
        PROVE  OnceInv'
    BY <1>2, <2>2, <2>3 DEF OnceInv
  <2>4. ASSUME NEW next, next # "put", Goto(w, next) PROVE OnceInv'
    BY <2>1, <2>3, <2>4 DEF Goto, storeVars
  <2>5. ASSUME NEW next, next # "put", EndAttempt(w, next), UNCHANGED storeVars
        PROVE  OnceInv'
    BY <2>1, <2>3, <2>5 DEF EndAttempt, storeVars
  <2>6. ASSUME NEW next, next # "put", Adopt(w, next) PROVE OnceInv'
    BY <2>1, <2>3, <2>6 DEF Adopt, storeVars
  <2>7. CASE Start(w) \/ Verify(w) \/ Reread(w) \/ LockStoredKey(w)
             \/ ConfirmStored(w) \/ Again(w)
    BY <1>2, <2>7, <2>4
       DEF Start, Verify, Reread, LockStoredKey, ConfirmStored, Again
  <2>8. CASE CreateIfAbsent(w)
    <3>1. CASE stored = {} /\ PutVersion(w, "verify")
      <4>1. wpc'[w] = "verify" /\ stored' = {lastVersion + 1}
        BY <2>1, <3>1 DEF PutVersion
      <4> QED BY <2>3, <3>1, <4>1
    <3> QED BY <2>8, <2>4, <3>1 DEF CreateIfAbsent
  <2>9. CASE HeadObject(w)
    BY <1>2, <2>9, <2>4, <2>6 DEF HeadObject
  <2>10. CASE RecordEvidence(w)
    BY <2>10, <2>6 DEF RecordEvidence
  <2>11. CASE CommitRecord(w) \/ BytesAreGone(w) \/ RefuseRecord(w)
              \/ WriterCrashes(w)
    BY <2>11, <2>5 DEF CommitRecord, BytesAreGone, RefuseRecord, WriterCrashes
  <2> QED BY <1>2, <2>1, <2>7, <2>8, <2>9, <2>10, <2>11
          DEF WriterAct, WriterStep, PutObject
<1>3. CASE SweepAct
  <2>1. UNCHANGED <<prefix, conditional, wpc>>
    BY <1>3, SweepFrame DEF rigid, writerVars
  <2>2. stored' \subseteq stored
    BY <1>3 DEF SweepAct, SweepStep, SweepFails, LoseClaim, ListKey, Check,
       ListVersions, DeleteVersion, RecordCollection, Recheck, RecordFails,
       storeVars
  <2> QED BY <2>1, <2>2 DEF OnceInv
<1>4. prefix' = prefix /\ conditional' = conditional
  BY StepCases, IdleFrame, WriterFrame, SweepFrame DEF rigid
<1> QED BY <1>1, <1>2, <1>3, <1>4, StepCases DEF OnceInv

-----------------------------------------------------------------------------
(* Versions that are named have been put.                                  *)

LEMMA NamedStep ==
  ASSUME Typed, NamedInv, [Next]_vars
  PROVE  NamedInv'
<1>1. CASE UNCHANGED vars
  BY <1>1 DEF NamedInv, vars, storeVars, writerVars
<1>2. CASE GraceElapses
  BY <1>2 DEF NamedInv, GraceElapses, writerVars
<1>3. ASSUME NEW w \in Writer, WriterAct(w) PROVE NamedInv'
  <2>1. /\ wpc \in [Writer -> Pc] /\ held \in [Writer -> Nat]
        /\ lastVersion \in Nat /\ stored \subseteq 1 .. lastVersion
    BY DEF Typed
  <2>2. \A x \in Writer : x # w => wpc'[x] = wpc[x] /\ held'[x] = held[x]
    BY <1>3, WriterLocal
  <2>3. ASSUME lastVersion' = lastVersion \/ lastVersion' = lastVersion + 1,
               young' \subseteq stored',
               held'[w] <= lastVersion', wpc'[w] = "commit" => held'[w] >= 1,
               \/ refs' = refs
               \/ wpc[w] = "commit" /\ refs' = refs \cup {held[w]}
        PROVE  NamedInv'
    <3>1. refs' \subseteq 1 .. lastVersion
      <4>1. wpc[w] = "commit" => held[w] \in 1 .. lastVersion
        BY <2>1 DEF NamedInv
      <4>2. refs \subseteq 1 .. lastVersion
        BY DEF NamedInv
      <4> QED BY <2>3, <4>1, <4>2
    <3>2. refs' \subseteq 1 .. lastVersion'
      BY <2>1, <2>3, <3>1
    <3>3. \A x \in Writer : /\ held'[x] <= lastVersion'
                            /\ wpc'[x] = "commit" => held'[x] >= 1
      BY <2>1, <2>2, <2>3 DEF NamedInv
    <3> QED BY <2>3, <3>2, <3>3 DEF NamedInv
  <2>4. ASSUME NEW next, Goto(w, next), refs' = refs,
               next = "commit" => held[w] \in stored
        PROVE  NamedInv'
    <3>1. /\ held' = held /\ wpc'[w] = next
          /\ UNCHANGED <<lastVersion, young, stored>>
      BY <2>1, <2>4 DEF Goto, storeVars
    <3> QED BY <2>1, <2>3, <2>4, <3>1 DEF NamedInv
  <2>5. ASSUME NEW next \in {"idle", "done"}, EndAttempt(w, next),
               UNCHANGED storeVars,
               \/ refs' = refs
               \/ wpc[w] = "commit" /\ refs' = refs \cup {held[w]}
        PROVE  NamedInv'
    <3>1. /\ held'[w] = 0 /\ wpc'[w] = next
          /\ UNCHANGED <<lastVersion, young, stored>>
      BY <2>1, <2>5 DEF EndAttempt, storeVars
    <3> QED BY <2>1, <2>3, <2>5, <3>1 DEF NamedInv
  <2>6. ASSUME NEW next \in {"verify", "reread"}, Adopt(w, next), stored # {},
               refs' = refs
        PROVE  NamedInv'
    <3>1. /\ held'[w] = Current /\ wpc'[w] = next
          /\ UNCHANGED <<lastVersion, young, stored>>
      BY <2>1, <2>6 DEF Adopt, storeVars
    <3>2. Current \in stored
      BY <2>6, CurrentIsStored
    <3>3. Current <= lastVersion
      BY <2>1, <3>2
    <3> QED BY <2>1, <2>3, <2>6, <3>1, <3>3 DEF NamedInv
  <2>7. ASSUME PutVersion(w, "verify"), refs' = refs PROVE NamedInv'
    <3>1. /\ lastVersion' = lastVersion + 1 /\ held'[w] = lastVersion + 1
          /\ wpc'[w] = "verify" /\ young' \subseteq stored'
      BY <2>1, <2>7 DEF PutVersion, NamedInv
    <3> QED BY <2>1, <2>3, <2>7, <3>1
  <2>8. CASE Start(w) \/ Verify(w) \/ Reread(w) \/ LockStoredKey(w)
             \/ ConfirmStored(w) \/ Again(w)
    BY <2>8, <2>4
       DEF Start, Verify, Reread, LockStoredKey, ConfirmStored, Again
  <2>9. CASE CreateIfAbsent(w) \/ PutObject(w)
    BY <2>9, <2>4, <2>7 DEF CreateIfAbsent, PutObject
  <2>10. CASE HeadObject(w) \/ RecordEvidence(w)
    BY <2>10, <2>4, <2>6 DEF HeadObject, RecordEvidence
  <2>11. CASE CommitRecord(w)
    BY <2>11, <2>5 DEF CommitRecord
  <2>12. CASE BytesAreGone(w) \/ RefuseRecord(w) \/ WriterCrashes(w)
    BY <2>12, <2>5 DEF BytesAreGone, RefuseRecord, WriterCrashes
  <2> QED BY <1>3, <2>8, <2>9, <2>10, <2>11, <2>12 DEF WriterAct, WriterStep
<1>4. CASE SweepAct
  <2>1. UNCHANGED <<wpc, held, refs, lastVersion>>
    BY <1>4, SweepFrame DEF writerVars
  <2>2. young' \subseteq stored'
    BY <1>4 DEF NamedInv, SweepAct, SweepStep, SweepFails, LoseClaim, ListKey,
       Check, ListVersions, DeleteVersion, RecordCollection, Recheck,
       RecordFails, storeVars
  <2> QED BY <2>1, <2>2 DEF NamedInv
<1> QED BY <1>1, <1>2, <1>3, <1>4, StepCases

-----------------------------------------------------------------------------
(* The theorems.                                                           *)

LEMMA InvInit == Init => IInv
<1> SUFFICES ASSUME Init PROVE IInv
  OBVIOUS
<1>1. Typed
  BY DEF Init, Typed, Pc
<1>2. LockInv
  BY SweepAssumption DEF Init, LockInv
<1>3. ViewInv
  BY DEF Init, ViewInv
<1>4. CountInv
  BY DEF Init, CountInv
<1>5. OpenInv
  BY DEF Init, OpenInv, InOpenActs
<1>6. OnceInv
  BY DEF Init, OnceInv
<1>7. NamedInv
  BY DEF Init, NamedInv
<1> QED BY <1>1, <1>2, <1>3, <1>4, <1>5, <1>6, <1>7 DEF IInv

(* The invariant of the whole protocol: types, who holds the key's lock,   *)
(* what a compilation under it and a sweep under it may rely on, what is   *)
(* deleted but not recorded, and what is named but not stored.             *)
THEOREM Invariance == Spec => []IInv
<1>1. IInv /\ [Next]_vars => IInv'
  BY TypedStep, LockStep, ViewStep, CountStep, OpenStep, OnceStep, NamedStep
     DEF IInv
<1> QED BY InvInit, <1>1, PTL DEF Spec

(* Every variable has its type, and the sweep deletes a view only with the *)
(* lock content.claim_unreferenced_compiled_view took, or having lost it.  *)
THEOREM TypeCorrectness == Spec => []TypeOK
<1>1. IInv => TypeOK
  <2>1. ASSUME IInv PROVE TypeOK
    <3>1. \A w \in Writer : held[w] \in 0 .. lastVersion
      BY <2>1 DEF IInv, Typed, NamedInv
    <3>2. prefix = "views" /\ spc \in {"delete", "deleting"} => lost \/ lock = Sweep
      BY <2>1 DEF IInv, ViewInv
    <3> QED BY <2>1, <3>1, <3>2 DEF IInv, Typed, NamedInv, TypeOK
  <2> QED BY <2>1
<1> QED BY <1>1, Invariance, PTL

(* A compilation and the sweep never cross: while no run of the sweep was  *)
(* refused, died or lost its lock, every view a committed run names is in  *)
(* the store (content.lock_stored_key, confirmStored and the claim).       *)
THEOREM ViewsStay == Spec => []ViewsStayWithTheirRecords
<1>1. IInv => ViewsStayWithTheirRecords
  BY DEF IInv, ViewInv, ViewsStayWithTheirRecords
<1> QED BY <1>1, Invariance, PTL

(* Between visits, and with no run refused or dead, every version the      *)
(* sweep deleted is accounted for (record_orphan_collection).              *)
THEOREM DeletionsRecorded == Spec => []DeletionsAreRecorded
<1>1. IInv => DeletionsAreRecorded
  BY DEF IInv, CountInv, DeletionsAreRecorded
<1> QED BY <1>1, Invariance, PTL

(* The bytes a quiet sweep can have destroyed are those of acts that were  *)
(* open, with their bytes verified, when it looked the second time: the    *)
(* whole of the window orphans.ts describes.                               *)
THEOREM OnlyOpenActsLose == Spec => []OnlyOpenActsLoseBytes
<1>1. IInv => OnlyOpenActsLoseBytes
  <2>1. ASSUME IInv, spc = "idle", ~ alarm, prefix = "evidence"
        PROVE  refs \ stored \subseteq unseen
    BY <2>1 DEF IInv, OpenInv
  <2>2. ASSUME IInv, spc = "idle", ~ alarm, prefix = "views"
        PROVE  refs \ stored \subseteq unseen
    <3>1. ~ lost
      BY <2>2 DEF IInv, LockInv
    <3> QED BY <2>2, <3>1 DEF IInv, ViewInv
  <2> QED BY <2>1, <2>2 DEF IInv, Typed, OnlyOpenActsLoseBytes
<1> QED BY <1>1, Invariance, PTL

(* Where the store serializes conditional creates, an evidence key never   *)
(* has a second version (putIfAbsent with If-None-Match).                  *)
THEOREM WrittenOnce == Spec => []EvidenceIsWrittenOnce
<1>1. IInv => EvidenceIsWrittenOnce
  <2>1. ASSUME IInv, prefix = "evidence", conditional
        PROVE  Cardinality(stored) <= 1
    <3>1. CASE stored = {}
      BY <3>1, FS_EmptySet
    <3>2. CASE stored # {}
      <4>1. PICK v : stored = {v}
        BY <2>1, <3>2 DEF IInv, OnceInv
      <4>2. Cardinality({v}) = 1
        BY FS_Singleton
      <4> QED BY <4>1, <4>2
    <3> QED BY <3>1, <3>2
  <2> QED BY <2>1 DEF EvidenceIsWrittenOnce
<1> QED BY <1>1, Invariance, PTL
=============================================================================
