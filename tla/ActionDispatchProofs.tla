------------------------ MODULE ActionDispatchProofs ------------------------
(***************************************************************************)
(* Theorems about ActionDispatch, for every set of sessions, objects,      *)
(* transitions and plans.                                                  *)
(***************************************************************************)
EXTENDS ActionDispatch, TLAPS

-----------------------------------------------------------------------------
(* Type correctness.                                                       *)

(* What TypeOK needs to be inductive: pending acts are typed too, a        *)
(* pending row is never "absent", and the rows an act is about to move     *)
(* exist.                                                                  *)
PendingOK ==
  /\ DOMAIN acts = Tx /\ DOMAIN links = Tx /\ DOMAIN prev = Tx
  /\ \A t \in Tx : \A a \in acts[t] :
       a.id \in Tx \X Nat \X Nat /\ Slot(a) \in Type \X Key
  /\ \A t \in Tx : \A o \in Object : rows[t][o] # Absent
  /\ \A t \in Tx : pc[t] = "rows" => \A o \in want[t] : View(t, o) # Absent

TypeInv == TypeOK /\ PendingOK

(* A request of a plan has the fields of a request.                        *)
LEMMA ReqType ==
  ASSUME TypeOK, NEW t \in Tx
  PROVE  Req(t) \in Request
BY PlanAssumption DEF TypeOK, Req

(* A row that is there is in a lifecycle state.                            *)
LEMMA ViewType ==
  ASSUME TypeOK, NEW t \in Tx, NEW o \in Object
  PROVE  View(t, o) \in Row
<1>1. rows[t][o] \in Row \cup {None} /\ obj[o] \in Row
  BY DEF TypeOK
<1> QED BY <1>1 DEF View

(* An acceptable act moves an existing row to a lifecycle state.           *)
LEMMA NextStateType ==
  ASSUME NEW r \in Request, NEW from \in State, LegalMove(r, from)
  PROVE  NextState(r, from) \in State
<1>1. Permitted(r.type, from) \subseteq State
  BY TransitionAssumption DEF Permitted
<1>2. CASE Permitted(r.type, from) = {}
  BY <1>2 DEF NextState
<1>3. CASE Permitted(r.type, from) # {} /\ Ambiguous(Permitted(r.type, from))
  BY <1>1, <1>3 DEF NextState, LegalMove
<1>4. CASE Permitted(r.type, from) # {} /\ ~ Ambiguous(Permitted(r.type, from))
  BY <1>1, <1>4 DEF NextState
<1> QED BY <1>2, <1>3, <1>4

(* None is not a row, nor the absence of one.                              *)
LEMMA NoneIsNoRow == None # Absent /\ None \notin Row
<1>1. Absent \in [state : State \cup {None}, ver : Nat, by : Actor \cup {None}]
  BY DEF Absent
<1>2. Row \subseteq [state : State \cup {None}, ver : Nat, by : Actor \cup {None}]
  BY <1>1 DEF Row
<1> QED BY <1>1, <1>2, NoneAssumption

LEMMA TypeInit == Init => TypeInv
<1> SUFFICES ASSUME Init PROVE TypeInv
  OBVIOUS
<1>1. TypeOK
  BY ObjectAssumption, StateAssumption, PlanAssumption, AttemptsAssumption
  DEF Init, TypeOK, Row, Active
<1>2. PendingOK
  BY NoneAssumption DEF Init, PendingOK, Absent
<1> QED BY <1>1, <1>2 DEF TypeInv

(* What ending a transaction leaves behind is typed, whatever it committed. *)
LEMMA TypeRelease ==
  ASSUME TypeInv, NEW t \in Tx, Release(t), UNCHANGED <<nextSeq, step, attempt>>,
         \A a \in ledger' : a.id \in Tx \X Nat \X Nat /\ Slot(a) \in Type \X Key,
         obj' \in [Object -> Row],
         \A o \in Object : obj[o] # Absent => obj'[o] # Absent
  PROVE  TypeInv'
<1> USE DEF TypeInv
<1>1. TypeOK'
  BY DEF TypeOK, Release, Active
<1>2. PendingOK'
  <2>1. \A u \in Tx : pc'[u] = "rows" => u # t /\ pc[u] = "rows" /\ want'[u] = want[u]
    BY DEF TypeOK, Release
  <2>2. \A u \in Tx : u # t => rows'[u] = rows[u] /\ acts'[u] = acts[u]
    BY DEF TypeOK, PendingOK, Release
  <2>3. \A o \in Object : rows'[t][o] = None
    BY DEF TypeOK, Release
  <2>4. acts'[t] = {} /\ DOMAIN acts' = Tx /\ DOMAIN links' = Tx /\ DOMAIN prev' = Tx
    BY DEF PendingOK, Release
  <2>5. \A u \in Tx : \A o \in Object : rows'[u][o] # Absent
    BY <2>2, <2>3, NoneIsNoRow DEF PendingOK
  <2>6. ASSUME NEW u \in Tx, pc'[u] = "rows", NEW o \in want'[u]
        PROVE  View(u, o)' # Absent
    <3>1. o \in Object /\ View(u, o) # Absent /\ rows'[u][o] = rows[u][o]
      BY <2>1, <2>2, <2>6 DEF TypeOK, PendingOK
    <3>2. CASE rows[u][o] # None
      BY <3>1, <3>2 DEF View
    <3>3. CASE rows[u][o] = None
      BY <3>1, <3>3 DEF View
    <3> QED BY <3>2, <3>3
  <2>7. \A u \in Tx : \A a \in acts'[u] :
          a.id \in Tx \X Nat \X Nat /\ Slot(a) \in Type \X Key
    BY <2>2, <2>4 DEF PendingOK
  <2> QED BY <2>4, <2>5, <2>6, <2>7 DEF PendingOK
<1> QED BY <1>1, <1>2

LEMMA TypeRollback ==
  ASSUME TypeInv, NEW t \in Tx, Rollback(t)
  PROVE  TypeInv'
<1>1. Release(t) /\ UNCHANGED <<nextSeq, step, attempt>> /\ ledger' = ledger /\ obj' = obj
  BY DEF Rollback, committed
<1> QED BY <1>1, TypeRelease DEF TypeInv, TypeOK

LEMMA TypeCommit ==
  ASSUME TypeInv, NEW t \in Tx, Commit(t)
  PROVE  TypeInv'
<1>1. Release(t) /\ UNCHANGED <<nextSeq, step, attempt>>
  BY DEF Commit
<1>2. \A a \in ledger' : a.id \in Tx \X Nat \X Nat /\ Slot(a) \in Type \X Key
  BY DEF Commit, TypeInv, TypeOK, PendingOK
<1>3. obj' = [o \in Object |-> View(t, o)]
  BY DEF Commit
<1>4. obj' \in [Object -> Row]
  BY <1>3, ViewType DEF TypeInv
<1>5. \A o \in Object : obj[o] # Absent => obj'[o] # Absent
  BY <1>3 DEF View, TypeInv, PendingOK
<1> QED BY <1>1, <1>2, <1>4, <1>5, TypeRelease

LEMMA TypeMaterialize ==
  ASSUME TypeInv, NEW t \in Tx, Materialize(t)
  PROVE  TypeInv'
<1> USE DEF TypeInv
<1> DEFINE created == [state |-> Start, ver |-> 1, by |-> Req(t).actor]
<1>1. Req(t) \in Request
  BY ReqType
<1>2. created \in Row \ {Absent}
  BY <1>1, StateAssumption, NoneAssumption DEF Row, Absent, Request
<1> DEFINE unused == {x \in Object : /\ obj[x] = Absent
                                     /\ \A u \in Tx : rows[u][x] = None}
           choices == IF Req(t).type \in Creates THEN {{o} : o \in unused} ELSE {{}}
<1>3. PICK new \in choices :
        /\ made' = [made EXCEPT ![t] = new]
        /\ rows' = [rows EXCEPT ![t] = [o \in Object |->
                      IF o \in new THEN created ELSE rows[t][o]]]
        /\ rowLock' = [o \in Object |-> IF o \in new THEN t ELSE rowLock[o]]
        /\ want' = [want EXCEPT ![t] =
                      {o \in Req(t).targets : View(t, o) # Absent} \cup new]
  BY DEF Materialize
<1>4. new \in SUBSET Object
  OBVIOUS
<1>5. pc' = [pc EXCEPT ![t] = "rows"] /\ UNCHANGED <<committed, nextSeq, keyLock,
        chainLock, step, attempt, prev, acts, links>>
  BY DEF Materialize
<1>6. Req(t).targets \subseteq Object
  BY <1>1 DEF Request
<1> HIDE DEF created, choices
<1>7. TypeOK'
  BY <1>2, <1>3, <1>5, <1>6, <1>4 DEF TypeOK, Active, committed
<1>8. PendingOK'
  <2>1. \A u \in Tx \ {t} : rows'[u] = rows[u] /\ pc'[u] = pc[u] /\ want'[u] = want[u]
    BY <1>3, <1>5 DEF TypeOK
  <2>2. \A o \in Object : rows'[t][o] = IF o \in new THEN created ELSE rows[t][o]
    BY <1>3 DEF TypeOK
  <2>3. want'[t] = {o \in Req(t).targets : View(t, o) # Absent} \cup new
    BY <1>3 DEF TypeOK
  <2>4. \A u \in Tx : \A o \in Object : rows'[u][o] # Absent
    BY <2>1, <2>2, <1>2 DEF PendingOK
  <2>5. obj' = obj
    BY <1>5 DEF committed
  <2>6. ASSUME NEW u \in Tx, pc'[u] = "rows", NEW o \in want'[u]
        PROVE  View(u, o)' # Absent
    <3>1. CASE u # t
      BY <2>1, <2>5, <2>6, <3>1 DEF PendingOK, View
    <3>2. CASE u = t /\ o \in new
      BY <2>2, <2>4, <2>6, <3>2, <1>2, <1>4, NoneIsNoRow DEF View
    <3>3. CASE u = t /\ o \notin new
      BY <2>2, <2>3, <2>5, <2>6, <3>3, <1>6 DEF View
    <3> QED BY <3>1, <3>2, <3>3
  <2> QED BY <1>5, <2>4, <2>6 DEF PendingOK
<1> QED BY <1>7, <1>8

LEMMA TypeApply ==
  ASSUME TypeInv, NEW t \in Tx, Apply(t)
  PROVE  TypeInv'
<1> USE DEF TypeInv
<1> DEFINE moved(o) == [state |-> After(t)[o], ver |-> View(t, o).ver + 1,
                       by |-> View(t, o).by]
<1>1. Req(t) \in Request /\ pc[t] = "rows" /\ want[t] \subseteq Object
  BY ReqType DEF Apply, TypeOK
<1>2. ASSUME NEW o \in want[t]
      PROVE  moved(o) \in Row \ {Absent}
  <2>1. View(t, o) \in [state : State, ver : Nat, by : Actor]
    BY <1>1, <1>2, ViewType DEF Row, PendingOK
  <2>2. After(t)[o] \in State
    BY <1>1, <1>2, <2>1, NextStateType DEF Apply, Acceptable, After
  <2>3. moved(o) \in [state : State, ver : Nat, by : Actor]
    BY <2>1, <2>2
  <2> QED BY <2>3, StateAssumption DEF Row, Absent
<1>3. /\ rows' = [rows EXCEPT ![t] = [o \in Object |->
                   IF o \in want[t] /\ MovesState(Req(t).type)
                   THEN moved(o) ELSE rows[t][o]]]
      /\ pc' = [pc EXCEPT ![t] = "chain"]
      /\ UNCHANGED <<committed, nextSeq, locks, step, attempt, want, made, prev, links>>
  BY DEF Apply
<1> HIDE DEF moved
<1>4. TypeOK'
  BY <1>2, <1>3 DEF TypeOK, Active, committed, locks
<1>5. ActId(t) \in Tx \X Nat \X Nat /\ Slot(Req(t)) \in Type \X Key
  BY <1>1 DEF TypeOK, ActId, Slot, Request
<1> DEFINE act == [id |-> ActId(t), type |-> Req(t).type, key |-> Req(t).key,
                   sem |-> Semantics(Req(t)), targets |-> want[t],
                   before |-> Before(t), after |-> After(t)]
<1>6. /\ acts' = [acts EXCEPT ![t] = @ \cup {act}]
      /\ act.id = ActId(t) /\ Slot(act) = Slot(Req(t))
  BY DEF Apply, Slot
<1> HIDE DEF act
<1>7. DOMAIN acts' = Tx /\ \A u \in Tx : \A a \in acts'[u] :
        a.id \in Tx \X Nat \X Nat /\ Slot(a) \in Type \X Key
  BY <1>5, <1>6 DEF PendingOK
<1>8. \A u \in Tx : \A o \in Object : rows'[u][o] # Absent
  BY <1>2, <1>3 DEF TypeOK, PendingOK
<1>9. \A u \in Tx : pc'[u] = "rows" => \A o \in want'[u] : View(u, o)' # Absent
  BY <1>3 DEF TypeOK, PendingOK, View, committed
<1> QED BY <1>3, <1>4, <1>7, <1>8, <1>9 DEF PendingOK

(* A step that leaves the records, the pending acts and the pending rows   *)
(* alone, and moves no session to "rows".                                  *)
LEMMA TypeQuiet ==
  ASSUME TypeInv, TypeOK',
         UNCHANGED <<obj, acts, rows, want>>,
         DOMAIN links' = Tx, DOMAIN prev' = Tx,
         \A t \in Tx : pc'[t] = "rows" => pc[t] = "rows"
  PROVE  TypeInv'
BY DEF TypeInv, PendingOK, View

LEMMA TypeNext == TypeInv /\ [Next]_vars => TypeInv'
<1> SUFFICES ASSUME TypeInv, [Next]_vars PROVE TypeInv'
  OBVIOUS
<1> USE DEF committed, locks, writes
<1>1. ASSUME NEW t \in Tx, Begin(t) PROVE TypeInv'
  <2>1. TypeOK'
    BY <1>1, PlanAssumption, AttemptsAssumption DEF Begin, TypeInv, TypeOK, Active
  <2> QED BY <1>1, <2>1, TypeQuiet DEF Begin, TypeInv, TypeOK, PendingOK
<1>2. ASSUME NEW t \in Tx, LockIdempotencyKey(t) PROVE TypeInv'
  <2>1. TypeOK'
    BY <1>2, ReqType DEF LockIdempotencyKey, TypeInv, TypeOK, Active
  <2> QED BY <1>2, <2>1, TypeQuiet DEF LockIdempotencyKey, TypeInv, TypeOK, PendingOK
<1>3. ASSUME NEW t \in Tx, ReplayPriorAction(t) PROVE TypeInv'
  <2>1. TypeOK'
    BY <1>3 DEF ReplayPriorAction, TypeInv, TypeOK, Active
  <2> QED BY <1>3, <2>1, TypeQuiet DEF ReplayPriorAction, TypeInv, TypeOK, PendingOK
<1>4. ASSUME NEW t \in Tx, LockRow(t) PROVE TypeInv'
  <2>1. TypeOK'
    BY <1>4 DEF LockRow, TypeInv, TypeOK, Active
  <2> QED BY <1>4, <2>1, TypeQuiet DEF LockRow, TypeInv, TypeOK, PendingOK
<1>5. ASSUME NEW t \in Tx, LockChain(t) PROVE TypeInv'
  <2>1. TypeOK'
    BY <1>5 DEF LockChain, TypeInv, TypeOK, Active
  <2> QED BY <1>5, <2>1, TypeQuiet DEF LockChain, TypeInv, TypeOK, PendingOK
<1>6. ASSUME NEW t \in Tx, AppendAudit(t) PROVE TypeInv'
  <2>1. TypeOK'
    BY <1>6 DEF AppendAudit, TypeInv, TypeOK, Active
  <2> QED BY <1>6, <2>1, TypeQuiet DEF AppendAudit, TypeInv, TypeOK, PendingOK
<1>7. ASSUME NEW t \in Tx, NextAct(t) PROVE TypeInv'
  <2>1. TypeOK'
    BY <1>7, PlanAssumption DEF NextAct, TypeInv, TypeOK, Active
  <2>2. PendingOK'
    BY <1>7 DEF NextAct, TypeInv, TypeOK, PendingOK, View
  <2> QED BY <2>1, <2>2 DEF TypeInv
<1>8. CASE UNCHANGED vars
  <2>1. TypeOK'
    BY <1>8 DEF vars, TypeInv, TypeOK
  <2> QED BY <1>8, <2>1, TypeQuiet DEF vars, TypeInv, PendingOK
<1> QED
  BY <1>1, <1>2, <1>3, <1>4, <1>5, <1>6, <1>7, <1>8, TypeMaterialize, TypeApply,
     TypeCommit, TypeRollback
  DEF Next, Dispatch, Finished, RefuseReplay, RefuseState, Abort

(* Type correctness of the kernel: in every reachable state every variable *)
(* has its type, and a record is absent or in a lifecycle state.           *)
THEOREM TypeCorrect == Spec => []TypeOK
<1>1. Spec => []TypeInv
  BY TypeInit, TypeNext, PTL DEF Spec
<1> QED BY <1>1, PTL DEF TypeInv

-----------------------------------------------------------------------------
(* Idempotency slots.                                                      *)

Holding == {"replay", "rows", "chain", "audit", "next"}

(* From its lookup on a session holds the advisory lock of its slot; every *)
(* act it has written and not committed is under a slot whose lock it      *)
(* holds; and until it writes, no act under its slot is visible to it.     *)
SlotInv ==
  /\ \A t \in Tx : pc[t] \in Holding => keyLock[Slot(Req(t))] = t
  /\ \A t \in Tx : \A a \in acts[t] : keyLock[Slot(a)] = t
  /\ \A t \in Tx : pc[t] = "rows" => Prior(t) = {}

LEMMA SlotInit == Init => SlotInv
BY DEF Init, SlotInv, Holding

(* Ending a transaction frees only its own slots.  What it adds to the     *)
(* ledger is under slots nobody else is looking at.                        *)
LEMMA SlotRelease ==
  ASSUME TypeInv, SlotInv, NEW t \in Tx, Release(t), UNCHANGED step,
         ledger' \subseteq ledger \cup acts[t]
  PROVE  SlotInv'
<1> USE DEF TypeInv
<1>1. \A u \in Tx : pc'[u] \in Holding => u # t /\ pc'[u] = pc[u]
  BY DEF Release, TypeOK, Holding
<1>2. \A u \in Tx \ {t} : acts'[u] = acts[u]
  BY DEF Release, PendingOK
<1>3. acts'[t] = {}
  BY DEF Release, PendingOK
<1>4. \A k \in Type \X Key : \A u \in Tx \ {t} : keyLock[k] = u => keyLock'[k] = u
  BY NoneAssumption DEF Release, TypeOK
<1>5. \A u \in Tx : Req(u)' = Req(u) /\ Slot(Req(u)) \in Type \X Key
  BY ReqType DEF Req, Slot, Request
<1>6. \A u \in Tx : pc'[u] \in Holding => keyLock'[Slot(Req(u))'] = u
  BY <1>1, <1>4, <1>5 DEF SlotInv
<1>7. \A u \in Tx : \A a \in acts'[u] : keyLock'[Slot(a)] = u
  BY <1>2, <1>3, <1>4 DEF SlotInv, PendingOK
<1>8. ASSUME NEW u \in Tx, pc'[u] = "rows" PROVE Prior(u)' = {}
  <2>1. u # t /\ pc[u] = "rows" /\ Prior(u) = {} /\ keyLock[Slot(Req(u))] = u
    BY <1>1, <1>8 DEF SlotInv, Holding
  <2>2. \A a \in acts[t] : Slot(a) # Slot(Req(u))
    BY <2>1 DEF SlotInv
  <2> QED BY <1>2, <1>5, <2>1, <2>2 DEF Prior, SeenActs
<1> QED BY <1>6, <1>7, <1>8 DEF SlotInv

(* A step of t that leaves slots, acts and ledger alone and does not take  *)
(* t to its write.                                                         *)
LEMMA SlotQuiet ==
  ASSUME TypeInv, SlotInv, NEW t \in Tx,
         UNCHANGED <<ledger, acts, keyLock>>,
         \A u \in Tx \ {t} : pc'[u] = pc[u] /\ step'[u] = step[u],
         \/ pc'[t] \notin Holding
         \/ /\ step'[t] = step[t] /\ pc[t] \in Holding
            /\ pc'[t] = "rows" => Prior(t) = {}
  PROVE  SlotInv'
BY DEF SlotInv, Prior, SeenActs, Req, Holding

LEMMA SlotLock ==
  ASSUME TypeInv, SlotInv, NEW t \in Tx, LockIdempotencyKey(t)
  PROVE  SlotInv'
<1> USE DEF TypeInv
<1>1. \A u \in Tx : Req(u)' = Req(u) /\ Slot(Req(u)) \in Type \X Key
  BY ReqType DEF LockIdempotencyKey, Req, Slot, Request
<1>2. \A k \in Type \X Key : \A u \in Tx : keyLock[k] = u => keyLock'[k] = u
  BY <1>1, NoneAssumption DEF LockIdempotencyKey, Free, TypeOK
<1>3. keyLock'[Slot(Req(t))] = t
  BY <1>1 DEF LockIdempotencyKey, TypeOK
<1>4. \A u \in Tx \ {t} : pc'[u] = pc[u]
  BY DEF LockIdempotencyKey, TypeOK
<1>5. pc'[t] = "replay" /\ acts' = acts /\ ledger' = ledger
  BY DEF LockIdempotencyKey, TypeOK, committed, writes
<1>6. \A u \in Tx : pc'[u] \in Holding => keyLock'[Slot(Req(u))'] = u
  BY <1>1, <1>2, <1>3, <1>4 DEF SlotInv
<1>7. \A u \in Tx : \A a \in acts'[u] : keyLock'[Slot(a)] = u
  BY <1>2, <1>5 DEF SlotInv, PendingOK
<1>8. \A u \in Tx : pc'[u] = "rows" => Prior(u)' = {}
  BY <1>1, <1>4, <1>5 DEF SlotInv, Prior, SeenActs
<1> QED BY <1>6, <1>7, <1>8 DEF SlotInv

LEMMA SlotApply ==
  ASSUME TypeInv, SlotInv, NEW t \in Tx, Apply(t)
  PROVE  SlotInv'
<1> USE DEF TypeInv
<1> DEFINE act == [id |-> ActId(t), type |-> Req(t).type, key |-> Req(t).key,
                   sem |-> Semantics(Req(t)), targets |-> want[t],
                   before |-> Before(t), after |-> After(t)]
<1>1. acts' = [acts EXCEPT ![t] = @ \cup {act}] /\ Slot(act) = Slot(Req(t))
  BY DEF Apply, Slot
<1> HIDE DEF act
<1>2. /\ pc[t] = "rows" /\ pc'[t] = "chain"
      /\ \A u \in Tx \ {t} : pc'[u] = pc[u]
      /\ keyLock' = keyLock /\ step' = step /\ ledger' = ledger
  BY DEF Apply, TypeOK, locks, committed
<1>3. keyLock[Slot(Req(t))] = t
  BY <1>2 DEF SlotInv, Holding
<1>4. \A u \in Tx : pc'[u] \in Holding => keyLock'[Slot(Req(u))'] = u
  BY <1>2, <1>3 DEF SlotInv, Req
<1>5. \A u \in Tx : \A a \in acts'[u] : keyLock'[Slot(a)] = u
  BY <1>1, <1>2, <1>3 DEF SlotInv, PendingOK
<1>6. \A u \in Tx : pc'[u] = "rows" => Prior(u)' = {}
  BY <1>1, <1>2 DEF SlotInv, Prior, SeenActs, Req, PendingOK
<1> QED BY <1>4, <1>5, <1>6 DEF SlotInv

LEMMA SlotNext == TypeInv /\ SlotInv /\ [Next]_vars => SlotInv'
<1> SUFFICES ASSUME TypeInv, SlotInv, [Next]_vars PROVE SlotInv'
  OBVIOUS
<1> USE DEF committed, locks, writes
<1>1. ASSUME NEW t \in Tx, Rollback(t) PROVE SlotInv'
  BY <1>1, SlotRelease DEF Rollback
<1>2. ASSUME NEW t \in Tx, Commit(t) PROVE SlotInv'
  BY <1>2, SlotRelease DEF Commit
<1>3. ASSUME NEW t \in Tx, Begin(t) \/ NextAct(t) PROVE SlotInv'
  <2>1. pc' = [pc EXCEPT ![t] = "key"] /\ UNCHANGED <<ledger, acts, keyLock>>
    BY <1>3 DEF Begin, NextAct
  <2>2. \A u \in Tx \ {t} : pc'[u] = pc[u] /\ step'[u] = step[u]
    BY <1>3 DEF Begin, NextAct, TypeInv, TypeOK
  <2>3. pc'[t] \notin Holding
    BY <2>1 DEF TypeInv, TypeOK, Holding
  <2> QED BY <2>1, <2>2, <2>3, SlotQuiet
<1>4. ASSUME NEW t \in Tx,
             ReplayPriorAction(t) \/ LockRow(t) \/ LockChain(t) \/ AppendAudit(t)
      PROVE  SlotInv'
  <2>1. UNCHANGED <<ledger, acts, keyLock, step>> /\ pc[t] \in Holding
    BY <1>4 DEF ReplayPriorAction, LockRow, LockChain, AppendAudit, Holding
  <2>2. (\A u \in Tx \ {t} : pc'[u] = pc[u]) /\ (pc'[t] = "rows" => pc[t] = "rows")
    BY <1>4 DEF ReplayPriorAction, LockRow, LockChain, AppendAudit, TypeInv, TypeOK
  <2> QED BY <2>1, <2>2, SlotQuiet DEF SlotInv
<1>5. ASSUME NEW t \in Tx, Materialize(t) PROVE SlotInv'
  <2>1. UNCHANGED <<ledger, acts, keyLock, step>> /\ pc[t] \in Holding /\ Prior(t) = {}
    BY <1>5 DEF Materialize, Holding
  <2>2. \A u \in Tx \ {t} : pc'[u] = pc[u]
    BY <1>5 DEF Materialize, TypeInv, TypeOK
  <2> QED BY <2>1, <2>2, SlotQuiet
<1>6. CASE UNCHANGED vars
  BY <1>6 DEF vars, SlotInv, Prior, SeenActs, Req
<1> QED
  BY <1>1, <1>2, <1>3, <1>4, <1>5, <1>6, SlotLock, SlotApply
  DEF Next, Dispatch, Finished, RefuseReplay, RefuseState, Abort

-----------------------------------------------------------------------------
(* The audit chain: every committed history is one unbroken chain with one *)
(* link and one outbox row per act, and the database's backstops never     *)
(* refuse what the dispatcher writes.                                      *)

Id == Tx \X Nat \X Nat
Link == [seq : Nat, act : Id, prev : Seq(Id), digest : Seq(Id)]

-----------------------------------------------------------------------------
(* Sequences of links.                                                     *)

(* A sequence of links that verifies, with sequence numbers below n.       *)
Good(c, n) ==
  /\ c \in Seq(Link)
  /\ Linked(c)
  /\ \A i \in 1 .. Len(c) : c[i].seq < n

LEMMA HeadDigestType ==
  ASSUME NEW c \in Seq(Link)
  PROVE  HeadDigest(c) \in Seq(Id)
<1>1. CASE c = << >>
  BY <1>1 DEF HeadDigest, Genesis
<1>2. CASE c # << >>
  <2>1. c[Len(c)] \in Link
    BY <1>2
  <2> QED BY <1>2, <2>1 DEF HeadDigest, Link
<1> QED BY <1>1, <1>2

(* The sequence number of the head is below the bound of all of them.      *)
LEMMA HeadSeqBound ==
  ASSUME NEW n \in Nat \ {0}, NEW c, Good(c, n)
  PROVE  n > HeadSeq(c)
BY DEF Good, HeadSeq, Link

(* A link that extends the head, under the next sequence number, extends   *)
(* the chain.                                                              *)
LEMMA GoodAppend ==
  ASSUME NEW n \in Nat, NEW c, Good(c, n), NEW l \in Link, l.seq = n,
         l.prev = HeadDigest(c), l.digest = Append(l.prev, l.act)
  PROVE  Good(Append(c, l), n + 1)
<1> DEFINE d == Append(c, l)
<1>1. c \in Seq(Link) /\ Len(c) \in Nat
  BY DEF Good
<1>2. d \in Seq(Link) /\ Len(d) = Len(c) + 1 /\ d[Len(c) + 1] = l
  BY <1>1
<1>3. \A i \in 1 .. Len(c) : d[i] = c[i] /\ c[i] \in Link
  BY <1>1
<1> HIDE DEF d
<1>4. \A i \in 1 .. Len(d) : d[i].seq < n + 1
  <2>1. \A i \in 1 .. Len(c) : d[i].seq < n /\ d[i].seq \in Nat
    BY <1>3 DEF Good, Link
  <2> QED BY <1>1, <1>2, <2>1
<1>5. ASSUME NEW i \in 1 .. Len(d)
      PROVE  /\ d[i].prev = IF i = 1 THEN Genesis ELSE d[i - 1].digest
             /\ d[i].digest = Append(d[i].prev, d[i].act)
             /\ \A j \in 1 .. (i - 1) : d[j].seq < d[i].seq
  <2>1. CASE i \in 1 .. Len(c)
    <3>1. i # 1 => i - 1 \in 1 .. Len(c)
      BY <1>1, <2>1
    <3>2. \A j \in 1 .. (i - 1) : j \in 1 .. Len(c)
      BY <1>1, <2>1
    <3> QED BY <1>3, <2>1, <3>1, <3>2 DEF Good, Linked
  <2>2. CASE i = Len(c) + 1
    <3>1. d[i].prev = IF i = 1 THEN Genesis ELSE d[i - 1].digest
      BY <1>1, <1>2, <1>3, <2>2 DEF HeadDigest
    <3>2. \A j \in 1 .. (i - 1) : d[j].seq < d[i].seq
      BY <1>1, <1>2, <1>3, <2>2 DEF Good
    <3> QED BY <1>2, <2>2, <3>1, <3>2
  <2> QED BY <1>1, <1>2, <2>1, <2>2
<1> QED BY <1>2, <1>4, <1>5 DEF Good, Linked, d

LEMMA GoodNext ==
  ASSUME NEW n \in Nat, NEW c, Good(c, n)
  PROVE  Good(c, n + 1)
<1>1. \A i \in 1 .. Len(c) : c[i] \in Link
  BY DEF Good
<1>2. \A i \in 1 .. Len(c) : c[i].seq \in Nat
  BY <1>1 DEF Link
<1> QED BY <1>2 DEF Good

(* Nothing is added by an empty sequence of links.                         *)
LEMMA ConcatEmpty ==
  ASSUME NEW c \in Seq(Link)
  PROVE  c \o << >> = c
OBVIOUS

LEMMA ConcatAppend ==
  ASSUME NEW c \in Seq(Link), NEW d \in Seq(Link), NEW l \in Link
  PROVE  c \o Append(d, l) = Append(c \o d, l)
OBVIOUS

-----------------------------------------------------------------------------
(* The head.  Only the holder of the chain lock has uncommitted links, and *)
(* what it read as the head still is the head when its link arrives.       *)

HeadInv ==
  /\ nextSeq # 0
  /\ Good(chain, nextSeq)
  /\ \A t \in Tx : links[t] \in Seq(Link) /\ prev[t] \in Seq(Id)
  /\ \A t \in Tx : Good(SeenLinks(t), nextSeq)
  /\ \A t \in Tx : links[t] # << >> => chainLock = t
  /\ \A t \in Tx : pc[t] = "audit" =>
       chainLock = t /\ prev[t] = HeadDigest(SeenLinks(t))

LEMMA HeadInit == Init => HeadInv
<1> SUFFICES ASSUME Init PROVE HeadInv
  OBVIOUS
<1>1. << >> \in Seq(Link) /\ Good(<< >>, nextSeq) /\ Genesis \in Seq(Id)
  BY DEF Good, Linked, Genesis
<1>2. \A t \in Tx : SeenLinks(t) = << >>
  BY <1>1, ConcatEmpty DEF Init, SeenLinks
<1> QED BY <1>1, <1>2 DEF Init, HeadInv

(* A step that touches neither the chain nor its lock.                     *)
LEMMA HeadQuiet ==
  ASSUME HeadInv, UNCHANGED <<chain, links, nextSeq, chainLock, prev>>,
         \A t \in Tx : pc'[t] = "audit" => pc[t] = "audit"
  PROVE  HeadInv'
BY DEF HeadInv, SeenLinks

LEMMA HeadLock ==
  ASSUME TypeInv, HeadInv, NEW t \in Tx, LockChain(t)
  PROVE  HeadInv'
<1> USE DEF TypeInv
<1>1. /\ UNCHANGED <<chain, links, nextSeq>>
      /\ prev' = [prev EXCEPT ![t] = HeadDigest(SeenLinks(t))]
      /\ chainLock' = t /\ chainLock \in {None, t}
      /\ \A u \in Tx \ {t} : pc'[u] = pc[u]
  BY DEF LockChain, committed, writes, Free, TypeOK
<1>2. HeadDigest(SeenLinks(t)) \in Seq(Id)
  BY HeadDigestType DEF HeadInv, Good
<1>3. \A u \in Tx : (links[u] # << >> \/ pc[u] = "audit") => u = t
  BY <1>1, NoneAssumption DEF HeadInv
<1>4. \A u \in Tx : SeenLinks(u)' = SeenLinks(u)
  BY <1>1 DEF SeenLinks
<1>5. /\ prev'[t] = HeadDigest(SeenLinks(t))
      /\ \A u \in Tx \ {t} : prev'[u] = prev[u]
  BY <1>1 DEF PendingOK
<1>6. \A u \in Tx : links'[u] \in Seq(Link) /\ prev'[u] \in Seq(Id)
  BY <1>1, <1>2, <1>5 DEF HeadInv
<1>7. \A u \in Tx : links'[u] # << >> => chainLock' = u
  BY <1>1, <1>3
<1>8. \A u \in Tx : pc'[u] = "audit" =>
        chainLock' = u /\ prev'[u] = HeadDigest(SeenLinks(u)')
  BY <1>1, <1>3, <1>4, <1>5
<1> QED BY <1>1, <1>4, <1>6, <1>7, <1>8 DEF HeadInv

LEMMA HeadAppend ==
  ASSUME TypeInv, HeadInv, NEW t \in Tx, AppendAudit(t)
  PROVE  HeadInv'
<1> USE DEF TypeInv
<1>1. /\ pc[t] = "audit" /\ chainLock = t /\ prev[t] = HeadDigest(SeenLinks(t))
      /\ nextSeq \in Nat /\ nextSeq' = nextSeq + 1
      /\ UNCHANGED <<chain, chainLock, prev>>
      /\ links' = [links EXCEPT ![t] = Append(@, NewLink(t))]
      /\ pc'[t] = "next" /\ \A u \in Tx \ {t} : pc'[u] = pc[u]
  BY DEF AppendAudit, HeadInv, TypeOK, committed, locks
<1>2. ActId(t) \in Id
  BY DEF ActId, TypeOK, Id
<1>3. NewLink(t) \in Link
  BY <1>1, <1>2 DEF NewLink, Link, HeadInv
<1>4. Good(Append(SeenLinks(t), NewLink(t)), nextSeq')
  BY <1>1, <1>3, GoodAppend DEF HeadInv, NewLink
<1>5. links'[t] = Append(links[t], NewLink(t)) /\ \A u \in Tx \ {t} : links'[u] = links[u]
  BY <1>1 DEF PendingOK
<1>6. SeenLinks(t)' = Append(SeenLinks(t), NewLink(t))
  BY <1>1, <1>3, <1>5, ConcatAppend DEF SeenLinks, HeadInv, Good
<1>7. \A u \in Tx \ {t} : SeenLinks(u)' = SeenLinks(u)
  BY <1>1, <1>5 DEF SeenLinks
<1>8. \A c : Good(c, nextSeq) => Good(c, nextSeq')
  BY <1>1, GoodNext
<1>9. \A u \in Tx : links'[u] \in Seq(Link)
  <2>1. Append(links[t], NewLink(t)) \in Seq(Link)
    BY <1>3 DEF HeadInv
  <2> QED BY <1>5, <2>1 DEF HeadInv
<1>10. \A u \in Tx : Good(SeenLinks(u)', nextSeq')
  BY <1>4, <1>6, <1>7, <1>8 DEF HeadInv
<1>11. \A u \in Tx : links'[u] # << >> => chainLock' = u
  BY <1>1, <1>5 DEF HeadInv
<1>12. \A u \in Tx : pc'[u] = "audit" => u # t
  BY <1>1
<1> QED BY <1>1, <1>7, <1>8, <1>9, <1>10, <1>11, <1>12 DEF HeadInv

(* Ending a transaction of t, with its links appended to the chain or not. *)
LEMMA HeadRelease ==
  ASSUME TypeInv, HeadInv, NEW t \in Tx, Release(t), UNCHANGED nextSeq,
         chain' = chain \/ chain' = SeenLinks(t)
  PROVE  HeadInv'
<1> USE DEF TypeInv
<1>1. /\ links' = [links EXCEPT ![t] = << >>] /\ prev' = [prev EXCEPT ![t] = Genesis]
      /\ chainLock' = IF chainLock = t THEN None ELSE chainLock
      /\ pc'[t] = "done" /\ \A u \in Tx \ {t} : pc'[u] = pc[u]
  BY DEF Release, TypeOK
<1>2. links'[t] = << >> /\ \A u \in Tx \ {t} : links'[u] = links[u] /\ prev'[u] = prev[u]
  BY <1>1 DEF PendingOK
<1>3. \A u \in Tx \ {t} : links[u] = << >> \/ links[t] = << >>
  BY DEF HeadInv
<1>4. chain \in Seq(Link) /\ Good(chain', nextSeq')
  BY DEF HeadInv, Good
<1>5. links[t] = << >> => chain' = chain
  BY <1>4, ConcatEmpty DEF SeenLinks
<1>6. chain' \o << >> = chain'
  BY <1>4, ConcatEmpty DEF Good
<1>7. \A u \in Tx : SeenLinks(u)' = chain' \/ (u # t /\ SeenLinks(u)' = SeenLinks(u))
  BY <1>2, <1>3, <1>5, <1>6 DEF SeenLinks
<1>8. \A u \in Tx : Good(SeenLinks(u)', nextSeq')
  BY <1>4, <1>7 DEF HeadInv
<1>9. \A u \in Tx : pc'[u] = "audit" => u # t /\ chainLock = u /\ links[t] = << >>
  BY <1>1 DEF HeadInv
<1>10. \A u \in Tx : pc'[u] = "audit" => SeenLinks(u)' = SeenLinks(u)
  BY <1>2, <1>5, <1>9 DEF SeenLinks
<1>11. \A u \in Tx : links'[u] \in Seq(Link) /\ prev'[u] \in Seq(Id)
  BY <1>1, <1>2 DEF HeadInv, PendingOK, Genesis
<1>12. \A u \in Tx : links'[u] # << >> => chainLock' = u
  BY <1>1, <1>2 DEF HeadInv
<1>13. \A u \in Tx : pc'[u] = "audit" =>
         chainLock' = u /\ prev'[u] = HeadDigest(SeenLinks(u)')
  BY <1>1, <1>2, <1>9, <1>10 DEF HeadInv
<1> QED BY <1>4, <1>8, <1>11, <1>12, <1>13 DEF HeadInv

LEMMA HeadNext == TypeInv /\ HeadInv /\ [Next]_vars => HeadInv'
<1> SUFFICES ASSUME TypeInv, HeadInv, [Next]_vars PROVE HeadInv'
  OBVIOUS
<1> USE DEF committed, locks, writes
<1>1. ASSUME NEW t \in Tx, Rollback(t) PROVE HeadInv'
  BY <1>1, HeadRelease DEF Rollback
<1>2. ASSUME NEW t \in Tx, Commit(t) PROVE HeadInv'
  BY <1>2, HeadRelease DEF Commit, SeenLinks
<1>3. ASSUME NEW t \in Tx,
             \/ Begin(t) \/ LockIdempotencyKey(t) \/ ReplayPriorAction(t)
             \/ Materialize(t) \/ LockRow(t) \/ Apply(t) \/ NextAct(t)
      PROVE  HeadInv'
  <2>1. UNCHANGED <<chain, links, nextSeq, chainLock, prev>>
    BY <1>3 DEF Begin, LockIdempotencyKey, ReplayPriorAction, Materialize, LockRow,
                Apply, NextAct
  <2>2. \A u \in Tx : pc'[u] = "audit" => pc[u] = "audit"
    BY <1>3 DEF Begin, LockIdempotencyKey, ReplayPriorAction, Materialize, LockRow,
                Apply, NextAct, TypeInv, TypeOK
  <2> QED BY <2>1, <2>2, HeadQuiet
<1>4. CASE UNCHANGED vars
  BY <1>4, HeadQuiet DEF vars
<1> QED
  BY <1>1, <1>2, <1>3, <1>4, HeadLock, HeadAppend
  DEF Next, Dispatch, Finished, RefuseReplay, RefuseState, Abort

-----------------------------------------------------------------------------

(* The unique index on idempotency slots and the chain-head trigger are    *)
(* backstops only: whatever the sessions do, when an act is about to be    *)
(* written no other act occupies its slot, and when a link is about to be  *)
(* inserted it extends the head the trigger finds.                         *)
THEOREM BackstopsCorrect == Spec => []BackstopsNeverRefuse
<1>1. TypeInv /\ SlotInv /\ HeadInv => BackstopsNeverRefuse
  <2> SUFFICES ASSUME TypeInv, SlotInv, HeadInv, NEW t \in Tx
               PROVE  /\ pc[t] = "rows" => SlotIsUnused(t)
                      /\ pc[t] = "audit" => ChainHeadAccepts(t, NewLink(t))
    BY DEF BackstopsNeverRefuse
  <2>1. pc[t] = "rows" => SlotIsUnused(t)
    BY DEF SlotIsUnused, SlotInv, Holding
  <2>2. ASSUME pc[t] = "audit" PROVE ChainHeadAccepts(t, NewLink(t))
    <3>1. \A u \in Tx : u # t => links[u] = << >>
      BY <2>2 DEF HeadInv
    <3>2. nextSeq > HeadSeq(SeenLinks(t))
      BY HeadSeqBound DEF HeadInv, TypeInv, TypeOK
    <3> QED BY <2>2, <3>1, <3>2 DEF ChainHeadAccepts, NewLink, HeadInv
  <2> QED BY <2>1, <2>2
<1>2. Init => TypeInv /\ SlotInv /\ HeadInv
  BY TypeInit, SlotInit, HeadInit
<1>3. TypeInv /\ SlotInv /\ HeadInv /\ [Next]_vars => (TypeInv /\ SlotInv /\ HeadInv)'
  BY TypeNext, SlotNext, HeadNext
<1> QED BY <1>1, <1>2, <1>3, PTL DEF Spec

-----------------------------------------------------------------------------
(* Acts, links and outbox rows.                                            *)

LEMMA ActsType ==
  ASSUME NEW c \in Seq(Link)
  PROVE  ActsOf(c) \subseteq Id
<1>1. \A i \in 1 .. Len(c) : c[i] \in Link
  OBVIOUS
<1> QED BY <1>1 DEF ActsOf, Link

LEMMA ActsAppend ==
  ASSUME NEW c \in Seq(Link), NEW l \in Link
  PROVE  ActsOf(Append(c, l)) = ActsOf(c) \cup {l.act}
<1> DEFINE d == Append(c, l)
<1>1. Len(d) = Len(c) + 1 /\ Len(c) \in Nat /\ d[Len(c) + 1] = l
  OBVIOUS
<1>2. \A i \in 1 .. Len(c) : d[i] = c[i]
  OBVIOUS
<1> HIDE DEF d
<1>3. ActsOf(d) \subseteq ActsOf(c) \cup {l.act}
  BY <1>1, <1>2 DEF ActsOf
<1>4. ActsOf(c) \cup {l.act} \subseteq ActsOf(d)
  BY <1>1, <1>2 DEF ActsOf
<1> QED BY <1>3, <1>4 DEF d

LEMMA ActsConcat ==
  ASSUME NEW c \in Seq(Link), NEW d \in Seq(Link)
  PROVE  ActsOf(c \o d) = ActsOf(c) \cup ActsOf(d)
<1> DEFINE e == c \o d
<1>1. Len(e) = Len(c) + Len(d) /\ Len(c) \in Nat /\ Len(d) \in Nat
  OBVIOUS
<1>2. \A i \in 1 .. Len(e) : e[i] = IF i <= Len(c) THEN c[i] ELSE d[i - Len(c)]
  OBVIOUS
<1> HIDE DEF e
<1>3. ASSUME NEW i \in 1 .. Len(e) PROVE e[i].act \in ActsOf(c) \cup ActsOf(d)
  <2>1. CASE i <= Len(c)
    BY <1>1, <1>2, <2>1 DEF ActsOf
  <2>2. CASE ~ (i <= Len(c))
    <3>1. i - Len(c) \in 1 .. Len(d)
      BY <1>1, <2>2
    <3> QED BY <1>2, <2>2, <3>1 DEF ActsOf
  <2> QED BY <2>1, <2>2
<1>4. ASSUME NEW i \in 1 .. Len(c) PROVE c[i].act \in ActsOf(e)
  <2>1. i \in 1 .. Len(e) /\ i <= Len(c)
    BY <1>1
  <2> QED BY <1>2, <2>1 DEF ActsOf
<1>5. ASSUME NEW i \in 1 .. Len(d) PROVE d[i].act \in ActsOf(e)
  <2>1. i + Len(c) \in 1 .. Len(e) /\ ~ (i + Len(c) <= Len(c)) /\ (i + Len(c)) - Len(c) = i
    BY <1>1
  <2>2. e[i + Len(c)] = d[i]
    BY <1>2, <2>1
  <2> QED BY <2>1, <2>2 DEF ActsOf
<1> QED BY <1>3, <1>4, <1>5 DEF ActsOf, e

LEMMA OnceAppend ==
  ASSUME NEW c \in Seq(Link), NEW l \in Link, Once(c), l.act \notin ActsOf(c)
  PROVE  Once(Append(c, l))
<1> DEFINE d == Append(c, l)
<1>1. Len(d) = Len(c) + 1 /\ Len(c) \in Nat /\ d[Len(c) + 1] = l
  OBVIOUS
<1>2. \A i \in 1 .. Len(c) : d[i] = c[i] /\ c[i].act # l.act
  BY DEF ActsOf
<1> HIDE DEF d
<1>3. \A i \in 1 .. Len(d) : i \in 1 .. Len(c) \/ i = Len(c) + 1
  BY <1>1
<1> QED BY <1>1, <1>2, <1>3 DEF Once, d

(* The act a session has recorded and not linked yet.                      *)
Unlinked(t) == IF pc[t] \in {"chain", "audit"} THEN {ActId(t)} ELSE {}

(* Act ids are <<session, attempt, step>>.  A session's uncommitted acts   *)
(* are its links and at most the one it is about to link; its committed    *)
(* ones are from earlier attempts, so no id is ever linked twice.          *)
IdInv ==
  /\ DOMAIN emitted = Tx
  /\ Once(chain) /\ IdsOf(ledger) = ActsOf(chain) /\ outbox = ActsOf(chain)
  /\ \A t \in Tx : Once(SeenLinks(t))
  /\ \A t \in Tx : emitted[t] = ActsOf(links[t])
  /\ \A t \in Tx : IdsOf(acts[t]) = ActsOf(links[t]) \cup Unlinked(t)
  /\ \A t \in Tx : pc[t] \notin Active => links[t] = << >>
  /\ \A t \in Tx : \A id \in ActsOf(chain) : id[1] = t =>
       id[2] <= attempt[t] /\ (pc[t] \in Active => id[2] < attempt[t])
  /\ \A t \in Tx : \A id \in ActsOf(links[t]) :
       /\ id[1] = t /\ id[2] = attempt[t] /\ id[3] <= step[t]
       /\ id[3] = step[t] => pc[t] = "next"

LEMMA IdInit == Init => IdInv
<1> SUFFICES ASSUME Init PROVE IdInv
  OBVIOUS
<1>1. ActsOf(<< >>) = {} /\ Once(<< >>)
  BY DEF ActsOf, Once
<1>2. \A t \in Tx : SeenLinks(t) = << >>
  BY ConcatEmpty DEF Init, SeenLinks
<1>3. \A t \in Tx : Unlinked(t) = {}
  BY DEF Init, Unlinked
<1> QED BY <1>1, <1>2, <1>3 DEF Init, IdInv, IdsOf, Active

(* A step of t that writes no act and no link, and moves t forward inside  *)
(* its transaction.                                                        *)
LEMMA IdQuiet ==
  ASSUME TypeInv, HeadInv, IdInv, NEW t \in Tx,
         UNCHANGED <<ledger, chain, outbox, acts, links, emitted>>,
         \A u \in Tx \ {t} : /\ pc'[u] = pc[u] /\ step'[u] = step[u]
                              /\ attempt'[u] = attempt[u],
         attempt'[t] = attempt[t], pc[t] \in Active, pc'[t] \in Active,
         \/ step'[t] = step[t] /\ pc[t] # "next" /\ Unlinked(t)' = Unlinked(t)
         \/ step'[t] = step[t] + 1 /\ Unlinked(t) = {} /\ Unlinked(t)' = {}
  PROVE  IdInv'
<1> USE DEF TypeInv
<1>1. \A u \in Tx : SeenLinks(u)' = SeenLinks(u)
  BY DEF SeenLinks
<1>2. \A u \in Tx : Unlinked(u)' = Unlinked(u)
  BY DEF Unlinked, ActId
<1>3. ASSUME NEW u \in Tx, NEW id \in ActsOf(links[u])
      PROVE  /\ id[1] = u /\ id[2] = attempt'[u] /\ id[3] <= step'[u]
             /\ id[3] = step'[u] => pc'[u] = "next"
  <2>1. /\ id[1] = u /\ id[2] = attempt[u] /\ id[3] <= step[u]
        /\ id[3] = step[u] => pc[u] = "next"
    BY DEF IdInv
  <2>2. id[3] \in Nat
    BY <1>3, ActsType DEF HeadInv, Id
  <2>3. step[u] \in Nat
    BY DEF TypeOK
  <2> QED BY <2>1, <2>2, <2>3
<1> QED BY <1>1, <1>2, <1>3 DEF IdInv, IdsOf

(* A caller sends its plan again: what it committed before is older.       *)
LEMMA IdBegin ==
  ASSUME TypeInv, HeadInv, IdInv, NEW t \in Tx, Begin(t)
  PROVE  IdInv'
<1> USE DEF TypeInv
<1>1. /\ UNCHANGED <<ledger, chain, outbox, acts, links, emitted>>
      /\ \A u \in Tx \ {t} : /\ pc'[u] = pc[u] /\ step'[u] = step[u]
                              /\ attempt'[u] = attempt[u]
      /\ attempt'[t] = attempt[t] + 1 /\ pc'[t] = "key" /\ pc[t] \notin Active
  BY DEF Begin, TypeOK, committed, writes, Active
<1>2. \A u \in Tx : SeenLinks(u)' = SeenLinks(u)
  BY <1>1 DEF SeenLinks
<1>3. \A u \in Tx : Unlinked(u)' = Unlinked(u)
  BY <1>1 DEF Unlinked, ActId, Active
<1>4. links[t] = << >> /\ ActsOf(links[t]) = {}
  BY <1>1 DEF IdInv, ActsOf
<1>5. ASSUME NEW u \in Tx, NEW id \in ActsOf(chain), id[1] = u
      PROVE  id[2] <= attempt'[u] /\ (pc'[u] \in Active => id[2] < attempt'[u])
  <2>1. id[2] \in Nat /\ attempt[u] \in Nat
    BY ActsType, AttemptsAssumption DEF HeadInv, Good, Id, TypeOK
  <2>2. id[2] <= attempt[u] /\ (pc[u] \in Active => id[2] < attempt[u])
    BY <1>5 DEF IdInv
  <2> QED BY <1>1, <2>1, <2>2
<1>6. "key" \in Active
  BY DEF Active
<1> QED BY <1>1, <1>2, <1>3, <1>4, <1>5, <1>6 DEF IdInv, IdsOf

LEMMA IdApply ==
  ASSUME TypeInv, HeadInv, IdInv, NEW t \in Tx, Apply(t)
  PROVE  IdInv'
<1> USE DEF TypeInv
<1> DEFINE act == [id |-> ActId(t), type |-> Req(t).type, key |-> Req(t).key,
                   sem |-> Semantics(Req(t)), targets |-> want[t],
                   before |-> Before(t), after |-> After(t)]
<1>1. acts' = [acts EXCEPT ![t] = @ \cup {act}] /\ act.id = ActId(t)
  BY DEF Apply
<1> HIDE DEF act
<1>2. /\ UNCHANGED <<ledger, chain, outbox, links, emitted, attempt, step>>
      /\ pc[t] = "rows" /\ pc'[t] = "chain" /\ \A u \in Tx \ {t} : pc'[u] = pc[u]
  BY DEF Apply, TypeOK, committed
<1>3. acts'[t] = acts[t] \cup {act} /\ \A u \in Tx \ {t} : acts'[u] = acts[u]
  BY <1>1 DEF PendingOK
<1>4. IdsOf(acts'[t]) = IdsOf(acts[t]) \cup {ActId(t)}
  BY <1>1, <1>3 DEF IdsOf
<1>5. \A u \in Tx : SeenLinks(u)' = SeenLinks(u)
  BY <1>2 DEF SeenLinks
<1>6. Unlinked(t) = {} /\ Unlinked(t)' = {ActId(t)}
  BY <1>2 DEF Unlinked, ActId
<1>7. \A u \in Tx \ {t} : Unlinked(u)' = Unlinked(u)
  BY <1>2 DEF Unlinked, ActId
<1>8. \A u \in Tx : IdsOf(acts'[u]) = ActsOf(links'[u]) \cup Unlinked(u)'
  <2>1. IdsOf(acts[t]) = ActsOf(links[t])
    BY <1>6 DEF IdInv
  <2>2. IdsOf(acts'[t]) = ActsOf(links'[t]) \cup Unlinked(t)'
    BY <1>2, <1>4, <1>6, <2>1
  <2>3. \A u \in Tx \ {t} : IdsOf(acts'[u]) = ActsOf(links'[u]) \cup Unlinked(u)'
    BY <1>2, <1>3, <1>7 DEF IdInv
  <2> QED BY <2>2, <2>3
<1>9. \A u \in Tx : (pc'[u] \in Active) = (pc[u] \in Active)
  BY <1>2 DEF Active
<1>10. \A u \in Tx : pc[u] = "next" => pc'[u] = "next"
  BY <1>2
<1> QED BY <1>2, <1>5, <1>8, <1>9, <1>10 DEF IdInv

LEMMA IdAppend ==
  ASSUME TypeInv, HeadInv, IdInv, NEW t \in Tx, AppendAudit(t)
  PROVE  IdInv'
<1> USE DEF TypeInv
<1>1. /\ UNCHANGED <<ledger, chain, outbox, acts, attempt, step>>
      /\ links' = [links EXCEPT ![t] = Append(@, NewLink(t))]
      /\ emitted' = [emitted EXCEPT ![t] = @ \cup {ActId(t)}]
      /\ pc[t] = "audit" /\ pc'[t] = "next" /\ \A u \in Tx \ {t} : pc'[u] = pc[u]
  BY DEF AppendAudit, TypeOK, committed
<1>2. ActId(t) \in Id /\ nextSeq \in Nat
  BY DEF ActId, TypeOK, Id
<1>3. NewLink(t) \in Link /\ NewLink(t).act = ActId(t)
  BY <1>2 DEF NewLink, Link, HeadInv
<1>4. /\ links'[t] = Append(links[t], NewLink(t))
      /\ \A u \in Tx \ {t} : links'[u] = links[u] /\ emitted'[u] = emitted[u]
      /\ emitted'[t] = emitted[t] \cup {ActId(t)} /\ DOMAIN emitted' = Tx
  BY <1>1 DEF PendingOK, IdInv
<1>5. ActsOf(links'[t]) = ActsOf(links[t]) \cup {ActId(t)}
  BY <1>3, <1>4, ActsAppend DEF HeadInv
<1>6. chain \in Seq(Link) /\ links[t] \in Seq(Link) /\ SeenLinks(t) \in Seq(Link)
  BY DEF HeadInv, Good
<1>7. ActsOf(SeenLinks(t)) = ActsOf(chain) \cup ActsOf(links[t])
  BY <1>6, ActsConcat DEF SeenLinks
<1>8. ActId(t) \notin ActsOf(SeenLinks(t))
  <2>1. ActId(t)[1] = t /\ ActId(t)[2] = attempt[t] /\ ActId(t)[3] = step[t]
    BY DEF ActId
  <2>2. ActId(t) \notin ActsOf(chain)
    <3>1. attempt[t] \in Nat /\ pc[t] \in Active
      BY <1>1, AttemptsAssumption DEF TypeOK, Active
    <3> QED BY <2>1, <3>1 DEF IdInv
  <2>3. ActId(t) \notin ActsOf(links[t])
    BY <1>1, <2>1 DEF IdInv
  <2> QED BY <1>7, <2>2, <2>3
<1>9. SeenLinks(t)' = Append(SeenLinks(t), NewLink(t))
  BY <1>1, <1>3, <1>4, <1>6, ConcatAppend DEF SeenLinks
<1>10. Once(SeenLinks(t)')
  BY <1>3, <1>6, <1>8, <1>9, OnceAppend DEF IdInv
<1>11. \A u \in Tx \ {t} : SeenLinks(u)' = SeenLinks(u)
  BY <1>1, <1>4 DEF SeenLinks
<1>12. \A u \in Tx : Once(SeenLinks(u)')
  BY <1>10, <1>11 DEF IdInv
<1>13. \A u \in Tx : emitted'[u] = ActsOf(links'[u])
  BY <1>4, <1>5 DEF IdInv
<1>14. Unlinked(t) = {ActId(t)} /\ Unlinked(t)' = {}
       /\ \A u \in Tx \ {t} : Unlinked(u)' = Unlinked(u)
  BY <1>1 DEF Unlinked, ActId
<1>15. \A u \in Tx : IdsOf(acts'[u]) = ActsOf(links'[u]) \cup Unlinked(u)'
  <2>1. IdsOf(acts'[t]) = ActsOf(links'[t]) \cup Unlinked(t)'
    BY <1>1, <1>5, <1>14 DEF IdInv
  <2>2. \A u \in Tx \ {t} : IdsOf(acts'[u]) = ActsOf(links'[u]) \cup Unlinked(u)'
    BY <1>1, <1>4, <1>14 DEF IdInv
  <2> QED BY <2>1, <2>2
<1>16. \A u \in Tx : (pc'[u] \in Active) = (pc[u] \in Active)
  BY <1>1 DEF Active
<1>17. \A u \in Tx : pc'[u] \notin Active => links'[u] = << >>
  BY <1>1, <1>4, <1>16 DEF IdInv, Active
<1>18. \A u \in Tx : \A id \in ActsOf(links'[u]) :
         /\ id[1] = u /\ id[2] = attempt'[u] /\ id[3] <= step'[u]
         /\ id[3] = step'[u] => pc'[u] = "next"
  <2>1. \A u \in Tx \ {t} : \A id \in ActsOf(links'[u]) :
          /\ id[1] = u /\ id[2] = attempt'[u] /\ id[3] <= step'[u]
          /\ id[3] = step'[u] => pc'[u] = "next"
    BY <1>1, <1>4 DEF IdInv
  <2>2. ActId(t)[1] = t /\ ActId(t)[2] = attempt[t] /\ ActId(t)[3] = step[t] /\ step[t] \in Nat
    BY DEF ActId, TypeOK
  <2>3. \A id \in ActsOf(links'[t]) : id[1] = t /\ id[2] = attempt'[t] /\ id[3] <= step'[t]
    BY <1>1, <1>5, <2>2 DEF IdInv
  <2> QED BY <1>1, <2>1, <2>3
<1> QED BY <1>1, <1>4, <1>12, <1>13, <1>15, <1>16, <1>17, <1>18 DEF IdInv

(* The end of a transaction, once what it left in the ledger is accounted  *)
(* for: `added` is what it added to the chain.                             *)
LEMMA IdRelease ==
  ASSUME TypeInv, HeadInv, IdInv, NEW t \in Tx, pc[t] \in Active, Release(t),
         UNCHANGED <<step, attempt>>,
         NEW added \in {{}, ActsOf(links[t])},
         \/ chain' = chain /\ added = {}
         \/ chain' = SeenLinks(t) /\ added = ActsOf(links[t]),
         IdsOf(ledger') = IdsOf(ledger) \cup added,
         outbox' = outbox \cup added
  PROVE  IdInv'
<1> USE DEF TypeInv
<1>1. /\ links' = [links EXCEPT ![t] = << >>] /\ acts' = [acts EXCEPT ![t] = {}]
      /\ emitted' = [emitted EXCEPT ![t] = {}]
      /\ pc'[t] = "done" /\ \A u \in Tx \ {t} : pc'[u] = pc[u]
  BY DEF Release, TypeOK
<1>2. /\ links'[t] = << >> /\ acts'[t] = {} /\ emitted'[t] = {} /\ DOMAIN emitted' = Tx
      /\ \A u \in Tx \ {t} : /\ links'[u] = links[u] /\ acts'[u] = acts[u]
                              /\ emitted'[u] = emitted[u]
  BY <1>1 DEF PendingOK, IdInv
<1>3. chain \in Seq(Link) /\ links[t] \in Seq(Link) /\ SeenLinks(t) \in Seq(Link)
  BY DEF HeadInv, Good
<1>4. ActsOf(chain') = ActsOf(chain) \cup added
  BY <1>3, ActsConcat DEF SeenLinks
<1>5. Once(chain') /\ chain' \in Seq(Link)
  BY <1>3 DEF IdInv
<1>6. IdsOf(ledger') = ActsOf(chain') /\ outbox' = ActsOf(chain')
  BY <1>4 DEF IdInv
<1>7. \A u \in Tx \ {t} : links[u] = << >> \/ links[t] = << >>
  BY DEF HeadInv
<1>8. links[t] = << >> => chain' = chain
  BY <1>3, ConcatEmpty DEF SeenLinks
<1>9. chain' \o << >> = chain'
  BY <1>5, ConcatEmpty
<1>10. \A u \in Tx : SeenLinks(u)' = chain' \/ (u # t /\ SeenLinks(u)' = SeenLinks(u))
  BY <1>2, <1>7, <1>8, <1>9 DEF SeenLinks
<1>11. \A u \in Tx : Once(SeenLinks(u)')
  BY <1>5, <1>10 DEF IdInv
<1>12. ActsOf(<< >>) = {} /\ IdsOf({}) = {}
  BY DEF ActsOf, IdsOf
<1>13. Unlinked(t)' = {} /\ \A u \in Tx \ {t} : Unlinked(u)' = Unlinked(u)
  BY <1>1 DEF Unlinked, ActId
<1>14. \A u \in Tx : emitted'[u] = ActsOf(links'[u])
  BY <1>2, <1>12 DEF IdInv
<1>15. \A u \in Tx : IdsOf(acts'[u]) = ActsOf(links'[u]) \cup Unlinked(u)'
  <2>1. IdsOf(acts'[t]) = ActsOf(links'[t]) \cup Unlinked(t)'
    BY <1>2, <1>12, <1>13
  <2>2. \A u \in Tx \ {t} : IdsOf(acts'[u]) = ActsOf(links'[u]) \cup Unlinked(u)'
    BY <1>2, <1>13 DEF IdInv
  <2> QED BY <2>1, <2>2
<1>16. \A u \in Tx : pc'[u] \notin Active => links'[u] = << >>
  BY <1>1, <1>2 DEF IdInv
<1>17. ASSUME NEW u \in Tx, NEW id \in ActsOf(chain'), id[1] = u
       PROVE  id[2] <= attempt[u] /\ (pc'[u] \in Active => id[2] < attempt[u])
  <2>1. CASE id \in ActsOf(chain)
    BY <1>1, <1>17, <2>1 DEF IdInv, Active
  <2>2. CASE id \in ActsOf(links[t])
    <3>1. u = t /\ id[2] = attempt[u] /\ attempt[u] \in Nat
      BY <1>17, <2>2, AttemptsAssumption DEF IdInv, TypeOK
    <3> QED BY <1>1, <3>1 DEF Active
  <2> QED BY <1>4, <2>1, <2>2
<1>18. \A u \in Tx : \A id \in ActsOf(links'[u]) :
         /\ id[1] = u /\ id[2] = attempt'[u] /\ id[3] <= step'[u]
         /\ id[3] = step'[u] => pc'[u] = "next"
  BY <1>1, <1>2, <1>12 DEF IdInv
<1> QED BY <1>2, <1>5, <1>6, <1>11, <1>14, <1>15, <1>16, <1>17, <1>18 DEF IdInv

LEMMA IdNext == TypeInv /\ HeadInv /\ IdInv /\ [Next]_vars => IdInv'
<1> SUFFICES ASSUME TypeInv, HeadInv, IdInv, [Next]_vars PROVE IdInv'
  OBVIOUS
<1> USE DEF committed, locks, writes
<1>1. ASSUME NEW t \in Tx, pc[t] \in Active, Rollback(t) PROVE IdInv'
  BY <1>1, IdRelease DEF Rollback
<1>2. ASSUME NEW t \in Tx, Commit(t) PROVE IdInv'
  <2>1. /\ pc[t] = "next" /\ Release(t) /\ UNCHANGED <<step, attempt>>
        /\ chain' = SeenLinks(t) /\ ledger' = ledger \cup acts[t]
        /\ outbox' = outbox \cup emitted[t]
    BY <1>2 DEF Commit, SeenLinks
  <2>2. IdsOf(acts[t]) = ActsOf(links[t]) /\ emitted[t] = ActsOf(links[t])
    <3>1. Unlinked(t) = {}
      BY <2>1 DEF Unlinked
    <3> QED BY <3>1 DEF IdInv
  <2>3. IdsOf(ledger') = IdsOf(ledger) \cup ActsOf(links[t])
    BY <2>1, <2>2 DEF IdsOf
  <2>4. pc[t] \in Active
    BY <2>1 DEF Active
  <2> QED BY <2>1, <2>2, <2>3, <2>4, IdRelease
<1>3. ASSUME NEW t \in Tx,
             \/ LockIdempotencyKey(t) \/ ReplayPriorAction(t) \/ Materialize(t)
             \/ LockRow(t) \/ LockChain(t)
      PROVE  IdInv'
  <2>1. UNCHANGED <<ledger, chain, outbox, acts, links, emitted, step, attempt>>
    BY <1>3 DEF LockIdempotencyKey, ReplayPriorAction, Materialize, LockRow, LockChain
  <2>2. /\ \A u \in Tx \ {t} : pc'[u] = pc[u]
        /\ pc[t] \in Active /\ pc[t] # "next" /\ pc'[t] \in Active
        /\ (pc[t] \in {"chain", "audit"}) = (pc'[t] \in {"chain", "audit"})
    BY <1>3 DEF LockIdempotencyKey, ReplayPriorAction, Materialize, LockRow, LockChain,
                TypeInv, TypeOK, Active
  <2>3. Unlinked(t)' = Unlinked(t)
    BY <2>1, <2>2 DEF Unlinked, ActId
  <2> QED BY <2>1, <2>2, <2>3, IdQuiet
<1>4. ASSUME NEW t \in Tx, NextAct(t) PROVE IdInv'
  <2>1. UNCHANGED <<ledger, chain, outbox, acts, links, emitted, attempt>>
    BY <1>4 DEF NextAct
  <2>2. /\ \A u \in Tx \ {t} : pc'[u] = pc[u] /\ step'[u] = step[u]
        /\ pc[t] = "next" /\ pc'[t] = "key" /\ step'[t] = step[t] + 1
    BY <1>4 DEF NextAct, TypeInv, TypeOK
  <2>3. Unlinked(t) = {} /\ Unlinked(t)' = {} /\ pc[t] \in Active /\ pc'[t] \in Active
    BY <2>2 DEF Unlinked, Active
  <2> QED BY <2>1, <2>2, <2>3, IdQuiet
<1>5. CASE UNCHANGED vars
  BY <1>5 DEF vars, IdInv, SeenLinks, Unlinked, ActId
<1>6. ASSUME NEW t \in Tx, RefuseReplay(t) \/ RefuseState(t) \/ Abort(t) PROVE IdInv'
  BY <1>1, <1>6 DEF RefuseReplay, RefuseState, Abort, Active
<1> QED
  BY <1>2, <1>3, <1>4, <1>5, <1>6, IdBegin, IdApply, IdAppend
  DEF Next, Dispatch, Finished

(* The committed ledger is one unbroken chain: it verifies from genesis,   *)
(* its sequence numbers rise in commit order, and every act has exactly    *)
(* one link and one outbox row, for any number of sessions, any plans,     *)
(* any number of retries, refusals and aborts.                             *)
THEOREM ChainCorrect == Spec => []ChainIntact
<1>1. HeadInv /\ IdInv => ChainIntact
  BY DEF HeadInv, Good, IdInv, ChainIntact
<1>2. Init => TypeInv /\ HeadInv /\ IdInv
  BY TypeInit, HeadInit, IdInit
<1>3. TypeInv /\ HeadInv /\ IdInv /\ [Next]_vars => (TypeInv /\ HeadInv /\ IdInv)'
  BY TypeNext, HeadNext, IdNext
<1> QED BY <1>1, <1>2, <1>3, PTL DEF Spec
=============================================================================
