--------------------------- MODULE ActionDispatch ---------------------------
(***************************************************************************)
(* The action kernel (packages/actions) over PostgreSQL at READ COMMITTED. *)
(*                                                                         *)
(* A session runs the acts of Plan[t] in ONE transaction: one act for the  *)
(* standalone dispatcher, several for a caller that composes acts through  *)
(* the transactional dispatcher (a document import, `kf ingest`).  What a  *)
(* transaction wrote is private to it (acts, links, emitted, rows) until   *)
(* Commit; every lock it took is held until it ends.                       *)
(*                                                                         *)
(* A SHA-256 chain digest is modelled by its preimage: the sequence of     *)
(* link contents from genesis.  Two digests are equal exactly when         *)
(* everything they commit to is equal.                                     *)
(***************************************************************************)
EXTENDS Naturals, Sequences, FiniteSets

CONSTANTS
  Tx,          \* the sessions that dispatch concurrently
  Object,      \* object ids, as naturals: `order by id` is <=
  Initial,     \* the objects that exist before any modelled act
  Creator,     \* Creator[o]: who created the initial object o
  Actor,       \* persons
  Type,        \* action types
  Key,         \* idempotency keys
  State,       \* lifecycle states
  Start,       \* the lifecycle state an object is created in
  Transition,  \* registry.state_transition: set of [type, from, to]
  Creates,     \* action types with a materializer
  Restricted,  \* action types under separation of duty
  Plan,        \* Plan[t]: the acts session t runs in one transaction
  MaxAttempts, \* how often a caller sends its plan (retries included)
  None

(* A request: `expects` is the version the caller read, or None; `to` is   *)
(* payload.to_state, or None.                                              *)
Request == [type : Type, key : Key, actor : Actor, targets : SUBSET Object,
            to : State \cup {None}, expects : Nat \cup {None}]

ASSUME ObjectAssumption ==
  Object \subseteq Nat /\ Initial \subseteq Object /\ Creator \in [Initial -> Actor]
ASSUME StateAssumption == Start \in State /\ None \notin State
ASSUME TransitionAssumption ==
  Transition \subseteq [type : Type, from : State, to : State]
ASSUME PlanAssumption ==
  \A t \in Tx : Plan[t] \in Seq(Request) /\ Len(Plan[t]) >= 1
ASSUME NoneAssumption ==
  /\ None \notin Tx /\ None \notin Actor /\ None \notin Nat
  /\ None \notin [state : State \cup {None}, ver : Nat, by : Actor \cup {None}]
ASSUME AttemptsAssumption == MaxAttempts \in Nat

VARIABLES
  ledger,    \* core.action, committed
  chain,     \* core.audit_event, committed, in commit order
  outbox,    \* core.outbox, committed: the ids of the acts whose row exists
  obj,       \* core.object, committed
  nextSeq,   \* the identity sequence of core.audit_event: never rolled back
  keyLock,   \* advisory lock per (type, idempotency key)
  rowLock,   \* row lock per object
  chainLock, \* advisory lock 'kf:audit-chain:v1'
  pc, step, attempt,
  want,      \* rows the `for update` statement of the current act returns
  made,      \* the ids the current act's materializer created
  prev,      \* the head digest the current act read
  acts, links, emitted, rows,  \* uncommitted writes of the transaction
  results,   \* the act ids the dispatcher returned inside the transaction
  replies    \* what callers were told after commit

committed == <<ledger, chain, outbox, obj>>
locks == <<keyLock, rowLock, chainLock>>
writes == <<acts, links, emitted, rows>>
vars == <<committed, nextSeq, locks, pc, step, attempt, want, made, prev,
          writes, results, replies>>

-----------------------------------------------------------------------------
(* State and views.                                                        *)

Absent == [state |-> None, ver |-> 0, by |-> None]
Row == [state : State, ver : Nat, by : Actor] \cup {Absent}

Req(t) == Plan[t][step[t]]
ActId(t) == <<t, attempt[t], step[t]>>
Slot(r) == <<r.type, r.key>>

(* semanticActionRequestDigest: everything that changes what the act does, *)
(* and not the idempotency key it is sent under.                           *)
Semantics(r) == [type |-> r.type, actor |-> r.actor, targets |-> r.targets,
                 to |-> r.to, expects |-> r.expects]

(* READ COMMITTED: a statement sees what is committed and its own writes.  *)
View(t, o) == IF rows[t][o] # None THEN rows[t][o] ELSE obj[o]
SeenActs(t) == ledger \cup acts[t]
SeenLinks(t) == chain \o links[t]
Prior(t) == {a \in SeenActs(t) : Slot(a) = Slot(Req(t))}

Genesis == << >>
(* Mutant of HeadDigest: the head row is never advanced.                    *)
HeadDigestNotAdvanced(c) == Genesis

HeadDigest(c) == IF c = << >> THEN Genesis ELSE c[Len(c)].digest
HeadSeq(c) == IF c = << >> THEN 0 ELSE c[Len(c)].seq

(* Advisory and row locks are re-entrant within a transaction.             *)
Free(holder, t) == holder \in {None, t}

Active == {"key", "replay", "rows", "chain", "audit", "next"}

Init ==
  /\ ledger = {} /\ chain = << >> /\ outbox = {}
  /\ obj = [o \in Object |->
              IF o \in Initial THEN [state |-> Start, ver |-> 1, by |-> Creator[o]]
                               ELSE Absent]
  /\ nextSeq = 1
  /\ keyLock = [k \in Type \X Key |-> None]
  /\ rowLock = [o \in Object |-> None]
  /\ chainLock = None
  /\ pc = [t \in Tx |-> "idle"]
  /\ step = [t \in Tx |-> 1]
  /\ attempt = [t \in Tx |-> 0]
  /\ want = [t \in Tx |-> {}]
  /\ made = [t \in Tx |-> {}]
  /\ prev = [t \in Tx |-> Genesis]
  /\ acts = [t \in Tx |-> {}]
  /\ links = [t \in Tx |-> << >>]
  /\ emitted = [t \in Tx |-> {}]
  /\ rows = [t \in Tx |-> [o \in Object |-> None]]
  /\ results = [t \in Tx |-> << >>]
  /\ replies = {}

-----------------------------------------------------------------------------
(* What prepareActionState checks and resolves.                            *)

Permitted(type, from) ==
  {tr.to : tr \in {x \in Transition : x.type = type /\ x.from = from}}

MovesState(type) == \E tr \in Transition : tr.type = type

Ambiguous(choices) == \E a, b \in choices : a # b

(* Mutant of LegalMove: a type that cannot leave this state is let through. *)
LegalMoveUnchecked(r, from) ==
  Ambiguous(Permitted(r.type, from)) => r.to \in Permitted(r.type, from)

(* resolveTransitions: refuse a type that cannot leave this state, and a   *)
(* choice of several that payload.to_state does not settle.                *)
LegalMove(r, from) ==
  /\ MovesState(r.type) => Permitted(r.type, from) # {}
  /\ Ambiguous(Permitted(r.type, from)) => r.to \in Permitted(r.type, from)

(* Mutant of NextState: payload.to_state is taken even when nothing is ambiguous. *)
NextStateFromPayload(r, from) ==
  IF Permitted(r.type, from) = {} THEN from ELSE r.to

NextState(r, from) ==
  IF Permitted(r.type, from) = {} THEN from
  ELSE IF Ambiguous(Permitted(r.type, from)) THEN r.to
  ELSE CHOOSE s \in Permitted(r.type, from) : TRUE

(* Mutant of ExpectedVersion: a newer row than the caller read is accepted. *)
ExpectedVersionAtLeast(t) ==
  Req(t).expects # None =>
    \A o \in Req(t).targets : View(t, o).ver >= Req(t).expects

ExpectedVersion(t) ==
  Req(t).expects # None =>
    \A o \in Req(t).targets : View(t, o).ver = Req(t).expects

SeparationOfDuty(t) ==
  Req(t).type \in Restricted =>
    \A o \in want[t] : View(t, o).by # Req(t).actor

Acceptable(t) ==
  /\ want[t] # {}
  /\ want[t] = Req(t).targets \cup made[t]
  /\ ExpectedVersion(t)
  /\ \A o \in want[t] : LegalMove(Req(t), View(t, o).state)
  /\ SeparationOfDuty(t)

Before(t) == [o \in want[t] |-> View(t, o).state]
After(t) == [o \in want[t] |-> NextState(Req(t), View(t, o).state)]

-----------------------------------------------------------------------------
(* One transaction.                                                        *)

(* A caller sends its plan, or sends it again: after a refusal, a lost     *)
(* connection, or a commit whose answer never arrived.                     *)
Begin(t) ==
  /\ pc[t] \in {"idle", "done"}
  /\ attempt[t] < MaxAttempts
  /\ pc' = [pc EXCEPT ![t] = "key"]
  /\ step' = [step EXCEPT ![t] = 1]
  /\ attempt' = [attempt EXCEPT ![t] = @ + 1]
  /\ UNCHANGED <<committed, nextSeq, locks, want, made, prev, writes, results,
                 replies>>

(* Mutant of LockIdempotencyKey: the lookup is not serialized per key.      *)
LockIdempotencyKeyShared(t) ==
  /\ pc[t] = "key"
  /\ pc' = [pc EXCEPT ![t] = "replay"]
  /\ UNCHANGED <<committed, nextSeq, locks, step, attempt, want, made, prev,
                 writes, results, replies>>

LockIdempotencyKey(t) ==
  /\ pc[t] = "key"
  /\ Free(keyLock[Slot(Req(t))], t)
  /\ keyLock' = [keyLock EXCEPT ![Slot(Req(t))] = t]
  /\ pc' = [pc EXCEPT ![t] = "replay"]
  /\ UNCHANGED <<committed, nextSeq, rowLock, chainLock, step, attempt, want,
                 made, prev, writes, results, replies>>

(* The prior act's receipt is returned only when it is the same request    *)
(* and has exactly one link, whose digest recomputes.                      *)
Replayable(t, a) ==
  /\ Semantics(Req(t)) = a.sem
  /\ \E i \in 1 .. Len(SeenLinks(t)) :
       /\ SeenLinks(t)[i].act = a.id
       /\ SeenLinks(t)[i].digest = Append(SeenLinks(t)[i].prev, a.id)
       /\ \A j \in 1 .. Len(SeenLinks(t)) : SeenLinks(t)[j].act = a.id => j = i

(* Mutant of ReplayPriorAction: the retry answers with an id of its own.    *)
ReplayUnderOwnId(t) ==
  /\ pc[t] = "replay"
  /\ \E a \in Prior(t) : Replayable(t, a)
  /\ results' = [results EXCEPT ![t] = Append(@, ActId(t))]
  /\ pc' = [pc EXCEPT ![t] = "next"]
  /\ UNCHANGED <<committed, nextSeq, locks, step, attempt, want, made, prev,
                 writes, replies>>

ReplayPriorAction(t) ==
  /\ pc[t] = "replay"
  /\ \E a \in Prior(t) :
       /\ Replayable(t, a)
       /\ results' = [results EXCEPT ![t] = Append(@, a.id)]
  /\ pc' = [pc EXCEPT ![t] = "next"]
  /\ UNCHANGED <<committed, nextSeq, locks, step, attempt, want, made, prev,
                 writes, replies>>

(* materialize, then issue the `order by id for update` statement: it      *)
(* returns the targets that exist now and the rows just created.  A        *)
(* created id is a fresh uuid; its row is locked by its own insert.        *)
Materialize(t) ==
  /\ pc[t] = "replay"
  /\ Prior(t) = {}
  /\ \E new \in IF Req(t).type \in Creates
                THEN {{o} : o \in {x \in Object : /\ obj[x] = Absent
                                                 /\ \A u \in Tx : rows[u][x] = None}}
                ELSE {{}} :
       /\ made' = [made EXCEPT ![t] = new]
       /\ rows' = [rows EXCEPT ![t] = [o \in Object |->
                     IF o \in new
                     THEN [state |-> Start, ver |-> 1, by |-> Req(t).actor]
                     ELSE rows[t][o]]]
       /\ rowLock' = [o \in Object |-> IF o \in new THEN t ELSE rowLock[o]]
       /\ want' = [want EXCEPT ![t] =
                     {o \in Req(t).targets : View(t, o) # Absent} \cup new]
  /\ pc' = [pc EXCEPT ![t] = "rows"]
  /\ UNCHANGED <<committed, nextSeq, keyLock, chainLock, step, attempt, prev,
                 acts, links, emitted, results, replies>>

(* Mutant of NextRow: rows are locked in whatever order the plan emits them. *)
NextRowInPlanOrder(t, o) == o \in want[t] /\ rowLock[o] # t

NextRow(t, o) ==
  /\ o \in want[t] /\ rowLock[o] # t
  /\ \A p \in want[t] : rowLock[p] # t => o <= p

(* Mutant of LockRow: the rows are read without waiting for their lock.     *)
LockRowWithoutWaiting(t) ==
  /\ pc[t] = "rows"
  /\ \E o \in Object : NextRow(t, o) /\ rowLock' = [rowLock EXCEPT ![o] = t]
  /\ UNCHANGED <<committed, nextSeq, keyLock, chainLock, pc, step, attempt,
                 want, made, prev, writes, results, replies>>

LockRow(t) ==
  /\ pc[t] = "rows"
  /\ \E o \in Object :
       /\ NextRow(t, o)
       /\ Free(rowLock[o], t)
       /\ rowLock' = [rowLock EXCEPT ![o] = t]
  /\ UNCHANGED <<committed, nextSeq, keyLock, chainLock, pc, step, attempt,
                 want, made, prev, writes, results, replies>>

(* The unique index action_idempotency: an insert waits for, or is refused *)
(* by, any other act under the same slot, committed or not.                *)
SlotIsUnused(t) ==
  /\ Prior(t) = {}
  /\ \A u \in Tx \ {t} : \A a \in acts[u] : Slot(a) # Slot(Req(t))

(* Validation and applyAction run under the row locks: core.action is      *)
(* written, every transition moves its row and its version.                *)
Apply(t) ==
  /\ pc[t] = "rows"
  /\ \A o \in want[t] : rowLock[o] = t
  /\ Acceptable(t)
  /\ SlotIsUnused(t)
  /\ acts' = [acts EXCEPT ![t] = @ \cup
       {[id |-> ActId(t), type |-> Req(t).type, key |-> Req(t).key,
         sem |-> Semantics(Req(t)), targets |-> want[t],
         before |-> Before(t), after |-> After(t)]}]
  /\ rows' = [rows EXCEPT ![t] = [o \in Object |->
       IF o \in want[t] /\ MovesState(Req(t).type)
       THEN [state |-> After(t)[o], ver |-> View(t, o).ver + 1, by |-> View(t, o).by]
       ELSE rows[t][o]]]
  /\ pc' = [pc EXCEPT ![t] = "chain"]
  /\ UNCHANGED <<committed, nextSeq, locks, step, attempt, want, made, prev,
                 links, emitted, results, replies>>

(* appendAuditEvent, first half: take the chain lock, read the head.       *)
LockChain(t) ==
  /\ pc[t] = "chain"
  /\ Free(chainLock, t)
  /\ chainLock' = t
  /\ prev' = [prev EXCEPT ![t] = HeadDigest(SeenLinks(t))]
  /\ pc' = [pc EXCEPT ![t] = "audit"]
  /\ UNCHANGED <<committed, nextSeq, keyLock, rowLock, step, attempt, want,
                 made, writes, results, replies>>

(* The link the current act appends: the sequence number, its predecessor, *)
(* and a digest over the predecessor and the act.                          *)
NewLink(t) ==
  [seq |-> nextSeq, act |-> ActId(t), prev |-> prev[t],
   digest |-> Append(prev[t], ActId(t))]

(* core.enforce_audit_chain_head: the head row is locked by whoever has an *)
(* uncommitted link, and a link must extend the head it finds.             *)
ChainHeadAccepts(t, link) ==
  /\ \A u \in Tx : u # t => links[u] = << >>
  /\ link.seq > HeadSeq(SeenLinks(t))
  /\ link.prev = HeadDigest(SeenLinks(t))

(* appendAuditEvent, second half: nextval, the trigger, and the outbox row *)
(* the link emits.                                                         *)
AppendAudit(t) ==
  /\ pc[t] = "audit"
  /\ ChainHeadAccepts(t, NewLink(t))
  /\ nextSeq' = nextSeq + 1
  /\ links' = [links EXCEPT ![t] = Append(@, NewLink(t))]
  /\ emitted' = [emitted EXCEPT ![t] = @ \cup {ActId(t)}]
  /\ results' = [results EXCEPT ![t] = Append(@, ActId(t))]
  /\ pc' = [pc EXCEPT ![t] = "next"]
  /\ UNCHANGED <<committed, locks, step, attempt, want, made, prev, acts, rows,
                 replies>>

(* A composed transaction dispatches its next act; nothing is released.    *)
NextAct(t) ==
  /\ pc[t] = "next"
  /\ step[t] < Len(Plan[t])
  /\ step' = [step EXCEPT ![t] = @ + 1]
  /\ want' = [want EXCEPT ![t] = {}]
  /\ made' = [made EXCEPT ![t] = {}]
  /\ pc' = [pc EXCEPT ![t] = "key"]
  /\ UNCHANGED <<committed, nextSeq, locks, attempt, prev, writes, results,
                 replies>>

-----------------------------------------------------------------------------
(* How a transaction ends.                                                 *)

(* Mutant of Release: the chain lock outlives the transaction.              *)
ReleaseKeepsChainLock(t) ==
  /\ keyLock' = [k \in Type \X Key |-> IF keyLock[k] = t THEN None ELSE keyLock[k]]
  /\ rowLock' = [o \in Object |-> IF rowLock[o] = t THEN None ELSE rowLock[o]]
  /\ want' = [want EXCEPT ![t] = {}]
  /\ made' = [made EXCEPT ![t] = {}]
  /\ prev' = [prev EXCEPT ![t] = Genesis]
  /\ acts' = [acts EXCEPT ![t] = {}]
  /\ links' = [links EXCEPT ![t] = << >>]
  /\ emitted' = [emitted EXCEPT ![t] = {}]
  /\ rows' = [rows EXCEPT ![t] = [o \in Object |-> None]]
  /\ results' = [results EXCEPT ![t] = << >>]
  /\ pc' = [pc EXCEPT ![t] = "done"]
  /\ UNCHANGED chainLock

Release(t) ==
  /\ keyLock' = [k \in Type \X Key |-> IF keyLock[k] = t THEN None ELSE keyLock[k]]
  /\ rowLock' = [o \in Object |-> IF rowLock[o] = t THEN None ELSE rowLock[o]]
  /\ chainLock' = IF chainLock = t THEN None ELSE chainLock
  /\ want' = [want EXCEPT ![t] = {}]
  /\ made' = [made EXCEPT ![t] = {}]
  /\ prev' = [prev EXCEPT ![t] = Genesis]
  /\ acts' = [acts EXCEPT ![t] = {}]
  /\ links' = [links EXCEPT ![t] = << >>]
  /\ emitted' = [emitted EXCEPT ![t] = {}]
  /\ rows' = [rows EXCEPT ![t] = [o \in Object |-> None]]
  /\ results' = [results EXCEPT ![t] = << >>]
  /\ pc' = [pc EXCEPT ![t] = "done"]

Commit(t) ==
  /\ pc[t] = "next"
  /\ step[t] = Len(Plan[t])
  /\ ledger' = ledger \cup acts[t]
  /\ chain' = chain \o links[t]
  /\ outbox' = outbox \cup emitted[t]
  /\ obj' = [o \in Object |-> View(t, o)]
  /\ replies' = replies \cup
       {[slot |-> Slot(Plan[t][i]), sem |-> Semantics(Plan[t][i]),
         id |-> results[t][i]] : i \in 1 .. Len(Plan[t])}
  /\ Release(t)
  /\ UNCHANGED <<nextSeq, step, attempt>>

Rollback(t) ==
  /\ Release(t)
  /\ UNCHANGED <<committed, nextSeq, step, attempt, replies>>

(* idempotency_conflict, or actor_not_authorized for another actor's key.  *)
RefuseReplay(t) ==
  /\ pc[t] = "replay"
  /\ \E a \in Prior(t) : ~ Replayable(t, a)
  /\ Rollback(t)

(* object_not_visible, version_conflict, illegal_transition, an ambiguous  *)
(* choice, separation_of_duty.                                             *)
RefuseState(t) ==
  /\ pc[t] = "rows"
  /\ \A o \in want[t] : rowLock[o] = t
  /\ ~ Acceptable(t)
  /\ Rollback(t)

(* Everything else that ends a transaction without committing it, at any   *)
(* statement: an authority, qualification, reason or precondition refusal, *)
(* a constraint deferred to COMMIT, lock_timeout, statement_timeout, a     *)
(* deadlock victim, a lost connection, a crash.                            *)
Abort(t) ==
  /\ pc[t] \in Active
  /\ Rollback(t)

-----------------------------------------------------------------------------

Dispatch(t) ==
  \/ LockIdempotencyKey(t) \/ ReplayPriorAction(t) \/ RefuseReplay(t)
  \/ Materialize(t) \/ LockRow(t) \/ Apply(t) \/ RefuseState(t)
  \/ LockChain(t) \/ AppendAudit(t) \/ NextAct(t) \/ Commit(t)

(* Every caller has sent its plan for the last time.                       *)
Finished ==
  /\ \A t \in Tx : pc[t] = "done" /\ attempt[t] = MaxAttempts
  /\ UNCHANGED vars

Next ==
  \/ \E t \in Tx : Begin(t) \/ Dispatch(t) \/ Abort(t)
  \/ Finished

Spec == Init /\ [][Next]_vars

(* A statement a session has issued is executed, and a lock it waits for   *)
(* is granted once free: PostgreSQL queues waiters.                        *)
FairSpec == Spec /\ \A t \in Tx : WF_vars(Dispatch(t))

-----------------------------------------------------------------------------
(* Properties.                                                             *)

(* Every variable has its type; a committed or pending row is absent or a  *)
(* record in a lifecycle state, never one in no state.                     *)
TypeOK ==
  /\ \A a \in ledger : a.id \in Tx \X Nat \X Nat /\ Slot(a) \in Type \X Key
  /\ obj \in [Object -> Row]
  /\ nextSeq \in Nat
  /\ keyLock \in [Type \X Key -> Tx \cup {None}]
  /\ rowLock \in [Object -> Tx \cup {None}]
  /\ chainLock \in Tx \cup {None}
  /\ pc \in [Tx -> Active \cup {"idle", "done"}]
  /\ step \in [Tx -> Nat] /\ \A t \in Tx : step[t] \in 1 .. Len(Plan[t])
  /\ attempt \in [Tx -> 0 .. MaxAttempts]
  /\ want \in [Tx -> SUBSET Object]
  /\ made \in [Tx -> SUBSET Object]
  /\ rows \in [Tx -> [Object -> Row \cup {None}]]

(* Every link names its predecessor's digest and covers its own act, and   *)
(* sequence numbers rise in commit order.                                  *)
Linked(c) ==
  \A i \in 1 .. Len(c) :
    /\ c[i].prev = IF i = 1 THEN Genesis ELSE c[i - 1].digest
    /\ c[i].digest = Append(c[i].prev, c[i].act)
    /\ \A j \in 1 .. (i - 1) : c[j].seq < c[i].seq

ActsOf(c) == {c[i].act : i \in 1 .. Len(c)}
Once(c) == \A i, j \in 1 .. Len(c) : c[i].act = c[j].act => i = j
IdsOf(A) == {a.id : a \in A}

(* The committed audit chain verifies from genesis and rises in seq (the   *)
(* checkpoint signer reads `seq > last`), and acts, links and outbox rows  *)
(* correspond one to one, whatever rolled back in between.                 *)
ChainIntact ==
  /\ Linked(chain)
  /\ Once(chain)
  /\ IdsOf(ledger) = ActsOf(chain)
  /\ outbox = ActsOf(chain)

(* The database's second lines of defence never fire under the             *)
(* dispatcher: an act about to be recorded is alone under its idempotency  *)
(* slot, and a link about to be inserted extends the head the trigger will *)
(* find.  A caller therefore never sees a unique or integrity violation    *)
(* because of another caller's timing.                                     *)
BackstopsNeverRefuse ==
  \A t \in Tx :
    /\ pc[t] = "rows" => SlotIsUnused(t)
    /\ pc[t] = "audit" => ChainHeadAccepts(t, NewLink(t))

(* Whatever a caller was told happened did happen, once, with the          *)
(* semantics it asked for: a reply names a committed act of the same       *)
(* request, and every reply for one idempotency key names the same act.    *)
RepliesAreDurable ==
  \A r \in replies :
    /\ \E a \in ledger : a.id = r.id /\ Slot(a) = r.slot /\ a.sem = r.sem
    /\ \A q \in replies : q.slot = r.slot => q = r

(* The lock a session is waiting for, as the session that holds it.        *)
WaitsFor(t, u) ==
  /\ t # u
  /\ \/ pc[t] = "key" /\ keyLock[Slot(Req(t))] = u
     \/ pc[t] = "rows" /\ \E o \in Object : NextRow(t, o) /\ rowLock[o] = u
     \/ pc[t] = "chain" /\ chainLock = u

(* No set of sessions waits in a circle: idempotency locks, row locks in   *)
(* id order and the chain lock are taken in one global order, so acts on   *)
(* overlapping targets cannot deadlock.                                    *)
NoWaitCycle ==
  ~ \E S \in (SUBSET Tx) \ {{}} : \A t \in S : \E u \in S : WaitsFor(t, u)

(* A dispatch that began ends, whatever the others do: nobody waits for a  *)
(* lock forever.                                                           *)
EveryDispatchEnds ==
  \A t \in Tx : (pc[t] = "key") ~> (pc[t] = "done")

-----------------------------------------------------------------------------
(* What the kernel implements: ActLedger, with the acts in chain order as  *)
(* its log.                                                                *)

LogOver(A, c) == [i \in 1 .. Len(c) |-> CHOOSE a \in A : a.id = c[i].act]
LogOf == LogOver(ledger, chain)

Ledger == INSTANCE ActLedger WITH log <- LogOf

(* Every history the concurrent kernel can commit is a serial history:     *)
(* each act was legal against the state left by the acts before it.        *)
RefinesActLedger == Ledger!Spec

(* Committed records are exactly what the ledger says they are: state and  *)
(* version of every object follow from the acts that name it.              *)
RecordsMatchLedger ==
  \A o \in Object : obj[o] # Absent =>
    /\ obj[o].state = Ledger!StateAt(LogOf, Len(chain) + 1, o)
    /\ obj[o].ver = Ledger!VersionAt(LogOf, Len(chain) + 1, o)
=============================================================================
