---------------------------- MODULE SearchOutbox ----------------------------
(***************************************************************************)
(* Delivery of the outbox to the search index: apps/worker/src/outbox.ts   *)
(* over core.outbox, search.index_object and search.rebuild.               *)
(*                                                                         *)
(* A drain is one transaction: it locks up to Batch undelivered rows,      *)
(* skipping those another drain holds, indexes each row's record inside a  *)
(* savepoint, and marks it delivered.  A rebuild is one transaction that   *)
(* indexes every record in id order.  Both call index_object, which reads  *)
(* the record's text in one statement and upserts the search document in   *)
(* a later one, with a snapshot of its own.                                *)
(*                                                                         *)
(* A record's content is its version; a search document is the versions    *)
(* its text and its metadata were read at.                                 *)
(***************************************************************************)
EXTENDS Naturals, Sequences, FiniteSets

CONSTANTS
  Worker,     \* drain loops
  Rebuild,    \* operators running search.rebuild()
  Object,     \* record ids, as naturals
  MaxActs,    \* bound: acts
  Batch,      \* rows a drain takes at most
  Poison,     \* the sets of records whose handler may throw every time
  MaxCrash,   \* bound: transactions that die
  Deployment  \* the sets of indexers an installation may run

Indexer == Worker \cup Rebuild

ASSUME OutboxAssumption ==
  /\ Object \subseteq Nat /\ IsFiniteSet(Object)
  /\ Poison \subseteq SUBSET Object
  /\ Worker \cap Rebuild = {} /\ Deployment \subseteq SUBSET Indexer
  /\ IsFiniteSet(Indexer)
  /\ Batch \in Nat \ {0} /\ MaxActs \in Nat /\ MaxCrash \in Nat

VARIABLES
  deployed,  \* the indexers this installation runs; never changes
  bad,       \* the records whose handler throws every time; never changes
  version,   \* core.object, committed
  began,     \* began[o]: when the uncommitted act on o began, or 0
  clock,     \* transaction start times handed out so far
  outbox,    \* core.outbox: set of [obj, ver, at]
  delivered, \* the rows whose delivered_at is set
  doc,       \* search.document, committed: [body, meta]
  pc,        \* per indexer: "idle", "read", "upsert"
  todo,      \* per indexer: the objects (rebuild) or rows (drain) still to do
  held,      \* per indexer: the outbox rows its transaction has locked
  body,      \* per indexer: the text index_object read
  fresh,     \* per indexer: uncommitted search documents
  marked,    \* per indexer: uncommitted delivery marks
  crashes

vars == <<deployed, bad, version, began, clock, outbox, delivered, doc, pc, todo,
          held, body, fresh, marked, crashes>>
records == <<deployed, bad, version, began, clock, outbox>>

NoDoc == [body |-> 0, meta |-> 0]
Target(item) == item.obj

Init ==
  /\ deployed \in Deployment /\ bad \in Poison
  /\ version = [o \in Object |-> 0]
  /\ began = [o \in Object |-> 0]
  /\ clock = 0
  /\ outbox = {} /\ delivered = {}
  /\ doc = [o \in Object |-> NoDoc]
  /\ pc = [w \in Indexer |-> "idle"]
  /\ todo = [w \in Indexer |-> << >>]
  /\ held = [w \in Indexer |-> {}]
  /\ body = [w \in Indexer |-> 0]
  /\ fresh = [w \in Indexer |-> [o \in Object |-> NoDoc]]
  /\ marked = [w \in Indexer |-> {}]
  /\ crashes = 0

-----------------------------------------------------------------------------
(* Acts: external to this module; ActionDispatch models them.  created_at  *)
(* is the transaction's start, so rows need not commit in created_at order.*)

ActBegins(o) ==
  /\ began[o] = 0 /\ clock < MaxActs
  /\ clock' = clock + 1
  /\ began' = [began EXCEPT ![o] = clock + 1]
  /\ UNCHANGED <<deployed, bad, version, outbox, delivered, doc, pc, todo, held,
                 body, fresh, marked, crashes>>

ActCommits(o) ==
  /\ began[o] # 0
  /\ version' = [version EXCEPT ![o] = @ + 1]
  /\ outbox' = outbox \cup {[obj |-> o, ver |-> version[o] + 1, at |-> began[o]]}
  /\ began' = [began EXCEPT ![o] = 0]
  /\ UNCHANGED <<deployed, bad, clock, delivered, doc, pc, todo, held, body,
                 fresh, marked, crashes>>

-----------------------------------------------------------------------------
(* The drain.                                                              *)

(* Mutant of Claimable: without skip locked, a second drain takes the rows  *)
(* the first is working on.                                                *)
ClaimableWhileLocked == outbox \ delivered

Claimable == {r \in outbox \ delivered : \A w \in Worker : r \notin held[w]}

Older(r, s) == r.at < s.at

(* `order by created_at limit $1 for update skip locked`.                  *)
IsOldest(rows) ==
  /\ Cardinality(rows) = IF Cardinality(Claimable) < Batch
                         THEN Cardinality(Claimable) ELSE Batch
  /\ \A r \in rows : \A s \in Claimable \ rows : Older(r, s)

Enumerations(S) == [1 .. Cardinality(S) -> S]

InOrder(q) == \A i, j \in DOMAIN q : i < j => Older(q[i], q[j])

Drain(w) ==
  /\ w \in deployed /\ pc[w] = "idle"
  /\ Claimable # {}
  /\ \E rows \in SUBSET Claimable :
       /\ IsOldest(rows)
       /\ \E q \in Enumerations(rows) : InOrder(q) /\ todo' = [todo EXCEPT ![w] = q]
       /\ held' = [held EXCEPT ![w] = rows]
  /\ pc' = [pc EXCEPT ![w] = "read"]
  /\ UNCHANGED <<records, delivered, doc, body, fresh, marked, crashes>>

(* search.rebuild: every record that exists, in id order.                  *)
Existing == {o \in Object : version[o] > 0}

Whole(objects) == {[obj |-> o] : o \in objects}

ById(q) == \A i, j \in DOMAIN q : i < j => q[i].obj < q[j].obj

StartRebuild(w) ==
  /\ w \in deployed /\ pc[w] = "idle"
  /\ Existing # {}
  /\ \E q \in Enumerations(Whole(Existing)) :
       ById(q) /\ todo' = [todo EXCEPT ![w] = q]
  /\ pc' = [pc EXCEPT ![w] = "read"]
  /\ UNCHANGED <<records, delivered, doc, held, body, fresh, marked, crashes>>

-----------------------------------------------------------------------------
(* search.index_object and the rest of a row's savepoint.                  *)

Current(w) == Head(todo[w])

ReadText(w) ==
  /\ pc[w] = "read" /\ todo[w] # << >>
  /\ Target(Current(w)) \notin bad
  /\ body' = [body EXCEPT ![w] = version[Target(Current(w))]]
  /\ pc' = [pc EXCEPT ![w] = "upsert"]
  /\ UNCHANGED <<records, delivered, doc, todo, held, fresh, marked, crashes>>

(* Mutant of Upsert: the conflict branch forgets the metadata columns.     *)
UpsertKeepsMetadata(w) ==
  LET o == Target(Current(w)) IN
  /\ pc[w] = "upsert"
  /\ \A v \in Indexer \ {w} : fresh[v][o] = NoDoc
  /\ fresh' = [fresh EXCEPT ![w][o] =
       [body |-> body[w],
        meta |-> IF doc[o] = NoDoc THEN version[o] ELSE doc[o].meta]]
  /\ marked' = [marked EXCEPT ![w] =
       IF w \in Worker THEN @ \cup {Current(w)} ELSE @]
  /\ todo' = [todo EXCEPT ![w] = Tail(@)]
  /\ pc' = [pc EXCEPT ![w] = "read"]
  /\ UNCHANGED <<records, delivered, doc, held, body, crashes>>

(* Mutant of Upsert: a rebuild marks rows delivered that it never claimed. *)
UpsertAlwaysMarks(w) ==
  LET o == Target(Current(w)) IN
  /\ pc[w] = "upsert"
  /\ \A v \in Indexer \ {w} : fresh[v][o] = NoDoc
  /\ fresh' = [fresh EXCEPT ![w][o] = [body |-> body[w], meta |-> version[o]]]
  /\ marked' = [marked EXCEPT ![w] = @ \cup {Current(w)}]
  /\ todo' = [todo EXCEPT ![w] = Tail(@)]
  /\ pc' = [pc EXCEPT ![w] = "read"]
  /\ UNCHANGED <<records, delivered, doc, held, body, crashes>>

(* `on conflict do update` waits for another transaction's uncommitted     *)
(* upsert of the same document, then overwrites it.                        *)
Upsert(w) ==
  LET o == Target(Current(w)) IN
  /\ pc[w] = "upsert"
  /\ \A v \in Indexer \ {w} : fresh[v][o] = NoDoc
  /\ fresh' = [fresh EXCEPT ![w][o] = [body |-> body[w], meta |-> version[o]]]
  /\ marked' = [marked EXCEPT ![w] =
       IF w \in Worker THEN @ \cup {Current(w)} ELSE @]
  /\ todo' = [todo EXCEPT ![w] = Tail(@)]
  /\ pc' = [pc EXCEPT ![w] = "read"]
  /\ UNCHANGED <<records, delivered, doc, held, body, crashes>>

(* PostgreSQL's deadlock detector: two indexers that wait for each other's  *)
(* uncommitted documents.                                                  *)
Deadlocked(w) ==
  /\ pc[w] = "upsert"
  /\ \E v \in Indexer \ {w} :
       /\ pc[v] = "upsert"
       /\ fresh[v][Target(Current(w))] # NoDoc
       /\ fresh[w][Target(Current(v))] # NoDoc

(* Mutant of FailRow: a failed row is marked like any other.               *)
FailRowMarksIt(w) ==
  /\ w \in Worker
  /\ \/ pc[w] = "read" /\ todo[w] # << >> /\ Target(Current(w)) \in bad
     \/ pc[w] = "upsert" /\ (Deadlocked(w) \/ crashes < MaxCrash)
  /\ crashes' = IF pc[w] = "read" \/ Deadlocked(w) THEN crashes ELSE crashes + 1
  /\ marked' = [marked EXCEPT ![w] = @ \cup {Current(w)}]
  /\ todo' = [todo EXCEPT ![w] = Tail(@)]
  /\ pc' = [pc EXCEPT ![w] = "read"]
  /\ UNCHANGED <<records, delivered, doc, held, body, fresh>>

(* Mutant of FailRow: without the savepoint, the failure ends the batch.   *)
FailRowEndsBatch(w) ==
  /\ w \in Worker
  /\ \/ pc[w] = "read" /\ todo[w] # << >> /\ Target(Current(w)) \in bad
     \/ pc[w] = "upsert" /\ (Deadlocked(w) \/ crashes < MaxCrash)
  /\ crashes' = IF pc[w] = "read" \/ Deadlocked(w) THEN crashes ELSE crashes + 1
  /\ todo' = [todo EXCEPT ![w] = << >>]
  /\ held' = [held EXCEPT ![w] = {}]
  /\ fresh' = [fresh EXCEPT ![w] = [o \in Object |-> NoDoc]]
  /\ marked' = [marked EXCEPT ![w] = {}]
  /\ pc' = [pc EXCEPT ![w] = "idle"]
  /\ UNCHANGED <<records, delivered, doc, body>>

(* The handler threw: for a record it can never index, as a deadlock's     *)
(* victim, or once (a lock timeout).  Roll back to the savepoint, leave    *)
(* the row undelivered, go on with the next.                               *)
FailRow(w) ==
  /\ w \in Worker
  /\ \/ pc[w] = "read" /\ todo[w] # << >> /\ Target(Current(w)) \in bad
     \/ pc[w] = "upsert" /\ (Deadlocked(w) \/ crashes < MaxCrash)
  /\ crashes' = IF pc[w] = "read" \/ Deadlocked(w) THEN crashes ELSE crashes + 1
  /\ todo' = [todo EXCEPT ![w] = Tail(@)]
  /\ pc' = [pc EXCEPT ![w] = "read"]
  /\ UNCHANGED <<records, delivered, doc, held, body, fresh, marked>>

End(w) ==
  /\ todo' = [todo EXCEPT ![w] = << >>]
  /\ held' = [held EXCEPT ![w] = {}]
  /\ fresh' = [fresh EXCEPT ![w] = [o \in Object |-> NoDoc]]
  /\ marked' = [marked EXCEPT ![w] = {}]
  /\ pc' = [pc EXCEPT ![w] = "idle"]
  /\ UNCHANGED <<records, body>>

Commit(w) ==
  /\ pc[w] = "read" /\ todo[w] = << >>
  /\ doc' = [o \in Object |-> IF fresh[w][o] = NoDoc THEN doc[o] ELSE fresh[w][o]]
  /\ delivered' = delivered \cup marked[w]
  /\ End(w)
  /\ UNCHANGED crashes

(* A rebuild has no savepoints: a record that cannot be indexed, or a      *)
(* deadlock, ends it, and nothing it did stays.                            *)
AbortRebuild(w) ==
  /\ w \in Rebuild
  /\ \/ pc[w] = "read" /\ todo[w] # << >> /\ Target(Current(w)) \in bad
     \/ Deadlocked(w)
  /\ End(w)
  /\ UNCHANGED <<delivered, doc, crashes>>

(* The process dies or the connection is lost before COMMIT.               *)
Crash(w) ==
  /\ pc[w] # "idle" /\ crashes < MaxCrash
  /\ crashes' = crashes + 1
  /\ End(w)
  /\ UNCHANGED <<delivered, doc>>

-----------------------------------------------------------------------------

DrainStep(w) ==
  Drain(w) \/ ReadText(w) \/ Upsert(w) \/ FailRow(w) \/ Commit(w)

RebuildStep(w) ==
  StartRebuild(w) \/ ReadText(w) \/ Upsert(w) \/ AbortRebuild(w) \/ Commit(w)

Next ==
  \/ \E o \in Object : ActBegins(o) \/ ActCommits(o)
  \/ \E w \in Worker : DrainStep(w) \/ Crash(w)
  \/ \E w \in Rebuild : RebuildStep(w) \/ Crash(w)

Spec == Init /\ [][Next]_vars

(* The pump ticks every second, the statements of an open transaction are  *)
(* executed, and PostgreSQL grants a contended row to its waiters in turn. *)
(* Nobody has to start a rebuild.                                          *)
FairSpec ==
  /\ Spec
  /\ \A w \in Worker : WF_vars(DrainStep(w)) /\ SF_vars(Upsert(w))
  /\ \A w \in Rebuild : WF_vars(pc[w] # "idle" /\ RebuildStep(w))

-----------------------------------------------------------------------------

(* Every variable has its type, and only rows that exist are delivered.    *)
TypeOK ==
  /\ version \in [Object -> 0 .. MaxActs]
  /\ delivered \subseteq outbox
  /\ doc \in [Object -> [body : 0 .. MaxActs, meta : 0 .. MaxActs]]
  /\ pc \in [Indexer -> {"idle", "read", "upsert"}]
  /\ \A w \in Indexer : marked[w] \subseteq outbox

(* Delivery may be late and may not be lossy: with one indexer, a row      *)
(* marked delivered means that its record's search document, text and      *)
(* metadata, is at least as new as the act that emitted the row, whatever  *)
(* failed, was skipped or crashed in between; so a drained outbox means a  *)
(* current index.  Beside another indexer it need not: the one that read   *)
(* first may write last.                                                   *)
DeliveredIsIndexed ==
  Cardinality(deployed) = 1 =>
    \A r \in delivered : doc[r.obj].body >= r.ver /\ doc[r.obj].meta >= r.ver

(* Two drains never work on the same row, and none repeats a row that is   *)
(* already delivered, however they overlap, fail and restart.              *)
NoRowIsDoneTwice ==
  \A w \in Worker :
    /\ held[w] \cap delivered = {}
    /\ \A v \in Worker \ {w} : held[w] \cap held[v] = {}

Owed(o) == {r \in outbox \ delivered : r.obj = o}
BadRows == {r \in outbox : r.obj \in bad}

(* One bad row does not strand the rows behind it: the row of every record *)
(* whose handler works is eventually delivered, however many drains fail   *)
(* and whoever else is indexing, unless bad rows fill a whole batch.       *)
HealthyRowsAreDelivered ==
  \A o \in Object :
    (o \notin bad /\ deployed \cap Worker # {} /\ Owed(o) # {})
      ~> (Owed(o) = {} \/ Cardinality(BadRows) >= Batch)
=============================================================================
