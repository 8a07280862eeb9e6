# Knowledge Fabric: a TLA+ verification project

The Knowledge Fabric keeps a typed record of a company's objects in PostgreSQL and lets it change
only through attributed acts. Its guarantees are about what concurrent transactions, retries,
crashes and background workers may do to that record: an act happens once or not at all, the
audit chain never forks, what search and retrieval serve catches up with what was recorded, and
what was signed cannot be rewritten unnoticed, bytes a record names are not collected, and a
ranking is whole. Unit tests reach few of these interleavings. The
modules here model them, TLC checks them on small instances, and TLAPS proves every safety property
of a passing run for every instance; `NoWaitCycle` alone under a premise, which section 4 gives.

## 1. The system

### Components

| component | state it keeps | operations | hard because |
|---|---|---|---|
| Action kernel (`packages/actions`) | `core.object`, `core.action`, advisory and row locks | dispatch: lock key, replay, materialize, lock rows, validate, apply, append audit | concurrent sessions, retries, several acts in one transaction |
| Audit chain (`database/migrations`) | `core.audit_event`, `core.audit_chain_head`, `core.outbox` | chain-head trigger, idempotency index, outbox emission | sequence numbers survive rollbacks, commit order |
| Composed transactions (`apps/api` import, `kf ingest`) | none of their own | several dispatches in one transaction | locks of one act held during the next |
| Outbox drain and search index (`apps/worker/src/outbox.ts`) | `core.outbox.delivered_at`, `search.document` | drain a batch, index a record, rebuild | several drains, poisoned rows, rebuild beside drain |
| Embedding pump (`apps/worker/src/embedding.ts`) | `retrieval.embed_pending`, the engine's vectors | enqueue, claim, send, complete, fail, pass, back off | leases, lost answers, edits during an embedding |
| Checkpoint signer and verification (`apps/checkpoint`) | `core.audit_checkpoint`, objects in an append-only store | sign what is pending, verify from genesis, prove one event | database and object store commit separately, key rotation, tampering |
| Orphan sweeps (`apps/kf-storage`), ingests, compiler runtime (`apps/worker`) | versions of an object key, `content.artifact_version`, `content.orphan_collection` | store, verify, record; list, check, delete, record, look again | bytes exist before the record that names them; the store is in no transaction |
| Urgent notifier (`apps/notify`) | a boundary file with per-person cursors | read what arose, push to each person, save | pushes fail, the run dies part-way, items commit out of order |
| Semantic retrieval (`packages/retrieval`, `packages/search`) | pushed band bitmaps and a pinned embedder per process; bands and slots in the engine | build bitmaps, push, search, re-check | three reads without one snapshot, an engine that restarts and reorders, processes that share it |
| Authorization, attestor | roles, grants, sealed context | resolve clearance, bind row security | revocation while a dispatch runs |
| Identifiers, master record, ML registry, export | see `PROJECT.json` | | |

Everything under `components` of `PROJECT.json` with status `not_modelled` has its reason there.

### How they interact

    callers ──dispatch──▶ action kernel ──one transaction──▶ object, action, audit_event, outbox
                                                                  │              │
                              checkpoint signer ◀──reads seq > n──┘              │
                                    │                                            ▼
                          audit_checkpoint + object store               outbox drain (every second)
                                    ▲                                     │ search.document
                              verifyLedger                                │ embed_pending
                                                                          ▼
                                                          embedding pump ──▶ retrieval engine
                                                                                  ▲
    band_version, object bands ──▶ semantic retrieval (API processes) ──bands, query──┘

    ingest / compilation ──bytes──▶ object store ◀──delete── orphan sweep
            └──record──▶ content.artifact_version ◀──check─────┘

    urgent items ──every 5 min──▶ notifier ──push──▶ persons' destinations, host's alert path

The kernel calls the database's triggers; everything downstream is decoupled by tables. The
contracts between modules are therefore facts about tables: an outbox row exists exactly for
each committed act (`ChainIntact`, which `SearchOutbox!ActCommits` relies on); sequence numbers
rise in commit order (`ChainIntact`, which `CheckpointSigner!ActCommits` relies on); the drain
changes the search text and enqueues the embedding in one commit (`EmbeddingQueue!Drain`); a
vector the pump writes is a new slot at the end of the engine's order (`SemanticRetrieval!Grow`).
The sweep and the compiler runtime meet in one lock per key, `content.lock_stored_key`; the sweep
and an ingest share no lock at all.

### What makes each part correct

* kernel: every answer names an act that happened, once; history is serial and legal; records
  agree with the history; no deadlock; every dispatch ends;
* chain: links, rises, matches acts and outbox rows one to one;
* search: a delivered row is indexed, so a drained outbox means a current index; no row is worked
  on twice; bad rows do not strand good ones;
* embedding: nothing leaves the queue unembedded; old and new text are never embedded side by
  side; every record is embedded or recorded as given up on;
* checkpoints: rows are anchored, ranges tile the log, a clean ledger verifies, signed history
  is pinned, a proof of inclusion binds one event, every act is eventually signed;
* storage: bytes a record names stay; a deletion is recorded or raises an alarm; a sweep that ends
  quietly destroyed nothing but what an open act was about to name; orphans are collected;
* notification: nobody is skipped, nobody is told twice without a crash, everyone is told or left
  to the digest even when pushes fail for ever;
* retrieval: a ranking that is served is complete and readable, and query text reaches one local
  embedder only; when nothing moves, a query is answered.

The hazards behind these are listed with their lines in `PROJECT.json`.

## 2. Modules

| module | what it is |
|---|---|
| `ActLedger` | the kernel's abstract specification: one serial log of legal acts |
| `ActionDispatch` | the kernel: sessions, locks, private writes, commit, and its refinement mapping to `ActLedger` |
| `MCActionDispatch` | instances |
| `ActionDispatchProofs` | the theorems about `ActionDispatch` on types, backstops and the chain |
| `ActionLedgerProofs` | that it implements `ActLedger`, that replies are durable, that single acts cannot deadlock |
| `SearchOutbox`, `MCSearchOutbox`, `SearchOutboxProofs` | drain, index and rebuild |
| `EmbeddingQueue`, `MCEmbeddingQueue`, `EmbeddingQueueProofs` | embedding queue, pump and engine |
| `CheckpointSigner`, `MCCheckpointSigner`, `CheckpointSignerProofs` | signer, store, verification and the auditor's proof |
| `MerkleTree` | roots and inclusion proofs, and the tree of RFC 6962 they are compared with |
| `StorageSweep`, `MCStorageSweep`, `StorageSweepProofs` | ingests or compilations beside the orphan sweep, on one key |
| `NotifyUrgent`, `MCNotifyUrgent`, `NotifyUrgentProofs` | the urgent notifier and its file |
| `SemanticRetrieval`, `MCSemanticRetrieval`, `SemanticRetrievalProofs` | queries, band bitmaps and the engine |

Operators whose comment begins "Mutant of" are defective variants that no specification uses.
Each is the body of a mapped definition with one plausible mistake (a dropped guard, an
off-by-one, a missing reset); substituting it must break the property it is paired with in
`PROJECT.json`, which shows that the property can fail.

### ActionDispatch

A session `t` runs the acts `Plan[t]` in one transaction: one act for `createDispatcher`, several
for a caller of the transactional dispatcher. One action per statement that another session can
interleave with:

| action | code |
|---|---|
| `Begin`, `Commit`, `Rollback`/`Release` | `withTransaction` |
| `LockIdempotencyKey` | `lockIdempotencyKey` |
| `ReplayPriorAction`, `RefuseReplay` | `replayPriorAction` |
| `Materialize` | the materializer, then the start of `select … order by id for update` |
| `LockRow` | that statement reaching its next row |
| `Apply`, `RefuseState` | the checks of `prepareActionState`, then `applyAction` |
| `LockChain` | the chain lock and the read of the head |
| `AppendAudit` | the insert, `core.enforce_audit_chain_head`, the emitted outbox row |
| `NextAct` | the next dispatch of a composed transaction |
| `Abort` | every other way a transaction dies, at any statement |

`obj`, `ledger`, `chain` and `outbox` are committed tables; `rows`, `acts`, `links` and `emitted`
are a transaction's own uncommitted writes, which only it sees (`View`, `SeenActs`, `SeenLinks`:
READ COMMITTED). Waiting for a lock is the guard `Free`. The two database backstops, the unique
index and the head trigger, are guards of `Apply` and `AppendAudit`; `BackstopsNeverRefuse` says
those guards are never what stops a session.

Abstractions: one organization and one object type (one state machine); the acting role is part
of the actor; a target list is a set (a list with duplicates is refused by the count check);
`payload` is its `to_state`; digests are their preimages, that is, collision-free; action ids and
created object ids are fresh; typed effects write tables no modelled property reads; authority
and qualification checks may refuse at any statement (`Abort`), which includes where they do.

### SearchOutbox

A record's content is a version number; a search document is the pair of versions its text and
its metadata were read at, because `search.index_object` reads them in different statements.
`Drain` takes the oldest claimable rows (`order by created_at limit n for update skip locked`),
then `ReadText`, `Upsert` and possibly `FailRow` per row, then `Commit`. `ActBegins` and
`ActCommits` are separate because `created_at` is the transaction's start, so rows need not appear
in that order. `StartRebuild` is `search.rebuild()`: the same two statements per record, in id
order, in one transaction without savepoints. Two indexers that wait for each other's uncommitted
documents are `Deadlocked`: a drain's row fails back to its savepoint (`FailRow`), a rebuild is
lost (`AbortRebuild`). `deployed` chooses who indexes, so one run covers one worker, two workers,
and a worker beside a rebuild; `bad` chooses whose handler always throws. An act here has one
target; an act with several is one row per target, each handled as the code's loop does.

### EmbeddingQueue

A text and a vector are version numbers. `hold` stands for the pair (`claim`, `claimed_until`):
free, live, lapsed, or waiting out a backoff; time appears only as what may have lapsed. `Claim`
is split from `TakeSnapshot` because `retrieval.claim_embeddings` reads text with the statement's
snapshot and locks the newest queue row. The engine is external: it stores or refuses each
request it holds on the `wire`, in any order. `ClaimThrows`, `CompleteThrows` and `FailThrows` are
lost database calls, before or after their commit where that differs.

Two things the queue cannot prevent are always part of the model. A drain may commit between a
claim's snapshot and its lock, so the claim is granted with an older text than the record has;
`stale` marks it. And `TimeOut` leaves the request on the wire: the client destroys its socket and
sends no cancellation (`client.ts:182`), so the engine may store the vector when the record is under
another claim or under none (`Late`). `astray` names the records whose vector came one of those two
ways; both are history, and no guard reads them. `DequeuedIsEmbedded`, `VectorNeverGoesBack` and
`EmbeddedOrRecorded` except exactly those records, so they say that there is no third way to a
wrong vector. That the exception for drains is needed is the run `embedding_gap`, which checks the
comment in `claim_embeddings` as it stands (`NothingHeldIsStale`) on an instance without faults.
`NeverBeside` needs no exception, because it is about what somebody waits for. A lease never
lapses under a consumer that works on the claim, since the worker refuses a lease shorter than
twice the engine's timeout; it may lapse under a request that was given up.

### CheckpointSigner

A run is `TakeLock`, `ReadLatest`, `Sign` (read, verify, insert the row), `Put` (create-only write
and read back), `Commit`. `LoseConnection` ends the transaction and frees its lock while the
process goes on, so it may still `Put`; `FailStatement` is where it finds out. Sequence numbers of
rolled back acts are skipped. `Tamper` edits or deletes an event with or without relinking what
follows. `verifyLedger` is two actions, `VerifyReadsEvents` and `VerifyReadsCheckpoints`, because
its two reads have different snapshots. A chain digest is its preimage, the bodies from genesis; a
root is a tree of `MerkleTree`; a signature is the signed record with its key. All signing keys are
trusted (`assertSigningKeyTrusted` refuses the others), so `unknown_key` and `bad_signature` do not
arise, and legacy formats are left out. The put is one step, as the store's conditional create
makes it. The ranges of a log between two sequence numbers are cut at `lowerBound` and `upperBound`,
as the code cuts them; their binary search is modelled by what it finds in a log in order.

Two properties name the exception the code has, rather than leaving it out. `CleanLedgerVerifies`
excepts a checkpoint that ends after the last event the verification read, which is one committed
between its two reads. `EveryActIsSigned` excepts `Wedged`: an object left by a lost commit for
exactly what is pending, under a key rotated away since. Both are known limits (section 3).

### MerkleTree

Hashes are their preimages, told apart by the prefix the code puts in front. `Above` is one level
of pairing with promotion of an odd last node, `merkleRoot`, `inclusionProof` and `verifyInclusion`
are the functions of `merkle.ts`, their loops the recursive functions `Walk` and `Climb`; `TreeHash` is the definition of RFC 6962, which the source names.
`MCCheckpointSigner` compares the two for every size up to 9 and checks every proof against every
leaf, as assumptions TLC evaluates; `ProofsBindOneEvent` uses the same operators on the ranges that
signers produced.

### StorageSweep

One key of the store, since keys are content addresses and the sweep visits them one at a time. A
version is a number, a reference is the version a committed record names. `prefix` chooses which of
the two protocols runs, `conditional` whether the store has a conditional create.

| action | code |
|---|---|
| `CreateIfAbsent`, `HeadObject`, `PutObject` | `putIfAbsent`, in both its branches |
| `Verify` | `verifyUpload`, or the runtime's read back of the view |
| `RecordEvidence`, `Reread`, `CommitRecord` | `recordEvidence` in the act's transaction, the parser's read, COMMIT |
| `LockStoredKey`, `ConfirmStored`, `CommitRecord` | the compiler runtime records its run under the key's lock |
| `BytesAreGone`, `RefuseRecord`, `WriterCrashes` | the ways an attempt ends without a reference |
| `ListKey` | the listing with the grace period's cutoff |
| `Check` | `referenced`, or `content.claim_unreferenced_compiled_view` with the lock |
| `ListVersions`, `DeleteVersion` | `deleteEveryVersion` |
| `RecordCollection`, `Recheck` | `record_orphan_collection` and the second look |
| `SweepFails`, `LoseClaim`, `RecordFails` | a failed request, a dropped claim transaction, and where that is noticed |

`GraceElapses` makes versions old, but none whose writer is still in the attempt that put it: the
grace period is hours long, a request is not. An ingest that *adopts* an old version has no such
protection, and that is the finding of `storage_race`.

### NotifyUrgent

Items are numbered in the order (`arose_at`, id); `arose_at` is the start of the transaction that
raised the item, so `Commits` happens in any order. The file is `head` and, per person behind,
`at` and `fails`; each save is a rename, hence one step with what it follows. `BeginRun` is the one
query of a run with what it copies of the settings, `Turn` the order it deals with people in,
`Send` one push to a person's own destination, `AlertPush` the fixed line on the host's alert path,
`SendFails` a refusal or timeout with the bookkeeping of `MAX_DESTINATION_FAILURES`, `Finish` the
last save, `Crash` a run that dies between any two of these. `sent`, `saved`, `late` and `excused`
are history: what was pushed, what a saved turn settled, what was committed behind a boundary, and
what was left to the digest.

### SemanticRetrieval

A query alternates short transactions with exchanges on the engine's socket, one action each:
`CurrentBandVersion`; `SlotsAndVersion`, `ReadBands`, `ReadVersionAgain` (the three statements of
`buildBandBitmaps`, each with a snapshot of its own); `PushBands`; `ScopeAndHandshake`; `Search`;
`Recheck`. `Retry` is the single second attempt, `Forget` the dropping of the process's cached
bitmaps, `Unavailable` every exchange that fails. A band version is an epoch and a counter, moved
by deferred triggers as the transaction commits that creates, reclassifies or deletes a record
(`Write`), and lost with its row (`LoseRow`). `Unavailable` pins the embedder if its handshake
succeeded before the exchange failed. The engine is external: `slots` with a `generation`, the bands `held` last, an
embedder. It grows, is reordered, and restarts with another embedder or a remote one between any
two steps. Bitmaps are the band of each slot when they were built. `must` remembers what the
caller could read and the engine had indexed ever since the query began; `calm` that it began when
nothing moved any more. Scores and their order are left out: a ranking is the set of its hits, and
the cut to the best n is left out with them.

## 3. Runs

All bounds are constants of the modules. `violation` runs each check one sentence of the
repository's documentation or comments, and are described under findings.

| run | instance | shows |
|---|---|---|
| `dispatch_overlap` | 3 sessions on records 1 and 2, each sent twice, fair | no wait cycle, serial legality (`RefinesActLedger`), records match, every dispatch ends |
| `dispatch_composed` | two composed transactions sharing a key and a single act that bears another of theirs, each sent twice | one act per key, durable replies, backstops silent, chain intact, serial legality |
| `outbox_delivery` | one drain, two, or one beside a rebuild; 2 records, 3 acts, batch of 2, a record poisoned or not, 1 crash, fair | delivered rows are indexed, no row is done twice, healthy rows are delivered |
| `embedding_safe` | 2 processes, 3 versions, 2 attempts, 2 faults, fair | no way to a wrong vector but two, nobody waits for an overtaken request; embedded or recorded |
| `checkpoint` | 2 signers, 3 sequence numbers, two of: a fault, a rotation, a rewrite; fair | anchoring, tiling, silent verification of a clean log, signed history is pinned, proofs bind one event, every act is signed |
| `storage_sweep` | 2 writers and the sweep on one key, one repeated ingest, 2 faults, either prefix, either create; fair | views stay, deletions are recorded or alarm, only open acts lose bytes, one version of evidence, compilations end, orphans are collected |
| `notify_urgent` | 2 people, one reached by the alert path, 2 items, 2 failures to give up, 1 crash, 1 changed setting, fair | nobody skipped, repeats need a crash, every item is told or left to the digest |
| `semantic_retrieval` | 2 records, 2 queries in one or two processes, 2 moves of the world between any steps | rankings whole and readable, one local embedder, calm queries are ranked |
| `embedding_gap`, `storage_race`, `notify_crash`, `retrieval_short` | the least instance with the case | violations: see findings |

Why these bounds suffice for the cases in question. The kernel's races are between two holders
and a third party of a lock: three sessions give a cycle of length three and a waiter behind it;
two attempts give every retry after commit, refusal and abort; two overlapping targets are the
least that can be locked in two orders, and the four objects leave two to create. Two records,
three acts and a batch of two let a drain hold a poisoned row and a healthy one, with an act
landing between read and write, and let two indexers deadlock; a batch full of bad rows starves
the rest, which `HealthyRowsAreDelivered` excepts. Three text versions let an edit land during an embedding of an edit; two attempts
reach both the backoff and the giving up; a pass ends at its first failure, and the run was also made
with passes that end at the second. Three sequence numbers give a gap between two signed
events, or two checkpoints and a pending event; ranges of up to three leaves have a promoted node,
and larger trees are compared with the RFC apart. Two writers are an ingest or a compilation that
adopts what another put, or puts beside it; two faults lose a claim and then fail its record, and
one repeated ingest reaches the key after a collection. Two items let the second be committed
first and the first person's turn begin before the second's; with two failures both a lagging entry
and its giving up occur; the safety properties were also checked with three items. Two moves give
a version that moves twice around a build, and a new slot with a restart; two queries are the
holder of stale bands and the one that meets them. No symmetry is used: the constants are told
apart by the plans or are too few to matter.

Deadlock is checked for the kernel (it must always be able to go on until every caller has sent
its last attempt), the notifier and retrieval. The other modules are bounded environments that come
to rest when the bounded acts, faults and edits are used up, so their configurations say
`CHECK_DEADLOCK FALSE`; what must still happen there is stated as liveness.

### Fairness

* `ActionDispatch`: weak fairness of `Dispatch(t)`. PostgreSQL executes an issued statement and
  queues lock waiters; `Abort` and `Begin` are not fair: nobody has to fail or to retry.
* `SearchOutbox`: weak fairness of each drain loop: `startOutboxPump` ticks every second and starts
  a drain whenever none is active. Strong fairness of a drain's `Upsert`, because PostgreSQL grants
  a contended row to its waiters in turn. Weak fairness of a rebuild that runs: its statements are
  executed; nobody has to start one. No fairness for acts or crashes.
* `EmbeddingQueue`: weak fairness of a consumer's statements, of leases and backoffs ending, of
  passes ending and starting again (the loop of `startEmbeddingPump` sleeps a bounded time), and of the engine
  finishing with a request one way or the other: a client waits for it no longer than its timeout
  (`EngineRefuses` is also an engine that never answers), and for a request given up it is an engine
  that does not hold on to it for ever.
* `CheckpointSigner`: weak fairness of each signer's run: a systemd timer starts one every hour.
* `StorageSweep`: weak fairness of a writer's steps and of the sweep's (requests go on, a
  compilation's job is retried, the sweep has a timer), of time passing, and strong fairness of the
  two ways to take the key's lock, which the database grants in turn.
* `NotifyUrgent`: weak fairness of the run's steps: the timer fires every five minutes and every
  request has a time limit. No push is assumed to succeed: `SendFails` may be what happens, always.
* `SemanticRetrieval`: none. `CalmQueriesAreRanked` says what a query that is answered is answered.

Faults are bounded by a constant in each module: liveness is claimed for runs in which faults
eventually stop, which is the most the code can promise.

### Findings

1. `embedding_gap`: a claim whose snapshot predates a drain sends the old text with `requeued`
   cleared, and its completion dequeues the record
   (`20261007500000_the_embedding_pump_retries_and_records.sql:119`).
2. `storage_race`: an ingest of bytes that are already stored, old and unreferenced verifies them
   in its transaction, the sweep deletes them and looks a second time, the ingest commits. The
   record's bytes are gone and the sweep exits zero; `orphans.ts:24` says the window is detected.
   `OnlyOpenActsLoseBytes` shows that this is the only way.
3. `notify_crash`: the save after each person keeps the run's old head, so a run killed between two
   people pushes everything again to those it had told; `run.ts:342` says it repeats nobody.
4. `retrieval_short`: the engine's bands are identified by band version and generation, and a slot
   appended changes neither. A query with shorter bitmaps can replace those another query pushed,
   and the other then serves a list without a record its caller reads; `engine.ts:108` says "never
   a partial list".

### Known limits that no run checks

* A transaction that composes acts holds the chain lock while its next act waits for rows, so acts
  on overlapping targets can deadlock although each locks in id order: with composed plans TLC
  refutes `NoWaitCycle`. PostgreSQL aborts a victim and the caller may retry, and
  `dispatch_composed` checks what holds beside it. Such a transaction also does not take the chain
  lock "as late as possible" (`internal/audit.ts:34`): it holds it through the rest of its acts.
* A rebuild or a second drain beside a drain can put older text back after the newer row was
  delivered, since who read first may write last; nothing repairs it until the record's next act
  or another rebuild. `DeliveredIsIndexed` is therefore about one indexer.
* After a client timeout the engine may still store the request, beside or after the retry with a
  newer text, and nothing repairs the vector until the record is enqueued again. The properties
  except it by name (`astray`). `embedding.ts:49` says a record is embedded again "after that
  embedding ends, never beside it"; that is so of what somebody waits for (`NeverBeside`).
* Verification can raise a false alarm about a checkpoint that commits between its two reads
  (`ledger.ts:40`).
* A key rotation between a lost commit and the retry, on a quiet log, makes every later run meet
  different bytes under its key and refuse, until another act extends the range.
* When an act lands between a lost commit and the retry, the retry signs a longer range under
  another object key, and the first signed object stays in the store without a row. The comment at
  `runner.ts:90` ("the retry signs the same range") holds on a quiet log only.
* An urgent item whose transaction began before, and committed after, a run that saved a later
  boundary is never pushed (`late`). Giving a destination up leaves to the digest also the items
  that were never tried.
* A push of bands still under way when its query was given up can replace newer ones, and then
  costs a concurrent query its retry or its ranking (`withheld`), never its correctness.

## 4. Proofs

Every theorem holds for arbitrary values of the constants under the named `ASSUME`s of its
module, which TLC evaluates in every run that extends it. They say that bounds are naturals, that
the maps of an instance (plans, homes, audiences, deployments) have the types their names
suggest, that `None` and the like are none of the values they stand beside, and for
`SearchOutbox` that records and indexers are finitely many. A theorem that needs more states it as
a premise. The argument is almost always the one for two-phase locking: a lock held until the end of
the transaction turns "what I read" into "what is still true when I write".

### ActionDispatch

`ActionDispatchProofs`:

* `TypeCorrect`: `Spec => []TypeOK`. `TypeOK` alone is not inductive: a commit publishes pending
  acts and rows, so `TypeInv` adds `PendingOK`, which types a session's pending acts and says
  that no pending row is absent and that the rows a session still wants exist. One lemma per action.
* `BackstopsCorrect`: `Spec => []BackstopsNeverRefuse`. Its first half rests on `SlotInv`: a session
  past the lookup holds its slot's advisory lock, a pending act's slot is locked by the session that
  wrote it, and no other act, committed or pending, bears the slot of an act about to be recorded.
  Its second half rests on `HeadInv`: only the holder of the chain lock has uncommitted links, what
  it read as head is still the head when it appends, and every committed or pending sequence number
  is below `nextSeq`.
* `ChainCorrect`: `Spec => []ChainIntact`. On top of those, the committed chain followed by the
  pending links of any session is a well-linked sequence (`Good`), act ids are unique to their
  session, attempt and step (`IdInv`), and between applying and linking exactly the current act is
  unlinked (`Unlinked`), so a commit adds the same acts, links and outbox rows.

`ActionLedgerProofs` builds on those:

* `KernelImplementsLedger`: `Spec => RefinesActLedger`, and `RecordsCorrect`:
  `Spec => []RecordsMatchLedger`. The invariant `Serial` speaks of the log *as a session sees it*:
  the committed acts in chain order, then its own linked ones, then the one it has applied and not
  linked yet. Whatever the session can see of a record is what that log says of it (`Rec`), its
  pending acts are legal where they stand in it, and the unlinked one fits (`Fits`). Three facts keep it so
  while others commit: an act is alone under its id and slot (`Alone`), a written or named row is
  locked by its session (`RowsHeld`), and only the chain lock's holder has links (`HeadInv`). When a
  session commits, its log becomes the committed one (`CommitLog`); the other sessions' logs gain the
  same acts in front of their own, which are about other objects. The abstract log's `CHOOSE` over
  positions is handled by lemmas that name the first and the last position once and for all
  (`FirstOne`, `LastOne`) and say what appending one act does to them (`VersionAppend`, `RecAppend`).
* `RepliesCorrect`: `Spec => []RepliesAreDurable`, from `ReplyInv`: a session has one answer for each
  act of its plan that it is done with, and each answer is an act it sees, of that slot and
  request. A commit publishes both at once.
* `NoDeadlock`: `Spec => []NoWaitCycle`, assuming that every plan has one act and that there are
  finitely many sessions. `LockOrder` is the order of the locks: the idempotency lock first, with
  nothing held; rows in ascending order, apart from those the session created, which nobody else
  can want; the chain lock last. In a cycle nobody would wait for the chain lock or for a key, and
  the greatest awaited row would have a holder that waits for a greater one. The premise is needed:
  composed transactions can deadlock (known limits).

### SearchOutbox

`SearchOutboxProofs`: `RowsAreDoneOnce` (`NoRowIsDoneTwice`) and `DeliveredStaysIndexed`
(`DeliveredIsIndexed`), from the invariant `Rows /\ Lists /\ Holds /\ Single`. `Rows`: outbox rows
never run ahead of the record's version. `Lists`: what an indexer still has to do are rows it
locked, or records that exist. `Holds`: a row is locked by one drain, and not delivered.
`Single` is the strengthening `DeliveredIsIndexed` needs: when one indexer is deployed, nothing it
has read, written or marked as done is older than what was indexed before, and what it marks as
done it has written. `TypeCorrectness` (`TypeOK`) adds `Bounded`: a record's version, plus one for an
act in progress on it, is at most the number of acts that have begun, so what was read and indexed
is too.

### EmbeddingQueue

`EmbeddingQueueProofs` proves every safety property of `embedding_safe`:

* `TypeCorrectness` from `Typed /\ Held`. `Held` ties a consumer that is past its claim to the row
  and the claim number it works under, and says which claim numbers cannot still be in use.
* `OneRequestAtATime` (`NeverBeside`): `Wires` says that a request never carries a later claim than
  its record's row, and that the record of a consumer that waits, or has a vector to report, is
  still under that consumer's claim. So the request somebody waits for has the record's latest claim.
* `DequeuedStaysEmbedded` and `VectorsGoForward`, from `Texts`. A request that holds its record and
  was not granted stale is the `Newest` of it: no vector and no other request is of a later text,
  and it is of the current text unless the row is flagged `requeued`. A consumer with a vector to
  report has it in the engine, unless it is astray: any other store for that record meanwhile is
  late, because the record is still under the consumer's claim.

None of them has a premise: what the engine does with requests given up, and when drains commit, is
unrestricted.

### CheckpointSigner

`CheckpointSignerProofs`: `RowsAreAnchored` (`EveryRowIsAnchored`), from `Alone` (at most one run
has a live transaction, the lock's holder) and `Anchored` (what a live run is about to commit is
in the store, and nothing leaves the store). The other theorems rest on that and on `LedgerInv`, the
conjunction of

* `LogInv`: the log is in order and below `nextSeq`;
* `RowsInv`: each row signs some sequence of events that starts and ends where it says (`Signs`);
  the rows' ranges are disjoint, and one of them attests each event the log has up to the last;
* `RunInv`: the same of what a live run is about to commit, which begins after the last row;
* `TouchInv`: a signed event that was rewritten is missed by a row: the row signed an event of that
  sequence number, and the log has it no more, or has it with the rewritten body;
* `CleanInv`: while nothing was rewritten, the chain links, every row is about events that stand
  next to each other in the log, and what a verification has read is a prefix of it.

From these: `TypeCorrectness` (`TypeOK`), `RangesTile` (`RangesTileTheLog`), `CleanVerifies`
(`CleanLedgerVerifies`), `SignedPinned` (`SignedHistoryIsPinned`) and `ProofsBind`
(`ProofsBindOneEvent`). Two of them changed the model or a property. `SignedHistoryIsPinned` was false for two
rewrites, because rewriting a rewritten event as it already stands counted as one after it had been
signed again: a rewrite now has to change something. And `RangesTileTheLog` turned out to need no
untouched log, and is stated for any.

The last two need what the tree of `MerkleTree` does for every number of leaves. The provers cannot
instantiate a theorem that takes a predicate, so the induction is over *sets of naturals*: `Induct`
says that a set which holds 0 and with each number the next holds all of them, and each use gives the set of numbers for
which the claim is true. By it `ProofClimbs`: the proof of leaf `i` climbs, from any node put in
its place, to the root of the tree with that node there; and `RootBinds`: two sequences of leaves
with one root are the same sequence, even if their lengths differ. That rests on the two prefixes,
which tell a leaf from a node, and on the depth of the left spine (`Spine`), which tells how many
levels there are. Hashes are their preimages, so collision resistance is assumed, not proved.

### StorageSweep

`StorageSweepProofs` proves every safety property of `storage_sweep`, for any number of writers.
`IInv` is the conjunction of the types and

* `LockInv`, `ViewInv`: the key's lock separates a compilation that confirmed its bytes from a
  sweep that found no reference (`ViewsStay`);
* `CountInv`: what was deleted and not recorded is what this visit counts (`DeletionsRecorded`);
* `OpenInv`: from the second look to the next deletion, a version that a record or an open act
  names is stored, or an act open at a second look named it (`OnlyOpenActsLose`);
* `OnceInv`: a conditional create finds the key empty, and is the only put (`WrittenOnce`);
* `NamedInv`: every version an attempt goes by was put.

`TypeCorrectness` needs `Typed`, `NamedInv` and, because `TypeOK` says who holds the lock during a
deletion, `ViewInv`. `DeletionsRecorded`, `OnlyOpenActsLose` and `ViewsStay` are about
sweeps that were not refused and did not die (`alarm`), the last one also about sweeps that did not
lose the lock (`lost`), as their properties say.

### NotifyUrgent

`NotifyUrgentProofs` proves every safety property of `notify_urgent`: `TypeCorrectness`,
`NothingIsRepeated` (`RepeatsNeedACrash`) and `NobodyIsLeftOut` (`NobodyIsSkipped`). `Shape` types
the file and the run; `Owing` says what a run owes lies between a person's cursor and its last
row, and that what it has told belongs to the person whose turn it is; `Pushed` counts: whatever
lies ahead of a person's cursor was pushed at most once per crash, and once more only by this run;
`Settled` says what a cursor passes was pushed or left to the digest.

### SemanticRetrieval

`SemanticRetrievalProofs` proves every property of `semantic_retrieval`. `TextStaysLocal` is the action
property `OneLocalEmbedder`: `PinInv` says a query that is about to send its text has a connection
whose handshake met the pinned, local embedder; a restart of the engine closes every such
connection. `TypeCorrectness` (`TypeOK`), `Rankings` (`RankingsAreWhole`) and `CalmIsRanked`
(`CalmQueriesAreRanked`) come from `Inv`:

* `MapInv`: all finished bitmaps, wherever they are kept, are complete; those of one version agree
  on each record's band, and those of the stored version are right; those of the engine's
  generation stand over the first of its slots. A version therefore names one state of the bands,
  and a generation one order of the slots, and that is all the engine compares.
* `HeldInv`: nobody goes by a later generation than the engine's, and a query's own token, used
  when no version is stored, names one push.
* `QueryInv`: what a query relies on at each point; at the end, that what it must find is among its
  hits unless its bands were replaced by shorter ones (`short`).
* `CalmInv`: once nothing moves, an attempt that builds its bands builds them fresh, and a second
  attempt goes by fresh ones that the engine also holds; so the one retry is enough.

The assumptions on the constants say that versions, tokens and `None` differ, that a caller's
ceiling is at most its clearance, and that an engine starts with slots of existing records only.

### Only model-checked

* All liveness: `EveryDispatchEnds`, `HealthyRowsAreDelivered`, `EmbeddedOrRecorded`,
  `EveryActIsSigned`, `CompilationsEnd`, `OrphansAreCollected`, `EveryItemIsTold`. Fairness and
  `ENABLED` are outside what the prover supports.
* That `MerkleTree` is the tree of RFC 6962, up to nine leaves: its definition is recursive over
  ranges of leaves, and the proof would be an induction over those.
* `NoWaitCycle` where plans have several acts. It is false for some such plans, so a
  theorem would have to say which.
* The properties of the `violation` runs, which are false: nothing is claimed there.

## 5. Plan

Done: the kernel, its chain and refinement; search delivery; embedding; checkpoints with their
trees and proofs; orphan sweeps; urgent notification; semantic retrieval; a theorem for every
safety property that a passing run checks.

To model next, in order:

1. `DerivedState`: the composition of kernel, drain and queue over one outbox, with the abstract
   promise that derived state eventually equals recorded state.
2. `AccessContext`: clearance resolved at the start of a dispatch against grants and revocations
   that commit meanwhile (`internal/authority.ts:204`).
3. The fixity and replication sweep over recorded locations (`sweep.ts`).
4. Identifiers, master-record currency.

To prove next: that `merkleRoot` is the tree of RFC 6962 for every number of leaves, with the
technique of `ProofsBind`; `NoWaitCycle` for composed plans whose targets ascend from act to act;
that proofs of different checkpoints never verify one another's events.

## 6. Not modelled

Most of the repository's lines are not behaviour over shared state: routes and their decoding,
the web, presentation, generated ontology code, compilers and validators of the ontology, parsers
and renderers, deployment scripts, and bulk export, import and backup. They transform data or move
it without a protocol of their own, so the mapped lines are a small part of all lines while they
hold much of the locking, retrying and ordering. The typed effects of individual action types,
qualification and warrants are effects on tables no modelled property reads, or refusals that
`Abort` already covers. Row-level security and the sealed context are planned.

Left out of modelled parts: the daily digest, which keeps no state, and what a push discloses;
lexical ranking, fusion with it, near misses and the disclosure record of a search; the capability
check of the engine's write path; the registry of stores and recorded locations; presigned uploads;
legacy checkpoint formats. The outbox's master-record link and compilation topics, and the
deliberate non-delivery of a topic without a handler, are left out of `SearchOutbox`; the worker
always installs a default handler. As many permanently failing rows as a batch holds starve the
drain: `HealthyRowsAreDelivered` is stated below that limit. With several consumers in one
process, `EmbeddingQueue` lets a sibling's success reopen a pass that already decided to end: the model then has more behaviours than the
code, and the checked instances have one consumer per process.
