-------------------------- MODULE CheckpointSigner --------------------------
(***************************************************************************)
(* The checkpoint signer and the audit: apps/checkpoint.                   *)
(*                                                                         *)
(* A signer run is one READ COMMITTED transaction under an advisory lock:  *)
(* read the latest checkpoint, read the events after it, verify that they  *)
(* link, insert the checkpoint row, write the signed object create-only,   *)
(* read it back, commit.  verifyLedger recomputes everything from genesis. *)
(*                                                                         *)
(* A chain digest is its preimage, the bodies from genesis; a Merkle root  *)
(* is a tree of MerkleTree; a signature is the signed record.              *)
(* Rolled back acts leave gaps in the sequence numbers.                    *)
(***************************************************************************)
EXTENDS Naturals, Sequences, SequencesExt, MerkleTree

CONSTANTS
  Signer,       \* signer processes
  MaxSeq,       \* bound: sequence numbers
  MaxFaults,    \* bound: lost connections, failed commits, crashes
  MaxRotations, \* bound: changes of the signing key
  MaxTamper,    \* bound: rewrites of the log by the database's owner
  MaxTrouble,   \* bound: faults, rotations and rewrites together
  NoOne

ASSUME SignerAssumption ==
  /\ MaxSeq \in Nat /\ MaxFaults \in Nat /\ MaxRotations \in Nat
  /\ MaxTamper \in Nat /\ MaxTrouble \in Nat /\ NoOne \notin Signer

VARIABLES
  log,       \* core.audit_event, in seq order: [seq, body, prev, digest]
  nextSeq,
  rows,      \* core.audit_checkpoint, committed
  store,     \* objects under audit/checkpoints/, by their range
  lock,      \* CHECKPOINT_LOCK
  key,       \* the signing key configured now
  pc,        \* per signer: "idle", "latest", "events", "put", "commit"
  last,      \* per signer: the key it loaded, the latest toSeq and endDigest
  signed,    \* per signer: the checkpoint it built and inserted
  lost,      \* per signer: its transaction is gone and it does not know yet
  seen,      \* what verifyLedger read first: {}, or {the events}
  faults, rotations,
  touched    \* the sequence numbers the owner rewrote, by whether signed

vars == <<log, nextSeq, rows, store, lock, key, pc, last, signed, lost, seen,
          faults, rotations, touched>>
world == <<log, nextSeq, key, rotations, touched>>

Genesis == << >>
NoCheckpoint == [from |-> 0, to |-> 0, count |-> 0, root |-> EmptyRoot, by |-> 0]
NoLast == [to |-> 0, end |-> Genesis, by |-> 0]

Init ==
  /\ log = << >> /\ nextSeq = 1
  /\ rows = {} /\ store = {}
  /\ lock = NoOne /\ key = 1
  /\ pc = [s \in Signer |-> "idle"]
  /\ last = [s \in Signer |-> NoLast]
  /\ signed = [s \in Signer |-> NoCheckpoint]
  /\ lost = [s \in Signer |-> FALSE]
  /\ seen = {}
  /\ faults = 0 /\ rotations = 0
  /\ touched = {}

-----------------------------------------------------------------------------
(* The world: acts commit (ActionDispatch), keys rotate, an owner rewrites.*)

Bodies(l) == [i \in 1 .. Len(l) |-> l[i].body]

(* The links recomputed from genesis.                                      *)
Relink(l) ==
  [i \in 1 .. Len(l) |->
     [l[i] EXCEPT !.prev = SubSeq(Bodies(l), 1, i - 1),
                  !.digest = SubSeq(Bodies(l), 1, i)]]

ActCommits ==
  /\ nextSeq <= MaxSeq
  /\ LET head == IF log = << >> THEN Genesis ELSE Last(log).digest IN
     log' = Append(log, [seq |-> nextSeq, body |-> nextSeq, prev |-> head,
                         digest |-> Append(head, nextSeq)])
  /\ nextSeq' = nextSeq + 1
  /\ UNCHANGED <<rows, store, lock, key, pc, last, signed, lost, seen, faults,
                 rotations, touched>>

ActRollsBack ==
  /\ nextSeq <= MaxSeq
  /\ nextSeq' = nextSeq + 1
  /\ UNCHANGED <<log, rows, store, lock, key, pc, last, signed, lost, seen,
                 faults, rotations, touched>>

Trouble == faults + rotations + Cardinality(touched) < MaxTrouble

Rotate ==
  /\ rotations < MaxRotations /\ Trouble
  /\ rotations' = rotations + 1
  /\ key' = key + 1
  /\ UNCHANGED <<log, nextSeq, rows, store, lock, pc, last, signed, lost, seen,
                 faults, touched>>

CoveredUpTo == Max({0} \cup {cp.to : cp \in rows})

(* The event at i edited, to what no act recorded, or deleted.             *)
Rewrites(i) ==
  (IF log[i].body = 0 THEN {} ELSE {[log EXCEPT ![i].body = 0]})
    \cup {RemoveAt(log, i)}

(* The links after it are left alone or recomputed.                        *)
Tamper ==
  /\ Cardinality(touched) < MaxTamper /\ Trouble
  /\ \E i \in 1 .. Len(log) :
       /\ \E l \in Rewrites(i) : log' \in {l, Relink(l)}
       /\ touched' = touched \cup
            {[seq |-> log[i].seq, signed |-> log[i].seq <= CoveredUpTo]}
  /\ UNCHANGED <<nextSeq, rows, store, lock, key, pc, last, signed, lost, seen,
                 faults, rotations>>

-----------------------------------------------------------------------------
(* runCheckpoint.                                                          *)

(* verifyChain                                                             *)
ChainOK(l, first) ==
  \A i \in 1 .. Len(l) :
    /\ l[i].prev = IF i = 1 THEN first ELSE l[i - 1].digest
    /\ l[i].digest = Append(l[i].prev, l[i].body)

(* upperBound, lowerBound: how many events, in their order, come before the*)
(* first whose sequence is above the target, or reaches it.                *)
upperBound(l, target) ==
  CHOOSE k \in 0 .. Len(l) :
    /\ \A i \in 1 .. k : l[i].seq <= target
    /\ \A i \in k + 1 .. Len(l) : l[i].seq > target

lowerBound(l, target) ==
  CHOOSE k \in 0 .. Len(l) :
    /\ \A i \in 1 .. k : l[i].seq < target
    /\ \A i \in k + 1 .. Len(l) : l[i].seq >= target

From(n) == SubSeq(log, upperBound(log, n) + 1, Len(log))

Leaves(entries) == [i \in 1 .. Len(entries) |-> leafHash(entries[i])]

(* buildCheckpoint                                                         *)
Built(s, entries) ==
  [from |-> Head(entries).seq, to |-> Last(entries).seq, count |-> Len(entries),
   root |-> merkleRoot(Leaves(entries)), by |-> last[s].by]

End(s) ==
  /\ lock' = IF lock = s THEN NoOne ELSE lock
  /\ pc' = [pc EXCEPT ![s] = "idle"]
  /\ last' = [last EXCEPT ![s] = NoLast]
  /\ signed' = [signed EXCEPT ![s] = NoCheckpoint]
  /\ lost' = [lost EXCEPT ![s] = FALSE]

(* Mutant of TakeLock: two runs sign side by side.                         *)
TakeLockShared(s) ==
  /\ pc[s] = "idle"
  /\ last' = [last EXCEPT ![s].by = key]
  /\ pc' = [pc EXCEPT ![s] = "latest"]
  /\ UNCHANGED <<world, rows, store, lock, signed, lost, seen, faults>>

(* A run: the process has loaded its key, and waits for the lock.          *)
TakeLock(s) ==
  /\ pc[s] = "idle" /\ lock = NoOne
  /\ lock' = s
  /\ last' = [last EXCEPT ![s].by = key]
  /\ pc' = [pc EXCEPT ![s] = "latest"]
  /\ UNCHANGED <<world, rows, store, signed, lost, seen, faults>>

(* latestCheckpoint: the event it ends at must still be there.             *)
ReadLatest(s) ==
  /\ pc[s] = "latest" /\ ~ lost[s]
  /\ \/ /\ rows = {}
        /\ UNCHANGED last
     \/ \E i \in 1 .. Len(log) :
          /\ rows # {} /\ log[i].seq = CoveredUpTo
          /\ last' = [last EXCEPT ![s].to = CoveredUpTo, ![s].end = log[i].digest]
  /\ pc' = [pc EXCEPT ![s] = "events"]
  /\ UNCHANGED <<world, rows, store, lock, signed, lost, seen, faults>>

(* Read what is pending, verify it, sign it, insert the row.               *)
Sign(s) ==
  LET entries == From(last[s].to) IN
  /\ pc[s] = "events" /\ ~ lost[s]
  /\ entries # << >>
  /\ ChainOK(entries, last[s].end)
  /\ signed' = [signed EXCEPT ![s] = Built(s, entries)]
  /\ pc' = [pc EXCEPT ![s] = "put"]
  /\ UNCHANGED <<world, rows, store, lock, last, lost, seen, faults>>

(* nothing_pending; or the log was truncated, or its chain is broken.      *)
Refuse(s) ==
  /\ ~ lost[s]
  /\ \/ /\ pc[s] = "latest" /\ rows # {}
        /\ \A i \in 1 .. Len(log) : log[i].seq # CoveredUpTo
     \/ /\ pc[s] = "events"
        /\ LET entries == From(last[s].to) IN
           entries = << >> \/ ~ ChainOK(entries, last[s].end)
  /\ End(s)
  /\ UNCHANGED <<world, rows, store, seen, faults>>

SameKey(a, b) == a.from = b.from /\ a.to = b.to

(* Mutant of Put: whatever is at the key already is taken for ours.        *)
PutTrusting(s) ==
  /\ pc[s] = "put"
  /\ store' = IF \E ob \in store : SameKey(ob, signed[s])
              THEN store ELSE store \cup {signed[s]}
  /\ pc' = [pc EXCEPT ![s] = "commit"]
  /\ UNCHANGED <<world, rows, lock, last, signed, lost, seen, faults>>

(* Mutant of Put: an object left behind by an earlier run is refused.      *)
PutRefusesExisting(s) ==
  /\ pc[s] = "put"
  /\ \/ /\ \A ob \in store : ~ SameKey(ob, signed[s])
        /\ store' = store \cup {signed[s]}
        /\ pc' = [pc EXCEPT ![s] = "commit"]
        /\ UNCHANGED <<lock, last, signed, lost>>
     \/ /\ \E ob \in store : SameKey(ob, signed[s])
        /\ End(s)
        /\ UNCHANGED store
  /\ UNCHANGED <<world, rows, seen, faults>>

(* putIfAbsent and the read back.  The store does not know whether the     *)
(* writer's transaction is still alive.                                    *)
Put(s) ==
  /\ pc[s] = "put"
  /\ store' = IF \E ob \in store : SameKey(ob, signed[s])
              THEN store ELSE store \cup {signed[s]}
  /\ \/ /\ signed[s] \in store'
        /\ pc' = [pc EXCEPT ![s] = "commit"]
        /\ UNCHANGED <<lock, last, signed, lost>>
     \/ signed[s] \notin store' /\ End(s)
  /\ UNCHANGED <<world, rows, seen, faults>>

Commit(s) ==
  /\ pc[s] = "commit" /\ ~ lost[s]
  /\ rows' = rows \cup {signed[s]}
  /\ End(s)
  /\ UNCHANGED <<world, store, seen, faults>>

(* The database drops the transaction and its lock while the signer is     *)
(* still at work, perhaps on its object.                                   *)
LoseConnection(s) ==
  /\ pc[s] # "idle" /\ ~ lost[s] /\ faults < MaxFaults /\ Trouble
  /\ faults' = faults + 1
  /\ lost' = [lost EXCEPT ![s] = TRUE]
  /\ lock' = NoOne
  /\ UNCHANGED <<world, rows, store, pc, last, signed, seen>>

(* Its next statement, or its COMMIT, fails.                               *)
FailStatement(s) ==
  /\ lost[s] /\ pc[s] # "put"
  /\ End(s)
  /\ UNCHANGED <<world, rows, store, seen, faults>>

-----------------------------------------------------------------------------
(* verifyLedger: two statements, each with a snapshot of its own.          *)

Kind == {"chain_broken", "gap", "overlap", "missing_events", "root_mismatch"}

(* Mutant of InRange: the last event of the range is left out.             *)
InRangeExclusive(l, cp) ==
  SubSeq(l, lowerBound(l, cp.from) + 1, lowerBound(l, cp.to))

InRange(l, cp) == SubSeq(l, lowerBound(l, cp.from) + 1, upperBound(l, cp.to))

(* Mutant of proveInclusion: the index is counted in sequence numbers.     *)
proveInclusionBySeq(entries, seq) ==
  inclusionProof(Leaves(entries), seq - Head(entries).seq + 1)

(* What an auditor is given for the event at seq.                          *)
proveInclusion(entries, seq) ==
  inclusionProof(Leaves(entries),
                 CHOOSE i \in 1 .. Len(entries) : entries[i].seq = seq)

CoveredBefore(cps, cp) ==
  Max({0} \cup {q.to : q \in {x \in cps : x.from < cp.from}})

Reports(kind, l, cps, cp) ==
  \/ kind = "gap" /\ \E i \in 1 .. Len(l) :
       CoveredBefore(cps, cp) < l[i].seq /\ l[i].seq < cp.from
  \/ kind = "overlap" /\ \/ cp.from <= CoveredBefore(cps, cp)
                         \/ \E q \in cps \ {cp} : q.from = cp.from
  \/ kind = "missing_events" /\ Len(InRange(l, cp)) # cp.count
  \/ kind = "root_mismatch" /\ merkleRoot(Leaves(InRange(l, cp))) # cp.root

BrokenChain == [kind |-> "chain_broken", to |-> 0]

(* Mutant of Findings: roots are trusted, only the links are walked.       *)
FindingsByLinks(l, cps) ==
  {f \in {BrokenChain} : ~ ChainOK(l, Genesis)}
    \cup {f \in [kind : Kind \ {"root_mismatch"}, to : {cp.to : cp \in cps}] :
            \E cp \in cps : cp.to = f.to /\ Reports(f.kind, l, cps, cp)}

(* What is wrong, and the end of the checkpoint it is wrong with.          *)
Findings(l, cps) ==
  {f \in {BrokenChain} : ~ ChainOK(l, Genesis)}
    \cup {f \in [kind : Kind, to : {cp.to : cp \in cps}] :
            \E cp \in cps : cp.to = f.to /\ Reports(f.kind, l, cps, cp)}

UpTo(l) == IF l = << >> THEN 0 ELSE Last(l).seq

VerifyReadsEvents ==
  /\ seen = {}
  /\ seen' = {log}
  /\ UNCHANGED <<world, rows, store, lock, pc, last, signed, lost, faults>>

(* It returns Findings(the events it read, the rows there are now).        *)
VerifyReadsCheckpoints ==
  /\ seen # {}
  /\ seen' = {}
  /\ UNCHANGED <<world, rows, store, lock, pc, last, signed, lost, faults>>

-----------------------------------------------------------------------------

Run(s) ==
  \/ TakeLock(s) \/ ReadLatest(s) \/ Sign(s) \/ Refuse(s) \/ Put(s)
  \/ Commit(s) \/ FailStatement(s)

Next ==
  \/ ActCommits \/ ActRollsBack \/ Rotate \/ Tamper
  \/ \E s \in Signer : Run(s) \/ LoseConnection(s)
  \/ VerifyReadsEvents \/ VerifyReadsCheckpoints

Spec == Init /\ [][Next]_vars

(* The timer starts a run every hour, and a run's statements are executed. *)
FairSpec ==
  /\ Spec
  /\ \A s \in Signer : WF_vars(Run(s))

-----------------------------------------------------------------------------

(* Every variable has its type, and only the lock's holder has a live run. *)
TypeOK ==
  /\ nextSeq \in 1 .. MaxSeq + 1
  /\ \A i \in 1 .. Len(log) : log[i].seq \in 1 .. MaxSeq /\ log[i].body \in 0 .. MaxSeq
  /\ lock \in Signer \cup {NoOne}
  /\ pc \in [Signer -> {"idle", "latest", "events", "put", "commit"}]
  /\ \A s \in Signer : pc[s] # "idle" /\ ~ lost[s] => lock = s

(* A checkpoint that counts is anchored: when a row commits, the store     *)
(* holds exactly the record that was signed, whatever an earlier run, or a *)
(* run that lost its transaction mid-way, left under that key.             *)
EveryRowIsAnchored ==
  \A cp \in rows : cp \in store

(* Two runs never sign the same history: the ranges of the committed rows  *)
(* are disjoint and leave out no event up to the last one signed, whatever *)
(* was rewritten meanwhile.                                                *)
RangesTileTheLog ==
  /\ \A a, b \in rows : a = b \/ a.to < b.from \/ b.to < a.from
  /\ \A i \in 1 .. Len(log) : log[i].seq <= CoveredUpTo =>
       \E cp \in rows : cp.from <= log[i].seq /\ log[i].seq <= cp.to

(* A clean ledger verifies: with nobody rewriting the log, the daily       *)
(* verification raises no alarm, however signers, acts, rollbacks, lost    *)
(* commits and key rotations interleave, except about a checkpoint that    *)
(* ends after the last event the verification read: one that was signed    *)
(* and committed between its two reads, which have snapshots of their own. *)
CleanLedgerVerifies ==
  touched = {} => \A events \in seen : \A f \in Findings(events, rows) :
    f.kind \in {"missing_events", "root_mismatch"} /\ f.to > UpTo(events)

(* Nobody rewrites signed history unnoticed: once an event a committed     *)
(* checkpoint covers was edited or deleted, the verification of the log as *)
(* it stands fails, even if every later link was recomputed and the signer *)
(* went on signing on top.                                                 *)
SignedHistoryIsPinned ==
  (\E t \in touched : t.signed) => Findings(log, rows) # {}

(* An auditor can show one event was signed, and only that one: for every  *)
(* checkpoint whose range is as it was signed, the inclusion proof of each *)
(* event verifies against the signed root, and with that proof no other    *)
(* event of the log does; once the range was rewritten, no proof made from *)
(* it verifies.                                                            *)
ProofsBindOneEvent ==
  \A cp \in rows :
    LET entries == InRange(log, cp)
        asSigned == merkleRoot(Leaves(entries)) = cp.root IN
    \A e \in ToSet(entries), f \in ToSet(log) :
      verifyInclusion(leafHash(f), proveInclusion(entries, e.seq), cp.root)
        <=> asSigned /\ f = e

Unsigned == From(CoveredUpTo)

(* An object that a lost commit left without its row, for exactly what is  *)
(* pending, under a key that has been rotated away: every run builds other *)
(* bytes for that key and refuses, until another act extends the range.    *)
Wedged ==
  \E ob \in store \ rows :
    /\ Unsigned # << >> /\ ob.by # key
    /\ ob.from = Head(Unsigned).seq /\ ob.to = Last(Unsigned).seq

(* Every recorded act is eventually covered by a signed checkpoint, unless *)
(* the log was rewritten: a lost commit leaves nothing behind that stops   *)
(* the signer, but for the wedge above.                                    *)
EveryActIsSigned ==
  (touched = {} /\ Unsigned # << >>) ~> (touched # {} \/ Wedged \/ Unsigned = << >>)
=============================================================================
