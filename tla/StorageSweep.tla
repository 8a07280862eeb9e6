---------------------------- MODULE StorageSweep ----------------------------
(***************************************************************************)
(* One key of the object store, the writers that put bytes there, and the  *)
(* sweep that collects bytes no record references: apps/kf-storage,        *)
(* packages/artifacts, the ingest routes and the compiler runtime.         *)
(*                                                                         *)
(* Under an evidence prefix a writer is an ingest: it stores its bytes,    *)
(* then records them in an act's transaction.  Under the compiled-view     *)
(* prefix it is a compilation: it stores or adopts the view, then records  *)
(* its run under the key's lock, which the sweep takes too.  The store is  *)
(* outside every transaction.                                              *)
(*                                                                         *)
(* Keys are content addresses, so every version of a key has the same      *)
(* bytes; a version is a number, and a reference is the version a          *)
(* committed artifact_version row names.                                   *)
(***************************************************************************)
EXTENDS Naturals, FiniteSets, FiniteSetsExt

CONSTANTS
  Writer,      \* ingests, or compilations
  Sweep,       \* the identity of the sweep as a lock holder
  MaxAgain,    \* bound: ingests of the same bytes after the first ones
  MaxFaults,   \* bound: crashes, lost connections, refused requests
  NoOne

ASSUME SweepAssumption ==
  /\ MaxAgain \in Nat /\ MaxFaults \in Nat
  /\ Sweep \notin Writer /\ NoOne \notin Writer \cup {Sweep}

VARIABLES
  prefix,      \* "evidence" or "views"; never changes
  conditional, \* S3Config.conditionalCreate; never changes
  stored,      \* the versions of the key in the store
  young,       \* the versions younger than the grace period
  lastVersion,
  refs,        \* committed references
  lock,        \* content.lock_stored_key
  wpc, held,   \* per writer: where it is, and the version it goes by
  wrote,       \* per writer: the version it put itself, or 0
  again,       \* ingests of the same bytes again
  spc,         \* the sweep: where it is
  todo,        \* the versions deleteEveryVersion listed and has not deleted
  gone,        \* how many it has deleted
  lost,        \* its transaction is gone and it does not know yet
  unrecorded,  \* versions deleted, less versions_removed as recorded
  alarm,       \* a run died, or exited non-zero
  unseen,      \* references in open acts when a sweep looked a second time
  faults

rigid == <<prefix, conditional>>
storeVars == <<stored, young, lastVersion>>
writerVars == <<wpc, held, wrote, again>>
sweepVars == <<spc, todo, gone, lost, unrecorded, alarm, unseen>>
vars == <<rigid, storeVars, refs, lock, writerVars, sweepVars, faults>>

Init ==
  /\ prefix \in {"evidence", "views"} /\ conditional \in BOOLEAN
  /\ prefix = "views" => conditional  \* not used there
  /\ stored = {} /\ young = {} /\ lastVersion = 0
  /\ refs = {} /\ lock = NoOne
  /\ wpc = [w \in Writer |-> "idle"]
  /\ held = [w \in Writer |-> 0] /\ wrote = [w \in Writer |-> 0]
  /\ again = 0
  /\ spc = "idle" /\ todo = {} /\ gone = 0 /\ lost = FALSE
  /\ unrecorded = 0 /\ alarm = FALSE /\ unseen = {}
  /\ faults = 0

-----------------------------------------------------------------------------
(* The store.                                                              *)

Current == Max(stored)

(* A new version, and the writer goes by it.                               *)
PutVersion(w, next) ==
  /\ lastVersion' = lastVersion + 1
  /\ stored' = stored \cup {lastVersion + 1}
  /\ young' = young \cup {lastVersion + 1}
  /\ held' = [held EXCEPT ![w] = lastVersion + 1]
  /\ wrote' = [wrote EXCEPT ![w] = lastVersion + 1]
  /\ wpc' = [wpc EXCEPT ![w] = next]

Adopt(w, next) ==
  /\ held' = [held EXCEPT ![w] = Current]
  /\ wpc' = [wpc EXCEPT ![w] = next]
  /\ UNCHANGED <<storeVars, wrote>>

Goto(w, next) ==
  /\ wpc' = [wpc EXCEPT ![w] = next]
  /\ UNCHANGED <<storeVars, held, wrote>>

(* The grace period passes.  It is hours long: longer than any request     *)
(* that put a version and has not ended yet.                               *)
GraceElapses ==
  /\ young # {}
  /\ \A w \in Writer : wrote[w] \notin young
  /\ young' = {}
  /\ UNCHANGED <<rigid, stored, lastVersion, refs, lock, writerVars, sweepVars,
                 faults>>

-----------------------------------------------------------------------------
(* A writer: the ingest routes (evidence), or the compiler runtime (views).*)

Start(w) ==
  /\ wpc[w] = "idle"
  /\ Goto(w, IF prefix = "evidence" /\ conditional THEN "create" ELSE "head")
  /\ UNCHANGED <<rigid, refs, lock, again, sweepVars, faults>>

(* The attempt is over, one way or the other: "done", or "idle" to be tried*)
(* again.                                                                  *)
EndAttempt(w, next) ==
  /\ wpc' = [wpc EXCEPT ![w] = next]
  /\ held' = [held EXCEPT ![w] = 0]
  /\ wrote' = [wrote EXCEPT ![w] = 0]
  /\ lock' = IF lock = w THEN NoOne ELSE lock

(* Mutant of CreateIfAbsent: a conflict is overwritten.                    *)
CreateUnconditionally(w) ==
  /\ wpc[w] = "create"
  /\ PutVersion(w, "verify")
  /\ UNCHANGED <<rigid, refs, lock, again, sweepVars, faults>>

(* PutObject with If-None-Match, which the store serializes; a conflict    *)
(* leads to a head.                                                        *)
CreateIfAbsent(w) ==
  /\ wpc[w] = "create"
  /\ \/ stored = {} /\ PutVersion(w, "verify")
     \/ stored # {} /\ Goto(w, "head")
  /\ UNCHANGED <<rigid, refs, lock, again, sweepVars, faults>>

(* HeadObject: adopt what is there.  Otherwise the conditional create is   *)
(* tried again, and an unconditional put follows.                          *)
HeadObject(w) ==
  /\ wpc[w] = "head"
  /\ \/ stored # {} /\ Adopt(w, "verify")
     \/ stored = {} /\ Goto(w, IF prefix = "evidence" /\ conditional
                               THEN "create" ELSE "put")
  /\ UNCHANGED <<rigid, refs, lock, again, sweepVars, faults>>

PutObject(w) ==
  /\ wpc[w] = "put"
  /\ PutVersion(w, "verify")
  /\ UNCHANGED <<rigid, refs, lock, again, sweepVars, faults>>

(* verifyUpload reads the current version, the runtime the one it put or   *)
(* adopted.                                                                *)
Verify(w) ==
  /\ wpc[w] = "verify"
  /\ \/ prefix = "evidence" /\ stored # {} /\ Goto(w, "act")
     \/ prefix = "views" /\ held[w] \in stored /\ Goto(w, "lock")
  /\ UNCHANGED <<rigid, refs, lock, again, sweepVars, faults>>

(* recordEvidence, in the act's transaction: verify the current version,   *)
(* insert the row that names it.                                           *)
RecordEvidence(w) ==
  /\ wpc[w] = "act" /\ stored # {}
  /\ Adopt(w, "reread")
  /\ UNCHANGED <<rigid, refs, lock, again, sweepVars, faults>>

(* The source is read once more, for the parser.                           *)
Reread(w) ==
  /\ wpc[w] = "reread" /\ held[w] \in stored
  /\ Goto(w, "commit")
  /\ UNCHANGED <<rigid, refs, lock, again, sweepVars, faults>>

(* Mutant of LockStoredKey: the run is recorded without the sweep's lock.  *)
LockStoredKeyNot(w) ==
  /\ wpc[w] = "lock"
  /\ Goto(w, "confirm")
  /\ UNCHANGED <<rigid, refs, lock, again, sweepVars, faults>>

LockStoredKey(w) ==
  /\ wpc[w] = "lock" /\ lock = NoOne
  /\ lock' = w
  /\ Goto(w, "confirm")
  /\ UNCHANGED <<rigid, refs, again, sweepVars, faults>>

(* confirmStored, under the lock.                                          *)
ConfirmStored(w) ==
  /\ wpc[w] = "confirm" /\ held[w] \in stored
  /\ Goto(w, "commit")
  /\ UNCHANGED <<rigid, refs, lock, again, sweepVars, faults>>

CommitRecord(w) ==
  /\ wpc[w] = "commit"
  /\ refs' = refs \cup {held[w]}
  /\ EndAttempt(w, "done")
  /\ UNCHANGED <<rigid, storeVars, again, sweepVars, faults>>

(* The bytes are not there: an ingest is refused, and a compilation        *)
(* (CompiledViewCollected, or a failed read back) is retried.              *)
BytesAreGone(w) ==
  /\ \/ wpc[w] \in {"verify", "act"} /\ prefix = "evidence" /\ stored = {}
     \/ wpc[w] = "verify" /\ prefix = "views" /\ held[w] \notin stored
     \/ wpc[w] \in {"reread", "confirm"} /\ held[w] \notin stored
  /\ EndAttempt(w, IF prefix = "evidence" THEN "done" ELSE "idle")
  /\ UNCHANGED <<rigid, storeVars, refs, again, sweepVars, faults>>

(* The act is refused, or the run is recorded as failed because it did not *)
(* reproduce an earlier one: the bytes stay, and nothing names them.       *)
RefuseRecord(w) ==
  /\ wpc[w] \in {"act", "commit"}
  /\ EndAttempt(w, "done")
  /\ UNCHANGED <<rigid, storeVars, refs, again, sweepVars, faults>>

(* The process dies; a compilation's job is started again.                 *)
WriterCrashes(w) ==
  /\ wpc[w] \notin {"idle", "done"} /\ faults < MaxFaults
  /\ faults' = faults + 1
  /\ EndAttempt(w, IF prefix = "evidence" THEN "done" ELSE "idle")
  /\ UNCHANGED <<rigid, storeVars, refs, again, sweepVars>>

(* Somebody ingests the same bytes again.                                  *)
Again(w) ==
  /\ prefix = "evidence" /\ wpc[w] = "done" /\ again < MaxAgain
  /\ again' = again + 1
  /\ Goto(w, "idle")
  /\ UNCHANGED <<rigid, refs, lock, sweepVars, faults>>

-----------------------------------------------------------------------------
(* The sweep's visit to the key: sweepOrphanedEvidence, or                 *)
(* sweepUnreferencedCompiledViews.                                         *)

(* Mutant of EndVisit: the key's lock outlives the visit.                  *)
EndVisitKeepsLock(alarmed) ==
  /\ spc' = "idle" /\ todo' = {} /\ gone' = 0 /\ lost' = FALSE
  /\ alarm' = (alarm \/ alarmed)
  /\ UNCHANGED lock

EndVisit(alarmed) ==
  /\ spc' = "idle" /\ todo' = {} /\ gone' = 0 /\ lost' = FALSE
  /\ lock' = IF lock = Sweep THEN NoOne ELSE lock
  /\ alarm' = (alarm \/ alarmed)

SweepGoto(next) ==
  /\ spc' = next
  /\ UNCHANGED <<todo, gone, lost, alarm>>

(* Mutant of ListKey: the cutoff is compared the wrong way round.          *)
ListKeyYoung ==
  /\ spc = "idle" /\ stored # {} /\ Current \in young
  /\ SweepGoto("check")
  /\ UNCHANGED <<rigid, storeVars, refs, lock, writerVars, unrecorded,
                 unseen, faults>>

(* The listing: the current version is older than the grace period.        *)
ListKey ==
  /\ spc = "idle" /\ stored # {} /\ Current \notin young
  /\ SweepGoto("check")
  /\ UNCHANGED <<rigid, storeVars, refs, lock, writerVars, unrecorded,
                 unseen, faults>>

(* Mutant of Check: a view is claimed without its key's lock.              *)
CheckWithoutLock ==
  /\ spc = "check"
  /\ \/ refs # {} /\ EndVisit(FALSE)
     \/ refs = {} /\ SweepGoto("delete") /\ UNCHANGED lock
  /\ UNCHANGED <<rigid, storeVars, refs, writerVars, unrecorded, unseen,
                 faults>>

(* `referenced`, in a transaction of its own; or the claim, which waits    *)
(* for the key's lock and keeps it, and looks afterwards.                  *)
Check ==
  /\ spc = "check"
  /\ prefix = "views" => lock = NoOne
  /\ \/ /\ refs # {}
        /\ EndVisit(FALSE)
     \/ /\ refs = {}
        /\ SweepGoto("delete")
        /\ lock' = IF prefix = "views" THEN Sweep ELSE lock
  /\ UNCHANGED <<rigid, storeVars, refs, writerVars, unrecorded, unseen,
                 faults>>

(* deleteEveryVersion lists the versions, and deletes them one by one.     *)
ListVersions ==
  /\ spc = "delete"
  /\ todo' = stored
  /\ spc' = "deleting"
  /\ UNCHANGED <<rigid, storeVars, refs, lock, writerVars, gone, lost,
                 unrecorded, alarm, unseen, faults>>

DeleteVersion ==
  /\ spc = "deleting" /\ todo # {}
  /\ \E v \in todo :
       /\ stored' = stored \ {v} /\ young' = young \ {v}
       /\ todo' = todo \ {v}
  /\ gone' = gone + 1 /\ unrecorded' = unrecorded + 1
  /\ UNCHANGED <<rigid, lastVersion, refs, lock, writerVars, spc, lost, alarm,
                 unseen, faults>>

(* Mutant of RecordCollection: evidence is not looked at a second time.    *)
RecordWithoutRecheck ==
  /\ spc = "deleting" /\ todo = {} /\ ~ lost
  /\ unrecorded' = unrecorded - gone
  /\ EndVisit(FALSE)
  /\ UNCHANGED <<rigid, storeVars, refs, writerVars, unseen, faults>>

(* record_orphan_collection.  For evidence in a transaction of its own;    *)
(* for a view in the claim's, which looks once more and then commits.      *)
RecordCollection ==
  /\ spc = "deleting" /\ todo = {} /\ ~ lost
  /\ unrecorded' = IF prefix = "views" /\ refs # {}
                   THEN unrecorded ELSE unrecorded - gone
  /\ \/ prefix = "evidence" /\ SweepGoto("recheck") /\ UNCHANGED lock
     \/ prefix = "views" /\ EndVisit(refs # {})
  /\ UNCHANGED <<rigid, storeVars, refs, writerVars, unseen, faults>>

InOpenActs == {held[w] : w \in {x \in Writer : wpc[x] \in {"reread", "commit"}}}

(* The second look: a key that became referenced is a refusal.             *)
Recheck ==
  /\ spc = "recheck"
  /\ EndVisit(refs # {})
  /\ unseen' = unseen \cup InOpenActs
  /\ UNCHANGED <<rigid, storeVars, refs, writerVars, unrecorded, faults>>

(* Mutant of SweepFails: a deletion that was not recorded passes quietly.  *)
SweepFailsQuietly ==
  /\ spc \in {"check", "delete", "deleting", "recheck"} /\ faults < MaxFaults
  /\ faults' = faults + 1
  /\ EndVisit(FALSE)
  /\ UNCHANGED <<rigid, storeVars, refs, writerVars, unrecorded, unseen>>

(* A request to the store or the database fails, or the process dies: a    *)
(* refusal, or a run that never reported.                                  *)
SweepFails ==
  /\ spc \in {"check", "delete", "deleting", "recheck"} /\ faults < MaxFaults
  /\ faults' = faults + 1
  /\ EndVisit(TRUE)
  /\ UNCHANGED <<rigid, storeVars, refs, writerVars, unrecorded, unseen>>

(* The claim's transaction and its lock are dropped while the sweep goes   *)
(* on deleting; it learns of it when it comes to record.                   *)
LoseClaim ==
  /\ lock = Sweep /\ faults < MaxFaults
  /\ faults' = faults + 1
  /\ lost' = TRUE /\ lock' = NoOne
  /\ UNCHANGED <<rigid, storeVars, refs, writerVars, spc, todo, gone,
                 unrecorded, alarm, unseen>>

RecordFails ==
  /\ spc = "deleting" /\ todo = {} /\ lost
  /\ EndVisit(TRUE)
  /\ UNCHANGED <<rigid, storeVars, refs, writerVars, unrecorded, unseen,
                 faults>>

-----------------------------------------------------------------------------

WriterStep(w) ==
  \/ Start(w) \/ CreateIfAbsent(w) \/ HeadObject(w) \/ PutObject(w) \/ Verify(w)
  \/ RecordEvidence(w) \/ Reread(w) \/ LockStoredKey(w) \/ ConfirmStored(w)
  \/ CommitRecord(w) \/ BytesAreGone(w)

SweepStep ==
  \/ ListKey \/ Check \/ ListVersions \/ DeleteVersion \/ RecordCollection
  \/ Recheck \/ RecordFails

Next ==
  \/ \E w \in Writer :
       WriterStep(w) \/ RefuseRecord(w) \/ WriterCrashes(w) \/ Again(w)
  \/ SweepStep \/ SweepFails \/ LoseClaim
  \/ GraceElapses

Spec == Init /\ [][Next]_vars

(* A request that began goes on, a compilation's job is retried, the sweep *)
(* runs on its timer, and time passes.  The key's lock is granted in turn. *)
FairSpec ==
  /\ Spec
  /\ \A w \in Writer : WF_vars(WriterStep(w)) /\ SF_vars(LockStoredKey(w))
  /\ WF_vars(SweepStep) /\ SF_vars(Check)
  /\ WF_vars(GraceElapses)

-----------------------------------------------------------------------------

(* Every variable has its type; the sweep holds the lock, or has lost it,  *)
(* while it deletes a view.                                                *)
TypeOK ==
  /\ stored \subseteq 1 .. lastVersion /\ young \subseteq stored
  /\ refs \subseteq 1 .. lastVersion
  /\ lock \in Writer \cup {Sweep, NoOne}
  /\ \A w \in Writer : held[w] \in 0 .. lastVersion
  /\ spc \in {"idle", "check", "delete", "deleting", "recheck"}
  /\ prefix = "views" /\ spc \in {"delete", "deleting"} => lost \/ lock = Sweep

(* A compilation and the sweep never cross: while no run of the sweep was  *)
(* refused, died or lost its lock, every view a committed run names is in  *)
(* the store, whoever adopted, deleted or rewrote it in between.           *)
ViewsStayWithTheirRecords ==
  prefix = "views" /\ ~ alarm /\ ~ lost => refs \subseteq stored

(* Between its visits, and with no run refused or dead, every version the  *)
(* sweep deleted is accounted for in content.orphan_collection.            *)
DeletionsAreRecorded ==
  spc = "idle" /\ ~ alarm => unrecorded = 0

(* What a quiet sweep can still have destroyed: only bytes named by an act *)
(* that was open, with its bytes already verified, when the sweep looked   *)
(* the second time.                                                        *)
OnlyOpenActsLoseBytes ==
  spc = "idle" /\ ~ alarm => refs \ stored \subseteq unseen

(* The race is detected rather than hidden: once the sweep is done with    *)
(* the key, a record whose bytes it destroyed has made the run fail.       *)
LostBytesAreReported ==
  spc = "idle" /\ ~ alarm => refs \subseteq stored

(* Create-only: where the store serializes conditional creates, an         *)
(* evidence key never has a second version, even when ingests, conflicts   *)
(* and collections of the same bytes overlap.                              *)
EvidenceIsWrittenOnce ==
  prefix = "evidence" /\ conditional => Cardinality(stored) <= 1

(* Nothing the sweep does stops a compilation: one whose view is collected *)
(* under it is retried and ends recorded, as succeeded or as failed.       *)
CompilationsEnd ==
  \A w \in Writer : (prefix = "views") ~> (wpc[w] = "done")

(* Unreferenced bytes do not stay: what a refused act, an unreproduced     *)
(* compilation or a crash left behind is collected, or becomes referenced. *)
OrphansAreCollected ==
  (stored # {} /\ refs = {}) ~> (stored = {} \/ refs # {})
=============================================================================
