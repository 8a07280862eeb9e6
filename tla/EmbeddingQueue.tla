--------------------------- MODULE EmbeddingQueue ---------------------------
(***************************************************************************)
(* The embedding pump: apps/worker/src/embedding.ts over the queue         *)
(* retrieval.embed_pending (20261007500000) and the retrieval engine.      *)
(*                                                                         *)
(* The outbox drain changes a record's search text and enqueues it in one  *)
(* commit.  A consumer claims one record under a lease, sends its text to  *)
(* the engine with no transaction open, then completes or fails the claim. *)
(* The engine keeps the vector that arrives last.                          *)
(*                                                                         *)
(* A text is its version number; a vector is the version it embeds.  Time  *)
(* is abstracted to what can have lapsed: a lease, a backoff.              *)
(*                                                                         *)
(* Two things the queue cannot prevent are part of the model: a drain may  *)
(* commit between a claim's snapshot and its lock, and the engine may      *)
(* finish a request whose client hung up.  The properties say what of the  *)
(* design survives them; `stale` and `astray` are history for them, which  *)
(* no guard reads.                                                         *)
(***************************************************************************)
EXTENDS Naturals, FiniteSets

CONSTANTS
  Object, Proc, Consumer,
  Of,           \* Of[c]: the worker process consumer c runs in
  MaxVersion,   \* bound: edits per record
  MaxAttempts,  \* attempts before the pump gives up on a record
  FailureLimit, \* consecutive failures that end a pass
  MaxFaults     \* bound: crashes, lost database calls, engine timeouts

ASSUME QueueAssumption ==
  /\ Of \in [Consumer -> Proc]
  /\ MaxVersion \in Nat /\ MaxFaults \in Nat
  /\ MaxAttempts \in Nat \ {0} /\ FailureLimit \in Nat \ {0}

VARIABLES
  text,    \* search.document: the version of each record's text
  row,     \* retrieval.embed_pending: a row per record, or NoRow
  vector,  \* the engine's index
  wire,    \* requests the engine has not finished with
  pc,      \* per consumer: "idle", "claiming", "sent", "stored", "failed"
  job,     \* per consumer: the claim it holds, [obj, claim, ver, stale];
           \* stale: a newer text was committed when the claim was granted
  pass,    \* per process: "on" while a pass runs, "off" while it backs off
  fails,   \* per process: consecutive failures of the pass
  claims,  \* claim ids handed out so far
  faults,
  astray   \* history: records whose vector came from a stale or a late request

vars ==
  <<text, row, vector, wire, pc, job, pass, fails, claims, faults, astray>>

NoRow == [hold |-> "none"]
NoJob == [obj |-> 0, claim |-> 0, ver |-> 0, stale |-> FALSE]

(* `hold` stands for (claim, claimed_until): "free" none of either,        *)
(* "live" a claim whose lease runs, "lapsed" a claim whose lease ran out,  *)
(* "wait" no claim and a backoff that has not ended.                       *)
Row == [hold : {"free", "live", "lapsed", "wait"}, claim : Nat,
        requeued : BOOLEAN, attempts : 0 .. MaxAttempts, failed : BOOLEAN]

Fresh == [hold |-> "free", claim |-> 0, requeued |-> FALSE, attempts |-> 0,
          failed |-> FALSE]

Queued(o) == row[o] # NoRow

Init ==
  /\ text = [o \in Object |-> 0]
  /\ row = [o \in Object |-> NoRow]
  /\ vector = [o \in Object |-> 0]
  /\ wire = {}
  /\ pc = [c \in Consumer |-> "idle"]
  /\ job = [c \in Consumer |-> NoJob]
  /\ pass = [p \in Proc |-> "on"]
  /\ fails = [p \in Proc |-> 0]
  /\ claims = 0
  /\ faults = 0
  /\ astray = {}

-----------------------------------------------------------------------------
(* The drain: embeddingOutboxHandler, committed with the new text.         *)

(* Mutant of Enqueue: the claim a consumer is working under is cleared.    *)
EnqueueClearsClaim(r) == Fresh

(* retrieval.enqueue_embedding on an existing row.                         *)
Enqueue(r) ==
  IF r # NoRow /\ r.hold = "live"
  THEN [r EXCEPT !.requeued = TRUE, !.attempts = 0, !.failed = FALSE]
  ELSE Fresh

Drain(o) ==
  /\ text[o] < MaxVersion
  /\ text' = [text EXCEPT ![o] = @ + 1]
  /\ row' = [row EXCEPT ![o] = Enqueue(@)]
  /\ UNCHANGED <<vector, wire, pc, job, pass, fails, claims, faults, astray>>

-----------------------------------------------------------------------------
(* One consumer.                                                           *)

Claimable(o) ==
  /\ Queued(o)
  /\ ~ row[o].failed
  /\ row[o].hold \in {"free", "lapsed"}

(* retrieval.claim_embeddings is one statement: everything it reads comes  *)
(* from the snapshot it starts with ...                                    *)
TakeSnapshot(c) ==
  /\ pc[c] = "idle"
  /\ pass[Of[c]] = "on" /\ fails[Of[c]] < FailureLimit
  /\ \E o \in Object :
       /\ Claimable(o)
       /\ job' = [job EXCEPT ![c] = [NoJob EXCEPT !.obj = o, !.ver = text[o]]]
  /\ pc' = [pc EXCEPT ![c] = "claiming"]
  /\ UNCHANGED <<text, row, vector, wire, pass, fails, claims, faults, astray>>

Granted(c) ==
  [job[c] EXCEPT !.claim = claims + 1, !.stale = job[c].ver # text[job[c].obj]]

(* ... but `for update skip locked` locks, and re-checks, the newest       *)
(* version of the queue row.  A row no longer claimable is skipped.        *)
Claim(c) ==
  LET o == job[c].obj IN
  /\ pc[c] = "claiming"
  /\ IF Claimable(o)
     THEN /\ claims' = claims + 1
          /\ row' = [row EXCEPT ![o] = [@ EXCEPT !.hold = "live",
                                          !.claim = claims + 1, !.requeued = FALSE]]
          /\ job' = [job EXCEPT ![c] = Granted(c)]
          /\ wire' = wire \cup {Granted(c)}
          /\ pc' = [pc EXCEPT ![c] = "sent"]
     ELSE /\ job' = [job EXCEPT ![c] = NoJob]
          /\ pc' = [pc EXCEPT ![c] = "idle"]
          /\ UNCHANGED <<row, wire, claims>>
  /\ UNCHANGED <<text, vector, pass, fails, faults, astray>>

(* The claim committed and its answer was lost: nobody works under it, and *)
(* the pass takes no more claims.                                          *)
ClaimThrows(c) ==
  LET o == job[c].obj IN
  /\ pc[c] = "claiming" /\ faults < MaxFaults
  /\ Claimable(o)
  /\ faults' = faults + 1
  /\ claims' = claims + 1
  /\ row' = [row EXCEPT ![o] = [@ EXCEPT !.hold = "live", !.claim = claims + 1,
                                          !.requeued = FALSE]]
  /\ job' = [job EXCEPT ![c] = NoJob]
  /\ fails' = [fails EXCEPT ![Of[c]] = FailureLimit]
  /\ pc' = [pc EXCEPT ![c] = "idle"]
  /\ UNCHANGED <<text, vector, wire, pass, astray>>

Waiting(r) == {c \in Consumer : pc[c] = "sent" /\ job[c].claim = r.claim}

(* The claim is the one its record is under.                               *)
Holds(r) == Queued(r.obj) /\ row[r.obj].claim = r.claim

(* Nobody waits for it, and its record is not under its claim any more.    *)
Late(r) == Waiting(r) = {} /\ ~ Holds(r)

(* The engine, external: it stores the vector and answers whoever waits,   *)
EngineStores(r) ==
  /\ r \in wire
  /\ vector' = [vector EXCEPT ![r.obj] = r.ver]
  /\ astray' = IF r.stale \/ Late(r) THEN astray \cup {r.obj}
                                     ELSE astray \ {r.obj}
  /\ wire' = wire \ {r}
  /\ pc' = [c \in Consumer |-> IF c \in Waiting(r) THEN "stored" ELSE pc[c]]
  /\ UNCHANGED <<text, row, job, pass, fails, claims, faults>>

(* or refuses, or never answers and stores nothing.                        *)
EngineRefuses(r) ==
  /\ r \in wire
  /\ wire' = wire \ {r}
  /\ pc' = [c \in Consumer |-> IF c \in Waiting(r) THEN "failed" ELSE pc[c]]
  /\ UNCHANGED <<text, row, vector, job, pass, fails, claims, faults, astray>>

(* The client's timeout destroys its socket; what the engine already has   *)
(* it may still finish.                                                    *)
TimeOut(c) ==
  /\ pc[c] = "sent" /\ faults < MaxFaults
  /\ faults' = faults + 1
  /\ pc' = [pc EXCEPT ![c] = "failed"]
  /\ UNCHANGED <<text, row, vector, wire, job, pass, fails, claims, astray>>

StillHeld(c) == Holds(job[c])

(* Mutant of Completed: the row goes even if the record was enqueued again. *)
CompletedForGood(r) == NoRow

(* retrieval.complete_embedding on a row whose claim is still held.        *)
Completed(r) ==
  IF r.requeued THEN [r EXCEPT !.hold = "free", !.claim = 0, !.requeued = FALSE]
                ELSE NoRow

Complete(c) ==
  LET o == job[c].obj IN
  /\ pc[c] = "stored"
  /\ row' = IF StillHeld(c) THEN [row EXCEPT ![o] = Completed(@)] ELSE row
  /\ fails' = [fails EXCEPT ![Of[c]] = 0]
  /\ job' = [job EXCEPT ![c] = NoJob]
  /\ pc' = [pc EXCEPT ![c] = "idle"]
  /\ UNCHANGED <<text, vector, wire, pass, claims, faults, astray>>

(* The completing transaction threw: before it committed, or after.        *)
CompleteThrows(c) ==
  LET o == job[c].obj IN
  /\ pc[c] = "stored" /\ faults < MaxFaults
  /\ faults' = faults + 1
  /\ \/ UNCHANGED row
     \/ StillHeld(c) /\ row' = [row EXCEPT ![o] = Completed(@)]
  /\ pc' = [pc EXCEPT ![c] = "failed"]
  /\ UNCHANGED <<text, vector, wire, job, pass, fails, claims, astray>>

(* Mutant of Failed: giving up deletes the row instead of recording it.    *)
FailedForgetsRecord(r) ==
  IF r.requeued THEN [r EXCEPT !.hold = "free", !.claim = 0, !.requeued = FALSE]
  ELSE IF r.attempts + 1 >= MaxAttempts THEN NoRow
  ELSE [r EXCEPT !.hold = "wait", !.claim = 0, !.attempts = r.attempts + 1]

(* Mutant of Failed: the row is given up on one attempt early.             *)
FailedOneEarly(r) ==
  IF r.requeued THEN [r EXCEPT !.hold = "free", !.claim = 0, !.requeued = FALSE]
  ELSE [r EXCEPT !.hold = "free", !.claim = 0, !.attempts = r.attempts + 1,
                 !.failed = r.attempts + 2 >= MaxAttempts]

(* retrieval.fail_embedding on a row whose claim is still held.            *)
Failed(r) ==
  IF r.requeued THEN [r EXCEPT !.hold = "free", !.claim = 0, !.requeued = FALSE]
  ELSE IF r.attempts + 1 >= MaxAttempts
  THEN [r EXCEPT !.hold = "free", !.claim = 0, !.attempts = r.attempts + 1,
                 !.failed = TRUE]
  ELSE [r EXCEPT !.hold = "wait", !.claim = 0, !.attempts = r.attempts + 1]

Bump(n) == IF n < FailureLimit THEN n + 1 ELSE n

Fail(c) ==
  LET o == job[c].obj IN
  /\ pc[c] = "failed"
  /\ row' = IF StillHeld(c) THEN [row EXCEPT ![o] = Failed(@)] ELSE row
  /\ fails' = [fails EXCEPT ![Of[c]] = Bump(@)]
  /\ job' = [job EXCEPT ![c] = NoJob]
  /\ pc' = [pc EXCEPT ![c] = "idle"]
  /\ UNCHANGED <<text, vector, wire, pass, claims, faults, astray>>

(* The failure could not be counted: the lease lapses instead.             *)
FailThrows(c) ==
  /\ pc[c] = "failed" /\ faults < MaxFaults
  /\ faults' = faults + 1
  /\ fails' = [fails EXCEPT ![Of[c]] = Bump(@)]
  /\ job' = [job EXCEPT ![c] = NoJob]
  /\ pc' = [pc EXCEPT ![c] = "idle"]
  /\ UNCHANGED <<text, row, vector, wire, pass, claims, astray>>

-----------------------------------------------------------------------------
(* Passes, crashes, and time.                                              *)

(* A pass ends 'failing' at the failure limit, or 'empty' when nothing is  *)
(* claimable, once its consumers are done.  The pump waits, and probes the *)
(* engine before it claims again.                                          *)
EndPass(p) ==
  /\ pass[p] = "on"
  /\ fails[p] >= FailureLimit \/ \A o \in Object : ~ Claimable(o)
  /\ \A c \in Consumer : Of[c] = p => pc[c] = "idle"
  /\ pass' = [pass EXCEPT ![p] = "off"]
  /\ fails' = [fails EXCEPT ![p] = 0]
  /\ UNCHANGED <<text, row, vector, wire, pc, job, claims, faults, astray>>

StartPass(p) ==
  /\ pass[p] = "off"
  /\ pass' = [pass EXCEPT ![p] = "on"]
  /\ UNCHANGED <<text, row, vector, wire, pc, job, fails, claims, faults, astray>>

(* The process dies; a request it sent stays with the engine.              *)
Crash(p) ==
  /\ faults < MaxFaults
  /\ \E c \in Consumer : Of[c] = p /\ pc[c] # "idle"
  /\ faults' = faults + 1
  /\ pc' = [c \in Consumer |-> IF Of[c] = p THEN "idle" ELSE pc[c]]
  /\ job' = [c \in Consumer |-> IF Of[c] = p THEN NoJob ELSE job[c]]
  /\ pass' = [pass EXCEPT ![p] = "off"]
  /\ fails' = [fails EXCEPT ![p] = 0]
  /\ UNCHANGED <<text, row, vector, wire, claims, astray>>

(* The worker refuses a lease shorter than twice the engine timeout: it    *)
(* does not lapse under a consumer that works on it.  It may lapse before  *)
(* the engine is done with a request whose client hung up or died.         *)
LeaseLapses(o) ==
  /\ Queued(o) /\ row[o].hold = "live"
  /\ \A c \in Consumer : job[c].claim # row[o].claim
  /\ row' = [row EXCEPT ![o].hold = "lapsed"]
  /\ UNCHANGED <<text, vector, wire, pc, job, pass, fails, claims, faults, astray>>

BackoffEnds(o) ==
  /\ Queued(o) /\ row[o].hold = "wait"
  /\ row' = [row EXCEPT ![o].hold = "free"]
  /\ UNCHANGED <<text, vector, wire, pc, job, pass, fails, claims, faults, astray>>

-----------------------------------------------------------------------------

Work(c) == TakeSnapshot(c) \/ Claim(c) \/ Complete(c) \/ Fail(c)

Next ==
  \/ \E o \in Object : Drain(o) \/ LeaseLapses(o) \/ BackoffEnds(o)
  \/ \E c \in Consumer :
       \/ Work(c) \/ TimeOut(c)
       \/ ClaimThrows(c) \/ CompleteThrows(c) \/ FailThrows(c)
  \/ \E r \in wire : EngineStores(r) \/ EngineRefuses(r)
  \/ \E p \in Proc : EndPass(p) \/ StartPass(p) \/ Crash(p)

Spec == Init /\ [][Next]_vars

(* Statements run, the engine finishes with every request one way or the   *)
(* other, leases and backoffs end, and the pump always starts another pass.*)
FairSpec ==
  /\ Spec
  /\ \A c \in Consumer : WF_vars(Work(c))
  /\ \A o \in Object : WF_vars(LeaseLapses(o)) /\ WF_vars(BackoffEnds(o))
  /\ \A p \in Proc : WF_vars(EndPass(p) \/ StartPass(p))
  /\ WF_vars(\E r \in wire : EngineStores(r) \/ EngineRefuses(r))

-----------------------------------------------------------------------------

(* Every variable has its type; a row the pump gave up on has used up its  *)
(* attempts and is under no claim.                                         *)
TypeOK ==
  /\ text \in [Object -> 0 .. MaxVersion]
  /\ row \in [Object -> Row \cup {NoRow}]
  /\ vector \in [Object -> 0 .. MaxVersion]
  /\ pc \in [Consumer -> {"idle", "claiming", "sent", "stored", "failed"}]
  /\ pass \in [Proc -> {"on", "off"}]
  /\ fails \in [Proc -> 0 .. FailureLimit]
  /\ claims \in Nat /\ astray \subseteq Object
  /\ \A o \in Object : Queued(o) /\ row[o].failed =>
       row[o].attempts = MaxAttempts /\ row[o].claim = 0

(* A record is never indexed and silently never embedded: while a record   *)
(* has no row in the queue, its vector is the vector of its current text,  *)
(* unless that vector came from a claim a drain had overtaken, or from a   *)
(* request that was given up.                                              *)
DequeuedIsEmbedded ==
  \A o \in Object : ~ Queued(o) /\ o \notin astray => vector[o] = text[o]

(* claim_embeddings: this claim reads the text as it is now, so nothing it *)
(* holds is stale; so a row that leaves the queue leaves an embedded record.*)
NothingHeldIsStale ==
  \A o \in Object : ~ Queued(o) => vector[o] = text[o]

(* New text is embedded after the old, never beside it: when the engine is *)
(* sent a record's text, nobody waits for an earlier embedding of it any   *)
(* more.  Whether the engine still works on one its client hung up on is   *)
(* the engine's affair.                                                    *)
NeverBeside ==
  \A r, s \in wire : r.obj = s.obj /\ r.claim < s.claim => Waiting(r) = {}

(* The engine keeps whichever vector arrives last.  An older text arrives  *)
(* after a newer one only from a claim a drain had overtaken, or from a    *)
(* request that was given up.                                              *)
VectorNeverGoesBack ==
  [][\A o \in Object : vector'[o] < vector[o] => o \in astray']_vars

(* The queue comes to rest: every record ends up embedded with its current *)
(* text, or recorded as given up on, whatever the engine refuses and the   *)
(* workers lose; or it has left the queue with a vector gone astray.       *)
EmbeddedOrRecorded ==
  <>[](\A o \in Object :
         \/ vector[o] = text[o]
         \/ Queued(o) /\ row[o].failed
         \/ ~ Queued(o) /\ o \in astray)
=============================================================================
