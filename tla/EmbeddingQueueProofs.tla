------------------------ MODULE EmbeddingQueueProofs ------------------------
(***************************************************************************)
(* Theorems about EmbeddingQueue, for any records, consumers, processes,   *)
(* attempts, faults and edits, and with no premise on the engine or on     *)
(* when drains commit.                                                     *)
(***************************************************************************)
EXTENDS EmbeddingQueue, TLAPS

Pc == {"idle", "claiming", "sent", "stored", "failed"}
Version == 0 .. MaxVersion
Jobs == [obj : Object \cup {0}, claim : Nat, ver : Version, stale : BOOLEAN]
Requests == [obj : Object, claim : Nat, ver : Version, stale : BOOLEAN]

(* A row has been given up on exactly when its attempts are used up.       *)
Counted(r) ==
  /\ r.failed => r.attempts = MaxAttempts /\ r.claim = 0 /\ r.hold = "free"
  /\ ~ r.failed => r.attempts < MaxAttempts
  /\ r.hold \in {"free", "wait"} => r.claim = 0

Typed ==
  /\ text \in [Object -> Version] /\ vector \in [Object -> Version]
  /\ row \in [Object -> Row \cup {NoRow}]
  /\ pc \in [Consumer -> Pc]
  /\ job \in [Consumer -> Jobs]
  /\ wire \subseteq Requests
  /\ pass \in [Proc -> {"on", "off"}] /\ fails \in [Proc -> 0 .. FailureLimit]
  /\ claims \in Nat /\ astray \subseteq Object
  /\ \A c \in Consumer : pc[c] # "idle" => job[c].obj \in Object
  /\ \A o \in Object : Queued(o) => Counted(row[o]) /\ row[o].claim <= claims

(* A claim is one consumer's, and it is live while that consumer works.    *)
Held ==
  /\ \A c \in Consumer : pc[c] \in {"idle", "claiming"} => job[c].claim = 0
  /\ \A c \in Consumer : pc[c] \in {"sent", "stored", "failed"} =>
       /\ 1 <= job[c].claim /\ job[c].claim <= claims
       /\ StillHeld(c) => row[job[c].obj].hold = "live"
  /\ \A c, d \in Consumer :
       job[c].claim = job[d].claim /\ job[c].claim # 0 => c = d

(* A request never runs ahead of its record's claim.  The record of whoever *)
(* waits, or has a vector stored to report, is still under that claim.     *)
Wires ==
  /\ \A r \in wire :
       /\ 1 <= r.claim /\ r.claim <= claims
       /\ Queued(r.obj) => row[r.obj].claim = 0 \/ r.claim <= row[r.obj].claim
  /\ \A r, s \in wire : r.claim = s.claim => r = s
  /\ \A c \in Consumer : pc[c] = "sent" => job[c] \in wire
  /\ \A c \in Consumer : pc[c] \in {"sent", "stored"} => StillHeld(c)
  /\ \A c \in Consumer : pc[c] = "stored" => \A r \in wire : r.claim # job[c].claim

(* The vector that a completion would leave behind.                        *)
Reported(c) ==
  /\ vector[job[c].obj] = job[c].ver
  /\ ~ row[job[c].obj].requeued => job[c].ver = text[job[c].obj]

(* Nothing on the wire beats a request that holds its record and read the  *)
(* text its claim was granted over.                                        *)
Newest(r) ==
  /\ vector[r.obj] <= r.ver
  /\ ~ row[r.obj].requeued => r.ver = text[r.obj]
  /\ \A s \in wire : s.obj = r.obj => s.ver <= r.ver

Texts ==
  /\ \A o \in Object :
       /\ vector[o] <= text[o]
       /\ ~ Queued(o) /\ o \notin astray => vector[o] = text[o]
  /\ \A c \in Consumer : pc[c] = "claiming" => job[c].ver <= text[job[c].obj]
  /\ \A r \in wire : r.ver <= text[r.obj]
  /\ \A r \in wire : Holds(r) /\ ~ r.stale => Newest(r)
  /\ \A c \in Consumer : pc[c] = "stored" /\ job[c].obj \notin astray => Reported(c)

-----------------------------------------------------------------------------
(* What the queue's functions do to a row.                                 *)

LEMMA EnqueueRow ==
  ASSUME NEW r \in Row \cup {NoRow}
  PROVE  /\ Enqueue(r) \in Row /\ Counted(Enqueue(r))
         /\ r # NoRow /\ r.hold = "live" =>
              /\ Enqueue(r).hold = "live" /\ Enqueue(r).claim = r.claim
              /\ Enqueue(r).requeued
         /\ ~ (r # NoRow /\ r.hold = "live") => Enqueue(r).claim = 0
<1>1. Fresh \in Row /\ Counted(Fresh) /\ Fresh.claim = 0
  BY QueueAssumption DEF Fresh, Row, Counted
<1>2. ASSUME r # NoRow, r.hold = "live"
      PROVE  /\ Enqueue(r) \in Row /\ Counted(Enqueue(r))
             /\ Enqueue(r).hold = "live" /\ Enqueue(r).claim = r.claim
             /\ Enqueue(r).requeued
  <2> DEFINE s == [r EXCEPT !.requeued = TRUE, !.attempts = 0, !.failed = FALSE]
  <2>1. r \in Row
    BY <1>2
  <2>2. 0 \in 0 .. MaxAttempts /\ MaxAttempts > 0
    BY QueueAssumption
  <2>3. s \in Row
    BY <2>1, <2>2 DEF Row
  <2>4. /\ s.hold = "live" /\ s.claim = r.claim /\ s.requeued = TRUE
        /\ s.attempts = 0 /\ s.failed = FALSE
    BY <1>2, <2>1 DEF Row
  <2>5. Counted(s)
    BY <2>2, <2>4 DEF Counted
  <2>6. Enqueue(r) = s
    BY <1>2 DEF Enqueue
  <2> HIDE DEF s
  <2> QED
    BY <2>3, <2>4, <2>5, <2>6
<1> QED
  BY <1>1, <1>2 DEF Enqueue

LEMMA NoJobIsAJob == NoJob \in Jobs
BY QueueAssumption DEF NoJob, Jobs, Version

(* A granted claim, as a job and as a request.                             *)
LEMMA GrantedJob ==
  ASSUME Typed, NEW c \in Consumer, pc[c] = "claiming"
  PROVE  /\ Granted(c) \in Requests /\ Granted(c) \in Jobs
         /\ Granted(c).obj = job[c].obj /\ Granted(c).claim = claims + 1
         /\ Granted(c).ver = job[c].ver
         /\ Granted(c).stale = (job[c].ver # text[job[c].obj])
<1>1. job[c] \in Jobs /\ job[c].obj \in Object /\ claims + 1 \in Nat
  BY DEF Typed
<1> QED
  BY <1>1 DEF Granted, Jobs, Requests

LEMMA RowIsARow ==
  ASSUME NEW r \in Row PROVE r # NoRow
BY DEF Row, NoRow

LEMMA ClaimedRow ==
  ASSUME NEW r \in Row, Counted(r), ~ r.failed, NEW n \in Nat
  PROVE  LET s == [r EXCEPT !.hold = "live", !.claim = n, !.requeued = FALSE] IN
         /\ s \in Row /\ Counted(s)
         /\ s.hold = "live" /\ s.claim = n /\ s.requeued = FALSE
BY DEF Row, Counted

LEMMA CompletedRow ==
  ASSUME NEW r \in Row, Counted(r), r.hold = "live"
  PROVE  /\ r.requeued => /\ Completed(r) \in Row /\ Counted(Completed(r))
                          /\ Completed(r).claim = 0
         /\ ~ r.requeued => Completed(r) = NoRow
BY DEF Row, Counted, Completed

LEMMA FailedRow ==
  ASSUME NEW r \in Row, Counted(r), r.hold = "live"
  PROVE  /\ Failed(r) \in Row /\ Counted(Failed(r)) /\ Failed(r).claim = 0
<1>1. r.attempts \in Nat /\ r.attempts < MaxAttempts /\ MaxAttempts \in Nat
  <2>1. ~ r.failed
    BY DEF Counted
  <2> QED
    BY <2>1, QueueAssumption DEF Row, Counted
<1>2. CASE r.requeued
  BY <1>2 DEF Row, Counted, Failed
<1>3. CASE ~ r.requeued /\ r.attempts + 1 >= MaxAttempts
  <2> DEFINE s == [r EXCEPT !.hold = "free", !.claim = 0,
                            !.attempts = r.attempts + 1, !.failed = TRUE]
  <2>1. r.attempts + 1 = MaxAttempts /\ r.attempts + 1 \in 0 .. MaxAttempts
    BY <1>1, <1>3
  <2>2. s \in Row
    BY <2>1 DEF Row
  <2>3. s.hold = "free" /\ s.claim = 0 /\ s.attempts = r.attempts + 1 /\ s.failed = TRUE
    BY DEF Row
  <2>4. Counted(s)
    BY <2>1, <2>3 DEF Counted
  <2>5. Failed(r) = s
    BY <1>3 DEF Failed
  <2> HIDE DEF s
  <2> QED
    BY <2>2, <2>3, <2>4, <2>5
<1>4. CASE ~ r.requeued /\ ~ (r.attempts + 1 >= MaxAttempts)
  <2> DEFINE s == [r EXCEPT !.hold = "wait", !.claim = 0, !.attempts = r.attempts + 1]
  <2>1. r.attempts + 1 < MaxAttempts /\ r.attempts + 1 \in 0 .. MaxAttempts
    BY <1>1, <1>4
  <2>2. s \in Row
    BY <2>1 DEF Row
  <2>3. s.hold = "wait" /\ s.claim = 0 /\ s.attempts = r.attempts + 1
        /\ s.failed = r.failed
    BY DEF Row
  <2>4. ~ r.failed
    BY <1>1 DEF Counted
  <2>5. Counted(s)
    BY <2>1, <2>3, <2>4 DEF Counted
  <2>6. Failed(r) = s
    BY <1>4 DEF Failed
  <2> HIDE DEF s
  <2> QED
    BY <2>2, <2>3, <2>5, <2>6
<1> QED
  BY <1>1, <1>2, <1>3, <1>4 DEF Row

(* What a row becomes under a step: itself, or one of these.               *)
LEMMA Rows ==
  ASSUME Typed, NEW o \in Object, Queued(o)
  PROVE  row[o] \in Row /\ Counted(row[o]) /\ row[o].claim <= claims /\ row[o].claim \in Nat
BY DEF Typed, Queued, Row

LEMMA Worker ==
  ASSUME Typed, Held, NEW c \in Consumer, pc[c] \in {"sent", "stored", "failed"}
  PROVE  /\ job[c].obj \in Object /\ job[c].claim \in Nat /\ job[c].claim >= 1
         /\ StillHeld(c) =>
              /\ Queued(job[c].obj) /\ row[job[c].obj].hold = "live"
              /\ row[job[c].obj].claim = job[c].claim
BY DEF Typed, Held, StillHeld, Holds, Jobs

-----------------------------------------------------------------------------
LEMMA InitOK == Init => Typed /\ Held /\ Wires /\ Texts
<1> SUFFICES ASSUME Init PROVE Typed /\ Held /\ Wires /\ Texts
  OBVIOUS
<1>1. Typed
  BY QueueAssumption, NoJobIsAJob DEF Init, Typed, NoJob, Pc, Version, Queued
<1>2. Held
  BY DEF Init, Held, NoJob
<1>3. Wires /\ Texts
  BY DEF Init, Wires, Texts
<1> QED
  BY <1>1, <1>2, <1>3

-----------------------------------------------------------------------------
(* Types.                                                                  *)

LEMMA RowsStayTyped ==
  ASSUME Typed, NEW o \in Object, NEW x \in Row \cup {NoRow},
         x # NoRow => Counted(x) /\ x.claim <= claims',
         claims' \in Nat, claims <= claims',
         row' = [row EXCEPT ![o] = x]
  PROVE  /\ row' \in [Object -> Row \cup {NoRow}]
         /\ \A q \in Object : Queued(q)' => Counted(row'[q]) /\ row'[q].claim <= claims'
<1>1. row' \in [Object -> Row \cup {NoRow}]
  BY DEF Typed
<1>2. ASSUME NEW q \in Object, row'[q] # NoRow
      PROVE  Counted(row'[q]) /\ row'[q].claim <= claims'
  <2>1. CASE q = o
    BY <1>2, <2>1 DEF Typed
  <2>2. CASE q # o
    <3>1. row'[q] = row[q] /\ row[q] # NoRow
      BY <1>2, <2>2 DEF Typed
    <3>2. row[q] \in Row /\ Counted(row[q]) /\ row[q].claim <= claims
      BY <3>1, Rows DEF Queued
    <3>3. row[q].claim \in Nat /\ claims \in Nat
      BY <3>2 DEF Row, Typed
    <3> QED
      BY <3>1, <3>2, <3>3
  <2> QED
    BY <2>1, <2>2
<1> QED
  BY <1>1, <1>2 DEF Queued

(* Steps that leave the queue alone.                                       *)
LEMMA RowsUntouched ==
  ASSUME Typed, UNCHANGED <<row, claims>>
  PROVE  /\ row' \in [Object -> Row \cup {NoRow}]
         /\ \A q \in Object : Queued(q)' => Counted(row'[q]) /\ row'[q].claim <= claims'
BY DEF Typed, Queued

LEMMA TypedClaim ==
  ASSUME Typed, Held, NEW c \in Consumer, Claim(c) \/ ClaimThrows(c)
  PROVE  Typed'
<1> DEFINE o == job[c].obj
           n == claims + 1
           x == [row[o] EXCEPT !.hold = "live", !.claim = n, !.requeued = FALSE]
<1>1. pc[c] = "claiming" /\ o \in Object /\ n \in Nat /\ claims \in Nat
  BY DEF Typed, Claim, ClaimThrows
<1>2. CASE Claimable(o) /\ row' = [row EXCEPT ![o] = x] /\ claims' = n
  <2>1. x \in Row /\ Counted(x) /\ x.claim = n /\ x.hold = "live"
    BY <1>1, <1>2, Rows, ClaimedRow DEF Claimable
  <2>2. /\ row' \in [Object -> Row \cup {NoRow}]
        /\ \A q \in Object : Queued(q)' => Counted(row'[q]) /\ row'[q].claim <= claims'
    <3>1. x \in Row \cup {NoRow} /\ x.claim <= claims' /\ claims' \in Nat /\ claims <= claims'
      BY <1>1, <1>2, <2>1
    <3> HIDE DEF x
    <3> QED
      BY <1>1, <1>2, <2>1, <3>1, RowsStayTyped
  <2>3. CASE Claim(c)
    <3>1. /\ job' = [job EXCEPT ![c] = Granted(c)] /\ pc' = [pc EXCEPT ![c] = "sent"]
          /\ wire' = wire \cup {Granted(c)}
          /\ UNCHANGED <<text, vector, pass, fails, astray>>
      BY <1>2, <2>3 DEF Claim
    <3>2. job' \in [Consumer -> Jobs]
          /\ \A d \in Consumer : job'[d].obj = job[d].obj
      BY <1>1, <3>1, GrantedJob DEF Typed
    <3>3. pc' \in [Consumer -> Pc]
      BY <3>1 DEF Typed, Pc
    <3>4. wire' \subseteq Requests
      BY <1>1, <3>1, GrantedJob DEF Typed
    <3> QED
      BY <1>1, <1>2, <2>2, <3>1, <3>2, <3>3, <3>4 DEF Typed
  <2>4. CASE ClaimThrows(c)
    <3>1. job' \in [Consumer -> Jobs]
      BY <2>4, NoJobIsAJob DEF Typed, ClaimThrows
    <3>2. /\ pc' \in [Consumer -> Pc]
          /\ \A d \in Consumer : pc'[d] # "idle" => job'[d].obj \in Object
      BY <2>4 DEF Typed, ClaimThrows, Pc
    <3>3. fails' \in [Proc -> 0 .. FailureLimit]
      <4>1. Of[c] \in Proc /\ FailureLimit \in 0 .. FailureLimit
        BY QueueAssumption
      <4> QED
        BY <2>4, <4>1 DEF Typed, ClaimThrows
    <3> QED
      BY <1>1, <1>2, <2>2, <2>4, <3>1, <3>2, <3>3 DEF Typed, ClaimThrows
  <2> QED
    BY <2>3, <2>4
<1>3. CASE Claim(c) /\ ~ Claimable(o)
  <2>1. job' = [job EXCEPT ![c] = NoJob] /\ pc' = [pc EXCEPT ![c] = "idle"]
        /\ UNCHANGED <<row, wire, claims, text, vector, pass, fails, astray>>
    BY <1>3 DEF Claim
  <2>2. job' \in [Consumer -> Jobs]
    BY <2>1, NoJobIsAJob DEF Typed
  <2>3. /\ pc' \in [Consumer -> Pc]
        /\ \A d \in Consumer : pc'[d] # "idle" => job'[d].obj \in Object
    BY <2>1 DEF Typed, Pc
  <2> QED
    BY <2>1, <2>2, <2>3, RowsUntouched DEF Typed
<1> QED
  BY <1>2, <1>3 DEF Claim, ClaimThrows

(* The rest of a consumer's work: the row, its job, the failure count.     *)
LEMMA TypedWork ==
  ASSUME Typed, Held, NEW c \in Consumer,
         Complete(c) \/ CompleteThrows(c) \/ Fail(c) \/ FailThrows(c)
  PROVE  Typed'
<1> DEFINE o == job[c].obj
<1>1. pc[c] \in {"stored", "failed"} /\ o \in Object
  BY DEF Typed, Complete, CompleteThrows, Fail, FailThrows
<1>2. /\ row' \in [Object -> Row \cup {NoRow}]
      /\ \A q \in Object : Queued(q)' => Counted(row'[q]) /\ row'[q].claim <= claims'
  <2>1. claims' = claims /\ claims' \in Nat /\ claims <= claims'
    BY DEF Typed, Complete, CompleteThrows, Fail, FailThrows
  <2>2. CASE row' = row
    BY <2>1, <2>2, RowsUntouched
  <2>3. CASE StillHeld(c) /\ row' = [row EXCEPT ![o] = Completed(row[o])]
    <3>1. row[o] \in Row /\ Counted(row[o]) /\ row[o].hold = "live"
      BY <1>1, <2>3, Worker, Rows
    <3> DEFINE x == Completed(row[o])
    <3>2. x \in Row \cup {NoRow}
          /\ (x # NoRow =>
                Counted(x) /\ x.claim <= claims')
      BY <2>1, <3>1, CompletedRow
    <3>3. row' = [row EXCEPT ![o] = x]
      BY <2>3
    <3> HIDE DEF x
    <3> QED
      BY <1>1, <2>1, <3>2, <3>3, RowsStayTyped
  <2>4. CASE StillHeld(c) /\ row' = [row EXCEPT ![o] = Failed(row[o])]
    <3>1. row[o] \in Row /\ Counted(row[o]) /\ row[o].hold = "live"
      BY <1>1, <2>4, Worker, Rows
    <3> DEFINE x == Failed(row[o])
    <3>2. x \in Row \cup {NoRow}
          /\ Counted(x) /\ x.claim <= claims'
      BY <2>1, <3>1, FailedRow
    <3>3. row' = [row EXCEPT ![o] = x]
      BY <2>4
    <3> HIDE DEF x
    <3> QED
      BY <1>1, <2>1, <3>2, <3>3, RowsStayTyped
  <2> QED
    BY <2>2, <2>3, <2>4 DEF Complete, CompleteThrows, Fail, FailThrows
<1>3. job' \in [Consumer -> Jobs]
  BY NoJobIsAJob DEF Typed, Complete, CompleteThrows, Fail, FailThrows
<1>4. /\ pc' \in [Consumer -> Pc]
      /\ \A d \in Consumer : pc'[d] # "idle" => job'[d].obj \in Object
  BY <1>1 DEF Typed, Pc, Complete, CompleteThrows, Fail, FailThrows
<1>5. fails' \in [Proc -> 0 .. FailureLimit]
  <2>1. \A k \in 0 .. FailureLimit : Bump(k) \in 0 .. FailureLimit
    BY QueueAssumption DEF Bump
  <2>2. Of[c] \in Proc /\ 0 \in 0 .. FailureLimit
    BY QueueAssumption
  <2> QED
    BY <2>1, <2>2 DEF Typed, Complete, CompleteThrows, Fail, FailThrows
<1> QED
  BY <1>2, <1>3, <1>4, <1>5 DEF Typed, Complete, CompleteThrows, Fail, FailThrows

LEMMA TypedQueue ==
  ASSUME Typed, NEW o \in Object, Drain(o) \/ LeaseLapses(o) \/ BackoffEnds(o)
  PROVE  Typed'
<1>1. claims' = claims /\ claims' \in Nat /\ claims <= claims'
      /\ row[o] \in Row \cup {NoRow}
  BY DEF Typed, Drain, LeaseLapses, BackoffEnds
<1>2. /\ row' \in [Object -> Row \cup {NoRow}]
      /\ \A q \in Object : Queued(q)' => Counted(row'[q]) /\ row'[q].claim <= claims'
  <2>1. CASE Drain(o)
    <3> DEFINE x == Enqueue(row[o])
    <3>1. x \in Row /\ Counted(x)
      BY <1>1, EnqueueRow
    <3>2. x.claim <= claims'
      BY <1>1, EnqueueRow, Rows DEF Queued
    <3>3. row' = [row EXCEPT ![o] = x]
      BY <2>1 DEF Drain
    <3> HIDE DEF x
    <3> QED
      BY <1>1, <3>1, <3>2, <3>3, RowsStayTyped
  <2>2. CASE LeaseLapses(o) \/ BackoffEnds(o)
    <3> DEFINE h == IF LeaseLapses(o) THEN "lapsed" ELSE "free"
               x == [row[o] EXCEPT !.hold = h]
    <3>1. row[o] \in Row /\ Counted(row[o]) /\ row[o].claim <= claims
      BY <2>2, Rows DEF LeaseLapses, BackoffEnds
    <3>2. x \in Row /\ x.claim = row[o].claim
      BY <3>1 DEF Row
    <3>3. Counted(x)
      <4>1. /\ x.attempts = row[o].attempts /\ x.failed = row[o].failed /\ x.hold = h
        BY <3>1 DEF Row
      <4>2. row[o].hold \in {"live", "wait"}
            /\ (LeaseLapses(o) \/ row[o].hold = "wait")
        BY <2>2 DEF LeaseLapses, BackoffEnds
      <4>3. ~ row[o].failed
        BY <3>1, <4>2 DEF Counted
      <4>4. h = "free" => row[o].claim = 0
        BY <3>1, <4>2 DEF Counted
      <4> QED
        BY <3>1, <3>2, <4>1, <4>3, <4>4 DEF Counted
    <3>4. row' = [row EXCEPT ![o] = x]
      <4>1. LeaseLapses(o) \/ (BackoffEnds(o) /\ ~ LeaseLapses(o))
        BY <2>2
      <4> QED
        BY <4>1 DEF LeaseLapses, BackoffEnds, Typed
    <3>5. x \in Row \cup {NoRow} /\ x.claim <= claims'
      BY <1>1, <3>1, <3>2
    <3> HIDE DEF x
    <3> QED
      BY <1>1, <3>3, <3>4, <3>5, RowsStayTyped
  <2> QED
    BY <2>1, <2>2
<1>3. text' \in [Object -> Version]
  BY QueueAssumption DEF Typed, Version, Drain, LeaseLapses, BackoffEnds
<1> QED
  BY <1>2, <1>3 DEF Typed, Drain, LeaseLapses, BackoffEnds

LEMMA TypedRest ==
  ASSUME Typed,
         \/ \E c \in Consumer : TakeSnapshot(c) \/ TimeOut(c)
         \/ \E r \in wire : EngineStores(r) \/ EngineRefuses(r)
         \/ \E p \in Proc : EndPass(p) \/ StartPass(p) \/ Crash(p)
  PROVE  Typed'
<1>1. ASSUME NEW c \in Consumer, TakeSnapshot(c) PROVE Typed'
  <2>1. /\ job' \in [Consumer -> Jobs]
        /\ \A d \in Consumer : pc'[d] # "idle" => job'[d].obj \in Object
    <3>1. \A o \in Object : [NoJob EXCEPT !.obj = o, !.ver = text[o]] \in Jobs
      BY NoJobIsAJob DEF Typed, Jobs, NoJob
    <3>2. \A o \in Object : [NoJob EXCEPT !.obj = o, !.ver = text[o]].obj = o
      BY DEF NoJob
    <3> QED
      <4>1. PICK o \in Object : job' = [job EXCEPT ![c] = [NoJob EXCEPT !.obj = o, !.ver = text[o]]]
        BY <1>1 DEF TakeSnapshot
      <4> DEFINE j == [NoJob EXCEPT !.obj = o, !.ver = text[o]]
      <4>2. j \in Jobs /\ j.obj \in Object /\ job' = [job EXCEPT ![c] = j]
        BY <3>1, <3>2, <4>1
      <4>3. \A d \in Consumer \ {c} : pc'[d] = pc[d]
        BY <1>1 DEF TakeSnapshot, Typed
      <4> HIDE DEF j
      <4> QED
        BY <4>2, <4>3 DEF Typed
  <2>2. pc' \in [Consumer -> Pc]
    BY <1>1 DEF Typed, TakeSnapshot, Pc
  <2> QED
    BY <1>1, <2>1, <2>2, RowsUntouched DEF Typed, TakeSnapshot
<1>2. ASSUME NEW c \in Consumer, TimeOut(c) PROVE Typed'
  <2>1. pc' \in [Consumer -> Pc]
    BY <1>2 DEF Typed, TimeOut, Pc
  <2>2. \A d \in Consumer : pc'[d] # "idle" => pc[d] # "idle"
    BY <1>2 DEF Typed, TimeOut
  <2> QED
    BY <1>2, <2>1, <2>2, RowsUntouched DEF Typed, TimeOut
<1>3. ASSUME NEW r \in wire, EngineStores(r) \/ EngineRefuses(r) PROVE Typed'
  <2>1. pc' \in [Consumer -> Pc] /\ wire' \subseteq wire
    BY <1>3 DEF Typed, EngineStores, EngineRefuses, Pc
  <2>2. \A d \in Consumer : pc'[d] # "idle" => pc[d] # "idle"
    BY <1>3 DEF Typed, EngineStores, EngineRefuses, Waiting
  <2>3. vector' \in [Object -> Version] /\ astray' \subseteq Object
    BY <1>3 DEF Typed, EngineStores, EngineRefuses, Requests
  <2>4. UNCHANGED <<text, row, job, pass, fails, claims>>
    BY <1>3 DEF EngineStores, EngineRefuses
  <2> QED
    BY <2>1, <2>2, <2>3, <2>4, RowsUntouched DEF Typed
<1>4. ASSUME NEW p \in Proc, EndPass(p) \/ StartPass(p) PROVE Typed'
  <2>1. pass' \in [Proc -> {"on", "off"}] /\ fails' \in [Proc -> 0 .. FailureLimit]
    BY <1>4, QueueAssumption DEF Typed, EndPass, StartPass
  <2>2. UNCHANGED <<text, row, vector, wire, pc, job, claims, astray>>
    BY <1>4 DEF EndPass, StartPass
  <2> QED
    BY <2>1, <2>2, RowsUntouched DEF Typed
<1>5. ASSUME NEW p \in Proc, Crash(p) PROVE Typed'
  <2>1. job' \in [Consumer -> Jobs]
    BY <1>5, NoJobIsAJob DEF Typed, Crash
  <2>2. /\ pc' \in [Consumer -> Pc]
        /\ \A d \in Consumer : pc'[d] # "idle" => job'[d].obj \in Object
    BY <1>5 DEF Typed, Crash, Pc
  <2>3. pass' \in [Proc -> {"on", "off"}] /\ fails' \in [Proc -> 0 .. FailureLimit]
    BY <1>5, QueueAssumption DEF Typed, Crash
  <2> QED
    BY <1>5, <2>1, <2>2, <2>3, RowsUntouched DEF Typed, Crash
<1> QED
  BY <1>1, <1>2, <1>3, <1>4, <1>5

-----------------------------------------------------------------------------
(* Claims.                                                                 *)

Working == {"sent", "stored", "failed"}

(* A step that hands out no claim, starts nobody's work, and leaves the    *)
(* row of whoever still holds it live.                                     *)
LEMMA HeldKept ==
  ASSUME Typed, Held, claims' = claims, pc' \in [Consumer -> Pc],
         \A c \in Consumer : pc'[c] \in Working => pc[c] \in Working /\ job'[c] = job[c],
         \A c \in Consumer : pc'[c] \notin Working =>
           job'[c].claim = 0 \/ (pc[c] \notin Working /\ job'[c] = job[c]),
         \A c \in Consumer : pc'[c] \in Working /\ StillHeld(c)' =>
           row'[job[c].obj].hold = "live"
  PROVE  Held'
<1>1. \A c \in Consumer : job'[c].claim = 0 \/ job'[c] = job[c]
  OBVIOUS
<1>2. \A c \in Consumer : pc'[c] \in {"idle", "claiming"} => job'[c].claim = 0
  BY DEF Held, Typed, Pc, Working
<1>3. ASSUME NEW c \in Consumer, pc'[c] \in Working
      PROVE  /\ 1 <= job'[c].claim /\ job'[c].claim <= claims'
             /\ StillHeld(c)' => row'[job'[c].obj].hold = "live"
  BY <1>3 DEF Held, Working
<1>4. \A c, d \in Consumer :
        job'[c].claim = job'[d].claim /\ job'[c].claim # 0 => c = d
  BY <1>1 DEF Held
<1> QED
  BY <1>2, <1>3, <1>4 DEF Held, Working

LEMMA HeldClaim ==
  ASSUME Typed, Held, NEW c \in Consumer, Claim(c) \/ ClaimThrows(c)
  PROVE  Held'
<1> DEFINE o == job[c].obj
           n == claims + 1
           x == [row[o] EXCEPT !.hold = "live", !.claim = n, !.requeued = FALSE]
<1>1. pc[c] = "claiming" /\ o \in Object /\ n \in Nat /\ claims \in Nat
  BY DEF Typed, Claim, ClaimThrows
<1>2. CASE Claimable(o) /\ row' = [row EXCEPT ![o] = x] /\ claims' = n
  <2>1. x.claim = n /\ x.hold = "live"
    BY <1>1, <1>2, Rows, ClaimedRow DEF Claimable
  <2> HIDE DEF x
  <2>2. \A d \in Consumer \ {c} : pc'[d] = pc[d] /\ job'[d] = job[d]
    BY <1>2 DEF Claim, ClaimThrows, Typed
  <2>3. ASSUME NEW d \in Consumer \ {c}, pc[d] \in Working
        PROVE  /\ 1 <= job'[d].claim /\ job'[d].claim <= claims'
               /\ StillHeld(d)' => row'[job'[d].obj].hold = "live"
    <3>1. 1 <= job[d].claim /\ job[d].claim <= claims /\ job[d].claim \in Nat
          /\ job[d].obj \in Object
      BY <2>3, Worker DEF Held, Working
    <3>2. CASE job[d].obj = o
      BY <1>1, <1>2, <2>1, <2>2, <3>1, <3>2 DEF StillHeld, Holds, Typed
    <3>3. CASE job[d].obj # o
      <4>1. row'[job[d].obj] = row[job[d].obj]
        BY <1>2, <3>1, <3>3 DEF Typed
      <4>2. StillHeld(d)' => StillHeld(d)
        BY <2>2, <4>1 DEF StillHeld, Holds, Queued
      <4> QED
        BY <1>1, <1>2, <2>2, <2>3, <3>1, <4>1, <4>2 DEF Held, Working
    <3> QED
      BY <3>2, <3>3
  <2>4. CASE Claim(c)
    <3>1. job'[c].claim = n /\ job'[c].obj = o /\ pc'[c] = "sent"
      BY <1>1, <1>2, <2>4, GrantedJob DEF Claim, Typed
    <3>2. row'[o] = x
      BY <1>1, <1>2 DEF Typed
    <3>3. \A d \in Consumer : pc'[d] \in {"idle", "claiming"} => job'[d].claim = 0
      BY <2>2, <3>1 DEF Held
    <3>4. \A d \in Consumer \ {c} : job[d].claim # n
      BY <1>1 DEF Held, Typed, Pc
    <3>5. \A d, e \in Consumer :
            job'[d].claim = job'[e].claim /\ job'[d].claim # 0 => d = e
      BY <2>2, <3>1, <3>4 DEF Held
    <3>6. 1 <= job'[c].claim /\ job'[c].claim <= claims'
      BY <1>1, <1>2, <3>1
    <3> QED
      BY <2>1, <2>2, <2>3, <3>1, <3>2, <3>3, <3>5, <3>6 DEF Held, Working
  <2>5. CASE ClaimThrows(c)
    <3>1. job'[c].claim = 0 /\ pc'[c] = "idle"
      BY <2>5 DEF ClaimThrows, Typed, NoJob
    <3>2. \A d \in Consumer : pc'[d] \in {"idle", "claiming"} => job'[d].claim = 0
      BY <2>2, <3>1 DEF Held
    <3>3. \A d, e \in Consumer :
            job'[d].claim = job'[e].claim /\ job'[d].claim # 0 => d = e
      BY <2>2, <3>1 DEF Held
    <3> QED
      BY <2>2, <2>3, <3>1, <3>2, <3>3 DEF Held, Working
  <2> QED
    BY <2>4, <2>5
<1>3. CASE Claim(c) /\ ~ Claimable(o)
  <2>1. job' = [job EXCEPT ![c] = NoJob] /\ pc' = [pc EXCEPT ![c] = "idle"]
        /\ UNCHANGED <<row, claims>>
    BY <1>3 DEF Claim
  <2>2. pc' \in [Consumer -> Pc] /\ job'[c].claim = 0 /\ pc'[c] = "idle"
        /\ \A d \in Consumer \ {c} : pc'[d] = pc[d] /\ job'[d] = job[d]
    BY <2>1 DEF Typed, Pc, NoJob
  <2>3. \A d \in Consumer : pc'[d] \in Working => d # c
    BY <2>2 DEF Working
  <2>4. \A d \in Consumer : pc'[d] \in Working /\ StillHeld(d)' => StillHeld(d)
    BY <2>1, <2>2, <2>3 DEF StillHeld, Holds, Queued
  <2>5. \A d \in Consumer : pc'[d] \in Working /\ StillHeld(d)' =>
          row'[job[d].obj].hold = "live"
    BY <2>1, <2>2, <2>3, <2>4 DEF Held, Working
  <2> QED
    BY <2>1, <2>2, <2>3, <2>5, HeldKept DEF Working
<1> QED
  BY <1>2, <1>3 DEF Claim, ClaimThrows

LEMMA HeldWork ==
  ASSUME Typed, Held, Typed', NEW c \in Consumer,
         Complete(c) \/ CompleteThrows(c) \/ Fail(c) \/ FailThrows(c)
  PROVE  Held'
<1> DEFINE o == job[c].obj
<1>1. /\ pc[c] \in Working /\ pc' \in [Consumer -> Pc] /\ claims' = claims
      /\ \A d \in Consumer \ {c} : pc'[d] = pc[d] /\ job'[d] = job[d]
      /\ (pc'[c] = "idle" /\ job'[c].claim = 0) \/ (pc'[c] = "failed" /\ job' = job)
  BY DEF Typed, Working, Complete, CompleteThrows, Fail, FailThrows, NoJob
<1>2. row' = row \/ (StillHeld(c) /\ (\A q \in Object \ {o} : row'[q] = row[q])
                     /\ (row'[o] = NoRow \/ row'[o].claim = 0))
  <2>1. o \in Object
    BY <1>1, Worker DEF Working
  <2>2. ASSUME StillHeld(c), row' = [row EXCEPT ![o] = Completed(row[o])]
        PROVE  row'[o] = NoRow \/ row'[o].claim = 0
    <3>1. row[o] \in Row /\ Counted(row[o]) /\ row[o].hold = "live"
      BY <1>1, <2>1, <2>2, Worker, Rows DEF Working
    <3> QED
      BY <2>1, <2>2, <3>1, CompletedRow DEF Typed
  <2>3. ASSUME StillHeld(c), row' = [row EXCEPT ![o] = Failed(row[o])]
        PROVE  row'[o] = NoRow \/ row'[o].claim = 0
    <3>1. row[o] \in Row /\ Counted(row[o]) /\ row[o].hold = "live"
      BY <1>1, <2>1, <2>3, Worker, Rows DEF Working
    <3> QED
      BY <2>1, <2>3, <3>1, FailedRow DEF Typed
  <2>4. \/ row' = row
        \/ StillHeld(c) /\ row' = [row EXCEPT ![o] = Completed(row[o])]
        \/ StillHeld(c) /\ row' = [row EXCEPT ![o] = Failed(row[o])]
    BY DEF Complete, CompleteThrows, Fail, FailThrows
  <2> QED
    BY <2>2, <2>3, <2>4 DEF Typed
<1>3. ASSUME NEW d \in Consumer, pc'[d] \in Working, StillHeld(d)'
      PROVE  row'[job[d].obj].hold = "live"
  <2>1. pc[d] \in Working /\ job'[d] = job[d]
    BY <1>1, <1>3 DEF Working
  <2>2. 1 <= job[d].claim /\ job[d].obj \in Object /\ job[d].claim \in Nat
    BY <2>1, Worker DEF Working
  <2>3. row'[job[d].obj] # NoRow /\ row'[job[d].obj].claim = job[d].claim
    BY <1>3, <2>1 DEF StillHeld, Holds, Queued
  <2>4. row'[job[d].obj] = row[job[d].obj]
    BY <1>2, <2>2, <2>3
  <2>5. StillHeld(d)
    BY <2>3, <2>4 DEF StillHeld, Holds, Queued
  <2> QED
    BY <2>1, <2>4, <2>5 DEF Held, Working
<1>4. \A d \in Consumer : pc'[d] \in Working => pc[d] \in Working /\ job'[d] = job[d]
  BY <1>1 DEF Working
<1>5. \A d \in Consumer : pc'[d] \notin Working =>
        job'[d].claim = 0 \/ (pc[d] \notin Working /\ job'[d] = job[d])
  BY <1>1 DEF Working
<1> QED
  BY <1>1, <1>3, <1>4, <1>5, HeldKept

LEMMA HeldQueue ==
  ASSUME Typed, Held, NEW o \in Object, Drain(o) \/ LeaseLapses(o) \/ BackoffEnds(o)
  PROVE  Held'
<1>1. UNCHANGED <<pc, job, claims>>
  BY DEF Drain, LeaseLapses, BackoffEnds
<1>2. ASSUME NEW c \in Consumer, pc[c] \in Working, StillHeld(c)'
      PROVE  row'[job[c].obj].hold = "live"
  <2>1. 1 <= job[c].claim /\ job[c].obj \in Object /\ job[c].claim \in Nat
    BY <1>2, Worker DEF Working
  <2>2. row'[job[c].obj] # NoRow /\ row'[job[c].obj].claim = job[c].claim
    BY <1>1, <1>2 DEF StillHeld, Holds, Queued
  <2>3. CASE job[c].obj # o
    <3>1. row'[job[c].obj] = row[job[c].obj]
      BY <2>1, <2>3 DEF Drain, LeaseLapses, BackoffEnds, Typed
    <3>2. StillHeld(c)
      BY <2>2, <3>1 DEF StillHeld, Holds, Queued
    <3> QED
      BY <1>2, <3>1, <3>2 DEF Held, Working
  <2>4. CASE job[c].obj = o /\ Drain(o)
    <3>1. row'[o] = Enqueue(row[o]) /\ row[o] \in Row \cup {NoRow}
      BY <2>4 DEF Drain, Typed
    <3> QED
      BY <2>1, <2>2, <2>4, <3>1, EnqueueRow
  <2>5. CASE job[c].obj = o /\ (LeaseLapses(o) \/ BackoffEnds(o))
    <3>1. row[o] \in Row /\ Counted(row[o])
      BY <2>5, Rows DEF LeaseLapses, BackoffEnds
    <3>2. row'[o].claim = row[o].claim
      BY <2>5, <3>1 DEF LeaseLapses, BackoffEnds, Typed, Row
    <3>3. ~ LeaseLapses(o)
      BY <2>2, <2>5, <3>2 DEF LeaseLapses
    <3>4. row[o].claim = 0
      BY <2>5, <3>1, <3>3 DEF BackoffEnds, Counted
    <3> QED
      BY <2>1, <2>2, <2>5, <3>2, <3>4
  <2> QED
    BY <2>3, <2>4, <2>5
<1>3. pc' \in [Consumer -> Pc]
  BY <1>1 DEF Typed
<1> QED
  BY <1>1, <1>2, <1>3, HeldKept

LEMMA HeldRest ==
  ASSUME Typed, Held, Typed',
         \/ \E c \in Consumer : TakeSnapshot(c) \/ TimeOut(c)
         \/ \E r \in wire : EngineStores(r) \/ EngineRefuses(r)
         \/ \E p \in Proc : EndPass(p) \/ StartPass(p) \/ Crash(p)
  PROVE  Held'
<1>1. UNCHANGED <<row, claims>>
  BY DEF TakeSnapshot, TimeOut, EngineStores, EngineRefuses, EndPass, StartPass, Crash
<1> DEFINE OnlyFinish ==
      /\ \A c \in Consumer : pc'[c] \in Working => pc[c] \in Working /\ job'[c] = job[c]
      /\ \A c \in Consumer : pc'[c] \notin Working =>
           job'[c].claim = 0 \/ (pc[c] \notin Working /\ job'[c] = job[c])
<1>2. OnlyFinish
  <2>1. ASSUME NEW c \in Consumer, TakeSnapshot(c) PROVE OnlyFinish
    BY <2>1 DEF TakeSnapshot, Typed, Working, NoJob
  <2>2. ASSUME NEW c \in Consumer, TimeOut(c) PROVE OnlyFinish
    BY <2>2 DEF TimeOut, Typed, Working
  <2>3. ASSUME NEW r \in wire, EngineStores(r) \/ EngineRefuses(r) PROVE OnlyFinish
    BY <2>3 DEF EngineStores, EngineRefuses, Waiting, Typed, Working
  <2>4. ASSUME NEW p \in Proc, EndPass(p) \/ StartPass(p) PROVE OnlyFinish
    BY <2>4 DEF EndPass, StartPass
  <2>5. ASSUME NEW p \in Proc, Crash(p) PROVE OnlyFinish
    BY <2>5 DEF Crash, Typed, Working, NoJob
  <2> QED
    BY <2>1, <2>2, <2>3, <2>4, <2>5
<1>3. \A c \in Consumer : pc'[c] \in Working /\ StillHeld(c)' => StillHeld(c)
  BY <1>1, <1>2 DEF StillHeld, Holds, Queued
<1>4. \A c \in Consumer : pc'[c] \in Working /\ StillHeld(c)' =>
        row'[job[c].obj].hold = "live"
  BY <1>1, <1>2, <1>3 DEF Held, Working
<1>5. pc' \in [Consumer -> Pc]
  BY DEF Typed
<1> QED
  BY <1>1, <1>2, <1>4, <1>5, HeldKept

-----------------------------------------------------------------------------
(* Requests, and the claims they were sent under.                          *)

LEMMA Request ==
  ASSUME Typed, Wires, NEW r \in wire
  PROVE  /\ r.obj \in Object /\ r.claim \in Nat /\ r.claim >= 1 /\ r.claim <= claims
         /\ r.ver \in Version /\ r.stale \in BOOLEAN
BY DEF Typed, Wires, Requests

(* Whoever waits for an answer waits under the live claim of its record.   *)
LEMMA Attended ==
  ASSUME Typed, Held, Wires, NEW r \in wire, NEW c \in Waiting(r)
  PROVE  job[c] = r /\ StillHeld(c) /\ Holds(r) /\ row[r.obj].hold = "live"
<1>1. c \in Consumer /\ pc[c] = "sent" /\ job[c] = r
  BY DEF Waiting, Wires
<1> QED
  BY <1>1 DEF Wires, Held, StillHeld

(* A step that sends nothing, and moves no claim of a row but to none.     *)
LEMMA WiresKept ==
  ASSUME Typed, Wires, claims' = claims, wire' \subseteq wire,
         \A o \in Object : Queued(o)' =>
           \/ row'[o].claim = 0
           \/ Queued(o) /\ row'[o].claim = row[o].claim,
         \A c \in Consumer : pc'[c] = "sent" =>
           pc[c] = "sent" /\ job'[c] = job[c] /\ job[c] \in wire',
         \A c \in Consumer : pc'[c] = "stored" =>
           /\ job'[c] = job[c]
           /\ pc[c] = "stored" \/ \A r \in wire' : r.claim # job[c].claim,
         \A c \in Consumer : pc'[c] \in {"sent", "stored"} => StillHeld(c)'
  PROVE  Wires'
<1>1. \A r \in wire' :
        /\ 1 <= r.claim /\ r.claim <= claims'
        /\ Queued(r.obj)' => row'[r.obj].claim = 0 \/ r.claim <= row'[r.obj].claim
  BY Request DEF Wires
<1>2. \A r, t \in wire' : r.claim = t.claim => r = t
  BY DEF Wires
<1>3. \A c \in Consumer : pc'[c] = "sent" => job'[c] \in wire'
  OBVIOUS
<1>4. \A c \in Consumer : pc'[c] = "stored" =>
        \A r \in wire' : r.claim # job'[c].claim
  BY DEF Wires
<1> QED
  BY <1>1, <1>2, <1>3, <1>4 DEF Wires

LEMMA WiresClaim ==
  ASSUME Typed, Held, Wires, NEW c \in Consumer, Claim(c) \/ ClaimThrows(c)
  PROVE  Wires'
<1> DEFINE o == job[c].obj
           n == claims + 1
           x == [row[o] EXCEPT !.hold = "live", !.claim = n, !.requeued = FALSE]
           m == Granted(c)
<1>1. pc[c] = "claiming" /\ o \in Object /\ n \in Nat /\ claims \in Nat
  BY DEF Typed, Claim, ClaimThrows
<1>2. CASE Claimable(o) /\ row' = [row EXCEPT ![o] = x] /\ claims' = n
  <2>1. x.claim = n /\ x # NoRow
    <3>1. row[o] \in Row /\ Counted(row[o]) /\ ~ row[o].failed
      BY <1>1, <1>2, Rows DEF Claimable
    <3>2. x \in Row /\ x.claim = n
      BY <1>1, <3>1, ClaimedRow
    <3> HIDE DEF x
    <3> QED
      BY <3>2, RowIsARow
  <2> HIDE DEF x
  <2>2. row'[o] = x /\ \A q \in Object \ {o} : row'[q] = row[q]
    BY <1>1, <1>2 DEF Typed
  <2>3. \A r \in wire : r.claim # n /\ 1 <= r.claim /\ r.claim <= n
    BY <1>1, Request
  <2>4. \A r \in wire :
          Queued(r.obj)' => row'[r.obj].claim = 0 \/ r.claim <= row'[r.obj].claim
    BY <2>1, <2>2, <2>3, Request DEF Queued, Wires
  <2>5. \A d \in Consumer \ {c} : pc'[d] = pc[d] /\ job'[d] = job[d]
    BY <1>2 DEF Claim, ClaimThrows, Typed
  <2>6. ASSUME NEW d \in Consumer \ {c}, pc[d] \in {"sent", "stored"}
        PROVE  StillHeld(d)'
    <3>1. StillHeld(d) /\ job[d].obj \in Object /\ row[job[d].obj].hold = "live"
      BY <2>6, Worker DEF Wires
    <3>2. job[d].obj # o
      BY <1>2, <3>1 DEF Claimable
    <3> QED
      BY <2>2, <2>5, <3>1, <3>2 DEF StillHeld, Holds, Queued
  <2>7. CASE Claim(c)
    <3>1. /\ job'[c] = m /\ pc'[c] = "sent" /\ wire' = wire \cup {m}
          /\ m.obj = o /\ m.claim = n
      BY <1>1, <1>2, <2>7, GrantedJob DEF Claim, Typed
    <3> HIDE DEF m
    <3>2. \A r \in wire' :
            /\ 1 <= r.claim /\ r.claim <= claims'
            /\ Queued(r.obj)' => row'[r.obj].claim = 0 \/ r.claim <= row'[r.obj].claim
      BY <1>1, <1>2, <2>1, <2>2, <2>3, <2>4, <3>1
    <3>3. \A r, t \in wire' : r.claim = t.claim => r = t
      BY <2>3, <3>1 DEF Wires
    <3>4. \A d \in Consumer : pc'[d] = "sent" => job'[d] \in wire'
      BY <2>5, <3>1 DEF Wires
    <3>5. StillHeld(c)'
      BY <2>1, <2>2, <3>1 DEF StillHeld, Holds, Queued
    <3>6. ASSUME NEW d \in Consumer, pc'[d] = "stored"
          PROVE  \A r \in wire' : r.claim # job'[d].claim
      <4>1. d # c /\ pc[d] = "stored" /\ job'[d] = job[d]
        BY <2>5, <3>1, <3>6
      <4>2. job[d].claim <= claims /\ job[d].claim \in Nat
        BY <4>1, Worker DEF Held
      <4> QED
        BY <1>1, <3>1, <4>1, <4>2 DEF Wires
    <3> QED
      BY <2>5, <2>6, <3>2, <3>3, <3>4, <3>5, <3>6 DEF Wires
  <2>8. CASE ClaimThrows(c)
    <3>1. pc'[c] = "idle" /\ wire' = wire
      BY <2>8 DEF ClaimThrows, Typed
    <3>2. \A d \in Consumer : pc'[d] = "sent" => job'[d] \in wire'
      BY <2>5, <3>1 DEF Wires
    <3>3. \A d \in Consumer : pc'[d] = "stored" => \A r \in wire' : r.claim # job'[d].claim
      BY <2>5, <3>1 DEF Wires
    <3>4. \A d \in Consumer : pc'[d] \in {"sent", "stored"} => StillHeld(d)'
      BY <2>5, <2>6, <3>1
    <3>5. \A r, t \in wire' : r.claim = t.claim => r = t
      BY <3>1 DEF Wires
    <3>6. \A r \in wire' : 1 <= r.claim /\ r.claim <= claims'
      BY <1>2, <2>3, <3>1
    <3> QED
      BY <2>4, <3>1, <3>2, <3>3, <3>4, <3>5, <3>6 DEF Wires
  <2> QED
    BY <2>7, <2>8
<1>3. CASE Claim(c) /\ ~ Claimable(o)
  <2>1. job' = [job EXCEPT ![c] = NoJob] /\ pc' = [pc EXCEPT ![c] = "idle"]
        /\ UNCHANGED <<row, wire, claims>>
    BY <1>3 DEF Claim
  <2>2. pc'[c] = "idle" /\ \A d \in Consumer \ {c} : pc'[d] = pc[d] /\ job'[d] = job[d]
    BY <2>1 DEF Typed
  <2>3. \A q \in Object : Queued(q)' => Queued(q) /\ row'[q].claim = row[q].claim
    BY <2>1 DEF Queued
  <2>4. \A d \in Consumer : pc'[d] = "sent" =>
          pc[d] = "sent" /\ job'[d] = job[d] /\ job[d] \in wire'
    BY <2>1, <2>2 DEF Wires
  <2>5. \A d \in Consumer : pc'[d] = "stored" => job'[d] = job[d] /\ pc[d] = "stored"
    BY <2>2
  <2>6. \A d \in Consumer : pc'[d] \in {"sent", "stored"} => StillHeld(d)'
    BY <2>1, <2>2 DEF Wires, StillHeld, Holds, Queued
  <2> QED
    BY <2>1, <2>3, <2>4, <2>5, <2>6, WiresKept
<1> QED
  BY <1>2, <1>3 DEF Claim, ClaimThrows

(* What the end of a consumer's work does to the row: nothing, or it takes *)
(* the claim off the one it holds.                                         *)
LEMMA WorkedRow ==
  ASSUME Typed, Held, NEW c \in Consumer,
         Complete(c) \/ CompleteThrows(c) \/ Fail(c) \/ FailThrows(c)
  PROVE  \/ row' = row
         \/ /\ StillHeld(c) /\ \A q \in Object \ {job[c].obj} : row'[q] = row[q]
            /\ \/ row'[job[c].obj] # NoRow /\ row'[job[c].obj].claim = 0
               \/ /\ pc[c] = "stored" /\ row'[job[c].obj] = NoRow
                  /\ ~ row[job[c].obj].requeued
<1> DEFINE o == job[c].obj
<1>1. pc[c] \in Working /\ o \in Object
  BY Worker DEF Working, Complete, CompleteThrows, Fail, FailThrows
<1>2. ASSUME StillHeld(c), row' = [row EXCEPT ![o] = Completed(row[o])]
      PROVE  \/ row'[o] # NoRow /\ row'[o].claim = 0
             \/ row'[o] = NoRow /\ ~ row[o].requeued
  <2>1. row[o] \in Row /\ Counted(row[o]) /\ row[o].hold = "live"
    BY <1>1, <1>2, Worker, Rows DEF Working
  <2>2. row'[o] = Completed(row[o])
    BY <1>1, <1>2 DEF Typed
  <2> QED
    <3>1. row[o].requeued => Completed(row[o]) # NoRow /\ Completed(row[o]).claim = 0
      BY <2>1, CompletedRow, RowIsARow
    <3>2. ~ row[o].requeued => Completed(row[o]) = NoRow
      BY <2>1, CompletedRow
    <3> QED
      BY <2>2, <3>1, <3>2
<1>3. ASSUME StillHeld(c), row' = [row EXCEPT ![o] = Failed(row[o])]
      PROVE  row'[o] # NoRow /\ row'[o].claim = 0
  <2>1. row[o] \in Row /\ Counted(row[o]) /\ row[o].hold = "live"
    BY <1>1, <1>3, Worker, Rows DEF Working
  <2>2. row'[o] = Failed(row[o])
    BY <1>1, <1>3 DEF Typed
  <2> QED
    <3>1. Failed(row[o]) # NoRow /\ Failed(row[o]).claim = 0
      BY <2>1, FailedRow, RowIsARow
    <3> QED
      BY <2>2, <3>1
<1>4. \/ row' = row
      \/ /\ StillHeld(c) /\ pc[c] = "stored"
         /\ row' = [row EXCEPT ![o] = Completed(row[o])]
      \/ StillHeld(c) /\ row' = [row EXCEPT ![o] = Failed(row[o])]
  BY DEF Complete, CompleteThrows, Fail, FailThrows
<1> QED
  BY <1>1, <1>2, <1>3, <1>4 DEF Typed

(* Another consumer that still works keeps its row as it is.               *)
LEMMA OthersKeepRows ==
  ASSUME Typed, Held, Wires, NEW c \in Consumer, NEW d \in Consumer \ {c},
         Complete(c) \/ CompleteThrows(c) \/ Fail(c) \/ FailThrows(c),
         pc[d] \in {"sent", "stored"}
  PROVE  row'[job[d].obj] = row[job[d].obj]
<1>1. pc[c] \in Working
  BY DEF Working, Complete, CompleteThrows, Fail, FailThrows
<1>2. StillHeld(d) /\ job[d].obj \in Object /\ job[d].claim # 0
      /\ row[job[d].obj].claim = job[d].claim
  BY Worker DEF Wires
<1>3. StillHeld(c) => job[d].obj # job[c].obj
  BY <1>1, <1>2, Worker DEF Held, Working
<1> QED
  BY <1>2, <1>3, WorkedRow

LEMMA WiresWork ==
  ASSUME Typed, Held, Wires, NEW c \in Consumer,
         Complete(c) \/ CompleteThrows(c) \/ Fail(c) \/ FailThrows(c)
  PROVE  Wires'
<1>1. /\ claims' = claims /\ wire' = wire
      /\ \A d \in Consumer \ {c} : pc'[d] = pc[d] /\ job'[d] = job[d]
      /\ pc'[c] \in {"idle", "failed"}
  BY DEF Typed, Complete, CompleteThrows, Fail, FailThrows
<1>2. \A o \in Object : Queued(o)' =>
        row'[o].claim = 0 \/ (Queued(o) /\ row'[o].claim = row[o].claim)
  BY WorkedRow DEF Queued
<1>3. \A d \in Consumer : pc'[d] = "sent" =>
        pc[d] = "sent" /\ job'[d] = job[d] /\ job[d] \in wire'
  BY <1>1 DEF Wires
<1>4. \A d \in Consumer : pc'[d] = "stored" => job'[d] = job[d] /\ pc[d] = "stored"
  BY <1>1
<1>5. ASSUME NEW d \in Consumer, pc'[d] \in {"sent", "stored"}
      PROVE  StillHeld(d)'
  <2>1. d # c /\ pc[d] \in {"sent", "stored"} /\ job'[d] = job[d] /\ StillHeld(d)
    BY <1>1, <1>5 DEF Wires
  <2>2. row'[job[d].obj] = row[job[d].obj]
    BY <2>1, OthersKeepRows
  <2> QED
    BY <2>1, <2>2 DEF StillHeld, Holds, Queued
<1> QED
  BY <1>1, <1>2, <1>3, <1>4, <1>5, WiresKept

(* What the queue's own steps do to the row of a record.                   *)
LEMMA QueueRow ==
  ASSUME Typed, Held, NEW o \in Object, Drain(o) \/ LeaseLapses(o) \/ BackoffEnds(o)
  PROVE  /\ \A q \in Object \ {o} : row'[q] = row[q]
         /\ Queued(o)'
         /\ row'[o].claim = 0 \/ (Queued(o) /\ row'[o].claim = row[o].claim)
         /\ Queued(o) /\ row[o].hold = "live" => row'[o].claim = row[o].claim
         /\ Drain(o) => row'[o].claim = 0 \/ row'[o].requeued
         /\ ~ Drain(o) => Queued(o) /\ row'[o].requeued = row[o].requeued
<1>1. CASE Drain(o)
  <2>1. row'[o] = Enqueue(row[o]) /\ row[o] \in Row \cup {NoRow}
        /\ \A q \in Object \ {o} : row'[q] = row[q]
    BY <1>1 DEF Drain, Typed
  <2> QED
    BY <1>1, <2>1, EnqueueRow, RowIsARow DEF Queued
<1>2. CASE ~ Drain(o)
  <2>1. row[o] \in Row /\ row[o] # NoRow
    BY <1>2, Rows DEF LeaseLapses, BackoffEnds, Queued
  <2>2. PICK h \in {"lapsed", "free"} : row' = [row EXCEPT ![o].hold = h]
    BY <1>2 DEF LeaseLapses, BackoffEnds
  <2>3. /\ row'[o].claim = row[o].claim /\ row'[o].requeued = row[o].requeued
        /\ row'[o] \in Row /\ \A q \in Object \ {o} : row'[q] = row[q]
    BY <2>1, <2>2 DEF Typed, Row
  <2> QED
    BY <1>2, <2>1, <2>3, RowIsARow DEF Queued
<1> QED
  BY <1>1, <1>2

LEMMA WiresQueue ==
  ASSUME Typed, Held, Wires, NEW o \in Object,
         Drain(o) \/ LeaseLapses(o) \/ BackoffEnds(o)
  PROVE  Wires'
<1>1. UNCHANGED <<pc, job, claims, wire>>
  BY DEF Drain, LeaseLapses, BackoffEnds
<1>2. \A q \in Object : Queued(q)' =>
        row'[q].claim = 0 \/ (Queued(q) /\ row'[q].claim = row[q].claim)
  BY QueueRow DEF Queued
<1>3. \A c \in Consumer : pc'[c] = "sent" =>
        pc[c] = "sent" /\ job'[c] = job[c] /\ job[c] \in wire'
  BY <1>1 DEF Wires
<1>4. ASSUME NEW c \in Consumer, pc[c] \in {"sent", "stored"}
      PROVE  StillHeld(c)'
  <2>1. /\ StillHeld(c) /\ job[c].obj \in Object
        /\ Queued(job[c].obj) /\ row[job[c].obj].hold = "live"
    BY <1>4, Worker DEF Wires
  <2>2. row'[job[c].obj] # NoRow /\ row'[job[c].obj].claim = row[job[c].obj].claim
    <3>1. CASE job[c].obj = o
      BY <2>1, <3>1, QueueRow DEF Queued
    <3>2. CASE job[c].obj # o
      BY <2>1, <3>2, QueueRow DEF Queued
    <3> QED
      BY <3>1, <3>2
  <2> QED
    BY <1>1, <2>1, <2>2 DEF StillHeld, Holds, Queued
<1> QED
  BY <1>1, <1>2, <1>3, <1>4, WiresKept

LEMMA WiresRest ==
  ASSUME Typed, Held, Wires,
         \/ \E c \in Consumer : TakeSnapshot(c) \/ TimeOut(c)
         \/ \E r \in wire : EngineStores(r) \/ EngineRefuses(r)
         \/ \E p \in Proc : EndPass(p) \/ StartPass(p) \/ Crash(p)
  PROVE  Wires'
<1> DEFINE Sent ==
      /\ wire' \subseteq wire
      /\ \A d \in Consumer : pc'[d] = "sent" =>
           pc[d] = "sent" /\ job'[d] = job[d] /\ job[d] \in wire'
      /\ \A d \in Consumer : pc'[d] = "stored" =>
           /\ job'[d] = job[d]
           /\ \/ pc[d] = "stored"
              \/ pc[d] = "sent" /\ \A r \in wire' : r.claim # job[d].claim
<1>1. UNCHANGED <<row, claims>>
  BY DEF TakeSnapshot, TimeOut, EngineStores, EngineRefuses, EndPass, StartPass, Crash
<1>2. Sent
  <2>1. ASSUME NEW c \in Consumer, TakeSnapshot(c) \/ TimeOut(c) PROVE Sent
    BY <2>1 DEF TakeSnapshot, TimeOut, Typed, Wires
  <2>2. ASSUME NEW r \in wire, EngineStores(r) \/ EngineRefuses(r) PROVE Sent
    <3>1. wire' = wire \ {r} /\ job' = job
      BY <2>2 DEF EngineStores, EngineRefuses
    <3>2. ASSUME NEW d \in Consumer, pc[d] = "sent", job[d].claim = r.claim
          PROVE  pc'[d] \in {"stored", "failed"} /\ \A t \in wire' : t.claim # job[d].claim
      BY <2>2, <3>1, <3>2 DEF EngineStores, EngineRefuses, Waiting, Wires
    <3>3. ASSUME NEW d \in Consumer, ~ (pc[d] = "sent" /\ job[d].claim = r.claim)
          PROVE  pc'[d] = pc[d]
      BY <2>2, <3>3 DEF EngineStores, EngineRefuses, Waiting
    <3>4. \A d \in Consumer : pc'[d] = "sent" => pc[d] = "sent" /\ job[d] \in wire'
      BY <3>1, <3>2, <3>3 DEF Wires
    <3>5. \A d \in Consumer : pc'[d] = "stored" =>
            \/ pc[d] = "stored"
            \/ pc[d] = "sent" /\ \A t \in wire' : t.claim # job[d].claim
      BY <3>2, <3>3
    <3> QED
      BY <3>1, <3>4, <3>5
  <2>3. ASSUME NEW p \in Proc, EndPass(p) \/ StartPass(p) PROVE Sent
    BY <2>3 DEF EndPass, StartPass, Wires
  <2>4. ASSUME NEW p \in Proc, Crash(p) PROVE Sent
    BY <2>4 DEF Crash, Typed, Wires
  <2> QED
    BY <2>1, <2>2, <2>3, <2>4
<1>3. \A q \in Object : Queued(q)' => Queued(q) /\ row'[q].claim = row[q].claim
  BY <1>1 DEF Queued
<1>4. \A d \in Consumer : pc'[d] \in {"sent", "stored"} => StillHeld(d)'
  BY <1>1, <1>2 DEF Wires, StillHeld, Holds, Queued
<1> QED
  BY <1>1, <1>2, <1>3, <1>4, WiresKept

-----------------------------------------------------------------------------
(* Versions.                                                               *)

LEMMA Versions ==
  ASSUME Typed
  PROVE  /\ \A o \in Object : text[o] \in Nat /\ vector[o] \in Nat
         /\ \A c \in Consumer : job[c].ver \in Nat
         /\ \A r \in wire : r.obj \in Object /\ r.ver \in Nat
BY QueueAssumption DEF Typed, Version, Jobs, Requests

(* A step that changes no text and no vector, and sends nothing.           *)
LEMMA TextsKept ==
  ASSUME Typed, Texts, text' = text, vector' = vector, astray' = astray,
         wire' \subseteq wire,
         \A o \in Object : ~ Queued(o)' /\ o \notin astray =>
           ~ Queued(o) \/ vector[o] = text[o],
         \A c \in Consumer : pc'[c] = "claiming" =>
           \/ pc[c] = "claiming" /\ job'[c] = job[c]
           \/ job'[c].ver <= text[job'[c].obj],
         \A r \in wire' : Holds(r)' =>
           Holds(r) /\ row'[r.obj].requeued = row[r.obj].requeued,
         \A c \in Consumer : pc'[c] = "stored" =>
           /\ pc[c] = "stored" /\ job'[c] = job[c]
           /\ row'[job[c].obj].requeued = row[job[c].obj].requeued
  PROVE  Texts'
<1>1. \A o \in Object :
        /\ vector'[o] <= text'[o]
        /\ ~ Queued(o)' /\ o \notin astray' => vector'[o] = text'[o]
  BY DEF Texts
<1>2. \A c \in Consumer : pc'[c] = "claiming" => job'[c].ver <= text'[job'[c].obj]
  BY DEF Texts
<1>3. \A r \in wire' : r.ver <= text'[r.obj]
  BY DEF Texts
<1>4. \A r \in wire' : Holds(r)' /\ ~ r.stale => Newest(r)'
  BY DEF Texts, Newest
<1>5. \A c \in Consumer : pc'[c] = "stored" /\ job'[c].obj \notin astray' => Reported(c)'
  BY DEF Texts, Reported
<1> QED
  BY <1>1, <1>2, <1>3, <1>4, <1>5 DEF Texts

LEMMA TextsDrain ==
  ASSUME Typed, Held, Wires, Texts, NEW o \in Object, Drain(o)
  PROVE  Texts'
<1>1. /\ \A q \in Object \ {o} : row'[q] = row[q] /\ text'[q] = text[q]
      /\ text'[o] = text[o] + 1
      /\ UNCHANGED <<vector, wire, pc, job, astray>>
  BY DEF Drain, Typed
<1>2. /\ Queued(o)'
      /\ row'[o].claim = 0 \/ (Queued(o) /\ row'[o].claim = row[o].claim)
      /\ Queued(o) /\ row[o].hold = "live" => row'[o].claim = row[o].claim
      /\ row'[o].claim = 0 \/ row'[o].requeued
  BY QueueRow
<1>3. \A q \in Object : text[q] \in Nat /\ text'[q] \in Nat /\ text[q] <= text'[q]
  BY <1>1, Versions
<1>4. \A q \in Object :
        /\ vector'[q] <= text'[q]
        /\ ~ Queued(q)' /\ q \notin astray' => vector'[q] = text'[q]
  BY <1>1, <1>2, <1>3, Versions DEF Texts, Queued
<1>5. ASSUME NEW c \in Consumer, pc[c] = "claiming"
      PROVE  job[c].ver <= text'[job[c].obj]
  <2>1. job[c].obj \in Object /\ job[c].ver <= text[job[c].obj]
    BY <1>5 DEF Typed, Texts
  <2> QED
    BY <1>3, <2>1, Versions
<1>6. \A r \in wire : r.ver <= text'[r.obj]
  BY <1>3, Versions DEF Texts
<1>7. ASSUME NEW r \in wire, Holds(r)', ~ r.stale PROVE Newest(r)'
  <2>1. CASE r.obj # o
    BY <1>1, <1>7, <2>1, Request DEF Texts, Newest, Holds, Queued
  <2>2. CASE r.obj = o
    <3>1. row'[o].claim = r.claim /\ r.claim \in Nat /\ r.claim >= 1
      BY <1>7, <2>2, Request DEF Holds
    <3>2. Queued(o) /\ row[o].claim = r.claim /\ row'[o].requeued
      BY <1>2, <3>1
    <3> QED
      BY <1>1, <1>7, <2>2, <3>2 DEF Texts, Newest, Holds
  <2> QED
    BY <2>1, <2>2
<1>8. ASSUME NEW c \in Consumer, pc[c] = "stored", job[c].obj \notin astray
      PROVE  Reported(c)'
  <2>1. /\ job[c].obj \in Object /\ job[c].claim \in Nat /\ job[c].claim >= 1
        /\ Queued(job[c].obj) /\ row[job[c].obj].hold = "live"
        /\ row[job[c].obj].claim = job[c].claim
    BY <1>8, Worker DEF Wires
  <2>2. CASE job[c].obj # o
    BY <1>1, <1>8, <2>1, <2>2 DEF Texts, Reported
  <2>3. CASE job[c].obj = o
    <3>1. row'[o].requeued
      BY <1>2, <2>1, <2>3
    <3> QED
      BY <1>1, <1>8, <2>3, <3>1 DEF Texts, Reported
  <2> QED
    BY <2>2, <2>3
<1> QED
  BY <1>1, <1>4, <1>5, <1>6, <1>7, <1>8 DEF Texts

LEMMA TextsClaim ==
  ASSUME Typed, Held, Wires, Texts, NEW c \in Consumer, Claim(c) \/ ClaimThrows(c)
  PROVE  Texts'
<1> DEFINE o == job[c].obj
           n == claims + 1
           x == [row[o] EXCEPT !.hold = "live", !.claim = n, !.requeued = FALSE]
           m == Granted(c)
<1>1. /\ pc[c] = "claiming" /\ o \in Object /\ n \in Nat /\ claims \in Nat
      /\ text' = text /\ vector' = vector /\ astray' = astray
      /\ job[c].ver <= text[o]
  BY DEF Typed, Claim, ClaimThrows, Texts
<1>2. CASE Claimable(o) /\ row' = [row EXCEPT ![o] = x]
  <2>1. x.claim = n /\ x # NoRow
    <3>1. x \in Row /\ x.claim = n
      BY <1>1, <1>2, Rows, ClaimedRow DEF Claimable
    <3> HIDE DEF x
    <3> QED
      BY <3>1, RowIsARow
  <2> HIDE DEF x
  <2>2. row'[o] = x /\ \A q \in Object \ {o} : row'[q] = row[q]
    BY <1>1, <1>2 DEF Typed
  <2>3. /\ m.obj = o /\ m.claim = n /\ m.ver = job[c].ver
        /\ m.stale = (job[c].ver # text[o])
    BY <1>1, GrantedJob
  <2> HIDE DEF m
  <2>4. /\ \A d \in Consumer \ {c} : pc'[d] = pc[d] /\ job'[d] = job[d]
        /\ pc'[c] \in {"sent", "idle"} /\ wire' \subseteq wire \cup {m}
    BY <1>1, <1>2 DEF Claim, ClaimThrows, Typed, m
  <2>5. \A q \in Object :
          /\ vector[q] <= text[q]
          /\ ~ Queued(q)' /\ q \notin astray => vector[q] = text[q]
    BY <2>1, <2>2 DEF Texts, Queued
  <2>6. \A d \in Consumer : pc'[d] = "claiming" => job'[d].ver <= text[job'[d].obj]
    BY <2>4 DEF Texts
  <2>7. \A r \in wire' : r.ver <= text[r.obj]
    BY <1>1, <2>3, <2>4 DEF Texts
  <2>8. ASSUME NEW r \in wire', Holds(r)', ~ r.stale PROVE Newest(r)'
    <3>1. CASE r = m
      <4>1. r.obj = o /\ r.ver = text[o]
        BY <2>3, <2>8, <3>1
      <4>2. \A t \in wire' : t.obj = o => t.ver <= r.ver
        BY <2>7, <4>1
      <4> QED
        BY <1>1, <2>5, <4>1, <4>2 DEF Newest
    <3>2. CASE r # m
      <4>1. r \in wire /\ r.obj \in Object /\ r.claim # n
        BY <1>1, <2>4, <3>2, Request
      <4>2. r.obj # o
        BY <2>1, <2>2, <2>8, <4>1 DEF Holds
      <4>3. Holds(r) /\ row'[r.obj] = row[r.obj]
        BY <2>2, <2>8, <4>1, <4>2 DEF Holds, Queued
      <4>4. \A t \in wire' : t.obj = r.obj => t \in wire
        BY <2>3, <2>4, <4>2
      <4> QED
        BY <1>1, <2>8, <4>1, <4>3, <4>4 DEF Texts, Newest
    <3> QED
      BY <3>1, <3>2
  <2>9. ASSUME NEW d \in Consumer, pc'[d] = "stored", job'[d].obj \notin astray
        PROVE  Reported(d)'
    <3>1. d # c /\ pc[d] = "stored" /\ job'[d] = job[d]
      BY <2>4, <2>9
    <3>2. job[d].obj \in Object /\ row[job[d].obj].hold = "live"
      BY <3>1, Worker DEF Wires
    <3>3. row'[job[d].obj] = row[job[d].obj]
      BY <1>2, <2>2, <3>2 DEF Claimable
    <3> QED
      BY <1>1, <2>9, <3>1, <3>3 DEF Texts, Reported
  <2> QED
    BY <1>1, <2>5, <2>6, <2>7, <2>8, <2>9 DEF Texts
<1>3. CASE Claim(c) /\ ~ Claimable(o)
  <2>1. job' = [job EXCEPT ![c] = NoJob] /\ pc' = [pc EXCEPT ![c] = "idle"]
        /\ UNCHANGED <<row, wire, claims>>
    BY <1>3 DEF Claim
  <2>2. pc'[c] = "idle" /\ \A d \in Consumer \ {c} : pc'[d] = pc[d] /\ job'[d] = job[d]
    BY <2>1 DEF Typed
  <2>3. \A d \in Consumer : pc'[d] = "stored" =>
          /\ pc[d] = "stored" /\ job'[d] = job[d]
          /\ row'[job[d].obj].requeued = row[job[d].obj].requeued
    BY <2>1, <2>2
  <2>4. \A d \in Consumer : pc'[d] = "claiming" => pc[d] = "claiming" /\ job'[d] = job[d]
    BY <2>2
  <2>5. \A q \in Object : ~ Queued(q)' => ~ Queued(q)
    BY <2>1 DEF Queued
  <2>6. \A r \in wire' : Holds(r)' =>
          Holds(r) /\ row'[r.obj].requeued = row[r.obj].requeued
    BY <2>1 DEF Holds, Queued
  <2> QED
    BY <1>1, <2>1, <2>3, <2>4, <2>5, <2>6, TextsKept
<1> QED
  BY <1>2, <1>3 DEF Claim, ClaimThrows

LEMMA TextsWork ==
  ASSUME Typed, Held, Wires, Texts, NEW c \in Consumer,
         Complete(c) \/ CompleteThrows(c) \/ Fail(c) \/ FailThrows(c)
  PROVE  Texts'
<1>1. /\ UNCHANGED <<text, vector, wire, astray>>
      /\ \A d \in Consumer \ {c} : pc'[d] = pc[d] /\ job'[d] = job[d]
      /\ pc'[c] \in {"idle", "failed"}
  BY DEF Typed, Complete, CompleteThrows, Fail, FailThrows
<1>2. ASSUME NEW q \in Object, ~ Queued(q)', q \notin astray
      PROVE  ~ Queued(q) \/ vector[q] = text[q]
  <2>1. CASE row'[q] = row[q]
    BY <1>2, <2>1 DEF Queued
  <2>2. CASE row'[q] # row[q]
    <3>1. q = job[c].obj /\ pc[c] = "stored" /\ ~ row[q].requeued
      BY <1>2, <2>2, WorkedRow DEF Queued
    <3> QED
      BY <1>2, <3>1 DEF Texts, Reported
  <2> QED
    BY <2>1, <2>2
<1>3. ASSUME NEW r \in wire, Holds(r)'
      PROVE  Holds(r) /\ row'[r.obj].requeued = row[r.obj].requeued
  <2>1. row'[r.obj] # NoRow /\ row'[r.obj].claim # 0 /\ r.obj \in Object
    BY <1>3, Request DEF Holds, Queued
  <2>2. row'[r.obj] = row[r.obj]
    BY <2>1, WorkedRow
  <2> QED
    BY <1>3, <2>2 DEF Holds, Queued
<1>4. ASSUME NEW d \in Consumer, pc'[d] = "stored"
      PROVE  /\ pc[d] = "stored" /\ job'[d] = job[d]
             /\ row'[job[d].obj].requeued = row[job[d].obj].requeued
  <2>1. d \in Consumer \ {c} /\ pc[d] = "stored" /\ job'[d] = job[d]
    BY <1>1, <1>4
  <2> QED
    BY <2>1, OthersKeepRows
<1>5. \A d \in Consumer : pc'[d] = "claiming" => pc[d] = "claiming" /\ job'[d] = job[d]
  BY <1>1
<1> QED
  BY <1>1, <1>2, <1>3, <1>4, <1>5, TextsKept

(* A vector stored for a request that was not late: its record is still    *)
(* under its claim.                                                        *)
LEMMA InTime ==
  ASSUME Typed, Held, Wires, NEW r \in wire, ~ Late(r)
  PROVE  Holds(r)
<1>1. CASE Waiting(r) = {}
  BY <1>1 DEF Late
<1>2. ASSUME NEW c \in Waiting(r) PROVE Holds(r)
  BY Attended
<1> QED
  BY <1>1, <1>2

LEMMA TextsStores ==
  ASSUME Typed, Held, Wires, Texts, NEW r \in wire, EngineStores(r)
  PROVE  Texts'
<1>1. /\ UNCHANGED <<text, row, job, claims>> /\ wire' = wire \ {r}
      /\ r.obj \in Object /\ vector'[r.obj] = r.ver
      /\ \A q \in Object \ {r.obj} : vector'[q] = vector[q]
      /\ r.obj \notin astray' => ~ r.stale /\ ~ Late(r)
      /\ \A q \in Object \ {r.obj} : q \notin astray' => q \notin astray
  BY Request DEF EngineStores, Typed
<1>2. ASSUME NEW q \in Object
      PROVE  /\ vector'[q] <= text[q]
             /\ ~ Queued(q)' /\ q \notin astray' => vector'[q] = text[q]
  <2>1. CASE q = r.obj
    <3>1. Queued(q) => Queued(q)'
      BY <1>1 DEF Queued
    <3>2. q \notin astray' => Queued(q)
      BY <1>1, <2>1, InTime DEF Holds
    <3> QED
      BY <1>1, <2>1, <3>1, <3>2 DEF Texts
  <2>2. CASE q # r.obj
    BY <1>1, <2>2 DEF Texts, Queued
  <2> QED
    BY <2>1, <2>2
<1>3. \A d \in Consumer : pc'[d] = "claiming" => pc[d] = "claiming"
  BY DEF EngineStores, Waiting
<1>4. ASSUME NEW t \in wire', Holds(t)', ~ t.stale PROVE Newest(t)'
  <2>1. t \in wire /\ Holds(t)
    BY <1>1, <1>4 DEF Holds, Queued
  <2>2. Newest(t)
    BY <1>4, <2>1 DEF Texts
  <2>3. vector'[t.obj] <= t.ver
    BY <1>1, <2>1, <2>2, Request DEF Newest
  <2> QED
    BY <1>1, <2>2, <2>3 DEF Newest
<1>5. ASSUME NEW d \in Consumer, pc'[d] = "stored", job[d].obj \notin astray'
      PROVE  Reported(d)'
  <2>1. CASE d \in Waiting(r)
    <3>1. job[d] = r /\ Holds(r)
      BY <2>1, Attended
    <3>2. Newest(r)
      BY <1>1, <1>5, <3>1 DEF Texts
    <3> QED
      BY <1>1, <3>1, <3>2 DEF Newest, Reported
  <2>2. CASE d \notin Waiting(r)
    <3>1. pc[d] = "stored"
      BY <1>5, <2>2 DEF EngineStores
    <3>2. job[d].obj \in Object /\ row[job[d].obj].claim = job[d].claim
          /\ job[d].claim # r.claim
      BY <3>1, Worker DEF Wires
    <3>3. job[d].obj # r.obj
      BY <1>1, <1>5, <3>2, InTime DEF Holds
    <3>4. Reported(d)
      BY <1>1, <1>5, <3>1, <3>2, <3>3 DEF Texts
    <3> QED
      BY <1>1, <3>2, <3>3, <3>4 DEF Reported
  <2> QED
    BY <2>1, <2>2
<1> QED
  BY <1>1, <1>2, <1>3, <1>4, <1>5 DEF Texts

LEMMA TextsRest ==
  ASSUME Typed, Held, Wires, Texts,
         \/ \E c \in Consumer : TakeSnapshot(c) \/ TimeOut(c)
         \/ \E r \in wire : EngineRefuses(r)
         \/ \E p \in Proc : EndPass(p) \/ StartPass(p) \/ Crash(p)
         \/ \E o \in Object : LeaseLapses(o) \/ BackoffEnds(o)
  PROVE  Texts'
<1> DEFINE Same ==
      /\ \A d \in Consumer : pc'[d] = "stored" => pc[d] = "stored" /\ job'[d] = job[d]
      /\ \A d \in Consumer : pc'[d] = "claiming" =>
           \/ pc[d] = "claiming" /\ job'[d] = job[d]
           \/ job'[d].ver <= text[job'[d].obj]
      /\ text' = text /\ vector' = vector /\ astray' = astray /\ wire' \subseteq wire
<1>1. ASSUME Same, row' = row PROVE Texts'
  <2>1. \A o \in Object : ~ Queued(o)' => ~ Queued(o)
    BY <1>1 DEF Queued
  <2>2. \A d \in Consumer : pc'[d] = "stored" =>
          /\ pc[d] = "stored" /\ job'[d] = job[d]
          /\ row'[job[d].obj].requeued = row[job[d].obj].requeued
    BY <1>1
  <2>3. \A r \in wire' : Holds(r)' =>
          Holds(r) /\ row'[r.obj].requeued = row[r.obj].requeued
    BY <1>1 DEF Holds, Queued
  <2> QED
    BY <1>1, <2>1, <2>2, <2>3, TextsKept
<1>2. ASSUME NEW c \in Consumer, TakeSnapshot(c) PROVE Same /\ row' = row
  <2>1. PICK o \in Object : job' = [job EXCEPT ![c] = [NoJob EXCEPT !.obj = o, !.ver = text[o]]]
    BY <1>2 DEF TakeSnapshot
  <2>2. job'[c].obj = o /\ job'[c].ver = text[o] /\ text[o] \in Nat
    BY <2>1, Versions DEF Typed, NoJob
  <2>3. /\ \A d \in Consumer \ {c} : pc'[d] = pc[d] /\ job'[d] = job[d]
        /\ pc'[c] = "claiming"
        /\ UNCHANGED <<text, vector, astray, wire, row>>
    BY <1>2, <2>1 DEF TakeSnapshot, Typed
  <2> QED
    BY <2>2, <2>3
<1>3. ASSUME NEW c \in Consumer, TimeOut(c) PROVE Same /\ row' = row
  BY <1>3 DEF TimeOut, Typed
<1>4. ASSUME NEW r \in wire, EngineRefuses(r) PROVE Same /\ row' = row
  BY <1>4 DEF EngineRefuses
<1>5. ASSUME NEW p \in Proc, EndPass(p) \/ StartPass(p) PROVE Same /\ row' = row
  BY <1>5 DEF EndPass, StartPass
<1>6. ASSUME NEW p \in Proc, Crash(p) PROVE Same /\ row' = row
  BY <1>6 DEF Crash, Typed
<1>7. ASSUME NEW o \in Object, LeaseLapses(o) \/ BackoffEnds(o) PROVE Texts'
  <2>1. UNCHANGED <<text, vector, wire, pc, job, astray>>
    BY <1>7 DEF LeaseLapses, BackoffEnds
  <2>2. row[o] \in Row /\ row[o] # NoRow
    BY <1>7, Rows DEF LeaseLapses, BackoffEnds, Queued
  <2>3. PICK h \in {"lapsed", "free"} : row' = [row EXCEPT ![o].hold = h]
    BY <1>7 DEF LeaseLapses, BackoffEnds
  <2>4. /\ row'[o].claim = row[o].claim /\ row'[o].requeued = row[o].requeued
        /\ row'[o].hold # "none"
    BY <2>2, <2>3 DEF Typed, Row
  <2>5. \A q \in Object \ {o} : row'[q] = row[q]
    BY <2>3 DEF Typed
  <2>6. \A q \in Object : row'[q].requeued = row[q].requeued
    BY <2>4, <2>5
  <2>7. \A q \in Object : ~ Queued(q)' => ~ Queued(q)
    BY <2>2, <2>4, <2>5 DEF Queued, NoRow
  <2>8. ASSUME NEW r \in wire, Holds(r)' PROVE Holds(r)
    BY <2>2, <2>4, <2>5, <2>8, Request DEF Holds, Queued
  <2> QED
    BY <2>1, <2>6, <2>7, <2>8, Request, Worker, TextsKept
<1> QED
  BY <1>1, <1>2, <1>3, <1>4, <1>5, <1>6, <1>7

-----------------------------------------------------------------------------
(* Every step keeps each part.                                             *)

LEMMA Steps ==
  ASSUME Next
  PROVE  \/ \E o \in Object : Drain(o)
         \/ \E o \in Object : LeaseLapses(o) \/ BackoffEnds(o)
         \/ \E c \in Consumer : Claim(c) \/ ClaimThrows(c)
         \/ \E c \in Consumer :
              Complete(c) \/ CompleteThrows(c) \/ Fail(c) \/ FailThrows(c)
         \/ \/ \E c \in Consumer : TakeSnapshot(c) \/ TimeOut(c)
            \/ \E r \in wire : EngineStores(r) \/ EngineRefuses(r)
            \/ \E p \in Proc : EndPass(p) \/ StartPass(p) \/ Crash(p)
BY DEF Next, Work

LEMMA ClaimsKept == Typed /\ Held /\ [Next]_vars => Typed' /\ Held'
<1> SUFFICES ASSUME Typed, Held, [Next]_vars PROVE Typed' /\ Held'
  OBVIOUS
<1>1. CASE Next
  <2>1. Typed'
    BY <1>1, Steps, TypedQueue, TypedClaim, TypedWork, TypedRest
  <2> QED
    BY <1>1, <2>1, Steps, HeldQueue, HeldClaim, HeldWork, HeldRest
<1>2. CASE UNCHANGED vars
  <2>1. Typed'
    BY <1>2, RowsUntouched DEF Typed, vars
  <2>2. Held'
    BY <1>2 DEF Held, StillHeld, Holds, Queued, vars
  <2> QED
    BY <2>1, <2>2
<1> QED
  BY <1>1, <1>2

LEMMA WiresStay == Typed /\ Held /\ Wires /\ [Next]_vars => Wires'
<1> SUFFICES ASSUME Typed, Held, Wires, [Next]_vars PROVE Wires'
  OBVIOUS
<1>1. CASE Next
  BY <1>1, Steps, WiresQueue, WiresClaim, WiresWork, WiresRest
<1>2. CASE UNCHANGED vars
  BY <1>2 DEF Wires, StillHeld, Holds, Queued, vars
<1> QED
  BY <1>1, <1>2

LEMMA TextsStay == Typed /\ Held /\ Wires /\ Texts /\ [Next]_vars => Texts'
<1> SUFFICES ASSUME Typed, Held, Wires, Texts, [Next]_vars PROVE Texts'
  OBVIOUS
<1>1. CASE Next
  BY <1>1, Steps, TextsDrain, TextsClaim, TextsWork, TextsStores, TextsRest
<1>2. CASE UNCHANGED vars
  BY <1>2 DEF Texts, Newest, Reported, Holds, Queued, vars
<1> QED
  BY <1>1, <1>2

-----------------------------------------------------------------------------

(* Claims are exclusive and live while they are worked under, whatever the *)
(* engine stores late and whenever drains commit.                          *)
THEOREM ClaimsAreHeld == Spec => [](Typed /\ Held)
<1>1. Init => Typed /\ Held
  BY InitOK
<1> QED
  BY <1>1, ClaimsKept, PTL DEF Spec

(* Types, and: a row that was given up on has used up its attempts and is  *)
(* under no claim.                                                         *)
THEOREM TypeCorrectness == Spec => []TypeOK
<1>1. Typed => TypeOK
  BY DEF Typed, TypeOK, Pc, Version, Counted
<1> QED
  BY <1>1, ClaimsAreHeld, PTL

LEMMA VersionsStay == Spec => [](Typed /\ Held /\ Wires /\ Texts)
<1>1. Init => Wires /\ Texts
  BY InitOK
<1> QED
  BY <1>1, WiresStay, TextsStay, ClaimsAreHeld, PTL DEF Spec

(* Of two requests for one record only the one under the later claim can   *)
(* have somebody waiting for it: a claim is granted only once nobody works *)
(* under the last one, whatever leases lapse and processes die, and        *)
(* although the engine may go on with what was given up.                   *)
THEOREM OneRequestAtATime == Spec => []NeverBeside
<1>1. Typed /\ Held /\ Wires => NeverBeside
  <2> SUFFICES ASSUME Typed, Held, Wires, NEW r \in wire, NEW s \in wire,
                      r.obj = s.obj, r.claim < s.claim, NEW c \in Waiting(r)
               PROVE  FALSE
    BY DEF NeverBeside
  <2>1. Holds(r) /\ r.claim \in Nat /\ s.claim \in Nat /\ r.claim >= 1
    BY Attended, Request
  <2>2. row[s.obj].claim = 0 \/ s.claim <= row[s.obj].claim
    BY <2>1 DEF Wires, Holds
  <2> QED
    BY <2>1, <2>2 DEF Holds
<1> QED
  BY <1>1, VersionsStay, PTL

(* A record leaves the queue only with the vector of its current text in   *)
(* the engine, or with one the engine took from a claim a drain had        *)
(* overtaken or from a request its client had given up:                    *)
(* complete_embedding's claim and requeued checks leave no third way.      *)
THEOREM DequeuedStaysEmbedded == Spec => []DequeuedIsEmbedded
<1>1. Texts => DequeuedIsEmbedded
  BY DEF Texts, DequeuedIsEmbedded
<1> QED
  BY <1>1, VersionsStay, PTL

(* Only from such a claim or request does the vector of an older text      *)
(* replace the vector of a newer one.                                      *)
THEOREM VectorsGoForward == Spec => VectorNeverGoesBack
<1>1. Typed /\ Held /\ Wires /\ Texts /\ [Next]_vars =>
        [\A o \in Object : vector'[o] < vector[o] => o \in astray']_vars
  <2> SUFFICES ASSUME Typed, Held, Wires, Texts, Next, NEW o \in Object,
                      vector'[o] < vector[o]
               PROVE  o \in astray'
    OBVIOUS
  <2>1. vector[o] \in Nat
    BY Versions
  <2>2. vector' # vector
    BY <2>1
  <2>3. PICK r \in wire : EngineStores(r)
    BY <2>2, Steps DEF Drain, LeaseLapses, BackoffEnds, Claim, ClaimThrows, Complete,
       CompleteThrows, Fail, FailThrows, TakeSnapshot, TimeOut, EngineRefuses,
       EndPass, StartPass, Crash
  <2>4. o = r.obj /\ vector'[o] = r.ver /\ r.ver \in Nat
    BY <2>1, <2>3, Versions DEF EngineStores, Typed
  <2>5. r.stale \/ Late(r)
    <3>1. ASSUME ~ r.stale, ~ Late(r) PROVE vector[o] <= r.ver
      BY <2>4, <3>1, InTime DEF Texts, Newest
    <3> QED
      BY <2>1, <2>4, <3>1
  <2> QED
    BY <2>3, <2>4, <2>5 DEF EngineStores
<1> QED
  BY <1>1, VersionsStay, PTL DEF Spec, VectorNeverGoesBack
=============================================================================
