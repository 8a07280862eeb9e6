----------------------- MODULE CheckpointSignerProofs -----------------------
(***************************************************************************)
(* Theorems about CheckpointSigner, for any signers, events, faults, key   *)
(* rotations and rewrites of the log, and about the Merkle tree.           *)
(*                                                                         *)
(* LedgerInv is the inductive invariant: what the log is, what each row    *)
(* and each live run has signed, what of it was rewritten since, and what  *)
(* holds while nothing was.  Sets of naturals stand in for the predicates  *)
(* of an induction (Induct), as the provers take no operator parameters.   *)
(***************************************************************************)
EXTENDS CheckpointSigner, TLAPS, NaturalsInduction, WellFoundedInduction,
  SequenceTheorems

Pc == {"idle", "latest", "events", "put", "commit"}

Shape ==
  /\ pc \in [Signer -> Pc] /\ lost \in [Signer -> BOOLEAN]
  /\ DOMAIN signed = Signer

(* One live run at a time: the lock's holder.                              *)
Alone ==
  \A s \in Signer : pc[s] # "idle" /\ ~ lost[s] => lock = s

(* What a run is about to commit is in the store already.                  *)
Anchored ==
  /\ \A s \in Signer : pc[s] = "commit" => signed[s] \in store
  /\ rows \subseteq store

IInv == Shape /\ Alone /\ Anchored

LEMMA InitOK == Init => IInv
BY DEF Init, IInv, Shape, Alone, Anchored, Pc

LEMMA NextOK == IInv /\ [Next]_vars => IInv'
<1> SUFFICES ASSUME IInv, [Next]_vars PROVE IInv'
  OBVIOUS
<1> USE DEF IInv
<1>1. Shape'
  <2>1. CASE UNCHANGED <<pc, lost, signed>>
    BY <2>1 DEF Shape
  <2>2. ASSUME NEW s \in Signer, End(s) PROVE Shape'
    BY <2>2 DEF Shape, End, Pc
  <2>3. ASSUME NEW s \in Signer, Run(s) \/ LoseConnection(s) PROVE Shape'
    <3>1. CASE TakeLock(s) \/ ReadLatest(s)
      BY <3>1 DEF Shape, TakeLock, ReadLatest, Pc
    <3>2. CASE Sign(s)
      BY <3>2 DEF Shape, Sign, Pc
    <3>3. CASE Put(s) \/ LoseConnection(s)
      BY <2>2, <3>3 DEF Shape, Put, LoseConnection, Pc
    <3> QED
      BY <2>2, <2>3, <3>1, <3>2, <3>3 DEF Run, Refuse, Commit, FailStatement
  <2> QED
    BY <2>1, <2>3 DEF Next, vars, ActCommits, ActRollsBack, Rotate, Tamper,
       VerifyReadsEvents, VerifyReadsCheckpoints
<1>2. Alone'
  <2>1. CASE UNCHANGED <<pc, lost, lock>>
    BY <2>1 DEF Alone
  <2>2. ASSUME NEW s \in Signer, End(s) PROVE Alone'
    <3>1. pc'[s] = "idle" /\ \A t \in Signer \ {s} : pc'[t] = pc[t] /\ lost'[t] = lost[t]
      BY <2>2 DEF End, Shape
    <3>2. ASSUME NEW t \in Signer, pc'[t] # "idle", ~ lost'[t] PROVE lock' = t
      <4>1. t # s /\ lock = t
        BY <3>1, <3>2 DEF Alone
      <4> QED
        BY <2>2, <4>1 DEF End
    <3> QED
      BY <3>2 DEF Alone
  <2>3. ASSUME NEW s \in Signer, Run(s) \/ LoseConnection(s) PROVE Alone'
    <3>1. CASE TakeLock(s)
      <4>1. \A t \in Signer : lock # t
        BY <3>1, SignerAssumption DEF TakeLock
      <4> QED
        BY <3>1, <4>1 DEF Alone, TakeLock, Shape
    <3>2. CASE ReadLatest(s)
      BY <3>2 DEF Alone, ReadLatest, Shape
    <3>3. CASE Sign(s)
      BY <3>3 DEF Alone, Sign, Shape
    <3>4. CASE Put(s)
      BY <2>2, <3>4 DEF Alone, Put, Shape
    <3>5. CASE LoseConnection(s)
      BY <3>5 DEF Alone, LoseConnection, Shape
    <3> QED
      BY <2>2, <2>3, <3>1, <3>2, <3>3, <3>4, <3>5
      DEF Run, Refuse, Commit, FailStatement
  <2> QED
    BY <2>1, <2>3 DEF Next, vars, ActCommits, ActRollsBack, Rotate, Tamper,
       VerifyReadsEvents, VerifyReadsCheckpoints
<1>3. Anchored'
  <2>1. CASE UNCHANGED <<pc, signed, rows, store>>
    BY <2>1 DEF Anchored
  <2>2. ASSUME NEW s \in Signer, End(s), store \subseteq store', rows' \subseteq store'
        PROVE  Anchored'
    BY <2>2 DEF Anchored, End, Shape
  <2>3. ASSUME NEW s \in Signer, Run(s) \/ LoseConnection(s) PROVE Anchored'
    <3>1. CASE TakeLock(s) \/ ReadLatest(s)
      BY <3>1 DEF Anchored, Shape, TakeLock, ReadLatest
    <3>2. CASE Sign(s)
      BY <3>2 DEF Anchored, Shape, Sign
    <3>3. CASE Put(s)
      <4>1. store \subseteq store' /\ rows' = rows
        BY <3>3 DEF Put
      <4>2. CASE End(s)
        BY <2>2, <4>1, <4>2 DEF Anchored
      <4>3. CASE ~ End(s)
        <5>1. signed[s] \in store' /\ signed' = signed
              /\ pc' = [pc EXCEPT ![s] = "commit"]
          BY <3>3, <4>3 DEF Put
        <5> QED
          BY <4>1, <5>1 DEF Anchored, Shape
      <4> QED
        BY <4>2, <4>3
    <3>4. CASE Commit(s)
      <4>1. End(s) /\ store' = store /\ rows' \subseteq store'
        BY <3>4 DEF Commit, Anchored
      <4> QED
        BY <2>2, <4>1
    <3>5. CASE Refuse(s) \/ FailStatement(s)
      <4>1. End(s) /\ store' = store /\ rows' \subseteq store'
        BY <3>5 DEF Refuse, FailStatement, Anchored
      <4> QED
        BY <2>2, <4>1
    <3>6. CASE LoseConnection(s)
      BY <3>6 DEF LoseConnection, Anchored
    <3> QED
      BY <2>3, <3>1, <3>2, <3>3, <3>4, <3>5, <3>6 DEF Run
  <2> QED
    BY <2>1, <2>3 DEF Next, vars, ActCommits, ActRollsBack, Rotate, Tamper,
       VerifyReadsEvents, VerifyReadsCheckpoints
<1> QED
  BY <1>1, <1>2, <1>3

(* One live run at a time, and nothing is committed before it is stored.   *)
THEOREM Invariance == Spec => []IInv
BY InitOK, NextOK, PTL DEF Spec

(* putIfAbsent and the read back make a committed checkpoint row an anchor *)
(* outside the database: exactly the record that was signed is in the      *)
(* store, whatever an earlier run, or one that lost its transaction, left  *)
(* under that key.                                                         *)
THEOREM RowsAreAnchored == Spec => []EveryRowIsAnchored
<1>1. IInv => EveryRowIsAnchored
  BY DEF IInv, Anchored, EveryRowIsAnchored
<1> QED
  BY <1>1, Invariance, PTL

-----------------------------------------------------------------------------
(* Logs, and the events of a range.                                        *)

Event == [seq : Nat, body : Nat, prev : Seq(Nat), digest : Seq(Nat)]

Sorted(l) == \A i, j \in 1 .. Len(l) : i < j => l[i].seq < l[j].seq

LEMMA LogTypes ==
  ASSUME NEW l \in Seq(Event)
  PROVE  /\ Len(l) \in Nat /\ DOMAIN l = 1 .. Len(l)
         /\ \A i \in 1 .. Len(l) : l[i] \in Event /\ l[i].seq \in Nat /\ l[i].body \in Nat
<1>1. Len(l) \in Nat /\ DOMAIN l = 1 .. Len(l) /\ \A i \in 1 .. Len(l) : l[i] \in Event
  OBVIOUS
<1>2. \A e \in Event : e.seq \in Nat /\ e.body \in Nat
  BY DEF Event
<1> QED
  BY <1>1, <1>2

LEMMA Least ==
  ASSUME NEW S \in SUBSET Nat, S # {}
  PROVE  \E x \in S : \A y \in S : x <= y
<1>1. PICK x \in S : \A y \in S : <<y, x>> \notin OpToRel(<, Nat)
  BY NatLessThanWellFounded, WFMin
<1>2. \A y \in S : ~ (y < x)
  BY <1>1 DEF OpToRel
<1> QED BY <1>2

(* The binary searches find where the events of a range begin and end.     *)
LEMMA UpperBoundIs ==
  ASSUME NEW l \in Seq(Event), Sorted(l), NEW n \in Nat
  PROVE  /\ upperBound(l, n) \in 0 .. Len(l)
         /\ \A i \in 1 .. Len(l) : l[i].seq <= n <=> i <= upperBound(l, n)
<1> DEFINE S == {i \in 1 .. Len(l) : l[i].seq > n}
           P(k) == /\ \A i \in 1 .. k : l[i].seq <= n
                   /\ \A i \in k + 1 .. Len(l) : l[i].seq > n
<1>0. Len(l) \in Nat /\ \A i \in 1 .. Len(l) : l[i].seq \in Nat
  BY LogTypes
<1>1. \E k \in 0 .. Len(l) : P(k)
  <2>1. CASE S = {}
    <3>1. P(Len(l))
      BY <1>0, <2>1
    <3> QED
      BY <1>0, <3>1
  <2>2. CASE S # {}
    <3>1. PICK x \in S : \A y \in S : x <= y
      <4>1. S \in SUBSET Nat /\ S # {}
        BY <1>0, <2>2
      <4> HIDE DEF S
      <4> QED
        BY <4>1, Least
    <3>2. \A i \in 1 .. x - 1 : l[i].seq <= n
      BY <1>0, <3>1
    <3>3. \A i \in x .. Len(l) : l[i].seq > n
      BY <1>0, <3>1 DEF Sorted
    <3>4. P(x - 1) /\ x - 1 \in 0 .. Len(l)
      BY <1>0, <3>2, <3>3
    <3> QED
      BY <3>4
  <2> QED
    BY <2>1, <2>2
<1>2. upperBound(l, n) \in 0 .. Len(l) /\ P(upperBound(l, n))
  BY <1>1 DEF upperBound
<1> QED
  BY <1>0, <1>2

LEMMA LowerBoundIs ==
  ASSUME NEW l \in Seq(Event), Sorted(l), NEW n \in Nat
  PROVE  /\ lowerBound(l, n) \in 0 .. Len(l)
         /\ \A i \in 1 .. Len(l) : l[i].seq < n <=> i <= lowerBound(l, n)
<1> DEFINE S == {i \in 1 .. Len(l) : l[i].seq >= n}
           P(k) == /\ \A i \in 1 .. k : l[i].seq < n
                   /\ \A i \in k + 1 .. Len(l) : l[i].seq >= n
<1>0. Len(l) \in Nat /\ \A i \in 1 .. Len(l) : l[i].seq \in Nat
  BY LogTypes
<1>1. \E k \in 0 .. Len(l) : P(k)
  <2>1. CASE S = {}
    <3>1. P(Len(l))
      BY <1>0, <2>1
    <3> QED
      BY <1>0, <3>1
  <2>2. CASE S # {}
    <3>1. PICK x \in S : \A y \in S : x <= y
      <4>1. S \in SUBSET Nat /\ S # {}
        BY <1>0, <2>2
      <4> HIDE DEF S
      <4> QED
        BY <4>1, Least
    <3>2. \A i \in 1 .. x - 1 : l[i].seq < n
      BY <1>0, <3>1
    <3>3. \A i \in x .. Len(l) : l[i].seq >= n
      BY <1>0, <3>1 DEF Sorted
    <3>4. P(x - 1) /\ x - 1 \in 0 .. Len(l)
      BY <1>0, <3>2, <3>3
    <3> QED
      BY <3>4
  <2> QED
    BY <2>1, <2>2
<1>2. lowerBound(l, n) \in 0 .. Len(l) /\ P(lowerBound(l, n))
  BY <1>1 DEF lowerBound
<1> QED
  BY <1>0, <1>2

(* A piece of a log is a log.                                              *)
LEMMA Piece ==
  ASSUME NEW l \in Seq(Event), Sorted(l), NEW a \in 1 .. Len(l) + 1, NEW b \in 0 .. Len(l)
  PROVE  /\ SubSeq(l, a, b) \in Seq(Event) /\ Sorted(SubSeq(l, a, b))
         /\ Len(SubSeq(l, a, b)) = IF a <= b THEN b - a + 1 ELSE 0
         /\ \A i \in 1 .. Len(SubSeq(l, a, b)) : SubSeq(l, a, b)[i] = l[a + i - 1]
<1>0. Len(l) \in Nat /\ \A i \in 1 .. Len(l) : l[i] \in Event
  OBVIOUS
<1>1. SubSeq(l, a, b) \in Seq(Event)
  BY <1>0
<1>2. Len(SubSeq(l, a, b)) = IF a <= b THEN b - a + 1 ELSE 0
  BY <1>0
<1>3. \A i \in 1 .. Len(SubSeq(l, a, b)) : SubSeq(l, a, b)[i] = l[a + i - 1]
  BY <1>0
<1>4. Sorted(SubSeq(l, a, b))
  BY <1>0, <1>2, <1>3 DEF Sorted
<1> QED
  BY <1>1, <1>2, <1>3, <1>4

LEMMA FromIs ==
  ASSUME log \in Seq(Event), Sorted(log), NEW n \in Nat
  PROVE  /\ From(n) \in Seq(Event) /\ Sorted(From(n))
         /\ \A i \in 1 .. Len(From(n)) : From(n)[i].seq > n
         /\ \A i \in 1 .. Len(log) : log[i].seq > n =>
              \E j \in 1 .. Len(From(n)) : From(n)[j] = log[i]
         /\ \E a \in 1 .. Len(log) + 1 :
              From(n) = SubSeq(log, a, Len(log)) /\ Len(From(n)) = Len(log) - a + 1
              /\ \A i \in 1 .. Len(log) : log[i].seq > n <=> i >= a
<1> DEFINE k == upperBound(log, n)
<1>1. k \in 0 .. Len(log) /\ \A i \in 1 .. Len(log) : log[i].seq <= n <=> i <= k
  BY UpperBoundIs
<1>2. Len(log) \in Nat /\ \A i \in 1 .. Len(log) : log[i].seq \in Nat
  BY LogTypes
<1>3. From(n) = SubSeq(log, k + 1, Len(log))
  BY DEF From
<1> HIDE DEF k
<1>4. /\ From(n) \in Seq(Event) /\ Sorted(From(n)) /\ Len(From(n)) = Len(log) - k
      /\ \A i \in 1 .. Len(From(n)) : From(n)[i] = log[k + i]
  BY <1>1, <1>2, <1>3, Piece
<1>5. ASSUME NEW i \in 1 .. Len(From(n)) PROVE From(n)[i].seq > n
  <2>1. k + i \in 1 .. Len(log) /\ ~ (k + i <= k)
    BY <1>1, <1>2, <1>4
  <2> QED
    BY <1>1, <1>2, <1>4, <2>1
<1>6. ASSUME NEW i \in 1 .. Len(log), log[i].seq > n
      PROVE  \E j \in 1 .. Len(From(n)) : From(n)[j] = log[i]
  <2>1. i > k
    BY <1>1, <1>2, <1>6
  <2>2. i - k \in 1 .. Len(From(n)) /\ k + (i - k) = i
    BY <1>1, <1>2, <1>4, <2>1
  <2> QED
    BY <1>4, <2>2
<1>7. k + 1 \in 1 .. Len(log) + 1 /\ Len(From(n)) = Len(log) - (k + 1) + 1
      /\ \A i \in 1 .. Len(log) : log[i].seq > n <=> i >= k + 1
  <2>1. k \in Nat /\ k <= Len(log) /\ Len(log) \in Nat
    BY <1>1, <1>2
  <2>2. \A i \in 1 .. Len(log) : log[i].seq > n <=> i >= k + 1
    BY <1>1, <1>2, <2>1
  <2> QED
    BY <1>4, <2>1, <2>2
<1> QED
  BY <1>3, <1>4, <1>5, <1>6, <1>7

(* The events in a range, when it begins and ends with two of them.        *)
LEMMA RangeIs ==
  ASSUME NEW l \in Seq(Event), Sorted(l), NEW a \in 1 .. Len(l), NEW b \in a .. Len(l),
         NEW cp, cp.from = l[a].seq, cp.to = l[b].seq
  PROVE  InRange(l, cp) = SubSeq(l, a, b)
<1>0. Len(l) \in Nat /\ \A i \in 1 .. Len(l) : l[i].seq \in Nat
  BY LogTypes
<1>01. cp.from \in Nat /\ cp.to \in Nat
  BY <1>0
<1>1. lowerBound(l, cp.from) \in 0 .. Len(l)
      /\ \A i \in 1 .. Len(l) : l[i].seq < cp.from <=> i <= lowerBound(l, cp.from)
  BY <1>01, LowerBoundIs
<1>2. upperBound(l, cp.to) \in 0 .. Len(l)
      /\ \A i \in 1 .. Len(l) : l[i].seq <= cp.to <=> i <= upperBound(l, cp.to)
  BY <1>01, UpperBoundIs
<1>3. lowerBound(l, cp.from) = a - 1
  <2>1. ~ (a <= lowerBound(l, cp.from))
    BY <1>0, <1>1
  <2>2. a = 1 \/ a - 1 <= lowerBound(l, cp.from)
    BY <1>0, <1>1 DEF Sorted
  <2> QED
    BY <1>0, <1>1, <2>1, <2>2
<1>4. upperBound(l, cp.to) = b
  <2>1. b <= upperBound(l, cp.to)
    BY <1>0, <1>2
  <2>2. b = Len(l) \/ ~ (b + 1 <= upperBound(l, cp.to))
    BY <1>0, <1>2 DEF Sorted
  <2> QED
    BY <1>0, <1>2, <2>1, <2>2
<1>5. InRange(l, cp) = SubSeq(l, (a - 1) + 1, b)
  BY <1>3, <1>4 DEF InRange
<1> QED
  BY <1>0, <1>5

(* The events in any range.                                                *)
LEMMA RangeHas ==
  ASSUME NEW l \in Seq(Event), Sorted(l), NEW cp, cp.from \in Nat, cp.to \in Nat
  PROVE  /\ InRange(l, cp) \in Seq(Event) /\ Sorted(InRange(l, cp))
         /\ \A j \in 1 .. Len(InRange(l, cp)) : \E i \in 1 .. Len(l) :
              InRange(l, cp)[j] = l[i]
         /\ \A i \in 1 .. Len(l) : cp.from <= l[i].seq /\ l[i].seq <= cp.to =>
              \E j \in 1 .. Len(InRange(l, cp)) : InRange(l, cp)[j] = l[i]
<1> DEFINE lo == lowerBound(l, cp.from)
           hi == upperBound(l, cp.to)
<1>0. Len(l) \in Nat /\ \A i \in 1 .. Len(l) : l[i].seq \in Nat
  BY LogTypes
<1>1. lo \in 0 .. Len(l) /\ \A i \in 1 .. Len(l) : l[i].seq < cp.from <=> i <= lo
  BY LowerBoundIs
<1>2. hi \in 0 .. Len(l) /\ \A i \in 1 .. Len(l) : l[i].seq <= cp.to <=> i <= hi
  BY UpperBoundIs
<1>3. InRange(l, cp) = SubSeq(l, lo + 1, hi)
  BY DEF InRange
<1> HIDE DEF lo, hi
<1>4. /\ InRange(l, cp) \in Seq(Event) /\ Sorted(InRange(l, cp))
      /\ Len(InRange(l, cp)) = IF lo + 1 <= hi THEN hi - lo ELSE 0
      /\ \A j \in 1 .. Len(InRange(l, cp)) : InRange(l, cp)[j] = l[lo + j]
  BY <1>0, <1>1, <1>2, <1>3, Piece
<1>5. ASSUME NEW j \in 1 .. Len(InRange(l, cp))
      PROVE  \E i \in 1 .. Len(l) : InRange(l, cp)[j] = l[i]
  <2>1. lo + j \in 1 .. Len(l)
    BY <1>0, <1>1, <1>2, <1>4
  <2> QED
    BY <1>4, <2>1
<1>6. ASSUME NEW i \in 1 .. Len(l), cp.from <= l[i].seq, l[i].seq <= cp.to
      PROVE  \E j \in 1 .. Len(InRange(l, cp)) : InRange(l, cp)[j] = l[i]
  <2>1. i > lo /\ i <= hi
    BY <1>0, <1>1, <1>2, <1>6
  <2>2. i - lo \in 1 .. Len(InRange(l, cp)) /\ lo + (i - lo) = i
    BY <1>0, <1>1, <1>2, <1>4, <2>1
  <2> QED
    BY <1>4, <2>2
<1> QED
  BY <1>4, <1>5, <1>6

-----------------------------------------------------------------------------
(* The log as acts and rewrites leave it.                                  *)

(* What a rewrite does to a log: events go, or lose what an act recorded.  *)
Erodes(l, m) ==
  /\ m \in Seq(Event) /\ Sorted(m)
  /\ \A i \in 1 .. Len(m) : \E j \in 1 .. Len(l) :
       m[i].seq = l[j].seq /\ m[i].body \in {0, l[j].body}

LEMMA RelinkErodes ==
  ASSUME NEW l \in Seq(Event), Sorted(l)
  PROVE  /\ Relink(l) \in Seq(Event) /\ Len(Relink(l)) = Len(l)
         /\ \A i \in 1 .. Len(l) : Relink(l)[i].seq = l[i].seq /\ Relink(l)[i].body = l[i].body
         /\ Sorted(Relink(l))
<1>1. Len(l) \in Nat /\ \A i \in 1 .. Len(l) : l[i] \in Event /\ l[i].body \in Nat
  BY LogTypes
<1>2. Bodies(l) \in Seq(Nat) /\ Len(Bodies(l)) = Len(l)
  BY <1>1 DEF Bodies
<1>3. \A i \in 1 .. Len(l) : SubSeq(Bodies(l), 1, i - 1) \in Seq(Nat)
                             /\ SubSeq(Bodies(l), 1, i) \in Seq(Nat)
  BY <1>1, <1>2
<1>4. \A i \in 1 .. Len(l) :
        LET e == [l[i] EXCEPT !.prev = SubSeq(Bodies(l), 1, i - 1),
                              !.digest = SubSeq(Bodies(l), 1, i)]
        IN  e \in Event /\ e.seq = l[i].seq /\ e.body = l[i].body
  BY <1>1, <1>3 DEF Event
<1>5. /\ Relink(l) \in Seq(Event) /\ Len(Relink(l)) = Len(l)
      /\ \A i \in 1 .. Len(l) : Relink(l)[i].seq = l[i].seq /\ Relink(l)[i].body = l[i].body
  <2>1. Relink(l) = [i \in 1 .. Len(l) |->
                       [l[i] EXCEPT !.prev = SubSeq(Bodies(l), 1, i - 1),
                                    !.digest = SubSeq(Bodies(l), 1, i)]]
    BY DEF Relink
  <2>2. Relink(l) \in [1 .. Len(l) -> Event]
    BY <1>4, <2>1
  <2>3. \A i \in 1 .. Len(l) : Relink(l)[i].seq = l[i].seq /\ Relink(l)[i].body = l[i].body
    BY <1>4, <2>1
  <2> QED
    BY <1>1, <2>2, <2>3
<1>6. Sorted(Relink(l))
  BY <1>5 DEF Sorted
<1> QED
  BY <1>5, <1>6

(* The event that was rewritten is gone, or is one that no act recorded.   *)
LEMMA TamperErodes ==
  ASSUME log \in Seq(Event), Sorted(log), Tamper
  PROVE  \E i \in 1 .. Len(log) :
           /\ touched' = touched \cup {[seq |-> log[i].seq, signed |-> log[i].seq <= CoveredUpTo]}
           /\ Erodes(log, log')
           /\ \/ log[i].body # 0 /\ \A j \in 1 .. Len(log') :
                                      log'[j].seq = log[i].seq => log'[j].body = 0
              \/ \A j \in 1 .. Len(log') : log'[j].seq # log[i].seq
<1>0. Len(log) \in Nat /\ \A i \in 1 .. Len(log) : log[i] \in Event /\ log[i].seq \in Nat
                                                   /\ log[i].body \in Nat
  BY LogTypes
<1>1. PICK i \in 1 .. Len(log) :
        /\ \E l \in Rewrites(i) : log' \in {l, Relink(l)}
        /\ touched' = touched \cup {[seq |-> log[i].seq, signed |-> log[i].seq <= CoveredUpTo]}
  BY DEF Tamper
<1>2. PICK l \in Rewrites(i) : log' \in {l, Relink(l)}
  BY <1>1
<1>3. \/ l = [log EXCEPT ![i].body = 0] /\ log[i].body # 0
      \/ l = RemoveAt(log, i)
  BY <1>2 DEF Rewrites
<1> DEFINE Gone(m) ==
             \/ log[i].body # 0 /\ \A j \in 1 .. Len(m) : m[j].seq = log[i].seq => m[j].body = 0
             \/ \A j \in 1 .. Len(m) : m[j].seq # log[i].seq
<1>4. ASSUME l = [log EXCEPT ![i].body = 0] /\ log[i].body # 0
      PROVE  l \in Seq(Event) /\ Erodes(log, l) /\ Gone(l)
  <2>1. PICK e : e = [log[i] EXCEPT !.body = 0]
    OBVIOUS
  <2>2. e \in Event /\ e.seq = log[i].seq /\ e.body = 0
    BY <1>0, <2>1 DEF Event
  <2>3. l = [log EXCEPT ![i] = e]
    BY <1>4, <2>1
  <2>4. /\ l \in Seq(Event) /\ Len(l) = Len(log) /\ l[i] = e
        /\ \A j \in 1 .. Len(log) : j # i => l[j] = log[j]
    BY <1>0, <2>2, <2>3
  <2>5. Erodes(log, l)
    BY <1>0, <2>2, <2>4 DEF Erodes, Sorted
  <2>6. Gone(l)
    <3>1. \A j \in 1 .. Len(l) : l[j].seq = log[i].seq => j = i
      BY <1>0, <2>4 DEF Sorted
    <3> QED
      BY <1>4, <2>2, <2>4, <3>1
  <2> QED
    BY <2>4, <2>5, <2>6
<1>5. ASSUME l = RemoveAt(log, i)
      PROVE  l \in Seq(Event) /\ Erodes(log, l) /\ Gone(l)
  <2>1. PICK a : a = SubSeq(log, 1, i - 1)
    OBVIOUS
  <2>2. PICK b : b = SubSeq(log, i + 1, Len(log))
    OBVIOUS
  <2>3. /\ a \in Seq(Event) /\ Len(a) = i - 1 /\ \A j \in 1 .. i - 1 : a[j] = log[j]
    BY <1>0, <2>1
  <2>4. /\ b \in Seq(Event) /\ Len(b) = Len(log) - i
        /\ \A j \in 1 .. Len(log) - i : b[j] = log[i + j]
    BY <1>0, <2>2
  <2>5. l = a \o b
    BY <1>5, <2>1, <2>2 DEF RemoveAt
  <2>6. /\ l \in Seq(Event) /\ Len(l) = Len(log) - 1
        /\ \A j \in 1 .. Len(log) - 1 : l[j] = IF j < i THEN log[j] ELSE log[j + 1]
    <3>1. l \in Seq(Event) /\ Len(l) = Len(a) + Len(b)
      BY <2>3, <2>4, <2>5, ConcatProperties
    <3>2. \A j \in 1 .. Len(a) + Len(b) : l[j] = IF j <= Len(a) THEN a[j] ELSE b[j - Len(a)]
      BY <2>3, <2>4, <2>5, ConcatProperties
    <3>3. ASSUME NEW j \in 1 .. Len(log) - 1
          PROVE  l[j] = IF j < i THEN log[j] ELSE log[j + 1]
      <4>0. j \in 1 .. Len(a) + Len(b) /\ j \in Nat
        BY <1>0, <2>3, <2>4
      <4>1. CASE j < i
        <5>1. j \in 1 .. i - 1 /\ j <= Len(a)
          BY <1>0, <2>3, <4>0, <4>1
        <5>2. l[j] = a[j] /\ a[j] = log[j]
          BY <2>3, <3>2, <4>0, <5>1
        <5> QED
          BY <4>1, <5>2
      <4>2. CASE j >= i
        <5>1. j - (i - 1) \in 1 .. Len(log) - i /\ i + (j - (i - 1)) = j + 1
          BY <1>0, <4>2
        <5>2. ~ (j <= Len(a)) /\ Len(a) = i - 1 /\ ~ (j < i)
          BY <1>0, <2>3, <4>0, <4>2
        <5>3. l[j] = b[j - (i - 1)]
          BY <3>2, <4>0, <5>2
        <5>4. b[j - (i - 1)] = log[i + (j - (i - 1))]
          BY <2>4, <5>1
        <5> QED
          BY <5>1, <5>2, <5>3, <5>4
      <4> QED
        BY <1>0, <4>1, <4>2
    <3> QED
      BY <1>0, <2>3, <2>4, <3>1, <3>3
  <2>7. Sorted(l)
    <3>1. ASSUME NEW j \in 1 .. Len(l)
          PROVE  \E x \in 1 .. Len(log) : l[j] = log[x] /\ x = IF j < i THEN j ELSE j + 1
      BY <1>0, <2>6
    <3>2. ASSUME NEW j \in 1 .. Len(l), NEW k \in 1 .. Len(l), j < k
          PROVE  l[j].seq < l[k].seq
      <4>1. PICK x \in 1 .. Len(log) : l[j] = log[x] /\ x = IF j < i THEN j ELSE j + 1
        BY <3>1
      <4>2. PICK y \in 1 .. Len(log) : l[k] = log[y] /\ y = IF k < i THEN k ELSE k + 1
        BY <3>1
      <4>3. x < y
        BY <1>0, <2>6, <3>2, <4>1, <4>2
      <4> QED
        BY <4>1, <4>2, <4>3 DEF Sorted
    <3> QED
      BY <3>2 DEF Sorted
  <2>8. Erodes(log, l)
    <3>1. ASSUME NEW j \in 1 .. Len(l)
          PROVE  \E x \in 1 .. Len(log) : l[j] = log[x]
      BY <1>0, <2>6
    <3> QED
      BY <2>6, <2>7, <3>1 DEF Erodes
  <2>9. Gone(l)
    BY <1>0, <2>6 DEF Sorted
  <2> QED
    BY <2>6, <2>8, <2>9
<1>6. l \in Seq(Event) /\ Sorted(l) /\ Erodes(log, l) /\ Gone(l)
  BY <1>3, <1>4, <1>5 DEF Erodes
<1>7. Erodes(log, log') /\ Gone(log')
  <2>1. CASE log' = l
    BY <1>6, <2>1
  <2>2. CASE log' = Relink(l)
    <3>1. /\ Relink(l) \in Seq(Event) /\ Len(Relink(l)) = Len(l) /\ Sorted(Relink(l))
          /\ \A j \in 1 .. Len(l) : Relink(l)[j].seq = l[j].seq /\ Relink(l)[j].body = l[j].body
      BY <1>6, RelinkErodes
    <3>2. Erodes(log, Relink(l))
      BY <1>6, <3>1 DEF Erodes
    <3>3. Gone(Relink(l))
      BY <1>6, <3>1
    <3> QED
      BY <2>2, <3>2, <3>3
  <2> QED
    BY <1>2, <2>1, <2>2
<1> QED
  BY <1>1, <1>7

-----------------------------------------------------------------------------
(* What the rows, the runs and the rewrites leave true of the log.         *)

(* The record is about these events.                                       *)
Signs(cp, c) ==
  /\ c \in Seq(Event) /\ c # << >> /\ Sorted(c)
  /\ cp.from = c[1].seq /\ cp.to = c[Len(c)].seq
  /\ cp.count = Len(c) /\ cp.root = merkleRoot(Leaves(c))

(* The record is about this event, as an act recorded it or since eroded.  *)
Attests(cp, e) ==
  \E c : Signs(cp, c) /\ \E j \in 1 .. Len(c) :
    c[j].seq = e.seq /\ e.body \in {0, c[j].body}

(* The record is about events the log still has, next to each other.       *)
Whole(cp, l) ==
  \E a \in 1 .. Len(l) : \E b \in a .. Len(l) : Signs(cp, SubSeq(l, a, b))

LogInv ==
  /\ log \in Seq(Event) /\ Sorted(log)
  /\ nextSeq \in 1 .. MaxSeq + 1
  /\ \A i \in 1 .. Len(log) : log[i].seq \in 1 .. nextSeq - 1 /\ log[i].body \in 0 .. MaxSeq

(* The last sequence number a row covers.                                  *)
Covered(n) == n \in {0} \cup {cp.to : cp \in rows} /\ \A cp \in rows : cp.to <= n

RowsInv ==
  /\ \A cp \in rows : cp.from >= 1 /\ \E c : Signs(cp, c)
  /\ \E n \in 0 .. nextSeq - 1 : Covered(n)
  /\ \A a, b \in rows : a = b \/ a.to < b.from \/ b.to < a.from
  /\ \A i \in 1 .. Len(log) : log[i].seq <= CoveredUpTo =>
       \E cp \in rows : Attests(cp, log[i])

(* What a run is about to commit covers all that is pending, and no more.  *)
Ready(s) ==
  /\ \E c : Signs(signed[s], c)
  /\ signed[s].from > CoveredUpTo /\ signed[s].to < nextSeq
  /\ \A i \in 1 .. Len(log) :
       CoveredUpTo < log[i].seq /\ log[i].seq <= signed[s].to => Attests(signed[s], log[i])

RunInv ==
  /\ DOMAIN last = Signer
  /\ \A s \in Signer :
       /\ DOMAIN last[s] = {"to", "end", "by"}
       /\ pc[s] \in {"idle", "latest"} => last[s].to = 0
       /\ pc[s] = "events" /\ ~ lost[s] => last[s].to = CoveredUpTo
       /\ pc[s] \in {"put", "commit"} /\ ~ lost[s] => Ready(s)

(* The event of that sequence is gone, or is not the one that was signed.  *)
Missed(n, cp) ==
  \E c : Signs(cp, c) /\ \E j \in 1 .. Len(c) :
    /\ c[j].seq = n
    /\ \/ c[j].body # 0 /\ \A i \in 1 .. Len(log) : log[i].seq = n => log[i].body = 0
       \/ \A i \in 1 .. Len(log) : log[i].seq # n

TouchInv == \A t \in touched : t.signed => \E cp \in rows : Missed(t.seq, cp)

CleanInv ==
  touched = {} =>
    /\ ChainOK(log, Genesis)
    /\ \A cp \in rows : Whole(cp, log)
    /\ \A s \in Signer : pc[s] \in {"put", "commit"} /\ ~ lost[s] => Whole(signed[s], log)
    /\ \A events \in seen : \E n \in 0 .. Len(log) : events = SubSeq(log, 1, n)

LedgerInv == LogInv /\ RowsInv /\ RunInv /\ TouchInv /\ CleanInv

LEMMA Greatest ==
  ASSUME NEW S \in SUBSET Nat, S # {}, NEW n \in Nat, \A x \in S : x <= n
  PROVE  \E m \in S : \A x \in S : x <= m
<1> DEFINE T == {n - x : x \in S}
<1>1. T \in SUBSET Nat /\ T # {}
  <2>1. \A x \in S : n - x \in Nat
    OBVIOUS
  <2> QED
    BY <2>1
<1>2. PICK y \in T : \A z \in T : y <= z
  <2> HIDE DEF T
  <2> QED
    BY <1>1, Least
<1>3. PICK m \in S : y = n - m
  BY <1>2
<1>4. \A x \in S : n - m <= n - x
  BY <1>2, <1>3
<1> QED
  BY <1>4

LEMMA MaxIs ==
  ASSUME NEW S \in SUBSET Nat, NEW n \in S, \A x \in S : x <= n
  PROVE  Max(S) = n
<1>1. Max(S) \in S /\ \A y \in S : Max(S) >= y
  BY DEF Max
<1>2. n \in Nat /\ Max(S) \in Nat /\ Max(S) >= n /\ Max(S) <= n
  BY <1>1
<1> QED
  BY <1>2

LEMMA SignsTypes ==
  ASSUME NEW cp, NEW c, Signs(cp, c)
  PROVE  /\ c \in Seq(Event) /\ Len(c) \in Nat \ {0} /\ Sorted(c)
         /\ cp.from \in Nat /\ cp.to \in Nat /\ cp.from <= cp.to
         /\ \A j \in 1 .. Len(c) : c[j] \in Event /\ c[j].seq \in Nat /\ c[j].body \in Nat
                                   /\ cp.from <= c[j].seq /\ c[j].seq <= cp.to
<1>1. c \in Seq(Event) /\ c # << >> /\ Sorted(c) /\ cp.from = c[1].seq /\ cp.to = c[Len(c)].seq
  BY DEF Signs
<1>2. Len(c) \in Nat /\ \A j \in 1 .. Len(c) : c[j] \in Event /\ c[j].seq \in Nat /\ c[j].body \in Nat
  BY <1>1, LogTypes
<1>3. Len(c) # 0
  BY <1>1
<1>4. \A j \in 1 .. Len(c) : (j = 1 \/ 1 < j) /\ (j = Len(c) \/ j < Len(c))
  BY <1>2
<1>5. 1 \in 1 .. Len(c) /\ Len(c) \in 1 .. Len(c)
  BY <1>2, <1>3
<1>6. \A j \in 1 .. Len(c) : cp.from <= c[j].seq /\ c[j].seq <= cp.to
  BY <1>1, <1>2, <1>4, <1>5 DEF Sorted
<1> QED
  BY <1>1, <1>2, <1>3, <1>5, <1>6

LEMMA AttestsErodes ==
  ASSUME NEW cp, NEW d, NEW e, Attests(cp, d), e.seq = d.seq, e.body \in {0, d.body}
  PROVE  Attests(cp, e)
BY DEF Attests

LEMMA AttestsRange ==
  ASSUME NEW cp, NEW e, Attests(cp, e)
  PROVE  cp.from \in Nat /\ cp.to \in Nat /\ cp.from <= e.seq /\ e.seq <= cp.to
<1>1. PICK c : Signs(cp, c) /\ \E j \in 1 .. Len(c) : c[j].seq = e.seq
  BY DEF Attests
<1> QED
  BY <1>1, SignsTypes

(* buildCheckpoint: the record signs the events it was built from.         *)
LEMMA BuiltSigns ==
  ASSUME NEW s, NEW c \in Seq(Event), c # << >>, Sorted(c)
  PROVE  Signs(Built(s, c), c)
<1>1. Head(c) = c[1] /\ Last(c) = c[Len(c)]
  BY DEF Last
<1> QED
  BY <1>1 DEF Built, Signs

(* Appending leaves the pieces of a log as they are.                       *)
LEMMA PieceOfAppend ==
  ASSUME NEW l \in Seq(Event), NEW e \in Event,
         NEW a \in 1 .. Len(l) + 1, NEW b \in 0 .. Len(l)
  PROVE  SubSeq(Append(l, e), a, b) = SubSeq(l, a, b)
<1>1. /\ Len(l) \in Nat /\ Append(l, e) \in Seq(Event) /\ Len(Append(l, e)) = Len(l) + 1
      /\ \A i \in 1 .. Len(l) : Append(l, e)[i] = l[i]
  OBVIOUS
<1>2. \A i \in a .. b : l[i] = Append(l, e)[i]
  BY <1>1
<1>3. SubSeq(l, a, b) \in Seq(Event) /\ SubSeq(Append(l, e), a, b) \in Seq(Event)
  BY <1>1
<1>4. /\ Len(SubSeq(l, a, b)) = IF a <= b THEN b - a + 1 ELSE 0
      /\ Len(SubSeq(Append(l, e), a, b)) = IF a <= b THEN b - a + 1 ELSE 0
  BY <1>1
<1>5. \A i \in 1 .. Len(SubSeq(l, a, b)) :
        SubSeq(l, a, b)[i] = l[a + i - 1] /\ SubSeq(Append(l, e), a, b)[i] = Append(l, e)[a + i - 1]
        /\ a + i - 1 \in a .. b
  BY <1>1, <1>4
<1>6. Len(SubSeq(l, a, b)) = Len(SubSeq(Append(l, e), a, b))
      /\ \A i \in 1 .. Len(SubSeq(l, a, b)) : SubSeq(l, a, b)[i] = SubSeq(Append(l, e), a, b)[i]
  BY <1>2, <1>4, <1>5
<1> QED
  BY <1>3, <1>6, SeqEqual

LEMMA WholeOfAppend ==
  ASSUME NEW cp, NEW l \in Seq(Event), NEW e \in Event, Whole(cp, l)
  PROVE  Whole(cp, Append(l, e))
<1>0. PICK a \in 1 .. Len(l) : \E b \in a .. Len(l) : Signs(cp, SubSeq(l, a, b))
  BY DEF Whole
<1>1. PICK b \in a .. Len(l) : Signs(cp, SubSeq(l, a, b))
  BY <1>0
<1>2. Len(l) \in Nat /\ Len(Append(l, e)) = Len(l) + 1
  OBVIOUS
<1>3. a \in 1 .. Len(l) + 1 /\ b \in 0 .. Len(l)
  BY <1>1, <1>2
<1>4. SubSeq(Append(l, e), a, b) = SubSeq(l, a, b)
  BY <1>3, PieceOfAppend
<1>5. a \in 1 .. Len(Append(l, e)) /\ b \in a .. Len(Append(l, e))
  BY <1>1, <1>2
<1> QED
  BY <1>1, <1>4, <1>5 DEF Whole

(* What a step leaves of the log: no recorded event is moved or replaced.  *)
Kept ==
  /\ nextSeq' >= nextSeq
  /\ \A i \in 1 .. Len(log') : log'[i].seq < nextSeq =>
       \E j \in 1 .. Len(log) : log'[i].seq = log[j].seq /\ log'[i].body \in {0, log[j].body}

LEMMA ActAppends ==
  ASSUME LogInv, ActCommits
  PROVE  \E e \in Event :
           /\ log' = Append(log, e) /\ e.seq = nextSeq /\ e.body = nextSeq
           /\ nextSeq' = nextSeq + 1 /\ nextSeq' \in 1 .. MaxSeq + 1
           /\ e.prev = IF log = << >> THEN Genesis ELSE log[Len(log)].digest
           /\ e.digest = Append(e.prev, e.body)
           /\ UNCHANGED <<rows, lock, pc, last, signed, lost, seen, touched>>
<1>1. PICK h : h = IF log = << >> THEN Genesis ELSE Last(log).digest
  OBVIOUS
<1>2. h \in Seq(Nat) /\ h = IF log = << >> THEN Genesis ELSE log[Len(log)].digest
  <2>1. CASE log = << >>
    BY <1>1, <2>1 DEF Genesis
  <2>2. CASE log # << >>
    <3>1. Len(log) \in 1 .. Len(log) /\ Last(log) = log[Len(log)] /\ log \in Seq(Event)
      BY <2>2 DEF LogInv, Last
    <3>2. log[Len(log)] \in Event
      BY <3>1
    <3> QED
      BY <1>1, <2>2, <3>1, <3>2 DEF Event
  <2> QED
    BY <2>1, <2>2
<1>3. nextSeq \in Nat /\ nextSeq' = nextSeq + 1 /\ nextSeq' \in 1 .. MaxSeq + 1
  BY SignerAssumption DEF ActCommits, LogInv
<1>4. PICK e : e = [seq |-> nextSeq, body |-> nextSeq, prev |-> h, digest |-> Append(h, nextSeq)]
  OBVIOUS
<1>5. e \in Event /\ e.seq = nextSeq /\ e.body = nextSeq /\ e.prev = h /\ e.digest = Append(h, nextSeq)
  BY <1>2, <1>3, <1>4 DEF Event
<1>6. log' = Append(log, e)
  BY <1>1, <1>4 DEF ActCommits
<1> QED
  BY <1>2, <1>3, <1>5, <1>6 DEF ActCommits

LEMMA LogSteps ==
  ASSUME [Next]_vars
  PROVE  ActCommits \/ Tamper \/ (log' = log /\ touched' = touched)
BY DEF Next, vars, ActRollsBack, Rotate, Run, TakeLock, ReadLatest, Sign, Refuse, Put,
  Commit, LoseConnection, FailStatement, VerifyReadsEvents, VerifyReadsCheckpoints, world

LEMMA SeqSteps ==
  ASSUME [Next]_vars
  PROVE  ActCommits \/ ActRollsBack \/ nextSeq' = nextSeq
BY DEF Next, vars, Rotate, Tamper, Run, TakeLock, ReadLatest, Sign, Refuse, Put,
  Commit, LoseConnection, FailStatement, VerifyReadsEvents, VerifyReadsCheckpoints, world

LEMMA LogStep == LogInv /\ [Next]_vars => LogInv' /\ Kept
<1> SUFFICES ASSUME LogInv, [Next]_vars PROVE LogInv' /\ Kept
  OBVIOUS
<1>0. /\ log \in Seq(Event) /\ Len(log) \in Nat /\ Sorted(log) /\ nextSeq \in Nat
      /\ \A i \in 1 .. Len(log) : log[i].seq \in Nat /\ log[i].body \in Nat
      /\ \A i \in 1 .. Len(log) : log[i].seq \in 1 .. nextSeq - 1 /\ log[i].body \in 0 .. MaxSeq
      /\ nextSeq \in 1 .. MaxSeq + 1 /\ MaxSeq \in Nat
  BY LogTypes, SignerAssumption DEF LogInv
<1>1. CASE ActCommits
  <2>1. PICK e \in Event : log' = Append(log, e) /\ e.seq = nextSeq /\ e.body = nextSeq
                           /\ nextSeq' = nextSeq + 1 /\ nextSeq' \in 1 .. MaxSeq + 1
    BY <1>1, ActAppends
  <2>2. /\ log' \in Seq(Event) /\ Len(log') = Len(log) + 1
        /\ \A i \in 1 .. Len(log) : log'[i] = log[i]
        /\ log'[Len(log) + 1] = e
    BY <1>0, <2>1
  <2>3. ASSUME NEW i \in 1 .. Len(log')
        PROVE  (log'[i] = e /\ i = Len(log) + 1) \/ (i \in 1 .. Len(log) /\ log'[i] = log[i])
    <3>1. i = Len(log) + 1 \/ i \in 1 .. Len(log)
      BY <1>0, <2>2
    <3> QED
      BY <2>2, <3>1
  <2>4. Sorted(log')
    <3>1. ASSUME NEW i \in 1 .. Len(log'), NEW j \in 1 .. Len(log'), i < j
          PROVE  log'[i].seq < log'[j].seq
      <4>1. i \in 1 .. Len(log) /\ log'[i] = log[i]
        BY <1>0, <2>2, <3>1
      <4>2. CASE j \in 1 .. Len(log) /\ log'[j] = log[j]
        BY <1>0, <3>1, <4>1, <4>2 DEF Sorted
      <4>3. CASE log'[j] = e
        BY <1>0, <2>1, <4>1, <4>3
      <4> QED
        BY <2>3, <4>2, <4>3
    <3> QED
      BY <3>1 DEF Sorted
  <2>5. \A i \in 1 .. Len(log') : log'[i].seq \in 1 .. nextSeq' - 1 /\ log'[i].body \in 0 .. MaxSeq
    BY <1>0, <2>1, <2>3
  <2>6. Kept
    <3>1. ASSUME NEW i \in 1 .. Len(log'), log'[i].seq < nextSeq
          PROVE  i \in 1 .. Len(log) /\ log'[i] = log[i]
      BY <1>0, <2>1, <2>3, <3>1
    <3> QED
      BY <1>0, <2>1, <3>1 DEF Kept
  <2> QED
    BY <2>1, <2>2, <2>4, <2>5, <2>6 DEF LogInv, Sorted
<1>2. CASE Tamper
  <2>1. nextSeq' = nextSeq
    BY <1>2 DEF Tamper
  <2>2. Erodes(log, log')
    BY <1>0, <1>2, TamperErodes
  <2>3. \A i \in 1 .. Len(log') : log'[i].seq \in 1 .. nextSeq - 1 /\ log'[i].body \in 0 .. MaxSeq
    <3>1. ASSUME NEW i \in 1 .. Len(log')
          PROVE  log'[i].seq \in 1 .. nextSeq - 1 /\ log'[i].body \in 0 .. MaxSeq
      <4>1. PICK j \in 1 .. Len(log) : log'[i].seq = log[j].seq /\ log'[i].body \in {0, log[j].body}
        BY <2>2, <3>1 DEF Erodes
      <4>2. 0 \in 0 .. MaxSeq
        BY <1>0
      <4> QED
        BY <1>0, <4>1, <4>2
    <3> QED
      BY <3>1
  <2>4. Kept
    BY <1>0, <2>1, <2>2 DEF Erodes, Kept
  <2> QED
    BY <1>0, <2>1, <2>2, <2>3, <2>4 DEF LogInv, Erodes, Sorted
<1>3. CASE log' = log
  <2>1. nextSeq' \in 1 .. MaxSeq + 1 /\ nextSeq' >= nextSeq
    BY <1>0, SeqSteps DEF ActCommits, ActRollsBack
  <2> QED
    BY <1>0, <1>3, <2>1 DEF LogInv, Kept, Sorted
<1> QED
  BY <1>1, <1>2, <1>3, LogSteps

LEMMA RowSteps ==
  ASSUME [Next]_vars
  PROVE  rows' = rows \/ \E s \in Signer : Commit(s)
BY DEF Next, vars, ActCommits, ActRollsBack, Rotate, Tamper, Run, TakeLock, ReadLatest, Sign,
  Refuse, Put, LoseConnection, FailStatement, VerifyReadsEvents, VerifyReadsCheckpoints

LEMMA CoveredIs ==
  ASSUME LogInv, RowsInv
  PROVE  /\ nextSeq \in Nat /\ CoveredUpTo \in Nat /\ CoveredUpTo < nextSeq
         /\ CoveredUpTo = 0 \/ \E cp \in rows : CoveredUpTo = cp.to
         /\ \A cp \in rows : /\ cp.from \in Nat /\ cp.to \in Nat /\ 1 <= cp.from
                             /\ cp.from <= cp.to /\ cp.to <= CoveredUpTo
<1>1. nextSeq \in Nat
  BY SignerAssumption DEF LogInv
<1>2. \A cp \in rows : cp.from \in Nat /\ cp.to \in Nat /\ 1 <= cp.from /\ cp.from <= cp.to
  BY SignsTypes DEF RowsInv
<1>3. PICK n \in 0 .. nextSeq - 1 : Covered(n)
  BY DEF RowsInv
<1>4. CoveredUpTo = n
  <2>1. /\ {0} \cup {cp.to : cp \in rows} \in SUBSET Nat
        /\ n \in {0} \cup {cp.to : cp \in rows}
        /\ \A x \in {0} \cup {cp.to : cp \in rows} : x <= n
    BY <1>1, <1>2, <1>3 DEF Covered
  <2> QED
    BY <2>1, MaxIs DEF CoveredUpTo
<1> QED
  BY <1>1, <1>2, <1>3, <1>4 DEF Covered

(* The run that commits is the only one, and the rows then cover up to it. *)
LEMMA CommitCovers ==
  ASSUME IInv, LogInv, RowsInv, RunInv, NEW s \in Signer, Commit(s)
  PROVE  /\ rows' = rows \cup {signed[s]} /\ log' = log /\ nextSeq' = nextSeq
         /\ Ready(s) /\ CoveredUpTo' = signed[s].to /\ CoveredUpTo < CoveredUpTo'
         /\ signed[s].from \in Nat /\ signed[s].to \in Nat
         /\ 1 <= signed[s].from /\ signed[s].from <= signed[s].to
         /\ \A t \in Signer : (pc[t] = "idle" \/ lost[t]) \/ t = s
         /\ pc'[s] = "idle"
<1>1. rows' = rows \cup {signed[s]} /\ log' = log /\ nextSeq' = nextSeq
  BY DEF Commit, world
<1>2. Ready(s)
  BY DEF RunInv, Commit
<1>3. /\ nextSeq \in Nat /\ CoveredUpTo \in Nat
      /\ \A cp \in rows : cp.to \in Nat /\ cp.to <= CoveredUpTo
  BY CoveredIs
<1>4. /\ signed[s].from \in Nat /\ signed[s].to \in Nat /\ signed[s].from <= signed[s].to
      /\ CoveredUpTo < signed[s].from
  BY <1>2, <1>3, SignsTypes DEF Ready
<1>5. CoveredUpTo' = signed[s].to
  <2>1. CoveredUpTo' = Max({0} \cup {cp.to : cp \in rows'})
    BY DEF CoveredUpTo
  <2>2. /\ {0} \cup {cp.to : cp \in rows'} \in SUBSET Nat
        /\ signed[s].to \in {0} \cup {cp.to : cp \in rows'}
    BY <1>1, <1>3, <1>4
  <2>3. \A cp \in rows' : cp.to <= signed[s].to
    BY <1>1, <1>3, <1>4
  <2>4. \A x \in {0} \cup {cp.to : cp \in rows'} : x <= signed[s].to
    BY <1>4, <2>3
  <2> QED
    BY <2>1, <2>2, <2>4, MaxIs
<1>6. \A t \in Signer : (pc[t] = "idle" \/ lost[t]) \/ t = s
  <2>1. lock = s
    BY DEF IInv, Alone, Commit
  <2> QED
    BY <2>1 DEF IInv, Alone
<1>7. pc'[s] = "idle"
  BY DEF Commit, End, IInv, Shape
<1> QED
  BY <1>1, <1>2, <1>3, <1>4, <1>5, <1>6, <1>7

LEMMA RowsStep == IInv /\ LogInv /\ RowsInv /\ RunInv /\ [Next]_vars => RowsInv'
<1> SUFFICES ASSUME IInv, LogInv, RowsInv, RunInv, [Next]_vars PROVE RowsInv'
  OBVIOUS
<1>0. LogInv' /\ Kept
  BY LogStep
<1>1. /\ nextSeq \in Nat /\ CoveredUpTo \in Nat /\ CoveredUpTo < nextSeq
      /\ CoveredUpTo = 0 \/ \E cp \in rows : CoveredUpTo = cp.to
      /\ \A cp \in rows : /\ cp.from \in Nat /\ cp.to \in Nat /\ 1 <= cp.from
                          /\ cp.from <= cp.to /\ cp.to <= CoveredUpTo
  BY CoveredIs
<1>2. nextSeq' \in Nat /\ nextSeq' >= nextSeq
  BY <1>0, SignerAssumption DEF LogInv, Kept
<1>3. /\ \A cp \in rows : cp.from >= 1 /\ \E c : Signs(cp, c)
      /\ \A a, b \in rows : a = b \/ a.to < b.from \/ b.to < a.from
      /\ \A i \in 1 .. Len(log) : log[i].seq <= CoveredUpTo =>
           \E cp \in rows : Attests(cp, log[i])
  BY DEF RowsInv
<1>4. \A i \in 1 .. Len(log') : log'[i].seq \in Nat
  <2>1. log' \in Seq(Event)
    BY <1>0 DEF LogInv
  <2> QED
    BY <2>1, LogTypes
<1>5. CASE rows' = rows
  <2>1. CoveredUpTo' = CoveredUpTo
    BY <1>5 DEF CoveredUpTo
  <2>2. \E n \in 0 .. nextSeq' - 1 : Covered(n)'
    <3>1. PICK n \in 0 .. nextSeq - 1 : Covered(n)
      BY DEF RowsInv
    <3>2. Covered(n)'
      BY <1>5, <3>1 DEF Covered
    <3>3. PICK m : m = nextSeq'
      OBVIOUS
    <3>4. m \in Nat /\ m >= nextSeq /\ nextSeq \in Nat
      BY <1>1, <1>2, <3>3
    <3>5. n \in 0 .. m - 1
      BY <3>1, <3>4
    <3> QED
      BY <3>2, <3>3, <3>5
  <2>3. ASSUME NEW i \in 1 .. Len(log'), log'[i].seq <= CoveredUpTo
        PROVE  \E cp \in rows : Attests(cp, log'[i])
    <3>1. log'[i].seq < nextSeq
      BY <1>1, <1>4, <2>3
    <3>2. PICK j \in 1 .. Len(log) : log'[i].seq = log[j].seq /\ log'[i].body \in {0, log[j].body}
      BY <1>0, <3>1 DEF Kept
    <3>3. PICK cp \in rows : Attests(cp, log[j])
      BY <1>3, <2>3, <3>2
    <3> QED
      BY <3>2, <3>3, AttestsErodes
  <2> QED
    BY <1>3, <1>5, <2>1, <2>2, <2>3 DEF RowsInv
<1>6. ASSUME NEW s \in Signer, Commit(s) PROVE RowsInv'
  <2>1. /\ rows' = rows \cup {signed[s]} /\ log' = log /\ nextSeq' = nextSeq
        /\ Ready(s) /\ CoveredUpTo' = signed[s].to /\ CoveredUpTo < CoveredUpTo'
        /\ signed[s].from \in Nat /\ signed[s].to \in Nat
        /\ 1 <= signed[s].from /\ signed[s].from <= signed[s].to
    BY <1>6, CommitCovers
  <2>2. PICK r : r = signed[s]
    OBVIOUS
  <2>3. /\ rows' = rows \cup {r} /\ r.to \in Nat /\ r.from \in Nat /\ CoveredUpTo' = r.to
        /\ 1 <= r.from /\ r.from <= r.to /\ r.from > CoveredUpTo /\ r.to < nextSeq
        /\ \E c : Signs(r, c)
        /\ \A i \in 1 .. Len(log) :
             CoveredUpTo < log[i].seq /\ log[i].seq <= r.to => Attests(r, log[i])
    BY <2>1, <2>2 DEF Ready
  <2>4. \A cp \in rows' : cp.from >= 1 /\ \E c : Signs(cp, c)
    BY <1>3, <2>3
  <2>5. \E n \in 0 .. nextSeq' - 1 : Covered(n)'
    <3>1. r.to \in 0 .. nextSeq' - 1
      BY <1>1, <2>1, <2>3
    <3>2. \A cp \in rows' : cp.to <= r.to
      BY <1>1, <2>3
    <3>3. Covered(r.to)'
      BY <2>3, <3>2 DEF Covered
    <3> QED
      BY <3>1, <3>3
  <2>6. \A a, b \in rows' : a = b \/ a.to < b.from \/ b.to < a.from
    <3>1. \A a \in rows : a.to < r.from
      BY <1>1, <2>3
    <3> QED
      BY <1>3, <2>3, <3>1
  <2>7. ASSUME NEW i \in 1 .. Len(log'), log'[i].seq <= CoveredUpTo'
        PROVE  \E cp \in rows' : Attests(cp, log'[i])
    <3>1. CASE log[i].seq <= CoveredUpTo
      BY <1>3, <2>1, <2>3, <2>7, <3>1
    <3>2. CASE CoveredUpTo < log[i].seq
      BY <2>1, <2>3, <2>7, <3>2
    <3> QED
      BY <1>1, <1>4, <2>1, <3>1, <3>2
  <2> QED
    BY <2>4, <2>5, <2>6, <2>7 DEF RowsInv
<1> QED
  BY <1>5, <1>6, RowSteps

(* What the step of one run does to the others.                            *)
LEMMA Others ==
  ASSUME IInv, RunInv, NEW s \in Signer, Run(s) \/ LoseConnection(s)
  PROVE  /\ \A t \in Signer \ {s} : pc'[t] = pc[t] /\ last'[t] = last[t]
                                    /\ signed'[t] = signed[t] /\ lost'[t] = lost[t]
         /\ DOMAIN last' = DOMAIN last
<1>0. DOMAIN last = Signer
  BY DEF RunInv
<1>1. Shape
  BY DEF IInv
<1>2. CASE End(s)
  BY <1>0, <1>1, <1>2 DEF Shape, End
<1>3. CASE TakeLock(s) \/ ReadLatest(s) \/ Sign(s) \/ LoseConnection(s)
  <2>1. CASE TakeLock(s)
    BY <1>0, <1>1, <2>1 DEF Shape, TakeLock
  <2>2. CASE ReadLatest(s)
    BY <1>0, <1>1, <2>2 DEF Shape, ReadLatest
  <2>3. CASE Sign(s) \/ LoseConnection(s)
    BY <1>0, <1>1, <2>3 DEF Shape, Sign, LoseConnection
  <2> QED
    BY <1>3, <2>1, <2>2, <2>3
<1>4. CASE Put(s)
  BY <1>0, <1>1, <1>2, <1>4 DEF Shape, Put
<1> QED
  BY <1>2, <1>3, <1>4 DEF Run, Refuse, Commit, FailStatement

LEMMA RunSteps ==
  ASSUME [Next]_vars
  PROVE  \/ \E s \in Signer : Run(s) \/ LoseConnection(s)
         \/ UNCHANGED <<rows, pc, last, signed, lost, lock>>
BY DEF Next, vars, ActCommits, ActRollsBack, Rotate, Tamper, VerifyReadsEvents,
  VerifyReadsCheckpoints

(* What a step leaves of the log is still what a run is about to commit.   *)
LEMMA ReadyKept ==
  ASSUME LogInv, RowsInv, Kept, LogInv', NEW s \in Signer, Ready(s), signed'[s] = signed[s],
         rows' = rows
  PROVE  Ready(s)'
<1>1. CoveredUpTo' = CoveredUpTo
  BY DEF CoveredUpTo
<1>2. PICK r : r = signed[s]
  OBVIOUS
<1>3. /\ \E c : Signs(r, c)
      /\ r.from > CoveredUpTo /\ r.to < nextSeq
      /\ \A i \in 1 .. Len(log) :
           CoveredUpTo < log[i].seq /\ log[i].seq <= r.to => Attests(r, log[i])
  BY <1>2 DEF Ready
<1>4. nextSeq \in Nat /\ nextSeq' \in Nat /\ nextSeq' >= nextSeq /\ r.to \in Nat
  BY <1>3, SignsTypes, SignerAssumption DEF LogInv, Kept
<1>5. \A i \in 1 .. Len(log') : log'[i].seq \in Nat
  <2>1. log' \in Seq(Event)
    BY DEF LogInv
  <2> QED
    BY <2>1, LogTypes
<1>6. ASSUME NEW i \in 1 .. Len(log'), CoveredUpTo < log'[i].seq, log'[i].seq <= r.to
      PROVE  Attests(r, log'[i])
  <2>1. log'[i].seq < nextSeq
    BY <1>3, <1>4, <1>5, <1>6
  <2>2. PICK j \in 1 .. Len(log) : log'[i].seq = log[j].seq /\ log'[i].body \in {0, log[j].body}
    BY <2>1 DEF Kept
  <2>3. Attests(r, log[j])
    BY <1>3, <1>6, <2>2
  <2> QED
    BY <2>2, <2>3, AttestsErodes
<1>7. r.to < nextSeq'
  BY <1>3, <1>4
<1> QED
  BY <1>1, <1>2, <1>3, <1>6, <1>7 DEF Ready

(* A run reads the last checkpoint and signs all that comes after it.      *)
LEMMA SignReady ==
  ASSUME LogInv, RowsInv, RunInv, NEW s \in Signer, Sign(s), DOMAIN signed = Signer
  PROVE  /\ Ready(s)'
         /\ touched = {} => Whole(signed'[s], log)
<1>1. /\ log \in Seq(Event) /\ Sorted(log) /\ Len(log) \in Nat /\ nextSeq \in Nat
      /\ \A i \in 1 .. Len(log) : log[i] \in Event /\ log[i].seq \in Nat /\ log[i].body \in Nat
      /\ \A i \in 1 .. Len(log) : log[i].seq \in 1 .. nextSeq - 1
  BY LogTypes, SignerAssumption DEF LogInv
<1>2. last[s].to = CoveredUpTo /\ CoveredUpTo \in Nat
  BY CoveredIs DEF RunInv, Sign
<1>3. PICK c : c = From(CoveredUpTo)
  OBVIOUS
<1>4. PICK r : r = Built(s, c)
  OBVIOUS
<1>5. signed'[s] = r /\ c # << >> /\ rows' = rows /\ log' = log /\ nextSeq' = nextSeq
  BY <1>2, <1>3, <1>4 DEF Sign, world
<1>6. /\ c \in Seq(Event) /\ Sorted(c)
      /\ \A i \in 1 .. Len(c) : c[i].seq > CoveredUpTo
      /\ \A i \in 1 .. Len(log) : log[i].seq > CoveredUpTo => \E j \in 1 .. Len(c) : c[j] = log[i]
      /\ \E a \in 1 .. Len(log) + 1 : c = SubSeq(log, a, Len(log)) /\ Len(c) = Len(log) - a + 1
  BY <1>1, <1>2, <1>3, FromIs
<1>7. Signs(r, c)
  BY <1>4, <1>5, <1>6, BuiltSigns
<1>8. PICK a \in 1 .. Len(log) + 1 : c = SubSeq(log, a, Len(log)) /\ Len(c) = Len(log) - a + 1
  BY <1>6
<1>9. a \in 1 .. Len(log) /\ Len(log) \in a .. Len(log) /\ Len(c) \in 1 .. Len(c) /\ 1 \in 1 .. Len(c)
  <2>1. Len(c) \in Nat /\ Len(c) # 0
    BY <1>5, <1>6
  <2> QED
    BY <1>1, <1>8, <2>1
<1>10. c[Len(c)] = log[Len(log)]
  <2>1. \A i \in 1 .. Len(c) : c[i] = log[a + i - 1]
    BY <1>1, <1>8, Piece
  <2>2. a + Len(c) - 1 = Len(log)
    BY <1>1, <1>8, <1>9
  <2> QED
    BY <1>9, <2>1, <2>2
<1>11. r.from > CoveredUpTo /\ r.to < nextSeq
  <2>1. r.from = c[1].seq /\ r.to = log[Len(log)].seq
    BY <1>7, <1>10 DEF Signs
  <2>2. log[Len(log)].seq \in 1 .. nextSeq - 1
    BY <1>1, <1>9
  <2>3. c[1].seq > CoveredUpTo
    BY <1>6, <1>9
  <2>4. log[Len(log)].seq < nextSeq
    BY <1>1, <2>2
  <2> QED
    BY <2>1, <2>3, <2>4
<1>12. ASSUME NEW i \in 1 .. Len(log), CoveredUpTo < log[i].seq
       PROVE  Attests(r, log[i])
  <2>1. PICK j \in 1 .. Len(c) : c[j] = log[i]
    BY <1>1, <1>2, <1>6, <1>12
  <2> QED
    BY <1>7, <2>1 DEF Attests
<1>13. Ready(s)'
  <2>1. CoveredUpTo' = CoveredUpTo
    BY <1>5 DEF CoveredUpTo
  <2> QED
    BY <1>5, <1>7, <1>11, <1>12, <2>1 DEF Ready
<1>14. Whole(r, log)
  BY <1>7, <1>8, <1>9 DEF Whole
<1> QED
  BY <1>5, <1>13, <1>14

LEMMA RunStep == IInv /\ LogInv /\ RowsInv /\ RunInv /\ [Next]_vars => RunInv'
<1> SUFFICES ASSUME IInv, LogInv, RowsInv, RunInv, [Next]_vars PROVE RunInv'
  OBVIOUS
<1>0. LogInv' /\ Kept /\ Shape /\ Shape'
  BY LogStep, NextOK DEF IInv
<1>1. /\ DOMAIN last = Signer
      /\ \A t \in Signer :
           /\ DOMAIN last[t] = {"to", "end", "by"}
           /\ pc[t] \in {"idle", "latest"} => last[t].to = 0
           /\ pc[t] = "events" /\ ~ lost[t] => last[t].to = CoveredUpTo
           /\ pc[t] \in {"put", "commit"} /\ ~ lost[t] => Ready(t)
  BY DEF RunInv
<1> DEFINE Good(t) ==
             /\ DOMAIN last'[t] = {"to", "end", "by"}
             /\ pc'[t] \in {"idle", "latest"} => last'[t].to = 0
             /\ pc'[t] = "events" /\ ~ lost'[t] => last'[t].to = CoveredUpTo'
             /\ pc'[t] \in {"put", "commit"} /\ ~ lost'[t] => Ready(t)'
(* A run that this step leaves alone.                                      *)
<1>2. ASSUME NEW t \in Signer, rows' = rows, pc'[t] = pc[t], last'[t] = last[t],
             signed'[t] = signed[t], lost[t] => lost'[t]
      PROVE  Good(t)
  <2>1. CoveredUpTo' = CoveredUpTo
    BY <1>2 DEF CoveredUpTo
  <2>2. Ready(t) => Ready(t)'
    BY <1>0, <1>2, ReadyKept
  <2> QED
    BY <1>1, <1>2, <2>1, <2>2
<1>3. CASE UNCHANGED <<rows, pc, last, signed, lost, lock>>
  <2>1. \A t \in Signer : Good(t)
    BY <1>2, <1>3
  <2> QED
    BY <1>1, <1>3, <2>1 DEF RunInv
<1>4. ASSUME NEW s \in Signer, Run(s) \/ LoseConnection(s) PROVE RunInv'
  <2>1. /\ \A t \in Signer \ {s} : pc'[t] = pc[t] /\ last'[t] = last[t]
                                   /\ signed'[t] = signed[t] /\ lost'[t] = lost[t]
        /\ DOMAIN last' = Signer
    BY <1>1, <1>4, Others
  <2>2. ASSUME End(s) PROVE pc'[s] = "idle" /\ last'[s] = NoLast
    BY <1>0, <1>1, <2>2 DEF End, Shape
  <2>3. Good(s)
    <3>1. CASE End(s)
      BY <2>2, <3>1 DEF NoLast
    <3>2. CASE TakeLock(s)
      <4>1. pc'[s] = "latest" /\ last'[s].to = last[s].to /\ DOMAIN last'[s] = {"to", "end", "by"}
            /\ pc[s] = "idle"
        BY <1>0, <1>1, <3>2 DEF TakeLock, Shape
      <4> QED
        BY <1>1, <4>1
    <3>3. CASE ReadLatest(s)
      <4>1. pc'[s] = "events" /\ pc[s] = "latest" /\ rows' = rows
            /\ DOMAIN last'[s] = {"to", "end", "by"}
        BY <1>0, <1>1, <3>3 DEF ReadLatest, Shape
      <4>2. last'[s].to = CoveredUpTo
        <5>1. CASE rows = {} /\ last' = last
          <6>1. CoveredUpTo = 0
            BY <5>1, CoveredIs
          <6> QED
            BY <1>1, <4>1, <5>1, <6>1
        <5>2. ASSUME NEW i \in 1 .. Len(log),
                     last' = [last EXCEPT ![s].to = CoveredUpTo, ![s].end = log[i].digest]
              PROVE  last'[s].to = CoveredUpTo
          BY <1>1, <5>2
        <5> QED
          BY <3>3, <5>1, <5>2 DEF ReadLatest
      <4>3. CoveredUpTo' = CoveredUpTo
        BY <4>1 DEF CoveredUpTo
      <4> QED
        BY <4>1, <4>2, <4>3
    <3>4. CASE Sign(s)
      <4>1. pc'[s] = "put" /\ last' = last
        BY <1>0, <3>4 DEF Sign, Shape
      <4>2. Ready(s)'
        BY <1>0, <3>4, SignReady DEF Shape
      <4> QED
        BY <1>1, <4>1, <4>2
    <3>5. CASE Put(s) /\ ~ End(s)
      <4>1. pc'[s] = "commit" /\ pc[s] = "put" /\ UNCHANGED <<lock, last, signed, lost, rows>>
        BY <1>0, <3>5 DEF Put, Shape
      <4>2. Ready(s) => Ready(s)'
        BY <1>0, <4>1, ReadyKept
      <4> QED
        BY <1>1, <4>1, <4>2
    <3>6. CASE LoseConnection(s)
      <4>1. UNCHANGED <<rows, pc, last, signed>> /\ lost'[s]
        BY <1>0, <3>6 DEF LoseConnection, Shape
      <4> QED
        BY <1>2, <4>1
    <3> QED
      BY <1>4, <3>1, <3>2, <3>3, <3>4, <3>5, <3>6 DEF Run, Refuse, Commit, FailStatement
  <2>4. ASSUME NEW t \in Signer \ {s} PROVE Good(t)
    <3>1. CASE rows' = rows
      BY <1>2, <2>1, <2>4, <3>1
    <3>2. ASSUME NEW r \in Signer, Commit(r) PROVE Good(t)
      <4>1. /\ \A u \in Signer : (pc[u] = "idle" \/ lost[u]) \/ u = r
            /\ pc'[r] = "idle" /\ pc[r] = "commit"
        BY <3>2, CommitCovers DEF Commit
      <4>2. r = s
        BY <2>1, <4>1
      <4>3. pc[t] = "idle" \/ lost[t]
        BY <2>4, <4>1, <4>2
      <4> QED
        BY <1>1, <2>1, <2>4, <4>3
    <3> QED
      BY <3>1, <3>2, RowSteps
  <2> QED
    BY <2>1, <2>3, <2>4 DEF RunInv
<1> QED
  BY <1>3, <1>4, RunSteps

LEMMA MissedKept ==
  ASSUME LogInv, Kept, LogInv', NEW n \in Nat, n < nextSeq, NEW cp, Missed(n, cp)
  PROVE  Missed(n, cp)'
<1>1. PICK c : Signs(cp, c) /\ \E j \in 1 .. Len(c) :
        /\ c[j].seq = n
        /\ \/ c[j].body # 0 /\ \A i \in 1 .. Len(log) : log[i].seq = n => log[i].body = 0
           \/ \A i \in 1 .. Len(log) : log[i].seq # n
  BY DEF Missed
<1>2. PICK j \in 1 .. Len(c) :
        /\ c[j].seq = n
        /\ \/ c[j].body # 0 /\ \A i \in 1 .. Len(log) : log[i].seq = n => log[i].body = 0
           \/ \A i \in 1 .. Len(log) : log[i].seq # n
  BY <1>1
<1>3. ASSUME NEW i \in 1 .. Len(log'), log'[i].seq = n
      PROVE  \E k \in 1 .. Len(log) : log[k].seq = n /\ log'[i].body \in {0, log[k].body}
  BY <1>3 DEF Kept
<1>4. \/ c[j].body # 0 /\ \A i \in 1 .. Len(log') : log'[i].seq = n => log'[i].body = 0
      \/ \A i \in 1 .. Len(log') : log'[i].seq # n
  BY <1>2, <1>3
<1> QED
  BY <1>1, <1>2, <1>4 DEF Missed

LEMMA TouchStep ==
  IInv /\ LogInv /\ RowsInv /\ RunInv /\ TouchInv /\ [Next]_vars => TouchInv'
<1> SUFFICES ASSUME IInv, LogInv, RowsInv, RunInv, TouchInv, [Next]_vars,
                    NEW t \in touched', t.signed
             PROVE  \E cp \in rows' : Missed(t.seq, cp)'
  BY DEF TouchInv
<1>0. LogInv' /\ Kept /\ rows \subseteq rows'
  BY LogStep, RowSteps DEF Commit
<1>1. CASE t \in touched
  <2>1. PICK cp \in rows : Missed(t.seq, cp)
    BY <1>1 DEF TouchInv
  <2>2. PICK n : n = t.seq
    OBVIOUS
  <2>3. n \in Nat /\ n < nextSeq
    <3>1. PICK c : Signs(cp, c) /\ \E j \in 1 .. Len(c) : c[j].seq = n
      BY <2>1, <2>2 DEF Missed
    <3>2. n \in Nat /\ n <= cp.to
      BY <3>1, SignsTypes
    <3>3. cp.to \in Nat /\ cp.to <= CoveredUpTo /\ CoveredUpTo \in Nat /\ nextSeq \in Nat
          /\ CoveredUpTo < nextSeq
      BY CoveredIs
    <3> QED
      BY <3>2, <3>3
  <2>4. Missed(n, cp)'
    BY <1>0, <2>1, <2>2, <2>3, MissedKept
  <2> QED
    BY <1>0, <2>2, <2>4
<1>2. CASE t \notin touched
  <2>1. Tamper
    BY <1>2, LogSteps DEF ActCommits
  <2>2. PICK i \in 1 .. Len(log) :
          /\ touched' = touched \cup {[seq |-> log[i].seq, signed |-> log[i].seq <= CoveredUpTo]}
          /\ Erodes(log, log')
          /\ \/ log[i].body # 0 /\ \A j \in 1 .. Len(log') :
                                     log'[j].seq = log[i].seq => log'[j].body = 0
             \/ \A j \in 1 .. Len(log') : log'[j].seq # log[i].seq
    BY <2>1, TamperErodes DEF LogInv
  <2>3. t.seq = log[i].seq /\ log[i].seq <= CoveredUpTo
    <3>1. t = [seq |-> log[i].seq, signed |-> log[i].seq <= CoveredUpTo]
      BY <1>2, <2>2
    <3>2. t.seq = log[i].seq /\ (t.signed <=> log[i].seq <= CoveredUpTo)
      BY <3>1, Zenon
    <3> QED
      BY <3>2
  <2>4. PICK cp \in rows : Attests(cp, log[i])
    BY <2>3 DEF RowsInv
  <2>5. PICK c : Signs(cp, c) /\ \E j \in 1 .. Len(c) :
          c[j].seq = log[i].seq /\ log[i].body \in {0, c[j].body}
    BY <2>4 DEF Attests
  <2>6. PICK n : n = log[i].seq
    OBVIOUS
  <2>7. \E j \in 1 .. Len(c) :
          /\ c[j].seq = n
          /\ \/ c[j].body # 0 /\ \A k \in 1 .. Len(log') : log'[k].seq = n => log'[k].body = 0
             \/ \A k \in 1 .. Len(log') : log'[k].seq # n
    BY <2>2, <2>5, <2>6
  <2>8. Missed(n, cp)'
    BY <2>5, <2>7 DEF Missed
  <2> QED
    BY <1>0, <2>3, <2>4, <2>6, <2>8
<1> QED
  BY <1>1, <1>2

LEMMA SeenSteps ==
  ASSUME [Next]_vars
  PROVE  seen' \in {seen, {}} \/ (seen' = {log} /\ log' = log)
BY DEF Next, vars, ActCommits, ActRollsBack, Rotate, Tamper, Run, TakeLock, ReadLatest, Sign,
  Refuse, Put, Commit, LoseConnection, FailStatement, VerifyReadsEvents, VerifyReadsCheckpoints,
  world

LEMMA ChainOfAppend ==
  ASSUME NEW l \in Seq(Event), NEW e \in Event, NEW g, ChainOK(l, g),
         e.prev = IF l = << >> THEN g ELSE l[Len(l)].digest, e.digest = Append(e.prev, e.body)
  PROVE  ChainOK(Append(l, e), g)
<1>1. PICK m : m = Append(l, e)
  OBVIOUS
<1>2. /\ Len(l) \in Nat /\ Len(m) = Len(l) + 1 /\ m[Len(l) + 1] = e
      /\ \A i \in 1 .. Len(l) : m[i] = l[i]
  BY <1>1
<1>3. ASSUME NEW i \in 1 .. Len(m)
      PROVE  /\ m[i].prev = IF i = 1 THEN g ELSE m[i - 1].digest
             /\ m[i].digest = Append(m[i].prev, m[i].body)
  <2>1. CASE i \in 1 .. Len(l)
    <3>1. l[i].prev = (IF i = 1 THEN g ELSE l[i - 1].digest)
          /\ l[i].digest = Append(l[i].prev, l[i].body)
      BY <2>1 DEF ChainOK
    <3>2. i # 1 => i - 1 \in 1 .. Len(l)
      BY <1>2, <2>1
    <3> QED
      BY <1>2, <2>1, <3>1, <3>2
  <2>2. CASE i = Len(l) + 1
    <3>1. CASE l = << >>
      BY <1>2, <2>2, <3>1
    <3>2. CASE l # << >>
      <4>1. Len(l) \in 1 .. Len(l) /\ i # 1 /\ i - 1 = Len(l)
        BY <1>2, <2>2, <3>2
      <4> QED
        BY <1>2, <2>2, <3>2, <4>1
    <3> QED
      BY <3>1, <3>2
  <2> QED
    BY <1>2, <2>1, <2>2
<1> QED
  BY <1>1, <1>3 DEF ChainOK

(* With nobody rewriting it, a step leaves the log or appends to it.       *)
LEMMA CleanStep ==
  IInv /\ LogInv /\ RowsInv /\ RunInv /\ CleanInv /\ [Next]_vars => CleanInv'
<1> SUFFICES ASSUME IInv, LogInv, RowsInv, RunInv, CleanInv, [Next]_vars, touched' = {}
             PROVE  /\ ChainOK(log, Genesis)'
                    /\ \A cp \in rows' : Whole(cp, log')
                    /\ \A s \in Signer : pc'[s] \in {"put", "commit"} /\ ~ lost'[s] =>
                         Whole(signed'[s], log')
                    /\ \A events \in seen' : \E n \in 0 .. Len(log') :
                         events = SubSeq(log', 1, n)
  BY DEF CleanInv
<1>0. Shape /\ Shape' /\ log \in Seq(Event) /\ Len(log) \in Nat
  BY NextOK DEF IInv, LogInv
<1>1. ~ Tamper
  BY DEF Tamper
<1>2. touched = {}
  BY <1>1, LogSteps DEF ActCommits
<1>3. /\ ChainOK(log, Genesis)
      /\ \A cp \in rows : Whole(cp, log)
      /\ \A s \in Signer : pc[s] \in {"put", "commit"} /\ ~ lost[s] => Whole(signed[s], log)
      /\ \A events \in seen : \E n \in 0 .. Len(log) : events = SubSeq(log, 1, n)
  BY <1>2 DEF CleanInv
<1>4. CASE ActCommits
  <2>1. PICK e \in Event :
          /\ log' = Append(log, e)
          /\ e.prev = IF log = << >> THEN Genesis ELSE log[Len(log)].digest
          /\ e.digest = Append(e.prev, e.body)
          /\ UNCHANGED <<rows, lock, pc, last, signed, lost, seen, touched>>
    BY <1>4, ActAppends
  <2>2. ChainOK(log', Genesis)
    BY <1>0, <1>3, <2>1, ChainOfAppend
  <2>3. ChainOK(log, Genesis)'
    BY <2>2 DEF ChainOK, Genesis
  <2>4. \A cp : Whole(cp, log) => Whole(cp, log')
    BY <1>0, <2>1, WholeOfAppend
  <2>5. ASSUME NEW events \in seen
        PROVE  \E n \in 0 .. Len(log') : events = SubSeq(log', 1, n)
    <3>1. PICK n \in 0 .. Len(log) : events = SubSeq(log, 1, n)
      BY <1>3
    <3>2. SubSeq(log', 1, n) = SubSeq(log, 1, n)
      BY <1>0, <2>1, PieceOfAppend
    <3>3. n \in 0 .. Len(log')
      BY <1>0, <2>1
    <3> QED
      BY <3>1, <3>2, <3>3
  <2> QED
    BY <1>3, <2>1, <2>3, <2>4, <2>5
<1>5. CASE log' = log
  <2>1. ChainOK(log, Genesis)'
    BY <1>3, <1>5 DEF ChainOK, Genesis
  <2>2. \A cp \in rows' : Whole(cp, log')
    <3>1. ASSUME NEW s \in Signer, Commit(s) PROVE Whole(signed[s], log)
      BY <1>3, <3>1 DEF Commit
    <3> QED
      BY <1>3, <1>5, <3>1, RowSteps DEF Commit
  <2>3. ASSUME NEW s \in Signer, pc'[s] \in {"put", "commit"}, ~ lost'[s]
        PROVE  Whole(signed'[s], log)
    <3>1. CASE Sign(s)
      BY <1>0, <1>2, <3>1, SignReady DEF Shape
    <3>2. ASSUME ~ Sign(s)
          PROVE  pc[s] \in {"put", "commit"} /\ ~ lost[s] /\ signed'[s] = signed[s]
      <4>1. CASE UNCHANGED <<rows, pc, last, signed, lost, lock>>
        BY <2>3, <4>1
      <4>2. ASSUME NEW r \in Signer, Run(r) \/ LoseConnection(r), r # s
            PROVE  pc[s] \in {"put", "commit"} /\ ~ lost[s] /\ signed'[s] = signed[s]
        <5>1. pc'[s] = pc[s] /\ signed'[s] = signed[s] /\ lost'[s] = lost[s]
          BY <4>2, Others
        <5> QED
          BY <2>3, <5>1
      <4>3. CASE Run(s) \/ LoseConnection(s)
        <5>1. ~ End(s)
          BY <1>0, <2>3 DEF End, Shape
        <5>2. ~ TakeLock(s) /\ ~ ReadLatest(s) /\ ~ LoseConnection(s)
          BY <1>0, <2>3 DEF TakeLock, ReadLatest, LoseConnection, Shape
        <5>3. Put(s)
          BY <3>2, <4>3, <5>1, <5>2 DEF Run, Refuse, Commit, FailStatement
        <5>4. pc[s] = "put" /\ UNCHANGED <<lock, last, signed, lost>>
          BY <5>1, <5>3 DEF Put
        <5> QED
          BY <2>3, <5>4
      <4> QED
        BY <4>1, <4>2, <4>3, RunSteps
    <3> QED
      BY <1>3, <3>1, <3>2
  <2>4. \A events \in seen' : \E n \in 0 .. Len(log') : events = SubSeq(log', 1, n)
    <3>1. log = SubSeq(log, 1, Len(log))
      BY <1>0
    <3>2. Len(log) \in 0 .. Len(log)
      BY <1>0
    <3> QED
      BY <1>3, <1>5, <3>1, <3>2, SeenSteps
  <2> QED
    BY <1>5, <2>1, <2>2, <2>3, <2>4
<1> QED
  BY <1>1, <1>4, <1>5, LogSteps

(* Types, the last row's end, what every row and every run has signed, what*)
(* was rewritten, and what is left untouched.                              *)
THEOREM LedgerInvariance == Spec => []LedgerInv
<1>1. Init => LedgerInv
  <2> SUFFICES ASSUME Init PROVE LedgerInv
    OBVIOUS
  <2> USE DEF Init
  <2>1. LogInv
    BY SignerAssumption DEF LogInv, Sorted
  <2>2. RowsInv
    <3>1. Covered(0) /\ 0 \in 0 .. nextSeq - 1
      BY DEF Covered
    <3> QED
      BY <3>1 DEF RowsInv
  <2>3. RunInv
    BY DEF RunInv, NoLast
  <2>4. TouchInv /\ CleanInv
    BY DEF TouchInv, CleanInv, ChainOK
  <2> QED
    BY <2>1, <2>2, <2>3, <2>4 DEF LedgerInv
<1>2. IInv /\ LedgerInv /\ [Next]_vars => LedgerInv'
  BY LogStep, RowsStep, RunStep, TouchStep, CleanStep DEF LedgerInv
<1> QED
  BY <1>1, <1>2, Invariance, PTL DEF Spec

-----------------------------------------------------------------------------
(* What the invariant gives an operator and an auditor.                    *)

(* One run at a time holds the lock, and the variables keep their types.   *)
THEOREM TypeCorrectness == Spec => []TypeOK
<1> DEFINE Lock == lock \in Signer \cup {NoOne}
<1>1. Init => Lock
  BY DEF Init
<1>2. Lock /\ [Next]_vars => Lock'
  BY DEF Next, vars, ActCommits, ActRollsBack, Rotate, Tamper, Run, TakeLock, ReadLatest, Sign,
    Refuse, Put, Commit, End, LoseConnection, FailStatement, VerifyReadsEvents,
    VerifyReadsCheckpoints
<1>3. Lock /\ IInv /\ LedgerInv => TypeOK
  <2> SUFFICES ASSUME Lock, IInv, LedgerInv PROVE TypeOK
    OBVIOUS
  <2>1. nextSeq \in 1 .. MaxSeq + 1 /\ MaxSeq \in Nat
        /\ \A i \in 1 .. Len(log) : log[i].seq \in 1 .. nextSeq - 1 /\ log[i].body \in 0 .. MaxSeq
    BY SignerAssumption DEF LedgerInv, LogInv
  <2>2. \A i \in 1 .. Len(log) : log[i].seq \in 1 .. MaxSeq
    BY <2>1
  <2> QED
    BY <2>1, <2>2 DEF TypeOK, IInv, Shape, Alone, Pc
<1> HIDE DEF Lock
<1>4. Spec => []Lock
  BY <1>1, <1>2, PTL DEF Spec
<1> QED
  BY <1>3, <1>4, Invariance, LedgerInvariance, PTL

(* Two runs never sign the same history, and none of it is left out.       *)
THEOREM RangesTile == Spec => []RangesTileTheLog
<1>1. LedgerInv => RangesTileTheLog
  <2> SUFFICES ASSUME LedgerInv PROVE RangesTileTheLog
    OBVIOUS
  <2>1. \A cp \in rows, i \in 1 .. Len(log) : Attests(cp, log[i]) =>
          cp.from <= log[i].seq /\ log[i].seq <= cp.to
    BY AttestsRange
  <2> QED
    BY <2>1 DEF LedgerInv, RowsInv, RangesTileTheLog
<1> QED
  BY <1>1, LedgerInvariance, PTL

(* The events an audit read, against the rows it read later.               *)
LEMMA CleanFindings ==
  ASSUME LedgerInv, touched = {}, NEW events \in seen, NEW f \in Findings(events, rows)
  PROVE  f.kind \in {"missing_events", "root_mismatch"} /\ f.to > UpTo(events)
<1>1. /\ log \in Seq(Event) /\ Sorted(log) /\ Len(log) \in Nat
      /\ \A i \in 1 .. Len(log) : log[i] \in Event /\ log[i].seq \in Nat
  BY LogTypes DEF LedgerInv, LogInv
<1>2. /\ ChainOK(log, Genesis)
      /\ \A cp \in rows : Whole(cp, log)
      /\ \E n \in 0 .. Len(log) : events = SubSeq(log, 1, n)
  BY DEF LedgerInv, CleanInv
<1>3. PICK n \in 0 .. Len(log) : events = SubSeq(log, 1, n)
  BY <1>2
<1>4. /\ events \in Seq(Event) /\ Sorted(events) /\ Len(events) = n
      /\ \A i \in 1 .. n : events[i] = log[i]
  <2>1. 1 \in 1 .. Len(log) + 1
    BY <1>1
  <2> QED
    BY <1>1, <1>3, <2>1, Piece
<1>5. /\ CoveredUpTo \in Nat
      /\ \A cp \in rows : /\ cp.from \in Nat /\ cp.to \in Nat /\ 1 <= cp.from
                          /\ cp.from <= cp.to /\ cp.to <= CoveredUpTo
  BY CoveredIs DEF LedgerInv
<1>6. /\ \A a, b \in rows : a = b \/ a.to < b.from \/ b.to < a.from
      /\ \A i \in 1 .. Len(log) : log[i].seq <= CoveredUpTo =>
           \E cp \in rows : Attests(cp, log[i])
  BY DEF LedgerInv, RowsInv
<1>7. ChainOK(events, Genesis)
  BY <1>1, <1>2, <1>3, <1>4 DEF ChainOK
<1>8. PICK cp \in rows : cp.to = f.to /\ Reports(f.kind, events, rows, cp) /\ f.kind \in Kind
  BY <1>7 DEF Findings
<1>9. PICK before : before = CoveredBefore(rows, cp)
  OBVIOUS
<1>10. /\ before \in {0} \cup {q.to : q \in {x \in rows : x.from < cp.from}}
       /\ \A q \in rows : q.from < cp.from => q.to <= before
  <2> DEFINE S == {0} \cup {q.to : q \in {x \in rows : x.from < cp.from}}
  <2>1. S \in SUBSET Nat /\ \A x \in S : x <= CoveredUpTo
    BY <1>5
  <2>2. 0 \in S /\ \A q \in rows : q.from < cp.from => q.to \in S
    OBVIOUS
  <2>3. before = Max(S)
    BY <1>9 DEF CoveredBefore
  <2> HIDE DEF S
  <2>4. \E m \in S : \A x \in S : x <= m
    BY <1>5, <2>1, <2>2, Greatest
  <2>5. Max(S) \in S /\ \A x \in S : x <= Max(S)
    <3>1. PICK m \in S : \A x \in S : x <= m
      BY <2>4
    <3>2. Max(S) = m
      BY <2>1, <3>1, MaxIs
    <3> QED
      BY <3>1, <3>2
  <2>6. before \in S /\ \A q \in rows : q.from < cp.from => q.to <= before
    BY <2>2, <2>3, <2>5
  <2> QED
    BY <2>6 DEF S
(* Nothing lies between the ranges.                                        *)
<1>11. f.kind # "gap"
  <2>1. ASSUME NEW i \in 1 .. Len(events), before < events[i].seq, events[i].seq < cp.from
        PROVE  FALSE
    <3>1. i \in 1 .. Len(log) /\ events[i] = log[i] /\ log[i].seq \in Nat
      BY <1>1, <1>3, <1>4
    <3>2. log[i].seq <= CoveredUpTo
      BY <1>5, <2>1, <3>1
    <3>3. PICK q \in rows : Attests(q, log[i])
      BY <1>6, <3>1, <3>2
    <3>4. q.from <= log[i].seq /\ log[i].seq <= q.to /\ q.from \in Nat /\ q.to \in Nat
      BY <3>3, AttestsRange
    <3>5. q.from < cp.from
      BY <1>5, <2>1, <3>1, <3>4
    <3>6. q.to <= before /\ before \in Nat
      BY <1>5, <1>10, <3>5
    <3> QED
      BY <2>1, <3>1, <3>4, <3>6
  <2> QED
    BY <1>8, <1>9, <2>1 DEF Reports
(* The ranges have nothing in common.                                      *)
<1>12. f.kind # "overlap"
  <2>1. ~ (cp.from <= before)
    <3>1. CASE before = 0
      BY <1>5, <3>1
    <3>2. ASSUME NEW q \in rows, q.from < cp.from, before = q.to PROVE ~ (cp.from <= before)
      BY <1>5, <1>6, <3>2
    <3> QED
      BY <1>10, <3>1, <3>2
  <2>2. ~ \E q \in rows \ {cp} : q.from = cp.from
    <3>1. \A q \in rows \ {cp} : q.to < cp.from \/ cp.to < q.from
      BY <1>6
    <3> QED
      BY <1>5, <3>1
  <2> QED
    BY <1>8, <1>9, <2>1, <2>2 DEF Reports
(* The events of a range that was read whole are the ones that were signed.*)
<1>13. f.to > UpTo(events)
  <2>1. ASSUME ~ (cp.to > UpTo(events)) PROVE FALSE
    <3>1. PICK a \in 1 .. Len(log) : \E b \in a .. Len(log) : Signs(cp, SubSeq(log, a, b))
      BY <1>2 DEF Whole
    <3>2. PICK b \in a .. Len(log) : Signs(cp, SubSeq(log, a, b))
      BY <3>1
    <3>3. a \in Nat /\ b \in Nat /\ 1 <= a /\ a <= b /\ b <= Len(log)
      BY <1>1
    <3>4. Len(SubSeq(log, a, b)) = b - a + 1 /\ SubSeq(log, a, b)[1] = log[a]
          /\ SubSeq(log, a, b)[b - a + 1] = log[b]
      BY <1>1, <3>3
    <3>5. cp.from = log[a].seq /\ cp.to = log[b].seq
      BY <3>2, <3>4 DEF Signs
    <3>6. b <= n
      <4>1. CASE events = << >>
        BY <1>5, <2>1, <4>1 DEF UpTo
      <4>2. CASE events # << >>
        <5>1. n \in 1 .. Len(log)
          BY <1>1, <1>3, <1>4, <4>2
        <5>2. UpTo(events) = log[n].seq
          BY <1>4, <4>2, <5>1 DEF UpTo, Last
        <5>3. log[b].seq <= log[n].seq /\ b \in 1 .. Len(log)
          BY <1>1, <2>1, <3>3, <3>5, <5>1, <5>2
        <5> QED
          BY <1>1, <3>3, <5>1, <5>3 DEF Sorted
      <4> QED
        BY <4>1, <4>2
    <3>7. a \in 1 .. Len(events) /\ b \in a .. Len(events) /\ events[a] = log[a] /\ events[b] = log[b]
      BY <1>3, <1>4, <3>3, <3>6
    <3>8. InRange(events, cp) = SubSeq(events, a, b)
      BY <1>4, <3>5, <3>7, RangeIs
    <3>9. SubSeq(events, a, b) = SubSeq(log, a, b)
      <4>1. SubSeq(events, a, b) \in Seq(Event) /\ SubSeq(log, a, b) \in Seq(Event)
        <5>1. a \in 1 .. Len(events) + 1 /\ b \in 0 .. Len(events)
          BY <1>4, <3>3, <3>7
        <5>2. a \in 1 .. Len(log) + 1 /\ b \in 0 .. Len(log)
          BY <1>1, <3>3
        <5> QED
          BY <1>1, <1>4, <5>1, <5>2, Piece
      <4>2. Len(SubSeq(events, a, b)) = b - a + 1
            /\ \A i \in 1 .. b - a + 1 : SubSeq(events, a, b)[i] = events[a + i - 1]
        BY <1>4, <3>3, <3>6, <3>7
      <4>3. \A i \in 1 .. b - a + 1 : SubSeq(log, a, b)[i] = log[a + i - 1]
        BY <1>1, <3>3
      <4>4. \A i \in 1 .. b - a + 1 : events[a + i - 1] = log[a + i - 1]
        BY <1>4, <3>3, <3>6
      <4>5. Len(SubSeq(events, a, b)) = Len(SubSeq(log, a, b))
            /\ \A i \in 1 .. Len(SubSeq(events, a, b)) : SubSeq(events, a, b)[i] = SubSeq(log, a, b)[i]
        BY <3>4, <4>2, <4>3, <4>4
      <4> QED
        BY <4>1, <4>5, SeqEqual
    <3>10. Len(InRange(events, cp)) = cp.count /\ merkleRoot(Leaves(InRange(events, cp))) = cp.root
      BY <3>2, <3>8, <3>9 DEF Signs
    <3> QED
      BY <1>8, <1>11, <1>12, <3>10 DEF Reports, Kind
  <2> QED
    BY <1>8, <2>1
<1> QED
  BY <1>8, <1>11, <1>12, <1>13 DEF Reports, Kind

(* The daily verification of a ledger that nobody rewrote raises no alarm, *)
(* except about a checkpoint signed between its two reads.                 *)
THEOREM CleanVerifies == Spec => []CleanLedgerVerifies
<1>1. LedgerInv => CleanLedgerVerifies
  BY CleanFindings DEF CleanLedgerVerifies
<1> QED
  BY <1>1, LedgerInvariance, PTL

-----------------------------------------------------------------------------
(* The Merkle tree: its levels, its proofs, and what its root determines.  *)

LEMMA Induct ==
  ASSUME NEW S \in SUBSET Nat, 0 \in S, \A k \in S : k + 1 \in S
  PROVE  \A k \in Nat : k \in S
<1>1. ASSUME Nat \ S # {} PROVE FALSE
  <2>1. PICK x \in Nat \ S : \A y \in Nat \ S : x <= y
    BY <1>1, Least
  <2>2. x # 0 /\ x - 1 \in Nat
    BY <2>1
  <2>3. x - 1 \in S
    BY <2>1, <2>2
  <2>4. (x - 1) + 1 \in S /\ (x - 1) + 1 = x
    BY <2>1, <2>3
  <2> QED
    BY <2>1, <2>4
<1> QED
  BY <1>1

(* A level of a tree is a sequence, of whatever hashes.                    *)
IsLevel(l) == \E S : l \in Seq(S)

LEMMA AboveIs ==
  ASSUME NEW l, IsLevel(l)
  PROVE  /\ Len(l) \in Nat /\ DOMAIN l = 1 .. Len(l)
         /\ IsLevel(Above(l)) /\ Len(Above(l)) = (Len(l) + 1) \div 2
         /\ DOMAIN Above(l) = 1 .. Len(Above(l))
         /\ \A i \in 1 .. Len(Above(l)) :
              Above(l)[i] = IF 2 * i <= Len(l) THEN nodeHash(l[2 * i - 1], l[2 * i])
                                               ELSE l[2 * i - 1]
<1>1. PICK S : l \in Seq(S)
  BY DEF IsLevel
<1>2. Len(l) \in Nat /\ DOMAIN l = 1 .. Len(l)
  BY <1>1
<1>3. PICK n : n = (Len(l) + 1) \div 2
  OBVIOUS
<1>4. n \in Nat
  BY <1>2, <1>3
<1>5. Above(l) = [i \in 1 .. n |-> IF 2 * i <= Len(l) THEN nodeHash(l[2 * i - 1], l[2 * i])
                                                      ELSE l[2 * i - 1]]
  BY <1>3 DEF Above
<1>6. PICK T : T = {Above(l)[i] : i \in 1 .. n}
  OBVIOUS
<1>7. DOMAIN Above(l) = 1 .. n /\ \A i \in 1 .. n : Above(l)[i] \in T
  BY <1>5, <1>6
<1>8. Above(l) \in [1 .. n -> T]
  BY <1>5, <1>7
<1>9. Above(l) \in Seq(T) /\ Len(Above(l)) = n
  BY <1>4, <1>8
<1> QED
  BY <1>2, <1>3, <1>5, <1>7, <1>9 DEF IsLevel

(* The levels exist: each is what is above the one before.                 *)
LEMMA LevelsAre ==
  ASSUME NEW l, IsLevel(l)
  PROVE  /\ Levels(l)[0] = l
         /\ \A k \in 1 .. Len(l) : Levels(l)[k] = Above(Levels(l)[k - 1])
<1> DEFINE Is(g, m) == g = [k \in 0 .. m |-> IF k = 0 THEN l ELSE Above(g[k - 1])]
           S == {m \in Nat : \E g : Is(g, m)}
<1>1. 0 \in S
  <2>1. PICK g : g = [k \in 0 .. 0 |-> l]
    OBVIOUS
  <2>2. Is(g, 0)
    BY <2>1
  <2> QED
    BY <2>2
<1>2. ASSUME NEW m \in S PROVE m + 1 \in S
  <2>1. m \in Nat
    BY <1>2
  <2>2. PICK g : Is(g, m)
    BY <1>2
  <2>3. PICK h : h = [k \in 0 .. m + 1 |-> IF k <= m THEN g[k] ELSE Above(g[m])]
    OBVIOUS
  <2>4. \A k \in 0 .. m : g[k] = IF k = 0 THEN l ELSE Above(g[k - 1])
    BY <2>2
  <2>5. ASSUME NEW k \in 0 .. m + 1 PROVE h[k] = IF k = 0 THEN l ELSE Above(h[k - 1])
    <3>1. CASE k <= m
      <4>1. k \in 0 .. m /\ h[k] = g[k]
        BY <2>1, <2>3, <3>1
      <4>2. k # 0 => h[k - 1] = g[k - 1]
        BY <2>1, <2>3, <3>1
      <4> QED
        BY <2>4, <4>1, <4>2
    <3>2. CASE k = m + 1
      <4>1. k # 0 /\ ~ (k <= m) /\ k - 1 = m /\ m \in 0 .. m + 1 /\ m <= m
        BY <2>1, <3>2
      <4>2. h[k] = Above(g[m]) /\ h[m] = g[m]
        BY <2>3, <4>1
      <4> QED
        BY <4>1, <4>2
    <3> QED
      BY <2>1, <3>1, <3>2
  <2>6. Is(h, m + 1)
    BY <2>3, <2>5
  <2> QED
    BY <2>1, <2>6
<1>3. Len(l) \in S
  <2>1. S \in SUBSET Nat /\ Len(l) \in Nat
    BY AboveIs
  <2> HIDE DEF S
  <2> QED
    BY <1>1, <1>2, <2>1, Induct
<1>4. Is(Levels(l), Len(l))
  <2>1. \E g : g = [k \in 0 .. Len(l) |-> IF k = 0 THEN l ELSE Above(g[k - 1])]
    BY <1>3
  <2>2. Levels(l) = CHOOSE g : g = [k \in 0 .. Len(l) |-> IF k = 0 THEN l ELSE Above(g[k - 1])]
    BY DEF Levels
  <2> QED
    BY <2>1, <2>2
<1>5. Len(l) \in Nat
  BY AboveIs
<1>6. \A k \in 0 .. Len(l) : Levels(l)[k] = IF k = 0 THEN l ELSE Above(Levels(l)[k - 1])
  BY <1>4
<1> QED
  BY <1>5, <1>6

(* Every level is shorter than the one before, down to the root.           *)
LEMMA LevelLengths ==
  ASSUME NEW l, IsLevel(l), Len(l) >= 1
  PROVE  /\ \A k \in 0 .. Len(l) :
              /\ IsLevel(Levels(l)[k])
              /\ Len(Levels(l)[k]) \in Nat \ {0}
              /\ Len(Levels(l)[k]) = 1 \/ Len(Levels(l)[k]) + k <= Len(l)
         /\ Len(Levels(l)[Len(l)]) = 1
<1> DEFINE Good(k) ==
             /\ IsLevel(Levels(l)[k])
             /\ Len(Levels(l)[k]) \in Nat \ {0}
             /\ Len(Levels(l)[k]) = 1 \/ Len(Levels(l)[k]) + k <= Len(l)
           S == {k \in Nat : k <= Len(l) => Good(k)}
<1>1. Len(l) \in Nat
  BY AboveIs
<1>2. 0 \in S
  BY <1>1, LevelsAre
<1>3. ASSUME NEW k \in S PROVE k + 1 \in S
  <2>1. ASSUME k + 1 <= Len(l) PROVE Good(k + 1)
    <3>1. k \in Nat /\ k + 1 \in 1 .. Len(l) /\ (k + 1) - 1 = k /\ k <= Len(l)
      BY <1>1, <1>3, <2>1
    <3>2. Levels(l)[k + 1] = Above(Levels(l)[k])
      BY <3>1, LevelsAre
    <3>3. Good(k)
      BY <1>3, <3>1
    <3>4. PICK a : a = Levels(l)[k]
      OBVIOUS
    <3>5. IsLevel(a) /\ Len(a) \in Nat \ {0} /\ (Len(a) = 1 \/ Len(a) + k <= Len(l))
      BY <3>3, <3>4
    <3>6. IsLevel(Above(a)) /\ Len(Above(a)) = (Len(a) + 1) \div 2
      BY <3>5, AboveIs
    <3>7. Len(Above(a)) \in Nat \ {0} /\ (Len(Above(a)) = 1 \/ Len(Above(a)) + (k + 1) <= Len(l))
      <4>1. PICK n, b : n = Len(a) /\ b = (n + 1) \div 2
        OBVIOUS
      <4>2. n \in Nat \ {0} /\ b \in Nat /\ 2 * b <= n + 1 /\ n <= 2 * b
        BY <3>5, <4>1
      <4>3. b # 0 /\ (b = 1 \/ b + 1 <= n)
        BY <4>2
      <4>4. n = 1 => b = 1
        BY <4>2
      <4>5. n # 1 => n + k <= Len(l)
        BY <3>5, <4>1
      <4>6. b = 1 \/ b + (k + 1) <= Len(l)
        BY <1>1, <3>1, <4>2, <4>3, <4>4, <4>5
      <4> QED
        BY <3>6, <4>1, <4>2, <4>3, <4>6
    <3> QED
      BY <3>2, <3>4, <3>6, <3>7
  <2>2. k + 1 \in Nat
    BY <1>3
  <2> HIDE DEF Good
  <2> QED
    BY <2>1, <2>2
<1>4. \A k \in 0 .. Len(l) : Good(k)
  <2> HIDE DEF Good
  <2>1. S \in SUBSET Nat
    OBVIOUS
  <2>2. \A k \in Nat : k \in S
    <3> HIDE DEF S
    <3> QED
      BY <1>2, <1>3, <2>1, Induct
  <2> QED
    BY <1>1, <2>2
<1>5. Len(l) \in 0 .. Len(l)
  BY <1>1
<1>6. Good(Len(l))
  BY <1>4, <1>5
<1>7. Len(Levels(l)[Len(l)]) = 1
  BY <1>1, <1>6
<1> QED
  BY <1>4, <1>7

(* The walk from a leaf exists: a level, an index and a path at a time.    *)
LEMMA WalkIs ==
  ASSUME NEW l, IsLevel(l), NEW i
  PROVE  /\ Walk(l, i)[0] = [level |-> l, at |-> i, path |-> << >>]
         /\ \A k \in 1 .. Len(l) : Walk(l, i)[k] = Rise(Walk(l, i)[k - 1])
<1> DEFINE W0 == [level |-> l, at |-> i, path |-> << >>]
           Is(g, m) == g = [k \in 0 .. m |-> IF k = 0 THEN W0 ELSE Rise(g[k - 1])]
           S == {m \in Nat : \E g : Is(g, m)}
<1> HIDE DEF W0
<1>1. 0 \in S
  <2>1. PICK g : g = [k \in 0 .. 0 |-> W0]
    OBVIOUS
  <2>2. Is(g, 0)
    BY <2>1
  <2> QED
    BY <2>2
<1>2. ASSUME NEW m \in S PROVE m + 1 \in S
  <2>1. m \in Nat
    BY <1>2
  <2>2. PICK g : Is(g, m)
    BY <1>2
  <2>3. PICK h : h = [k \in 0 .. m + 1 |-> IF k <= m THEN g[k] ELSE Rise(g[m])]
    OBVIOUS
  <2>4. \A k \in 0 .. m : g[k] = IF k = 0 THEN W0 ELSE Rise(g[k - 1])
    BY <2>2
  <2>5. ASSUME NEW k \in 0 .. m + 1 PROVE h[k] = IF k = 0 THEN W0 ELSE Rise(h[k - 1])
    <3>1. CASE k <= m
      <4>1. k \in 0 .. m /\ h[k] = g[k]
        BY <2>1, <2>3, <3>1
      <4>2. k # 0 => h[k - 1] = g[k - 1]
        BY <2>1, <2>3, <3>1
      <4> QED
        BY <2>4, <4>1, <4>2
    <3>2. CASE k = m + 1
      <4>1. k # 0 /\ ~ (k <= m) /\ k - 1 = m /\ m \in 0 .. m + 1 /\ m <= m
        BY <2>1, <3>2
      <4>2. h[k] = Rise(g[m]) /\ h[m] = g[m]
        BY <2>3, <4>1
      <4> QED
        BY <4>1, <4>2
    <3> QED
      BY <2>1, <3>1, <3>2
  <2>6. Is(h, m + 1)
    BY <2>3, <2>5
  <2> QED
    BY <2>1, <2>6
<1>3. Len(l) \in S
  <2>1. S \in SUBSET Nat /\ Len(l) \in Nat
    BY AboveIs
  <2> HIDE DEF S
  <2> QED
    BY <1>1, <1>2, <2>1, Induct
<1>4. Is(Walk(l, i), Len(l))
  <2>1. \E g : g = [k \in 0 .. Len(l) |-> IF k = 0 THEN W0 ELSE Rise(g[k - 1])]
    BY <1>3
  <2>2. Walk(l, i) = CHOOSE g : g = [k \in 0 .. Len(l) |-> IF k = 0 THEN W0 ELSE Rise(g[k - 1])]
    BY DEF Walk, W0
  <2> QED
    BY <2>1, <2>2
<1>5. Len(l) \in Nat
  BY AboveIs
<1>6. \A k \in 0 .. Len(l) : Walk(l, i)[k] = IF k = 0 THEN W0 ELSE Rise(Walk(l, i)[k - 1])
  BY <1>4
<1>7. Walk(l, i)[0] = W0
  BY <1>5, <1>6
<1>8. \A k \in 1 .. Len(l) : Walk(l, i)[k] = Rise(Walk(l, i)[k - 1])
  BY <1>5, <1>6
<1> QED
  BY <1>7, <1>8 DEF W0

LEMMA ClimbIs ==
  ASSUME NEW x, NEW p, Len(p) \in Nat
  PROVE  /\ Climb(x, p)[0] = x
         /\ \A k \in 1 .. Len(p) : Climb(x, p)[k] = Join(p[k], Climb(x, p)[k - 1])
<1> DEFINE Is(g, m) == g = [k \in 0 .. m |-> IF k = 0 THEN x ELSE Join(p[k], g[k - 1])]
           S == {m \in Nat : \E g : Is(g, m)}
<1>1. 0 \in S
  <2>1. PICK g : g = [k \in 0 .. 0 |-> x]
    OBVIOUS
  <2>2. Is(g, 0)
    BY <2>1
  <2> QED
    BY <2>2
<1>2. ASSUME NEW m \in S PROVE m + 1 \in S
  <2>1. m \in Nat
    BY <1>2
  <2>2. PICK g : Is(g, m)
    BY <1>2
  <2>3. PICK h : h = [k \in 0 .. m + 1 |-> IF k <= m THEN g[k] ELSE Join(p[k], g[m])]
    OBVIOUS
  <2>4. \A k \in 0 .. m : g[k] = IF k = 0 THEN x ELSE Join(p[k], g[k - 1])
    BY <2>2
  <2>5. ASSUME NEW k \in 0 .. m + 1 PROVE h[k] = IF k = 0 THEN x ELSE Join(p[k], h[k - 1])
    <3>1. CASE k <= m
      <4>1. k \in 0 .. m /\ h[k] = g[k]
        BY <2>1, <2>3, <3>1
      <4>2. k # 0 => h[k - 1] = g[k - 1]
        BY <2>1, <2>3, <3>1
      <4> QED
        BY <2>4, <4>1, <4>2
    <3>2. CASE k = m + 1
      <4>1. k # 0 /\ ~ (k <= m) /\ k - 1 = m /\ m \in 0 .. m + 1 /\ m <= m
        BY <2>1, <3>2
      <4>2. h[k] = Join(p[k], g[m]) /\ h[m] = g[m]
        BY <2>3, <4>1
      <4> QED
        BY <4>1, <4>2
    <3> QED
      BY <2>1, <3>1, <3>2
  <2>6. Is(h, m + 1)
    BY <2>3, <2>5
  <2> HIDE DEF Is
  <2> QED
    BY <2>1, <2>6
<1>3. Len(p) \in S
  <2>1. S \in SUBSET Nat
    OBVIOUS
  <2> HIDE DEF S
  <2> QED
    BY <1>1, <1>2, <2>1, Induct
<1>4. Is(Climb(x, p), Len(p))
  <2>1. \E g : g = [k \in 0 .. Len(p) |-> IF k = 0 THEN x ELSE Join(p[k], g[k - 1])]
    BY <1>3
  <2>2. Climb(x, p) = CHOOSE g : g = [k \in 0 .. Len(p) |-> IF k = 0 THEN x ELSE Join(p[k], g[k - 1])]
    BY DEF Climb
  <2> QED
    BY <2>1, <2>2
<1>5. \A k \in 0 .. Len(p) : Climb(x, p)[k] = IF k = 0 THEN x ELSE Join(p[k], Climb(x, p)[k - 1])
  BY <1>4
<1> QED
  BY <1>5

(* A proof with one more step climbs one node further.                     *)
LEMMA ClimbAppends ==
  ASSUME NEW x, NEW S, NEW p \in Seq(S), NEW s \in S
  PROVE  Climb(x, Append(p, s))[Len(p) + 1] = Join(s, Climb(x, p)[Len(p)])
<1>1. PICK q : q = Append(p, s)
  OBVIOUS
<1>2. /\ Len(p) \in Nat /\ Len(q) = Len(p) + 1 /\ q[Len(p) + 1] = s
      /\ \A k \in 1 .. Len(p) : q[k] = p[k]
  BY <1>1
<1>3. /\ Climb(x, q)[0] = x
      /\ \A k \in 1 .. Len(q) : Climb(x, q)[k] = Join(q[k], Climb(x, q)[k - 1])
  BY <1>2, ClimbIs
<1>4. /\ Climb(x, p)[0] = x
      /\ \A k \in 1 .. Len(p) : Climb(x, p)[k] = Join(p[k], Climb(x, p)[k - 1])
  BY <1>2, ClimbIs
<1> DEFINE T == {k \in Nat : k <= Len(p) => Climb(x, q)[k] = Climb(x, p)[k]}
<1>5. 0 \in T
  BY <1>3, <1>4
<1>6. ASSUME NEW k \in T PROVE k + 1 \in T
  <2>1. ASSUME k + 1 <= Len(p) PROVE Climb(x, q)[k + 1] = Climb(x, p)[k + 1]
    <3>1. k + 1 \in 1 .. Len(p) /\ k + 1 \in 1 .. Len(q) /\ (k + 1) - 1 = k
          /\ Climb(x, q)[k] = Climb(x, p)[k]
      BY <1>2, <1>6, <2>1
    <3>2. Climb(x, q)[k + 1] = Join(q[k + 1], Climb(x, q)[k])
      BY <1>3, <3>1
    <3>3. Climb(x, p)[k + 1] = Join(p[k + 1], Climb(x, p)[k])
      BY <1>4, <3>1
    <3> QED
      BY <1>2, <3>1, <3>2, <3>3
  <2> QED
    BY <1>6, <2>1
<1>7. Climb(x, q)[Len(p)] = Climb(x, p)[Len(p)]
  <2>1. T \in SUBSET Nat
    OBVIOUS
  <2>2. Len(p) \in T
    <3> HIDE DEF T
    <3> QED
      BY <1>2, <1>5, <1>6, <2>1, Induct
  <2> QED
    BY <1>2, <2>2
<1>8. Len(p) + 1 \in 1 .. Len(q) /\ (Len(p) + 1) - 1 = Len(p)
  BY <1>2
<1>9. Climb(x, q)[Len(p) + 1] = Join(q[Len(p) + 1], Climb(x, q)[Len(p)])
  BY <1>3, <1>8
<1> QED
  BY <1>1, <1>2, <1>7, <1>9

(* Two levels that differ in one place differ in one place above, and the  *)
(* step of a proof leads there.                                            *)
LEMMA OneUp ==
  ASSUME NEW a, IsLevel(a), NEW b, IsLevel(b), Len(b) = Len(a), NEW t \in 1 .. Len(a),
         \A j \in 1 .. Len(a) : j # t => b[j] = a[j]
  PROVE  /\ Len(Above(b)) = Len(Above(a)) /\ Parent(t) \in 1 .. Len(Above(a))
         /\ \A j \in 1 .. Len(Above(a)) : j # Parent(t) => Above(b)[j] = Above(a)[j]
         /\ \/ Step(a, t) = << >> /\ Above(b)[Parent(t)] = b[t]
            \/ \E s : Step(a, t) = <<s>> /\ Above(b)[Parent(t)] = Join(s, b[t])
<1>1. PICK n, h, u : n = Len(a) /\ h = (n + 1) \div 2 /\ u = Parent(t)
  OBVIOUS
<1>2. /\ n \in Nat /\ DOMAIN a = 1 .. n /\ Len(b) = n /\ Len(Above(a)) = h /\ Len(Above(b)) = h
      /\ \A j \in 1 .. h : Above(a)[j] = IF 2 * j <= n THEN nodeHash(a[2 * j - 1], a[2 * j])
                                                       ELSE a[2 * j - 1]
      /\ \A j \in 1 .. h : Above(b)[j] = IF 2 * j <= n THEN nodeHash(b[2 * j - 1], b[2 * j])
                                                       ELSE b[2 * j - 1]
  BY <1>1, AboveIs
<1>3. t \in Nat /\ 1 <= t /\ t <= n
  BY <1>1, <1>2
<1>4. h \in Nat /\ 2 * h <= n + 1 /\ n <= 2 * h
  BY <1>1, <1>2
<1>5. u \in Nat /\ (t = 2 * u \/ t = 2 * u - 1)
  BY <1>1, <1>3 DEF Parent
<1>6. u \in 1 .. h
  <2>1. u >= 1
    BY <1>3, <1>5
  <2>2. 2 * u <= n + 1
    BY <1>2, <1>3, <1>5
  <2>3. u <= h
    BY <1>2, <1>4, <1>5, <2>2
  <2> QED
    BY <1>4, <1>5, <2>1, <2>3
<1>7. ASSUME NEW j \in 1 .. h, j # u PROVE Above(b)[j] = Above(a)[j]
  <2>1. 2 * j - 1 # t /\ 2 * j # t /\ 2 * j - 1 \in 1 .. n
    BY <1>2, <1>4, <1>5, <1>7
  <2>2. b[2 * j - 1] = a[2 * j - 1]
    BY <1>1, <2>1
  <2>3. 2 * j <= n => 2 * j \in 1 .. n
    BY <1>2, <2>1
  <2>4. 2 * j <= n => b[2 * j] = a[2 * j]
    BY <1>1, <2>1, <2>3
  <2> QED
    BY <1>2, <1>7, <2>2, <2>4
<1>8. \/ Step(a, t) = << >> /\ Above(b)[u] = b[t]
      \/ \E s : Step(a, t) = <<s>> /\ Above(b)[u] = Join(s, b[t])
  <2>1. CASE t = 2 * u
    <3>0. n \in Nat /\ u \in Nat /\ u # 0
      BY <1>2, <1>5, <1>6
    <3>1. t % 2 = 0 /\ t - 1 \in 1 .. n /\ 2 * u - 1 = t - 1 /\ 2 * u <= n /\ t - 1 # t
      <4>1. t % 2 = 0
        BY <3>0, <2>1
      <4>2. t - 1 \in 1 .. n
        BY <1>3, <2>1, <3>0
      <4> QED
        BY <1>3, <2>1, <3>0, <4>1, <4>2
    <3>2. Above(b)[u] = nodeHash(b[t - 1], b[t]) /\ b[t - 1] = a[t - 1]
      BY <1>1, <1>2, <1>6, <2>1, <3>1
    <3>3. Sibling(t) = t - 1
      BY <3>1 DEF Sibling
    <3>4. Step(a, t) = <<[side |-> "left", hash |-> a[t - 1]]>>
      BY <1>2, <3>1, <3>3 DEF Step
    <3> QED
      BY <3>2, <3>4 DEF Join
  <2>2. CASE t = 2 * u - 1
    <3>1. t % 2 # 0 /\ 2 * u = t + 1
      BY <1>5, <2>2
    <3>2. Sibling(t) = t + 1
      BY <3>1 DEF Sibling
    <3>3. CASE t + 1 <= n
      <4>1. t + 1 \in 1 .. n /\ t + 1 # t
        BY <1>2, <1>3, <3>3
      <4>2. Above(b)[u] = nodeHash(b[t], b[t + 1]) /\ b[t + 1] = a[t + 1]
        BY <1>1, <1>2, <1>6, <2>2, <3>1, <3>3, <4>1
      <4>3. Step(a, t) = <<[side |-> "right", hash |-> a[t + 1]]>>
        BY <1>2, <3>1, <3>2, <4>1 DEF Step
      <4>4. PICK s : s = [side |-> "right", hash |-> a[t + 1]]
        OBVIOUS
      <4>5. Join(s, b[t]) = nodeHash(b[t], a[t + 1])
        BY <4>4 DEF Join
      <4> QED
        BY <4>2, <4>3, <4>4, <4>5
    <3>4. CASE ~ (t + 1 <= n)
      <4>1. t + 1 \notin 1 .. n
        BY <3>4
      <4>2. Step(a, t) = << >>
        BY <1>2, <3>2, <4>1 DEF Step
      <4>3. Above(b)[u] = b[t]
        BY <1>2, <1>6, <2>2, <3>1, <3>4
      <4> QED
        BY <4>2, <4>3
    <3> QED
      BY <3>3, <3>4
  <2> QED
    BY <1>5, <2>1, <2>2
<1> QED
  BY <1>1, <1>2, <1>6, <1>7, <1>8

(* A proof leads from a leaf, in the place it was made for, to the root of *)
(* the tree with that leaf there.                                          *)
LEMMA ProofClimbs ==
  ASSUME NEW l, IsLevel(l), NEW i \in 1 .. Len(l), NEW x, NEW m, IsLevel(m), Len(m) = Len(l),
         m[i] = x, \A j \in 1 .. Len(l) : j # i => m[j] = l[j]
  PROVE  Climb(x, inclusionProof(l, i))[Len(inclusionProof(l, i))] = merkleRoot(m)
<1>1. PICK n : n = Len(l)
  OBVIOUS
<1>2. n \in Nat /\ n >= 1
  BY <1>1, AboveIs
<1>3. /\ Levels(l)[0] = l /\ \A k \in 1 .. n : Levels(l)[k] = Above(Levels(l)[k - 1])
      /\ Levels(m)[0] = m /\ \A k \in 1 .. n : Levels(m)[k] = Above(Levels(m)[k - 1])
  BY <1>1, LevelsAre
<1>4. /\ \A k \in 0 .. n : IsLevel(Levels(l)[k]) /\ IsLevel(Levels(m)[k])
      /\ Len(Levels(l)[n]) = 1 /\ Len(Levels(m)[n]) = 1
  BY <1>1, <1>2, LevelLengths
<1>5. /\ Walk(l, i)[0] = [level |-> l, at |-> i, path |-> << >>]
      /\ \A k \in 1 .. n : Walk(l, i)[k] = Rise(Walk(l, i)[k - 1])
  BY <1>1, WalkIs
<1> DEFINE Good(k) ==
             LET a == Levels(l)[k]
                 b == Levels(m)[k]
                 w == Walk(l, i)[k] IN
             /\ w.level = a /\ Len(b) = Len(a) /\ w.at \in 1 .. Len(a)
             /\ \A j \in 1 .. Len(a) : j # w.at => b[j] = a[j]
             /\ \E S : w.path \in Seq(S)
             /\ Climb(x, w.path)[Len(w.path)] = b[w.at]
           T == {k \in Nat : k <= n => Good(k)}
<1>6. Good(0)
  <2>1. Climb(x, << >>)[0] = x
    <3>1. Len(<< >>) = 0
      OBVIOUS
    <3> QED
      BY <3>1, ClimbIs
  <2>2. << >> \in Seq({}) /\ Len(<< >>) = 0
    OBVIOUS
  <2> QED
    BY <1>3, <1>5, <2>1, <2>2
<1>7. ASSUME NEW k \in Nat, k + 1 <= n, Good(k) PROVE Good(k + 1)
  <2>0. k \in 0 .. n /\ k + 1 \in 1 .. n /\ (k + 1) - 1 = k
    BY <1>2, <1>7
  <2>1. PICK a, b, w : a = Levels(l)[k] /\ b = Levels(m)[k] /\ w = Walk(l, i)[k]
    OBVIOUS
  <2>2. /\ w.level = a /\ Len(b) = Len(a) /\ w.at \in 1 .. Len(a)
        /\ \A j \in 1 .. Len(a) : j # w.at => b[j] = a[j]
        /\ \E S : w.path \in Seq(S)
        /\ Climb(x, w.path)[Len(w.path)] = b[w.at]
    BY <1>7, <2>1
  <2>3. IsLevel(a) /\ IsLevel(b)
    BY <1>4, <2>0, <2>1
  <2>4. PICK t, u : t = w.at /\ u = Parent(t)
    OBVIOUS
  <2>5. /\ Len(Above(b)) = Len(Above(a)) /\ u \in 1 .. Len(Above(a))
        /\ \A j \in 1 .. Len(Above(a)) : j # u => Above(b)[j] = Above(a)[j]
        /\ \/ Step(a, t) = << >> /\ Above(b)[u] = b[t]
           \/ \E s : Step(a, t) = <<s>> /\ Above(b)[u] = Join(s, b[t])
    <3>1. t \in 1 .. Len(a) /\ \A j \in 1 .. Len(a) : j # t => b[j] = a[j]
      BY <2>2, <2>4
    <3>2. Len(b) = Len(a)
      BY <2>2
    <3>3. /\ Len(Above(b)) = Len(Above(a)) /\ Parent(t) \in 1 .. Len(Above(a))
          /\ \A j \in 1 .. Len(Above(a)) : j # Parent(t) => Above(b)[j] = Above(a)[j]
          /\ \/ Step(a, t) = << >> /\ Above(b)[Parent(t)] = b[t]
             \/ \E s : Step(a, t) = <<s>> /\ Above(b)[Parent(t)] = Join(s, b[t])
      BY <2>3, <3>1, <3>2, OneUp
    <3> QED
      BY <2>4, <3>3
  <2>6. PICK v : v = Walk(l, i)[k + 1]
    OBVIOUS
  <2>7. v = [level |-> Above(a), at |-> u, path |-> w.path \o Step(a, t)]
    BY <1>5, <2>0, <2>1, <2>2, <2>4, <2>6 DEF Rise
  <2>8. Levels(l)[k + 1] = Above(a) /\ Levels(m)[k + 1] = Above(b)
    BY <1>3, <2>0, <2>1
  <2>9. PICK S : w.path \in Seq(S)
    BY <2>2
  <2>10. PICK p : p = w.path
    OBVIOUS
  <2>11. p \in Seq(S) /\ Climb(x, p)[Len(p)] = b[t] /\ v.path = p \o Step(a, t)
    BY <2>2, <2>4, <2>7, <2>9, <2>10
  <2>12. (\E R : v.path \in Seq(R)) /\ Climb(x, v.path)[Len(v.path)] = Above(b)[u]
    <3>1. CASE Step(a, t) = << >> /\ Above(b)[u] = b[t]
      <4>1. v.path = p
        BY <2>11, <3>1
      <4> QED
        BY <2>11, <3>1, <4>1
    <3>2. ASSUME NEW s, Step(a, t) = <<s>>, Above(b)[u] = Join(s, b[t])
          PROVE  (\E R : v.path \in Seq(R)) /\ Climb(x, v.path)[Len(v.path)] = Above(b)[u]
      <4>1. PICK R : R = S \cup {s}
        OBVIOUS
      <4>2. p \in Seq(R) /\ s \in R
        BY <2>11, <4>1
      <4>3. v.path = Append(p, s) /\ Append(p, s) \in Seq(R) /\ Len(Append(p, s)) = Len(p) + 1
        BY <2>11, <3>2, <4>2
      <4>4. Climb(x, Append(p, s))[Len(p) + 1] = Join(s, Climb(x, p)[Len(p)])
        BY <4>2, ClimbAppends
      <4> QED
        BY <2>11, <3>2, <4>3, <4>4
    <3> QED
      BY <2>5, <3>1, <3>2
  <2>13. v.level = Above(a) /\ v.at = u
    BY <2>7
  <2> QED
    BY <2>5, <2>6, <2>8, <2>12, <2>13
<1>8. Good(n)
  <2> HIDE DEF Good
  <2>1. 0 \in T
    BY <1>6
  <2>2. ASSUME NEW k \in T PROVE k + 1 \in T
    <3>1. k \in Nat /\ k + 1 \in Nat /\ (k + 1 <= n => k <= n) /\ (k <= n => Good(k))
      BY <1>2, <2>2
    <3> QED
      BY <1>7, <3>1
  <2>3. T \in SUBSET Nat
    OBVIOUS
  <2>4. n \in T
    <3> HIDE DEF T
    <3> QED
      BY <1>2, <2>1, <2>2, <2>3, Induct
  <2> QED
    BY <1>2, <2>4
<1>9. PICK w : w = Walk(l, i)[n]
  OBVIOUS
<1>10. w.at = 1 /\ Climb(x, w.path)[Len(w.path)] = Levels(m)[n][w.at]
  BY <1>4, <1>8, <1>9
<1>11. merkleRoot(m) = Levels(m)[n][1]
  <2>1. m # << >>
    BY <1>1, <1>2
  <2> QED
    BY <1>1, <2>1 DEF merkleRoot
<1>12. inclusionProof(l, i) = w.path
  BY <1>1, <1>9 DEF inclusionProof
<1> QED
  BY <1>10, <1>11, <1>12

(* The prefixes of the hashes make the depth of a tree's first leaf part   *)
(* of what its root is.                                                    *)
Spine(x, d) ==
  \E p : /\ p[0] = x /\ p[d][1] = "leaf"
         /\ \A j \in Nat : j < d => p[j][1] = "node" /\ p[j + 1] = p[j][2]

LEMMA SpineOfNode ==
  ASSUME NEW x, NEW y, NEW d \in Nat, Spine(x, d)
  PROVE  Spine(nodeHash(x, y), d + 1)
<1>1. PICK p : /\ p[0] = x /\ p[d][1] = "leaf"
               /\ \A j \in Nat : j < d => p[j][1] = "node" /\ p[j + 1] = p[j][2]
  BY DEF Spine
<1>2. PICK q : q = [j \in Nat |-> IF j = 0 THEN nodeHash(x, y) ELSE p[j - 1]]
  OBVIOUS
<1>3. q[0] = nodeHash(x, y) /\ \A j \in Nat : q[j + 1] = p[j]
  BY <1>2
<1>4. q[d + 1][1] = "leaf"
  BY <1>1, <1>3
<1>5. ASSUME NEW j \in Nat, j < d + 1
      PROVE  q[j][1] = "node" /\ q[j + 1] = q[j][2]
  <2>1. CASE j = 0
    <3>1. q[j] = nodeHash(x, y) /\ q[j + 1] = x
      BY <1>1, <1>3, <2>1
    <3> QED
      BY <3>1 DEF nodeHash
  <2>2. CASE j # 0
    <3>1. PICK i \in Nat : j = i + 1
      <4>1. j - 1 \in Nat /\ j = (j - 1) + 1
        BY <2>2
      <4> QED
        BY <4>1
    <3>2. i < d
      BY <1>5, <3>1
    <3>3. p[i][1] = "node" /\ p[i + 1] = p[i][2]
      BY <1>1, <3>2
    <3>4. q[j] = p[i] /\ q[j + 1] = p[i + 1]
      BY <1>3, <3>1
    <3> QED
      BY <3>3, <3>4
  <2> QED
    BY <2>1, <2>2
<1> QED
  BY <1>3, <1>4, <1>5 DEF Spine

LEMMA SpineIsOne ==
  ASSUME NEW x, NEW d \in Nat, NEW e \in Nat, Spine(x, d), Spine(x, e)
  PROVE  ~ (d < e)
<1> SUFFICES ASSUME d < e PROVE FALSE
  OBVIOUS
<1>1. PICK p : /\ p[0] = x /\ p[d][1] = "leaf"
               /\ \A j \in Nat : j < d => p[j][1] = "node" /\ p[j + 1] = p[j][2]
  BY DEF Spine
<1>2. PICK q : /\ q[0] = x /\ q[e][1] = "leaf"
               /\ \A j \in Nat : j < e => q[j][1] = "node" /\ q[j + 1] = q[j][2]
  BY DEF Spine
<1> DEFINE S == {j \in Nat : j <= d => p[j] = q[j]}
<1>3. 0 \in S
  BY <1>1, <1>2
<1>4. ASSUME NEW j \in S PROVE j + 1 \in S
  <2>1. ASSUME j + 1 <= d PROVE p[j + 1] = q[j + 1]
    <3>1. j \in Nat /\ j < d /\ j < e /\ p[j] = q[j]
      BY <1>4, <2>1
    <3> QED
      BY <1>1, <1>2, <3>1
  <2> QED
    BY <1>4, <2>1
<1>5. d \in S
  <2>1. S \in SUBSET Nat
    OBVIOUS
  <2> HIDE DEF S
  <2> QED
    BY <1>3, <1>4, <2>1, Induct
<1>6. p[d] = q[d] /\ q[d][1] = "node"
  BY <1>2, <1>5
<1> QED
  BY <1>1, <1>6

(* Every node but the last of a level has a full tree below it.            *)
Full(a, k) ==
  /\ IsLevel(a) /\ Len(a) \in Nat \ {0}
  /\ \A j \in 1 .. Len(a) : j < Len(a) => Spine(a[j], k)
  /\ \E d \in 0 .. k : Spine(a[Len(a)], d)

LEMMA FullAbove ==
  ASSUME NEW a, NEW k \in Nat, Full(a, k)
  PROVE  Full(Above(a), k + 1)
<1>1. PICK n, h : n = Len(a) /\ h = (n + 1) \div 2
  OBVIOUS
<1>2. /\ n \in Nat \ {0} /\ IsLevel(a)
      /\ \A j \in 1 .. n : j < n => Spine(a[j], k)
      /\ \E d \in 0 .. k : Spine(a[n], d)
  BY <1>1 DEF Full
<1>3. /\ IsLevel(Above(a)) /\ Len(Above(a)) = h
      /\ \A j \in 1 .. h : Above(a)[j] = IF 2 * j <= n THEN nodeHash(a[2 * j - 1], a[2 * j])
                                                       ELSE a[2 * j - 1]
  BY <1>1, <1>2, AboveIs
<1>4. h \in Nat /\ h # 0 /\ 2 * h <= n + 1 /\ n <= 2 * h
  BY <1>1, <1>2
<1>5. ASSUME NEW j \in 1 .. h, 2 * j <= n PROVE Spine(Above(a)[j], k + 1)
  <2>1. 2 * j - 1 \in 1 .. n /\ 2 * j - 1 < n
    BY <1>2, <1>4, <1>5
  <2>2. Spine(a[2 * j - 1], k)
    BY <1>2, <2>1
  <2>3. Above(a)[j] = nodeHash(a[2 * j - 1], a[2 * j])
    BY <1>3, <1>5
  <2> QED
    BY <2>2, <2>3, SpineOfNode
<1>6. \A j \in 1 .. h : j < h => Spine(Above(a)[j], k + 1)
  <2>1. \A j \in 1 .. h : j < h => 2 * j <= n
    BY <1>2, <1>4
  <2> QED
    BY <1>5, <2>1
<1>7. \E d \in 0 .. k + 1 : Spine(Above(a)[h], d)
  <2>0. h \in 1 .. h
    BY <1>4
  <2>1. CASE 2 * h <= n
    <3>1. k + 1 \in 0 .. k + 1
      OBVIOUS
    <3> QED
      BY <1>5, <2>0, <2>1, <3>1
  <2>2. CASE ~ (2 * h <= n)
    <3>1. 2 * h - 1 = n
      BY <1>2, <1>4, <2>2
    <3>2. Above(a)[h] = a[n]
      BY <1>3, <2>0, <2>2, <3>1
    <3>3. \A d \in 0 .. k : d \in 0 .. k + 1
      OBVIOUS
    <3> QED
      BY <1>2, <3>2, <3>3
  <2> QED
    BY <2>1, <2>2
<1> QED
  BY <1>3, <1>4, <1>6, <1>7 DEF Full

(* The level below is determined by the level above.                       *)
LEMMA NotShorter ==
  ASSUME NEW a, NEW b, NEW k \in Nat, Full(a, k), Full(b, k), Above(a) = Above(b)
  PROVE  ~ (Len(a) < Len(b))
<1> SUFFICES ASSUME Len(a) < Len(b) PROVE FALSE
  OBVIOUS
<1>1. PICK n, m, h : n = Len(a) /\ m = Len(b) /\ h = (n + 1) \div 2
  OBVIOUS
<1>2. /\ n \in Nat \ {0} /\ m \in Nat \ {0} /\ n < m /\ IsLevel(a) /\ IsLevel(b)
      /\ \A j \in 1 .. m : j < m => Spine(b[j], k)
      /\ \E d \in 0 .. k : Spine(a[n], d)
  BY <1>1 DEF Full
<1>3. /\ Len(Above(a)) = h /\ h = (m + 1) \div 2
      /\ \A j \in 1 .. h : Above(a)[j] = IF 2 * j <= n THEN nodeHash(a[2 * j - 1], a[2 * j])
                                                       ELSE a[2 * j - 1]
      /\ \A j \in 1 .. h : Above(b)[j] = IF 2 * j <= m THEN nodeHash(b[2 * j - 1], b[2 * j])
                                                       ELSE b[2 * j - 1]
  BY <1>1, <1>2, AboveIs
<1>4. h \in 1 .. h /\ m = 2 * h /\ n = 2 * h - 1
  <2>1. h \in Nat /\ 2 * h <= n + 1 /\ n <= 2 * h
    BY <1>1, <1>2
  <2>2. 2 * h <= m + 1 /\ m <= 2 * h
    BY <1>2, <1>3
  <2> QED
    BY <1>2, <2>1, <2>2
<1>5. Above(a)[h] = a[n] /\ Above(b)[h] = nodeHash(b[m - 1], b[m])
  <2>1. ~ (2 * h <= n) /\ 2 * h <= m /\ 2 * h - 1 = n /\ 2 * h - 1 = m - 1 /\ 2 * h = m
    BY <1>2, <1>4
  <2> QED
    BY <1>3, <1>4, <2>1
<1>6. Spine(b[m - 1], k)
  BY <1>2, <1>4
<1>7. Spine(a[n], k + 1)
  BY <1>5, <1>6, SpineOfNode
<1>8. PICK d \in 0 .. k : Spine(a[n], d)
  BY <1>2
<1>9. d \in Nat /\ k + 1 \in Nat /\ d < k + 1
  OBVIOUS
<1> QED
  BY <1>7, <1>8, <1>9, SpineIsOne

LEMMA LevelsEqual ==
  ASSUME NEW a, IsLevel(a), NEW b, IsLevel(b), Len(a) = Len(b),
         \A j \in 1 .. Len(a) : a[j] = b[j]
  PROVE  a = b
<1>1. PICK S : a \in Seq(S)
  BY DEF IsLevel
<1>2. PICK T : b \in Seq(T)
  BY DEF IsLevel
<1>3. PICK R : R = S \cup T
  OBVIOUS
<1>4. a \in Seq(R) /\ b \in Seq(R)
  BY <1>1, <1>2, <1>3
<1> QED
  BY <1>4, SeqEqual

LEMMA BelowIsOne ==
  ASSUME NEW a, NEW b, NEW k \in Nat, Full(a, k), Full(b, k), Above(a) = Above(b)
  PROVE  a = b
<1>1. PICK n, h : n = Len(a) /\ h = (n + 1) \div 2
  OBVIOUS
<1>2. n \in Nat \ {0} /\ IsLevel(a) /\ IsLevel(b) /\ Len(b) \in Nat \ {0}
  BY <1>1 DEF Full
<1>3. Len(b) = n
  BY <1>1, <1>2, NotShorter
<1>4. /\ \A j \in 1 .. h : Above(a)[j] = IF 2 * j <= n THEN nodeHash(a[2 * j - 1], a[2 * j])
                                                       ELSE a[2 * j - 1]
      /\ \A j \in 1 .. h : Above(b)[j] = IF 2 * j <= n THEN nodeHash(b[2 * j - 1], b[2 * j])
                                                       ELSE b[2 * j - 1]
  BY <1>1, <1>2, <1>3, AboveIs
<1>5. \A x, y, u, v : nodeHash(x, y) = nodeHash(u, v) => x = u /\ y = v
  BY DEF nodeHash
<1>6. ASSUME NEW i \in 1 .. n PROVE a[i] = b[i]
  <2>1. PICK j : j = Parent(i)
    OBVIOUS
  <2>2. j \in Nat /\ (i = 2 * j \/ i = 2 * j - 1)
    BY <2>1 DEF Parent
  <2>3. j \in 1 .. h
    <3>1. j >= 1
      BY <2>2
    <3>2. 2 * j <= n + 1 /\ h \in Nat /\ n <= 2 * h
      BY <1>1, <1>2, <2>2
    <3>3. j <= h
      BY <1>1, <1>2, <2>2, <3>2
    <3> QED
      BY <2>2, <3>1, <3>2, <3>3
  <2>4. CASE 2 * j <= n
    <3>1. nodeHash(a[2 * j - 1], a[2 * j]) = nodeHash(b[2 * j - 1], b[2 * j])
      BY <1>4, <2>3, <2>4
    <3>2. a[2 * j - 1] = b[2 * j - 1] /\ a[2 * j] = b[2 * j]
      BY <1>5, <3>1
    <3> QED
      BY <2>2, <3>2
  <2>5. CASE ~ (2 * j <= n)
    <3>1. i = 2 * j - 1
      BY <1>2, <2>2, <2>5
    <3> QED
      BY <1>4, <2>3, <2>5, <3>1
  <2> QED
    BY <2>4, <2>5
<1> QED
  BY <1>1, <1>2, <1>3, <1>6, LevelsEqual

(* Where the levels of a tree come down to its root.                       *)
Top(l, h) ==
  /\ h \in 0 .. Len(l) /\ Len(Levels(l)[h]) = 1
  /\ Levels(l)[h][1] = merkleRoot(l) /\ Spine(merkleRoot(l), h)

LeafLevel(l) == IsLevel(l) /\ Len(l) >= 1 /\ \A j \in 1 .. Len(l) : l[j][1] = "leaf"

LEMMA LevelsAreFull ==
  ASSUME NEW l, LeafLevel(l)
  PROVE  \A k \in 0 .. Len(l) : Full(Levels(l)[k], k)
<1>0. IsLevel(l) /\ Len(l) \in Nat /\ Len(l) >= 1
  BY AboveIs DEF LeafLevel
<1>1. /\ Levels(l)[0] = l
      /\ \A k \in 1 .. Len(l) : Levels(l)[k] = Above(Levels(l)[k - 1])
  BY <1>0, LevelsAre
<1> DEFINE S == {k \in Nat : k <= Len(l) => Full(Levels(l)[k], k)}
<1>2. 0 \in S
  <2>1. \A j \in 1 .. Len(l) : Spine(l[j], 0)
    <3>1. ASSUME NEW j \in 1 .. Len(l) PROVE Spine(l[j], 0)
      <4>1. PICK p : p = [k \in Nat |-> l[j]]
        OBVIOUS
      <4>2. p[0] = l[j] /\ p[0][1] = "leaf"
        BY <4>1 DEF LeafLevel
      <4>3. \A k \in Nat : ~ (k < 0)
        OBVIOUS
      <4> QED
        BY <4>2, <4>3 DEF Spine
    <3> QED
      BY <3>1
  <2>2. Len(l) \in 1 .. Len(l) /\ 0 \in 0 .. 0
    BY <1>0
  <2>3. Full(l, 0)
    BY <1>0, <2>1, <2>2 DEF Full
  <2> QED
    BY <1>1, <2>3
<1>3. ASSUME NEW k \in S PROVE k + 1 \in S
  <2>1. ASSUME k + 1 <= Len(l) PROVE Full(Levels(l)[k + 1], k + 1)
    <3>1. k \in Nat /\ k <= Len(l) /\ k + 1 \in 1 .. Len(l) /\ (k + 1) - 1 = k
      BY <1>0, <1>3, <2>1
    <3>2. Full(Levels(l)[k], k)
      BY <1>3, <3>1
    <3>3. Full(Above(Levels(l)[k]), k + 1)
      BY <3>1, <3>2, FullAbove
    <3> QED
      BY <1>1, <3>1, <3>3
  <2> QED
    BY <1>3, <2>1
<1>4. \A k \in Nat : k \in S
  <2>1. S \in SUBSET Nat
    OBVIOUS
  <2> HIDE DEF S
  <2> QED
    BY <1>2, <1>3, <2>1, Induct
<1> QED
  BY <1>0, <1>4

LEMMA TopExists ==
  ASSUME NEW l, LeafLevel(l)
  PROVE  \E h : Top(l, h)
<1>0. IsLevel(l) /\ Len(l) \in Nat /\ Len(l) >= 1 /\ l # << >>
  BY AboveIs DEF LeafLevel
<1>1. /\ Levels(l)[0] = l
      /\ \A k \in 1 .. Len(l) : Levels(l)[k] = Above(Levels(l)[k - 1])
  BY <1>0, LevelsAre
<1>2. \A k \in 0 .. Len(l) : Full(Levels(l)[k], k)
  BY LevelsAreFull
<1>3. Len(Levels(l)[Len(l)]) = 1
  BY <1>0, LevelLengths
<1> DEFINE Found(k) == \E h \in 0 .. k : /\ Len(Levels(l)[h]) = 1
                                         /\ Levels(l)[h][1] = Levels(l)[k][1]
                                         /\ Spine(Levels(l)[k][1], h)
           S == {k \in Nat : k <= Len(l) => (Len(Levels(l)[k]) = 1 => Found(k))}
<1>4. 0 \in S
  <2>1. Full(Levels(l)[0], 0)
    BY <1>0, <1>2
  <2>2. Len(Levels(l)[0]) = 1 => Spine(Levels(l)[0][1], 0)
    BY <2>1 DEF Full
  <2> QED
    BY <2>2
<1>5. ASSUME NEW k \in S PROVE k + 1 \in S
  <2>1. ASSUME k + 1 <= Len(l), Len(Levels(l)[k + 1]) = 1 PROVE Found(k + 1)
    <3>1. k \in Nat /\ k <= Len(l) /\ k \in 0 .. Len(l) /\ k + 1 \in 1 .. Len(l) /\ (k + 1) - 1 = k
      BY <1>0, <1>5, <2>1
    <3>2. PICK a, b : a = Levels(l)[k] /\ b = Levels(l)[k + 1]
      OBVIOUS
    <3>3. b = Above(a) /\ Full(a, k) /\ Len(b) = 1
      BY <1>1, <1>2, <2>1, <3>1, <3>2
    <3>4. PICK n : n = Len(a)
      OBVIOUS
    <3>5. n \in Nat \ {0} /\ IsLevel(a) /\ \A j \in 1 .. n : j < n => Spine(a[j], k)
      BY <3>3, <3>4 DEF Full
    <3>6. /\ 1 = (n + 1) \div 2
          /\ \A j \in 1 .. 1 : b[j] = IF 2 * j <= n THEN nodeHash(a[2 * j - 1], a[2 * j])
                                                     ELSE a[2 * j - 1]
      BY <3>3, <3>4, <3>5, AboveIs
    <3>7. CASE n = 1
      <4>1. b[1] = a[1]
        <5>1. 1 \in 1 .. 1 /\ ~ (2 * 1 <= n) /\ 2 * 1 - 1 = 1
          BY <3>7
        <5> QED
          BY <3>6, <5>1
      <4>2. Found(k)
        BY <1>5, <3>1, <3>2, <3>4, <3>7
      <4>3. PICK h \in 0 .. k : /\ Len(Levels(l)[h]) = 1
                                /\ Levels(l)[h][1] = a[1] /\ Spine(a[1], h)
        BY <3>2, <4>2
      <4>4. h \in 0 .. k + 1
        BY <3>1
      <4> QED
        BY <3>2, <4>1, <4>3, <4>4
    <3>8. CASE n # 1
      <4>1. n = 2
        BY <3>5, <3>6, <3>8
      <4>2. b[1] = nodeHash(a[1], a[2])
        <5>1. 1 \in 1 .. 1 /\ 2 * 1 <= n /\ 2 * 1 - 1 = 1 /\ 2 * 1 = 2
          BY <4>1
        <5> QED
          BY <3>6, <5>1
      <4>3. Spine(a[1], k)
        BY <3>5, <4>1
      <4>4. Spine(b[1], k + 1) /\ k + 1 \in 0 .. k + 1
        BY <3>1, <4>2, <4>3, SpineOfNode
      <4> QED
        BY <2>1, <3>2, <4>4
    <3> QED
      BY <3>7, <3>8
  <2>2. k + 1 \in Nat
    BY <1>5
  <2> HIDE DEF Found
  <2> QED
    BY <2>1, <2>2
<1>6. Found(Len(l))
  <2> HIDE DEF Found
  <2>1. S \in SUBSET Nat
    OBVIOUS
  <2>2. Len(l) \in S
    <3> HIDE DEF S
    <3> QED
      BY <1>0, <1>4, <1>5, <2>1, Induct
  <2> QED
    BY <1>0, <1>3, <2>2
<1>7. merkleRoot(l) = Levels(l)[Len(l)][1]
  BY <1>0 DEF merkleRoot
<1> QED
  BY <1>6, <1>7 DEF Top

(* The root of a tree determines its leaves, and how many there are.       *)
LEMMA RootBinds ==
  ASSUME NEW l, NEW m, LeafLevel(l), LeafLevel(m), merkleRoot(l) = merkleRoot(m)
  PROVE  l = m
<1>1. PICK h : Top(l, h)
  BY TopExists
<1>2. PICK g : Top(m, g)
  BY TopExists
<1>3. h \in 0 .. Len(l) /\ g \in 0 .. Len(m) /\ Len(l) \in Nat /\ Len(m) \in Nat
      /\ IsLevel(l) /\ IsLevel(m)
  BY <1>1, <1>2, AboveIs DEF Top, LeafLevel
<1>4. h = g
  <2>1. h \in Nat /\ g \in Nat /\ Spine(merkleRoot(l), h) /\ Spine(merkleRoot(l), g)
    BY <1>1, <1>2, <1>3 DEF Top
  <2>2. ~ (h < g) /\ ~ (g < h)
    BY <2>1, SpineIsOne
  <2> QED
    BY <2>1, <2>2
<1>5. /\ \A k \in 0 .. Len(l) : Full(Levels(l)[k], k)
      /\ \A k \in 0 .. Len(m) : Full(Levels(m)[k], k)
  BY LevelsAreFull
<1>6. /\ Levels(l)[0] = l /\ \A k \in 1 .. Len(l) : Levels(l)[k] = Above(Levels(l)[k - 1])
      /\ Levels(m)[0] = m /\ \A k \in 1 .. Len(m) : Levels(m)[k] = Above(Levels(m)[k - 1])
  BY <1>3, LevelsAre
<1> DEFINE S == {j \in Nat : j <= h => Levels(l)[h - j] = Levels(m)[h - j]}
<1>7. 0 \in S
  <2>1. PICK a, b : a = Levels(l)[h] /\ b = Levels(m)[h]
    OBVIOUS
  <2>2. IsLevel(a) /\ IsLevel(b) /\ Len(a) = 1 /\ Len(b) = 1 /\ a[1] = b[1]
    BY <1>1, <1>2, <1>3, <1>4, <1>5, <2>1 DEF Top, Full
  <2>3. \A j \in 1 .. Len(a) : a[j] = b[j]
    BY <2>2
  <2>4. a = b
    BY <2>2, <2>3, LevelsEqual
  <2>5. h - 0 = h
    BY <1>3
  <2> QED
    BY <2>1, <2>4, <2>5
<1>8. ASSUME NEW j \in S PROVE j + 1 \in S
  <2>1. ASSUME j + 1 <= h PROVE Levels(l)[h - (j + 1)] = Levels(m)[h - (j + 1)]
    <3>1. PICK k : k = h - (j + 1)
      OBVIOUS
    <3>2. /\ j \in Nat /\ j <= h /\ h - j = k + 1 /\ (k + 1) - 1 = k /\ k \in Nat
          /\ k + 1 \in 1 .. Len(l) /\ k + 1 \in 1 .. Len(m)
          /\ k \in 0 .. Len(l) /\ k \in 0 .. Len(m)
      BY <1>3, <1>4, <1>8, <2>1, <3>1
    <3>3. Levels(l)[k + 1] = Levels(m)[k + 1]
      BY <1>8, <3>2
    <3>4. Above(Levels(l)[k]) = Above(Levels(m)[k])
      BY <1>6, <3>2, <3>3
    <3>5. Full(Levels(l)[k], k) /\ Full(Levels(m)[k], k)
      BY <1>5, <3>2
    <3>6. Levels(l)[k] = Levels(m)[k]
      BY <3>2, <3>4, <3>5, BelowIsOne
    <3> QED
      BY <3>1, <3>6
  <2> QED
    BY <1>8, <2>1
<1>9. h \in S
  <2>1. S \in SUBSET Nat
    OBVIOUS
  <2> HIDE DEF S
  <2> QED
    BY <1>3, <1>7, <1>8, <2>1, Induct
<1>10. h - h = 0 /\ h <= h
  BY <1>3
<1> QED
  BY <1>6, <1>9, <1>10

-----------------------------------------------------------------------------
(* What a signed root says of the log.                                     *)

LEMMA LeavesAre ==
  ASSUME NEW c \in Seq(Event)
  PROVE  /\ IsLevel(Leaves(c)) /\ Len(Leaves(c)) = Len(c)
         /\ \A j \in 1 .. Len(c) : Leaves(c)[j] = leafHash(c[j])
         /\ c # << >> => LeafLevel(Leaves(c))
<1>1. Len(c) \in Nat /\ (c # << >> => Len(c) >= 1)
  OBVIOUS
<1>2. Leaves(c) = [j \in 1 .. Len(c) |-> leafHash(c[j])]
  BY DEF Leaves
<1>3. PICK T : T = {leafHash(c[j]) : j \in 1 .. Len(c)}
  OBVIOUS
<1>4. Leaves(c) \in [1 .. Len(c) -> T]
  BY <1>2, <1>3
<1>5. Leaves(c) \in Seq(T) /\ Len(Leaves(c)) = Len(c)
  BY <1>1, <1>4
<1>6. \A j \in 1 .. Len(c) : Leaves(c)[j] = leafHash(c[j]) /\ Leaves(c)[j][1] = "leaf"
  BY <1>2 DEF leafHash
<1> QED
  BY <1>1, <1>5, <1>6 DEF IsLevel, LeafLevel

LEMMA LeafBinds == \A e, f : leafHash(e) = leafHash(f) => e = f
BY DEF leafHash

LEMMA RootSigns ==
  ASSUME NEW c \in Seq(Event), NEW d \in Seq(Event), c # << >>, d # << >>,
         merkleRoot(Leaves(c)) = merkleRoot(Leaves(d))
  PROVE  c = d
<1>1. Leaves(c) = Leaves(d)
  BY LeavesAre, RootBinds
<1>2. Len(c) = Len(d) /\ \A j \in 1 .. Len(c) : leafHash(c[j]) = leafHash(d[j])
  BY <1>1, LeavesAre
<1>3. \A j \in 1 .. Len(c) : c[j] = d[j]
  BY <1>2, LeafBinds
<1> QED
  BY <1>2, <1>3, SeqEqual

(* Whatever was done to the log since, an audit finds that an event a      *)
(* committed checkpoint covers was edited or deleted.                      *)
THEOREM SignedPinned == Spec => []SignedHistoryIsPinned
<1>1. LedgerInv => SignedHistoryIsPinned
  <2> SUFFICES ASSUME LedgerInv, NEW t \in touched, t.signed PROVE Findings(log, rows) # {}
    BY DEF SignedHistoryIsPinned
  <2>1. PICK cp \in rows : Missed(t.seq, cp)
    BY DEF LedgerInv, TouchInv
  <2>2. PICK c : Signs(cp, c) /\ \E j \in 1 .. Len(c) :
          /\ c[j].seq = t.seq
          /\ \/ c[j].body # 0 /\ \A i \in 1 .. Len(log) : log[i].seq = t.seq => log[i].body = 0
             \/ \A i \in 1 .. Len(log) : log[i].seq # t.seq
    BY <2>1 DEF Missed
  <2>3. PICK j \in 1 .. Len(c) :
          /\ c[j].seq = t.seq
          /\ \/ c[j].body # 0 /\ \A i \in 1 .. Len(log) : log[i].seq = t.seq => log[i].body = 0
             \/ \A i \in 1 .. Len(log) : log[i].seq # t.seq
    BY <2>2
  <2>4. /\ log \in Seq(Event) /\ Sorted(log) /\ cp.from \in Nat /\ cp.to \in Nat
        /\ c \in Seq(Event) /\ c # << >> /\ cp.count = Len(c) /\ Len(c) \in Nat \ {0}
        /\ cp.root = merkleRoot(Leaves(c))
    BY <2>2, SignsTypes DEF LedgerInv, LogInv, Signs
  <2>5. PICK d : d = InRange(log, cp)
    OBVIOUS
  <2>6. d \in Seq(Event) /\ \A k \in 1 .. Len(d) : \E i \in 1 .. Len(log) : d[k] = log[i]
    <3>1. /\ InRange(log, cp) \in Seq(Event)
          /\ \A k \in 1 .. Len(InRange(log, cp)) : \E i \in 1 .. Len(log) :
               InRange(log, cp)[k] = log[i]
      BY <2>4, RangeHas
    <3> QED
      BY <2>5, <3>1
  <2>7. CASE Len(d) # cp.count
    <3>1. PICK f : f = [kind |-> "missing_events", to |-> cp.to]
      OBVIOUS
    <3>2. f \in [kind : Kind, to : {q.to : q \in rows}] /\ f.to = cp.to /\ f.kind = "missing_events"
      BY <3>1 DEF Kind
    <3>3. Reports(f.kind, log, rows, cp)
      BY <2>5, <2>7, <3>2 DEF Reports
    <3>4. f \in Findings(log, rows)
      BY <3>2, <3>3 DEF Findings
    <3> QED
      BY <3>4
  <2>8. CASE merkleRoot(Leaves(d)) # cp.root
    <3>1. PICK f : f = [kind |-> "root_mismatch", to |-> cp.to]
      OBVIOUS
    <3>2. f \in [kind : Kind, to : {q.to : q \in rows}] /\ f.to = cp.to /\ f.kind = "root_mismatch"
      BY <3>1 DEF Kind
    <3>3. Reports(f.kind, log, rows, cp)
      BY <2>5, <2>8, <3>2 DEF Reports
    <3>4. f \in Findings(log, rows)
      BY <3>2, <3>3 DEF Findings
    <3> QED
      BY <3>4
  <2>9. ~ (Len(d) = cp.count /\ merkleRoot(Leaves(d)) = cp.root)
    <3>1. ASSUME Len(d) = cp.count, merkleRoot(Leaves(d)) = cp.root PROVE FALSE
      <4>1. d # << >>
        BY <2>4, <3>1
      <4>2. c = d
        BY <2>4, <2>6, <3>1, <4>1, RootSigns
      <4>3. PICK i \in 1 .. Len(log) : c[j] = log[i]
        BY <2>3, <2>6, <4>2
      <4> QED
        BY <2>3, <4>3
    <3> QED
      BY <3>1
  <2> QED
    BY <2>7, <2>8, <2>9
<1> QED
  BY <1>1, LedgerInvariance, PTL

(* An event that stands between the same two signed events as another, in  *)
(* a log in order, is that other.                                          *)
LEMMA SamePlace ==
  ASSUME NEW d \in Seq(Event), Sorted(d), NEW c \in Seq(Event), Sorted(c), Len(c) = Len(d),
         NEW i \in 1 .. Len(d), \A k \in 1 .. Len(d) : k # i => c[k] = d[k],
         NEW m \in 1 .. Len(d), c[i] = d[m]
  PROVE  m = i
<1>1. /\ Len(d) \in Nat /\ \A k \in 1 .. Len(d) : d[k].seq \in Nat /\ c[k].seq \in Nat
  BY LogTypes
<1>2. ASSUME m < i PROVE FALSE
  <2>1. c[m] = d[m] /\ c[m].seq < c[i].seq
    BY <1>1, <1>2 DEF Sorted
  <2> QED
    BY <1>1, <2>1
<1>3. ASSUME i < m PROVE FALSE
  <2>1. c[m] = d[m] /\ c[i].seq < c[m].seq
    BY <1>1, <1>3 DEF Sorted
  <2> QED
    BY <1>1, <2>1
<1> QED
  BY <1>1, <1>2, <1>3

(* With a proof made from a range, an event verifies against the signed    *)
(* root only if the range is as it was signed and the proof is its own.    *)
THEOREM ProofsBind == Spec => []ProofsBindOneEvent
<1>1. LedgerInv => ProofsBindOneEvent
  <2> SUFFICES ASSUME LedgerInv, NEW cp \in rows, NEW d, d = InRange(log, cp),
                      NEW e \in ToSet(d), NEW f \in ToSet(log)
               PROVE  verifyInclusion(leafHash(f), proveInclusion(d, e.seq), cp.root)
                        <=> merkleRoot(Leaves(d)) = cp.root /\ f = e
    BY DEF ProofsBindOneEvent
  <2>1. PICK c : Signs(cp, c)
    BY DEF LedgerInv, RowsInv
  <2>2. /\ log \in Seq(Event) /\ Sorted(log) /\ cp.from \in Nat /\ cp.to \in Nat
        /\ c \in Seq(Event) /\ Sorted(c) /\ c # << >> /\ Len(c) \in Nat \ {0}
        /\ cp.root = merkleRoot(Leaves(c))
        /\ \A j \in 1 .. Len(c) : cp.from <= c[j].seq /\ c[j].seq <= cp.to
    BY <2>1, SignsTypes DEF LedgerInv, LogInv, Signs
  <2>3. /\ d \in Seq(Event) /\ Sorted(d)
        /\ \A k \in 1 .. Len(log) : cp.from <= log[k].seq /\ log[k].seq <= cp.to =>
             \E j \in 1 .. Len(d) : d[j] = log[k]
    <3>1. log \in Seq(Event) /\ Sorted(log) /\ cp.from \in Nat /\ cp.to \in Nat
      BY <2>2
    <3>2. InRange(log, cp) \in Seq(Event) /\ Sorted(InRange(log, cp))
      BY <3>1, RangeHas
    <3>3. ASSUME NEW k \in 1 .. Len(log), cp.from <= log[k].seq, log[k].seq <= cp.to
          PROVE  \E j \in 1 .. Len(InRange(log, cp)) : InRange(log, cp)[j] = log[k]
      BY <3>1, <3>3, RangeHas
    <3> QED
      BY <3>2, <3>3
  <2>4. Len(d) \in Nat /\ \A k \in 1 .. Len(d) : d[k].seq \in Nat /\ d[k] \in Event
    BY <2>3, LogTypes
  <2>5. PICK i \in 1 .. Len(d) : d[i] = e
    BY <2>3 DEF ToSet
  <2>6. (CHOOSE k \in 1 .. Len(d) : d[k].seq = e.seq) = i
    <3>1. \A k \in 1 .. Len(d) : d[k].seq = e.seq => k = i
      BY <2>3, <2>4, <2>5 DEF Sorted
    <3> QED
      BY <2>5, <3>1
  <2>7. proveInclusion(d, e.seq) = inclusionProof(Leaves(d), i)
    BY <2>6 DEF proveInclusion
  <2>8. PICK k \in 1 .. Len(log) : log[k] = f
    BY <2>2 DEF ToSet
  <2>9. f \in Event
    BY <2>2, <2>8
  <2>10. PICK g : g = [d EXCEPT ![i] = f]
    OBVIOUS
  <2>11. /\ g \in Seq(Event) /\ Len(g) = Len(d) /\ g[i] = f /\ g # << >>
         /\ \A j \in 1 .. Len(d) : j # i => g[j] = d[j]
    BY <2>3, <2>4, <2>9, <2>10
  <2>12. d # << >>
    BY <2>4, <2>5
  <2>13. verifyInclusion(leafHash(f), proveInclusion(d, e.seq), cp.root)
           <=> merkleRoot(Leaves(g)) = cp.root
    <3>1. /\ IsLevel(Leaves(d)) /\ Len(Leaves(d)) = Len(d)
          /\ \A j \in 1 .. Len(d) : Leaves(d)[j] = leafHash(d[j])
      BY <2>3, LeavesAre
    <3>2. /\ IsLevel(Leaves(g)) /\ Len(Leaves(g)) = Len(d)
          /\ \A j \in 1 .. Len(d) : Leaves(g)[j] = leafHash(g[j])
      BY <2>11, LeavesAre
    <3>3. PICK l, m, x : l = Leaves(d) /\ m = Leaves(g) /\ x = leafHash(f)
      OBVIOUS
    <3>4. /\ IsLevel(l) /\ i \in 1 .. Len(l) /\ IsLevel(m) /\ Len(m) = Len(l) /\ m[i] = x
          /\ \A j \in 1 .. Len(l) : j # i => m[j] = l[j]
      BY <2>11, <3>1, <3>2, <3>3
    <3>5. Climb(x, inclusionProof(l, i))[Len(inclusionProof(l, i))] = merkleRoot(m)
      BY <3>4, ProofClimbs
    <3> QED
      BY <2>7, <3>3, <3>5 DEF verifyInclusion
  <2>14. ASSUME merkleRoot(Leaves(g)) = cp.root
         PROVE  merkleRoot(Leaves(d)) = cp.root /\ f = e
    <3>1. g = c
      BY <2>2, <2>11, <2>14, RootSigns
    <3>2. cp.from <= f.seq /\ f.seq <= cp.to
      BY <2>2, <2>11, <3>1
    <3>3. PICK m \in 1 .. Len(d) : d[m] = f
      BY <2>3, <2>8, <3>2
    <3>4. m = i
      BY <2>2, <2>3, <2>11, <3>1, <3>3, SamePlace
    <3>5. f = e
      BY <2>5, <3>3, <3>4
    <3>6. g = d
      <4>1. \A j \in 1 .. Len(g) : g[j] = d[j]
        BY <2>5, <2>11, <3>5
      <4> QED
        BY <2>3, <2>11, <4>1, SeqEqual
    <3> QED
      BY <2>14, <3>5, <3>6
  <2>15. ASSUME merkleRoot(Leaves(d)) = cp.root, f = e
         PROVE  merkleRoot(Leaves(g)) = cp.root
    <3>1. g = d
      <4>1. \A j \in 1 .. Len(g) : g[j] = d[j]
        BY <2>5, <2>11, <2>15
      <4> QED
        BY <2>3, <2>11, <4>1, SeqEqual
    <3> QED
      BY <2>15, <3>1
  <2> QED
    BY <2>13, <2>14, <2>15
<1> QED
  BY <1>1, LedgerInvariance, PTL
=============================================================================
