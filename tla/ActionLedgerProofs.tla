------------------------- MODULE ActionLedgerProofs -------------------------
(***************************************************************************)
(* ActionDispatch implements ActLedger: whatever the sessions interleave,  *)
(* what they commit is a serial history in which every act was legal at    *)
(* its own position, and the committed records are what that history says. *)
(***************************************************************************)
EXTENDS ActionDispatchProofs, FiniteSetTheorems, WellFoundedInduction

-----------------------------------------------------------------------------
(* What a log says of an object, and which acts fit after it.              *)

Named(l, o) == Ledger!NamedBefore(l, Len(l) + 1, o)

Rec(l, o) ==
  IF o \in Initial \/ Named(l, o)
  THEN [state |-> Ledger!StateAt(l, Len(l) + 1, o),
        ver |-> Ledger!VersionAt(l, Len(l) + 1, o),
        by |-> Ledger!CreatorOf(l, o)]
  ELSE Absent

(* The record an act finds: an object nobody named is the act's own.       *)
Was(r, actor) ==
  IF r = Absent THEN [state |-> Start, ver |-> 1, by |-> actor] ELSE r

Found(l, a, o) == Was(Rec(l, o), a.sem.actor)

Fits(l, a) ==
  /\ \A j \in 1 .. Len(l) : Slot(l[j]) # Slot(a)
  /\ a.sem.targets \subseteq a.targets
  /\ \A o \in a.targets :
       /\ a.before[o] = Found(l, a, o).state
       /\ IF MovesState(a.type)
          THEN [type |-> a.type, from |-> a.before[o], to |-> a.after[o]] \in Transition
          ELSE a.after[o] = a.before[o]
       /\ a.type \in Restricted => Found(l, a, o).by # a.sem.actor
  /\ a.sem.expects # None =>
       \A o \in a.sem.targets : Found(l, a, o).ver = a.sem.expects

-----------------------------------------------------------------------------
(* The invariant.                                                          *)

Everything == ledger \cup UNION {acts[t] : t \in Tx}

(* An act, committed or pending, is alone under its id and under its slot. *)
Alone ==
  \A a, b \in Everything : a.id = b.id \/ Slot(a) = Slot(b) => a = b

(* A row that was written, or that a pending act names, is locked by its   *)
(* session, and only rows that are there are locked.                       *)
RowsHeld ==
  /\ \A t \in Tx, o \in Object : rows[t][o] # None => rowLock[o] = t
  /\ \A t \in Tx : \A a \in acts[t] :
       a.targets \subseteq Object /\ \A o \in a.targets : rowLock[o] = t
  /\ \A o \in Object : rowLock[o] # None =>
       obj[o] # Absent \/ rows[rowLock[o]][o] # None

(* The log as a session sees it, and the act it has not linked yet.        *)
SeenLog(t) == LogOver(SeenActs(t), SeenLinks(t))
Loose(t) == pc[t] \in {"chain", "audit"}
Current(t) == CHOOSE a \in SeenActs(t) : a.id = ActId(t)
FullLog(t) == IF Loose(t) THEN Append(SeenLog(t), Current(t)) ELSE SeenLog(t)

(* The rows a materializer inserted and no act names yet.                  *)
Fresh(t) == IF pc[t] = "rows" THEN made[t] ELSE {}

(* What a session sees is what its log says, its pending acts are legal    *)
(* where they stand in it, and the act it has not linked yet fits.         *)
SerialAt(t) ==
  /\ \A o \in Object \ Fresh(t) : View(t, o) = Rec(FullLog(t), o)
  /\ \A o \in Fresh(t) :
       /\ Rec(FullLog(t), o) = Absent
       /\ rows[t][o] = [state |-> Start, ver |-> 1, by |-> Req(t).actor]
  /\ \A i \in (Len(chain) + 1) .. Len(SeenLog(t)) : Ledger!Legal(SeenLog(t), i)
  /\ Loose(t) => Fits(SeenLog(t), Current(t))

(* And the committed records are what the committed log says.              *)
Serial ==
  /\ \A o \in Object : obj[o] = Rec(LogOf, o)
  /\ \A t \in Tx : SerialAt(t)

-----------------------------------------------------------------------------
(* Greatest and least positions.                                           *)

LEMMA Least ==
  ASSUME NEW S \in SUBSET Nat, S # {}
  PROVE  \E x \in S : \A y \in S : x <= y
<1>1. PICK x \in S : \A y \in S : <<y, x>> \notin OpToRel(<, Nat)
  BY NatLessThanWellFounded, WFMin
<1>2. \A y \in S : ~ (y < x)
  BY <1>1 DEF OpToRel
<1> QED BY <1>2

LEMMA Greatest ==
  ASSUME NEW n \in Nat, NEW S \in SUBSET (1 .. n), S # {}
  PROVE  \E x \in S : \A y \in S : y <= x
<1> DEFINE T == {n - x : x \in S}
<1>1. T \in SUBSET Nat /\ T # {}
  <2>1. \A x \in S : n - x \in Nat
    OBVIOUS
  <2> QED BY <2>1
<1>2. PICK d \in T : \A e \in T : d <= e
  BY <1>1, Least
<1>3. PICK x \in S : d = n - x
  OBVIOUS
<1>4. ASSUME NEW y \in S PROVE y <= x
  <2>1. n - x <= n - y
    BY <1>2, <1>3
  <2> QED BY <2>1
<1> QED BY <1>4

-----------------------------------------------------------------------------
(* What the positions below n + 1 of a log say of an object.               *)

IsLast(l, n, o, j) ==
  /\ j \in 1 .. n /\ o \in l[j].targets
  /\ \A k \in (j + 1) .. n : o \notin l[k].targets

LEMMA LastOne ==
  ASSUME NEW n \in Nat, NEW l, NEW o, NEW j, IsLast(l, n, o, j)
  PROVE  Ledger!LastBefore(l, n + 1, o) = j /\ Ledger!NamedBefore(l, n + 1, o)
<1>1. (n + 1) - 1 = n
  OBVIOUS
<1>2. \A i \in 1 .. n : o \in l[i].targets
        /\ (\A k \in (i + 1) .. n : o \notin l[k].targets) => i = j
  <2> SUFFICES ASSUME NEW i \in 1 .. n, o \in l[i].targets,
                      \A k \in (i + 1) .. n : o \notin l[k].targets, i # j
               PROVE  FALSE
    OBVIOUS
  <2>1. i \in (j + 1) .. n \/ j \in (i + 1) .. n
    BY DEF IsLast
  <2> QED BY <2>1 DEF IsLast
<1>3. Ledger!NamedBefore(l, n + 1, o)
  BY <1>1 DEF IsLast, Ledger!NamedBefore
<1>4. Ledger!LastBefore(l, n + 1, o) = j
  BY <1>1, <1>2 DEF IsLast, Ledger!LastBefore
<1> QED BY <1>3, <1>4

LEMMA LastExists ==
  ASSUME NEW n \in Nat, NEW l, NEW o, Ledger!NamedBefore(l, n + 1, o)
  PROVE  \E j : IsLast(l, n, o, j)
<1> DEFINE S == {j \in 1 .. n : o \in l[j].targets}
<1>1. S # {}
  <2>1. (n + 1) - 1 = n
    OBVIOUS
  <2> QED BY <2>1 DEF Ledger!NamedBefore
<1>2. PICK j \in S : \A y \in S : y <= j
  BY <1>1, Greatest
<1>3. \A k \in (j + 1) .. n : o \notin l[k].targets
  BY <1>2
<1> QED BY <1>2, <1>3 DEF IsLast

(* Logs that agree below n + 1 say the same.                               *)
LEMMA SamePast ==
  ASSUME NEW n \in Nat, NEW l, NEW m, NEW o, \A i \in 1 .. n : l[i] = m[i]
  PROVE  /\ Ledger!NamedBefore(l, n + 1, o) <=> Ledger!NamedBefore(m, n + 1, o)
         /\ Ledger!StateAt(l, n + 1, o) = Ledger!StateAt(m, n + 1, o)
         /\ Ledger!VersionAt(l, n + 1, o) = Ledger!VersionAt(m, n + 1, o)
<1>1. (n + 1) - 1 = n
  OBVIOUS
<1>2. Ledger!NamedBefore(l, n + 1, o) <=> Ledger!NamedBefore(m, n + 1, o)
  BY <1>1 DEF Ledger!NamedBefore
<1>3. Ledger!VersionAt(l, n + 1, o) = Ledger!VersionAt(m, n + 1, o)
  <2>1. {j \in 1 .. n : o \in l[j].targets /\ Ledger!Moves(l[j].type)}
          = {j \in 1 .. n : o \in m[j].targets /\ Ledger!Moves(m[j].type)}
    OBVIOUS
  <2> QED BY <1>1, <2>1 DEF Ledger!VersionAt
<1>4. CASE ~ Ledger!NamedBefore(l, n + 1, o)
  BY <1>2, <1>3, <1>4 DEF Ledger!StateAt
<1>5. CASE Ledger!NamedBefore(l, n + 1, o)
  <2>1. PICK j : IsLast(l, n, o, j)
    BY <1>5, LastExists
  <2>2. IsLast(m, n, o, j)
    <3>1. \A k \in (j + 1) .. n : k \in 1 .. n
      BY <2>1 DEF IsLast
    <3> QED BY <2>1, <3>1 DEF IsLast
  <2>3. Ledger!LastBefore(l, n + 1, o) = j /\ Ledger!LastBefore(m, n + 1, o) = j
    BY <2>1, <2>2, LastOne
  <2>4. l[j] = m[j]
    BY <2>1 DEF IsLast
  <2> QED BY <1>2, <1>3, <1>5, <2>3, <2>4 DEF Ledger!StateAt
<1> QED BY <1>4, <1>5

(* The instance of the abstract ledger counts as the kernel does.          *)
LEMMA SameCount == \A S : Ledger!Cardinality(S) = Cardinality(S)
BY DEF Cardinality, Ledger!Cardinality

LEMMA SameMoves == \A type : Ledger!Moves(type) <=> MovesState(type)
BY DEF MovesState, Ledger!Moves

(* Versions count from 1.                                                  *)
LEMMA VersionPositive ==
  ASSUME NEW n \in Nat, NEW l, NEW o
  PROVE  Ledger!VersionAt(l, n + 1, o) \in Nat \ {0}
<1> DEFINE S == {j \in 1 .. n : o \in l[j].targets /\ Ledger!Moves(l[j].type)}
<1>1. IsFiniteSet(1 .. n) /\ S \subseteq 1 .. n
  BY FS_Interval
<1>2. Cardinality(S) \in Nat
  BY <1>1, FS_Subset, FS_CardinalityType
<1>3. (n + 1) - 1 = n
  OBVIOUS
<1>4. Ledger!VersionAt(l, n + 1, o) = 1 + Cardinality(S)
  BY <1>3, SameCount DEF Ledger!VersionAt
<1> HIDE DEF S
<1> QED BY <1>2, <1>4

-----------------------------------------------------------------------------
(* A log that grows keeps what it said.                                    *)

Extends(m, l) ==
  /\ Len(l) \in Nat /\ Len(m) \in Nat /\ Len(l) <= Len(m)
  /\ \A i \in 1 .. Len(l) : m[i] = l[i]

IsFirst(l, o, j) ==
  /\ j \in 1 .. Len(l) /\ o \in l[j].targets
  /\ \A k \in 1 .. (j - 1) : o \notin l[k].targets

LEMMA FirstOne ==
  ASSUME NEW l, Len(l) \in Nat, NEW o, NEW j, IsFirst(l, o, j)
  PROVE  Ledger!FirstAct(l, o) = j
<1>1. \A i \in 1 .. Len(l) : o \in l[i].targets
        /\ (\A k \in 1 .. (i - 1) : o \notin l[k].targets) => i = j
  <2> SUFFICES ASSUME NEW i \in 1 .. Len(l), o \in l[i].targets,
                      \A k \in 1 .. (i - 1) : o \notin l[k].targets, i # j
               PROVE  FALSE
    OBVIOUS
  <2>1. i \in 1 .. (j - 1) \/ j \in 1 .. (i - 1)
    BY DEF IsFirst
  <2> QED BY <2>1 DEF IsFirst
<1> QED BY <1>1 DEF IsFirst, Ledger!FirstAct

LEMMA FirstExists ==
  ASSUME NEW l, Len(l) \in Nat, NEW o, Named(l, o)
  PROVE  \E j : IsFirst(l, o, j)
<1> DEFINE S == {j \in 1 .. Len(l) : o \in l[j].targets}
<1>1. S # {}
  <2>1. (Len(l) + 1) - 1 = Len(l)
    OBVIOUS
  <2> QED BY <2>1 DEF Named, Ledger!NamedBefore
<1>2. S \in SUBSET Nat
  OBVIOUS
<1>3. PICK j \in S : \A y \in S : j <= y
  BY <1>1, <1>2, Least
<1>4. \A k \in 1 .. (j - 1) : o \notin l[k].targets
  BY <1>3
<1> QED BY <1>3, <1>4 DEF IsFirst

(* Who created an object that a log names does not change as it grows.     *)
LEMMA SameCreator ==
  ASSUME NEW l, NEW m, Extends(m, l), NEW o, o \in Initial \/ Named(l, o)
  PROVE  Ledger!CreatorOf(m, o) = Ledger!CreatorOf(l, o)
<1>1. CASE o \in Initial
  BY <1>1 DEF Ledger!CreatorOf
<1>2. CASE o \notin Initial
  <2>1. PICK j : IsFirst(l, o, j)
    BY <1>2, FirstExists DEF Extends
  <2>2. j \in 1 .. Len(l) /\ m[j] = l[j]
    BY <2>1 DEF IsFirst, Extends
  <2>3. IsFirst(m, o, j)
    <3>1. j \in 1 .. Len(m) /\ \A k \in 1 .. (j - 1) : k \in 1 .. Len(l)
      BY <2>2 DEF Extends
    <3> QED BY <2>1, <2>2, <3>1 DEF IsFirst, Extends
  <2>4. Ledger!FirstAct(l, o) = j /\ Ledger!FirstAct(m, o) = j
    BY <2>1, <2>3, FirstOne DEF Extends
  <2> QED BY <1>2, <2>2, <2>4 DEF Ledger!CreatorOf
<1> QED BY <1>1, <1>2

(* An act that was legal in a log is legal in every extension of it.       *)
LEMMA SameLegal ==
  ASSUME NEW l, NEW m, Extends(m, l), NEW i \in 1 .. Len(l), Ledger!Legal(l, i)
  PROVE  Ledger!Legal(m, i)
<1> DEFINE n == i - 1
<1>1. n \in Nat /\ n + 1 = i /\ \A k \in 1 .. n : m[k] = l[k] /\ m[i] = l[i]
  BY DEF Extends
<1>2. m[i] = l[i] /\ \A k \in 1 .. (i - 1) : m[k] = l[k]
  BY DEF Extends
<1>3. \A o : /\ Ledger!StateAt(m, i, o) = Ledger!StateAt(l, i, o)
              /\ Ledger!VersionAt(m, i, o) = Ledger!VersionAt(l, i, o)
  <2> HIDE DEF n
  <2> QED BY <1>1, SamePast
<1>4. \A o \in l[i].targets : Ledger!CreatorOf(m, o) = Ledger!CreatorOf(l, o)
  <2>1. \A o \in l[i].targets : Named(l, o)
    <3>1. (Len(l) + 1) - 1 = Len(l)
      BY DEF Extends
    <3> QED BY <3>1 DEF Named, Ledger!NamedBefore
  <2> QED BY <2>1, SameCreator
<1> QED BY <1>2, <1>3, <1>4 DEF Ledger!Legal

-----------------------------------------------------------------------------
(* What one more act does to a log.                                        *)

LEMMA AppendIs ==
  ASSUME NEW S, NEW l \in Seq(S), NEW a \in S
  PROVE  /\ Append(l, a) \in Seq(S) /\ Len(l) \in Nat
         /\ Len(Append(l, a)) = Len(l) + 1 /\ Append(l, a)[Len(l) + 1] = a
         /\ Extends(Append(l, a), l)
<1>1. \A i \in 1 .. Len(l) : Append(l, a)[i] = l[i]
  OBVIOUS
<1> QED BY <1>1 DEF Extends

(* The record an act finds is the one its position in the log decides.     *)
LEMMA FoundIs ==
  ASSUME NEW S, NEW l \in Seq(S), NEW a \in S, NEW o
  PROVE  /\ Found(l, a, o).state = Ledger!StateAt(l, Len(l) + 1, o)
         /\ Found(l, a, o).ver = Ledger!VersionAt(l, Len(l) + 1, o)
         /\ o \in a.targets =>
              Found(l, a, o).by = Ledger!CreatorOf(Append(l, a), o)
<1> DEFINE m == Append(l, a)
<1>1. /\ Len(l) \in Nat /\ Len(m) = Len(l) + 1 /\ m[Len(l) + 1] = a
      /\ Extends(m, l)
  BY AppendIs
<1> HIDE DEF m
<1>2. (Len(l) + 1) - 1 = Len(l)
  BY <1>1
<1>3. CASE o \in Initial \/ Named(l, o)
  <2>1. Rec(l, o).ver # 0
    BY <1>1, <1>3, VersionPositive DEF Rec
  <2>2. Found(l, a, o) = Rec(l, o)
    BY <2>1 DEF Found, Was, Absent
  <2>3. Ledger!CreatorOf(m, o) = Ledger!CreatorOf(l, o)
    BY <1>1, <1>3, SameCreator
  <2> QED BY <1>3, <2>2, <2>3 DEF Rec, m
<1>4. CASE ~ (o \in Initial \/ Named(l, o))
  <2>1. Found(l, a, o) = [state |-> Start, ver |-> 1, by |-> a.sem.actor]
    BY <1>4 DEF Found, Was, Rec
  <2>2. Ledger!StateAt(l, Len(l) + 1, o) = Start
    BY <1>4 DEF Named, Ledger!StateAt
  <2>3. \A j \in 1 .. Len(l) : o \notin l[j].targets
    BY <1>2, <1>4 DEF Named, Ledger!NamedBefore
  <2>4. Ledger!VersionAt(l, Len(l) + 1, o) = 1
    <3>1. {j \in 1 .. Len(l) : o \in l[j].targets /\ Ledger!Moves(l[j].type)} = {}
      BY <2>3
    <3>2. Ledger!VersionAt(l, Len(l) + 1, o) = 1 + Cardinality({})
      BY <1>2, <3>1, SameCount DEF Ledger!VersionAt
    <3> QED BY <3>2, FS_EmptySet
  <2>5. ASSUME o \in a.targets PROVE Ledger!CreatorOf(m, o) = a.sem.actor
    <3>1. IsFirst(m, o, Len(l) + 1)
      BY <1>1, <1>2, <2>3, <2>5 DEF IsFirst, Extends
    <3>2. Ledger!FirstAct(m, o) = Len(l) + 1
      BY <1>1, <3>1, FirstOne DEF Extends
    <3> QED BY <1>1, <1>4, <3>2 DEF Ledger!CreatorOf
  <2> QED BY <2>1, <2>2, <2>4, <2>5 DEF m
<1> QED BY <1>3, <1>4

LEMMA VersionAppend ==
  ASSUME NEW S, NEW l \in Seq(S), NEW a \in S, NEW o
  PROVE  Ledger!VersionAt(Append(l, a), Len(l) + 2, o)
           = Ledger!VersionAt(l, Len(l) + 1, o)
             + IF o \in a.targets /\ MovesState(a.type) THEN 1 ELSE 0
<1> DEFINE m == Append(l, a)
           n == Len(l)
<1>1. /\ n \in Nat /\ Len(m) = n + 1 /\ m[n + 1] = a
      /\ \A i \in 1 .. n : m[i] = l[i]
  BY AppendIs DEF Extends
<1>2. (n + 1) - 1 = n /\ (n + 2) - 1 = n + 1
  BY <1>1
<1> HIDE DEF m, n
<1> DEFINE A == {j \in 1 .. n : o \in l[j].targets /\ MovesState(l[j].type)}
           B == {j \in 1 .. (n + 1) : o \in m[j].targets /\ MovesState(m[j].type)}
<1>3. /\ Ledger!VersionAt(l, n + 1, o) = 1 + Cardinality(A)
      /\ Ledger!VersionAt(m, n + 2, o) = 1 + Cardinality(B)
  BY <1>2, SameCount, SameMoves DEF Ledger!VersionAt
<1>4. IsFiniteSet(A) /\ Cardinality(A) \in Nat /\ n + 1 \notin A
  <2>1. IsFiniteSet(1 .. n) /\ A \subseteq 1 .. n
    BY <1>1, FS_Interval
  <2>2. IsFiniteSet(A) /\ n + 1 \notin 1 .. n
    BY <1>1, <2>1, FS_Subset
  <2> QED BY <2>1, <2>2, FS_CardinalityType
<1>5. B = IF o \in a.targets /\ MovesState(a.type) THEN A \cup {n + 1} ELSE A
  <2>1. 1 .. (n + 1) = (1 .. n) \cup {n + 1}
    BY <1>1
  <2> QED BY <1>1, <2>1
<1> HIDE DEF A, B
<1>6. Cardinality(B)
        = Cardinality(A) + IF o \in a.targets /\ MovesState(a.type) THEN 1 ELSE 0
  <2>1. Cardinality(A \cup {n + 1}) = Cardinality(A) + 1
    BY <1>4, FS_AddElement
  <2> QED BY <1>4, <1>5, <2>1
<1>7. Ledger!VersionAt(m, n + 2, o)
        = Ledger!VersionAt(l, n + 1, o)
          + IF o \in a.targets /\ MovesState(a.type) THEN 1 ELSE 0
  BY <1>3, <1>4, <1>6
<1> QED BY <1>7 DEF m, n

(* An act changes the records it names, and no other.                      *)
LEMMA RecAppend ==
  ASSUME NEW S, NEW l \in Seq(S), NEW a \in S, NEW o
  PROVE  Rec(Append(l, a), o) =
           IF o \in a.targets
           THEN [state |-> a.after[o],
                 ver |-> Found(l, a, o).ver + IF MovesState(a.type) THEN 1 ELSE 0,
                 by |-> Found(l, a, o).by]
           ELSE Rec(l, o)
<1> DEFINE m == Append(l, a)
           n == Len(l)
<1>1. /\ n \in Nat /\ Len(m) = n + 1 /\ m[n + 1] = a /\ Extends(m, l)
      /\ \A i \in 1 .. n : m[i] = l[i]
  BY AppendIs DEF Extends
<1>2. (n + 1) - 1 = n /\ ((n + 1) + 1) - 1 = n + 1 /\ (n + 1) + 1 = n + 2
  BY <1>1
<1>3. Ledger!VersionAt(m, n + 2, o)
        = Ledger!VersionAt(l, n + 1, o)
          + IF o \in a.targets /\ MovesState(a.type) THEN 1 ELSE 0
  BY VersionAppend
<1>4. Ledger!VersionAt(l, n + 1, o) \in Nat
  BY <1>1, VersionPositive
<1>5. CASE o \in a.targets
  <2>1. IsLast(m, n + 1, o, n + 1)
    BY <1>1, <1>5 DEF IsLast
  <2>2. Ledger!LastBefore(m, (n + 1) + 1, o) = n + 1 /\ Named(m, o)
    <3> HIDE DEF m, n
    <3>1. n + 1 \in Nat
      BY <1>1
    <3>2. Ledger!LastBefore(m, (n + 1) + 1, o) = n + 1
          /\ Ledger!NamedBefore(m, (n + 1) + 1, o)
      BY <2>1, <3>1, LastOne
    <3> QED BY <1>1, <3>2 DEF Named
  <2>3. Ledger!StateAt(m, n + 2, o) = a.after[o]
    BY <1>1, <1>2, <2>2 DEF Ledger!StateAt, Named
  <2>4. /\ Found(l, a, o).ver = Ledger!VersionAt(l, n + 1, o)
        /\ Found(l, a, o).by = Ledger!CreatorOf(m, o)
    BY <1>5, FoundIs
  <2>5. Rec(m, o) = [state |-> Ledger!StateAt(m, n + 2, o),
                     ver |-> Ledger!VersionAt(m, n + 2, o),
                     by |-> Ledger!CreatorOf(m, o)]
    BY <1>1, <1>2, <2>2 DEF Rec
  <2> HIDE DEF m, n
  <2>6. Rec(m, o) = [state |-> a.after[o],
                     ver |-> Found(l, a, o).ver + IF MovesState(a.type) THEN 1 ELSE 0,
                     by |-> Found(l, a, o).by]
    BY <1>3, <1>5, <2>3, <2>4, <2>5
  <2> QED BY <1>5, <2>6 DEF m
<1>6. CASE o \notin a.targets
  <2> HIDE DEF m, n
  <2>1. Named(m, o) <=> Named(l, o)
    <3>1. 1 .. (n + 1) = (1 .. n) \cup {n + 1}
      BY <1>1
    <3> QED BY <1>1, <1>2, <1>6, <3>1 DEF Named, Ledger!NamedBefore, n
  <2>2. Ledger!VersionAt(m, n + 2, o) = Ledger!VersionAt(l, n + 1, o)
    BY <1>3, <1>4, <1>6
  <2>3. Ledger!StateAt(m, n + 2, o) = Ledger!StateAt(l, n + 1, o)
    <3>1. CASE ~ Named(l, o)
      BY <1>1, <1>2, <2>1, <3>1 DEF Named, Ledger!StateAt, n
    <3>2. CASE Named(l, o)
      <4>1. PICK j : IsLast(l, n, o, j)
        BY <1>1, <3>2, LastExists DEF Named, n
      <4>2. IsLast(m, n + 1, o, j)
        <5>1. j \in 1 .. n /\ j \in 1 .. (n + 1)
          BY <1>1, <4>1 DEF IsLast
        <5>2. \A k \in (j + 1) .. (n + 1) : k = n + 1 \/ k \in (j + 1) .. n
          BY <1>1, <5>1
        <5>3. \A k \in (j + 1) .. n : k \in 1 .. n
          BY <5>1
        <5> QED BY <1>1, <1>6, <4>1, <5>1, <5>2, <5>3 DEF IsLast
      <4>3. /\ Ledger!LastBefore(l, n + 1, o) = j /\ Ledger!NamedBefore(l, n + 1, o)
            /\ Ledger!LastBefore(m, (n + 1) + 1, o) = j
            /\ Ledger!NamedBefore(m, (n + 1) + 1, o)
        BY <1>1, <4>1, <4>2, LastOne
      <4>4. m[j] = l[j]
        BY <1>1, <4>1 DEF IsLast
      <4> QED BY <1>2, <4>3, <4>4 DEF Ledger!StateAt
    <3> QED BY <3>1, <3>2
  <2>4. o \in Initial \/ Named(l, o) => Ledger!CreatorOf(m, o) = Ledger!CreatorOf(l, o)
    BY <1>1, SameCreator
  <2>5. Rec(m, o) = Rec(l, o)
    BY <1>1, <1>2, <2>1, <2>2, <2>3, <2>4 DEF Rec, n
  <2> QED BY <1>6, <2>5 DEF m
<1> QED BY <1>5, <1>6

(* An act that fits after a log is legal at its end.                       *)
LEMMA FitsLegal ==
  ASSUME NEW S, NEW l \in Seq(S), NEW a \in S, Fits(l, a)
  PROVE  Ledger!Legal(Append(l, a), Len(l) + 1)
<1> DEFINE m == Append(l, a)
           n == Len(l)
<1>1. /\ n \in Nat /\ Len(m) = n + 1 /\ m[n + 1] = a
      /\ \A i \in 1 .. n : m[i] = l[i]
  BY AppendIs DEF Extends
<1>2. (n + 1) - 1 = n
  BY <1>1
<1>3. \A o : /\ Found(l, a, o).state = Ledger!StateAt(l, n + 1, o)
             /\ Found(l, a, o).ver = Ledger!VersionAt(l, n + 1, o)
             /\ o \in a.targets => Found(l, a, o).by = Ledger!CreatorOf(m, o)
  BY FoundIs
<1> HIDE DEF m, n
<1>4. \A o : /\ Ledger!StateAt(m, n + 1, o) = Ledger!StateAt(l, n + 1, o)
             /\ Ledger!VersionAt(m, n + 1, o) = Ledger!VersionAt(l, n + 1, o)
  BY <1>1, SamePast
<1>5. \A j \in 1 .. n : <<m[j].type, m[j].key>> # <<a.type, a.key>>
  BY <1>1 DEF Fits, Slot, n
<1>6. \A o \in a.targets :
        /\ a.before[o] = Ledger!StateAt(m, n + 1, o)
        /\ IF Ledger!Moves(a.type)
           THEN [type |-> a.type, from |-> a.before[o], to |-> a.after[o]] \in Transition
           ELSE a.after[o] = a.before[o]
        /\ a.type \in Restricted => Ledger!CreatorOf(m, o) # a.sem.actor
  BY <1>3, <1>4, SameMoves DEF Fits
<1>7. a.sem.expects # None =>
        \A o \in a.sem.targets : Ledger!VersionAt(m, n + 1, o) = a.sem.expects
  BY <1>3, <1>4 DEF Fits
<1>8. Ledger!Legal(m, n + 1)
  BY <1>1, <1>2, <1>5, <1>6, <1>7 DEF Ledger!Legal
<1> QED BY <1>8 DEF m, n

-----------------------------------------------------------------------------
(* The log over a set of acts and the links that order them.               *)

Covers(A, c) == \A i \in 1 .. Len(c) : \E a \in A : a.id = c[i].act
UniqueIds(A) == \A a, b \in A : a.id = b.id => a = b

LEMMA LogOverIs ==
  ASSUME NEW A, NEW c \in Seq(Link), Covers(A, c)
  PROVE  /\ LogOver(A, c) \in Seq(A) /\ Len(LogOver(A, c)) = Len(c)
         /\ \A i \in 1 .. Len(c) : LogOver(A, c)[i] \in A /\ LogOver(A, c)[i].id = c[i].act
<1> DEFINE l == LogOver(A, c)
<1>1. \A i \in 1 .. Len(c) : l[i] \in A /\ l[i].id = c[i].act
  BY DEF Covers, LogOver
<1>2. Len(c) \in Nat /\ l = [i \in 1 .. Len(c) |-> l[i]]
  BY DEF LogOver
<1> HIDE DEF l
<1>3. l \in [1 .. Len(c) -> A]
  BY <1>1, <1>2
<1>4. l \in Seq(A) /\ Len(l) = Len(c)
  BY <1>2, <1>3
<1> QED BY <1>1, <1>4 DEF l

(* More acts do not change the log of links they do not stand under.       *)
LEMMA LogOverMore ==
  ASSUME NEW A, NEW B, A \subseteq B, UniqueIds(B), NEW c \in Seq(Link), Covers(A, c)
  PROVE  LogOver(B, c) = LogOver(A, c) /\ Covers(B, c)
<1>1. ASSUME NEW i \in 1 .. Len(c)
      PROVE  (CHOOSE a \in B : a.id = c[i].act) = (CHOOSE a \in A : a.id = c[i].act)
  <2>1. PICK a \in A : a.id = c[i].act
    BY DEF Covers
  <2>2. \A b \in B : b.id = c[i].act <=> b = a
    BY <2>1 DEF UniqueIds
  <2> QED BY <2>1, <2>2
<1>2. LogOver(B, c) = LogOver(A, c)
  BY <1>1 DEF LogOver
<1> QED BY <1>2 DEF Covers

(* More links extend the log.                                              *)
LEMMA LogOverConcat ==
  ASSUME NEW A, NEW c \in Seq(Link), NEW d \in Seq(Link)
  PROVE  Extends(LogOver(A, c \o d), LogOver(A, c))
<1> DEFINE e == c \o d
<1>1. /\ Len(e) = Len(c) + Len(d) /\ Len(c) \in Nat /\ Len(d) \in Nat
      /\ \A i \in 1 .. Len(c) : e[i] = c[i]
  OBVIOUS
<1> HIDE DEF e
<1>2. \A i \in 1 .. Len(c) : i \in 1 .. Len(e)
  BY <1>1
<1>3. Len(LogOver(A, e)) = Len(e) /\ Len(LogOver(A, c)) = Len(c)
  BY <1>1 DEF LogOver
<1> QED BY <1>1, <1>2, <1>3 DEF Extends, LogOver, e

LEMMA LogOverAppend ==
  ASSUME NEW A, NEW c \in Seq(Link), Covers(A, c), UniqueIds(A),
         NEW k \in Link, NEW a \in A, a.id = k.act
  PROVE  LogOver(A, Append(c, k)) = Append(LogOver(A, c), a)
<1> DEFINE d == Append(c, k)
           l == LogOver(A, c)
           m == LogOver(A, d)
<1>1. Len(d) = Len(c) + 1 /\ Len(c) \in Nat /\ d[Len(c) + 1] = k
      /\ \A i \in 1 .. Len(c) : d[i] = c[i]
  OBVIOUS
<1>2. (CHOOSE b \in A : b.id = k.act) = a
  BY DEF UniqueIds
<1>3. l \in Seq(A) /\ Len(l) = Len(c)
  BY LogOverIs
<1> HIDE DEF d
<1>4. Covers(A, d)
  BY <1>1 DEF Covers
<1>5. d \in Seq(Link)
  BY DEF d
<1>6. m \in Seq(A) /\ Len(m) = Len(d)
  BY <1>4, <1>5, LogOverIs
<1>7. m[Len(c) + 1] = a /\ \A i \in 1 .. Len(c) : m[i] = l[i]
  BY <1>1, <1>2 DEF LogOver
<1> HIDE DEF l, m
<1>8. /\ Append(l, a) \in Seq(A) /\ Len(Append(l, a)) = Len(c) + 1
      /\ Append(l, a)[Len(c) + 1] = a
      /\ \A i \in 1 .. Len(c) : Append(l, a)[i] = l[i]
  BY <1>3, AppendIs DEF Extends
<1>9. m = Append(l, a)
  <2>1. \A i \in 1 .. (Len(c) + 1) : m[i] = Append(l, a)[i]
    BY <1>1, <1>7, <1>8
  <2> QED BY <1>1, <1>6, <1>8, <2>1
<1> QED BY <1>9 DEF l, m, d

-----------------------------------------------------------------------------
(* What a session sees is a log.                                           *)

LEMMA Seen ==
  ASSUME TypeInv, HeadInv, IdInv, Alone, NEW t \in Tx
  PROVE  /\ chain \in Seq(Link) /\ links[t] \in Seq(Link) /\ SeenLinks(t) \in Seq(Link)
         /\ UniqueIds(SeenActs(t)) /\ UniqueIds(ledger)
         /\ Covers(ledger, chain) /\ Covers(SeenActs(t), SeenLinks(t))
         /\ LogOf \in Seq(ledger) /\ LogOf \in Seq(SeenActs(t)) /\ Len(LogOf) = Len(chain)
         /\ SeenLog(t) \in Seq(SeenActs(t)) /\ Extends(SeenLog(t), LogOf)
         /\ Len(SeenLog(t)) = Len(SeenLinks(t))
         /\ Loose(t) => /\ Current(t) \in acts[t] /\ Current(t).id = ActId(t)
                        /\ Current(t) \in SeenActs(t)
                        /\ \A a \in SeenActs(t) : a.id = ActId(t) => a = Current(t)
<1> USE DEF TypeInv
<1>1. chain \in Seq(Link) /\ links[t] \in Seq(Link) /\ SeenLinks(t) \in Seq(Link)
  BY DEF HeadInv, Good
<1>2. SeenActs(t) \subseteq Everything /\ ledger \subseteq SeenActs(t)
  BY DEF SeenActs, Everything
<1>3. UniqueIds(SeenActs(t)) /\ UniqueIds(ledger)
  BY <1>2 DEF UniqueIds, Alone
<1>4. Covers(ledger, chain)
  <2>1. \A i \in 1 .. Len(chain) : chain[i].act \in IdsOf(ledger)
    BY DEF IdInv, ActsOf
  <2> QED BY <2>1 DEF Covers, IdsOf
<1>5. Covers(SeenActs(t), SeenLinks(t))
  <2>1. ActsOf(SeenLinks(t)) = ActsOf(chain) \cup ActsOf(links[t])
    BY <1>1, ActsConcat DEF SeenLinks
  <2>2. ActsOf(SeenLinks(t)) \subseteq IdsOf(ledger) \cup IdsOf(acts[t])
    BY <2>1 DEF IdInv
  <2>3. \A i \in 1 .. Len(SeenLinks(t)) :
          SeenLinks(t)[i].act \in IdsOf(ledger) \cup IdsOf(acts[t])
    BY <2>2 DEF ActsOf
  <2> QED BY <2>3 DEF Covers, IdsOf, SeenActs
<1>6. LogOf \in Seq(ledger) /\ Len(LogOf) = Len(chain)
  BY <1>1, <1>4, LogOverIs DEF LogOf
<1>7. LogOver(SeenActs(t), chain) = LogOf /\ Covers(SeenActs(t), chain)
  BY <1>1, <1>2, <1>3, <1>4, LogOverMore DEF LogOf
<1>8. LogOf \in Seq(SeenActs(t))
  BY <1>1, <1>7, LogOverIs
<1>9. Extends(SeenLog(t), LogOf)
  BY <1>1, <1>7, LogOverConcat DEF SeenLog, SeenLinks
<1>10. SeenLog(t) \in Seq(SeenActs(t)) /\ Len(SeenLog(t)) = Len(SeenLinks(t))
  BY <1>1, <1>5, LogOverIs DEF SeenLog
<1>11. ASSUME Loose(t)
       PROVE  /\ Current(t) \in acts[t] /\ Current(t).id = ActId(t)
              /\ Current(t) \in SeenActs(t)
              /\ \A a \in SeenActs(t) : a.id = ActId(t) => a = Current(t)
  <2>1. ActId(t) \in IdsOf(acts[t])
    BY <1>11 DEF IdInv, Unlinked, Loose
  <2>2. PICK a \in acts[t] : a.id = ActId(t)
    BY <2>1 DEF IdsOf
  <2>3. a \in SeenActs(t)
    BY DEF SeenActs
  <2>4. \A b \in SeenActs(t) : b.id = ActId(t) => b = a
    BY <1>3, <2>2, <2>3 DEF UniqueIds
  <2>5. Current(t) = a
    BY <2>2, <2>3, <2>4 DEF Current
  <2> QED BY <2>2, <2>3, <2>4, <2>5
<1> QED BY <1>1, <1>3, <1>4, <1>5, <1>6, <1>8, <1>9, <1>10, <1>11

-----------------------------------------------------------------------------
(* Acts are alone, and rows are held.                                      *)

LEMMA AloneNext == TypeInv /\ IdInv /\ Alone /\ [Next]_vars => Alone'
<1> SUFFICES ASSUME TypeInv, IdInv, Alone, [Next]_vars PROVE Alone'
  OBVIOUS
<1> USE DEF TypeInv
<1>1. ASSUME Everything' \subseteq Everything PROVE Alone'
  BY <1>1 DEF Alone
<1>2. ASSUME NEW t \in Tx, Apply(t) PROVE Alone'
  <2> DEFINE act == [id |-> ActId(t), type |-> Req(t).type, key |-> Req(t).key,
                     sem |-> Semantics(Req(t)), targets |-> want[t],
                     before |-> Before(t), after |-> After(t)]
  <2>1. acts' = [acts EXCEPT ![t] = @ \cup {act}] /\ ledger' = ledger
        /\ pc[t] = "rows" /\ SlotIsUnused(t)
    BY <1>2 DEF Apply, committed
  <2>2. act.id = ActId(t) /\ Slot(act) = Slot(Req(t))
    BY DEF Slot
  <2> HIDE DEF act
  <2>3. Everything' = Everything \cup {act}
    BY <2>1 DEF Everything, PendingOK
  <2>4. \A b \in Everything : Slot(b) # Slot(Req(t))
    BY <2>1 DEF Everything, SlotIsUnused, Prior, SeenActs
  <2>5. \A b \in Everything : b.id # ActId(t)
    <3>1. ActId(t)[1] = t /\ ActId(t)[2] = attempt[t] /\ ActId(t)[3] = step[t]
      BY DEF ActId
    <3>2. attempt[t] \in Nat /\ pc[t] \in Active /\ Unlinked(t) = {}
      BY <2>1, AttemptsAssumption DEF TypeOK, Active, Unlinked
    <3>3. ActId(t) \notin IdsOf(ledger)
      BY <3>1, <3>2 DEF IdInv
    <3>4. ActId(t) \notin IdsOf(acts[t])
      BY <2>1, <3>1, <3>2 DEF IdInv
    <3>5. ASSUME NEW u \in Tx \ {t} PROVE ActId(t) \notin IdsOf(acts[u])
      <4>1. ActId(u)[1] = u
        BY DEF ActId
      <4>2. IdsOf(acts[u]) \subseteq ActsOf(links[u]) \cup {ActId(u)}
        BY DEF IdInv, Unlinked
      <4> QED BY <3>1, <4>1, <4>2 DEF IdInv
    <3> QED BY <3>3, <3>4, <3>5 DEF Everything, IdsOf
  <2> QED BY <2>2, <2>3, <2>4, <2>5 DEF Alone
<1>3. ASSUME NEW t \in Tx, Rollback(t) PROVE Everything' \subseteq Everything
  BY <1>3 DEF Rollback, Release, committed, Everything, PendingOK
<1>4. ASSUME NEW t \in Tx, Commit(t) PROVE Everything' \subseteq Everything
  BY <1>4 DEF Commit, Release, Everything, PendingOK
<1>5. ASSUME UNCHANGED <<ledger, acts>> PROVE Everything' \subseteq Everything
  BY <1>5 DEF Everything
<1> QED
  BY <1>1, <1>2, <1>3, <1>4, <1>5
  DEF Next, Dispatch, Finished, Begin, LockIdempotencyKey, ReplayPriorAction,
      RefuseReplay, Materialize, LockRow, RefuseState, LockChain, AppendAudit,
      NextAct, Abort, committed, writes, vars

(* A step that neither locks nor writes a row.                             *)
LEMMA RowsQuiet ==
  ASSUME RowsHeld, UNCHANGED <<obj, rowLock, rows, acts>>
  PROVE  RowsHeld'
BY DEF RowsHeld

LEMMA RowsRelease ==
  ASSUME TypeInv, RowsHeld, NEW t \in Tx, Release(t),
         obj' = obj \/ obj' = [o \in Object |-> View(t, o)]
  PROVE  RowsHeld'
<1> USE DEF TypeInv
<1>1. \A o \in Object : rowLock'[o] = IF rowLock[o] = t THEN None ELSE rowLock[o]
  BY DEF Release, TypeOK
<1>2. /\ acts'[t] = {} /\ \A o \in Object : rows'[t][o] = None
      /\ \A u \in Tx \ {t} : acts'[u] = acts[u] /\ rows'[u] = rows[u]
  BY DEF Release, PendingOK, TypeOK
<1>3. \A u \in Tx \ {t} : \A o \in Object : rowLock[o] = u => rowLock'[o] = u
  BY <1>1
<1>4. \A o \in Object : obj[o] # Absent => obj'[o] # Absent
  BY DEF View, PendingOK
<1>5. \A o \in Object : rowLock'[o] # None =>
        obj'[o] # Absent \/ rows'[rowLock'[o]][o] # None
  BY <1>1, <1>2, <1>4, NoneAssumption DEF RowsHeld, TypeOK
<1>6. \A u \in Tx, o \in Object : rows'[u][o] # None => rowLock'[o] = u
  BY <1>2, <1>3 DEF RowsHeld
<1>7. \A u \in Tx : \A a \in acts'[u] :
        a.targets \subseteq Object /\ \A o \in a.targets : rowLock'[o] = u
  BY <1>2, <1>3 DEF RowsHeld
<1> QED BY <1>5, <1>6, <1>7 DEF RowsHeld

LEMMA RowsMaterialize ==
  ASSUME TypeInv, RowsHeld, NEW t \in Tx, Materialize(t)
  PROVE  RowsHeld'
<1> USE DEF TypeInv
<1> DEFINE created == [state |-> Start, ver |-> 1, by |-> Req(t).actor]
           unused == {x \in Object : obj[x] = Absent /\ \A u \in Tx : rows[u][x] = None}
           choices == IF Req(t).type \in Creates THEN {{o} : o \in unused} ELSE {{}}
<1>0. PICK new \in choices :
        /\ rows' = [rows EXCEPT ![t] = [o \in Object |->
                      IF o \in new THEN created ELSE rows[t][o]]]
        /\ rowLock' = [o \in Object |-> IF o \in new THEN t ELSE rowLock[o]]
  BY DEF Materialize
<1>1. /\ new \subseteq unused
      /\ rows' = [rows EXCEPT ![t] = [o \in Object |->
                    IF o \in new THEN created ELSE rows[t][o]]]
      /\ rowLock' = [o \in Object |-> IF o \in new THEN t ELSE rowLock[o]]
  BY <1>0
<1>2. UNCHANGED <<obj, acts>>
  BY DEF Materialize, committed
<1>3. created # None
  <2>1. created \in [state : State \cup {None}, ver : Nat, by : Actor \cup {None}]
    BY ReqType, StateAssumption DEF Request
  <2> QED BY <2>1, NoneAssumption
<1> HIDE DEF created, choices
<1>4. \A o \in new : rowLock[o] = None
  BY <1>1 DEF RowsHeld, TypeOK
<1>5. \A u \in Tx, o \in Object : rows'[u][o] # None => rowLock'[o] = u
  BY <1>1 DEF RowsHeld, TypeOK
<1>6. \A u \in Tx : \A a \in acts'[u] :
        a.targets \subseteq Object /\ \A o \in a.targets : rowLock'[o] = u
  BY <1>1, <1>2, <1>4, NoneAssumption DEF RowsHeld
<1>7. \A o \in Object : rowLock'[o] # None =>
        obj'[o] # Absent \/ rows'[rowLock'[o]][o] # None
  BY <1>1, <1>2, <1>3 DEF RowsHeld, TypeOK
<1> QED BY <1>5, <1>6, <1>7 DEF RowsHeld

LEMMA RowsLock ==
  ASSUME TypeInv, RowsHeld, NEW t \in Tx, LockRow(t)
  PROVE  RowsHeld'
<1> USE DEF TypeInv
<1>1. PICK p \in Object : /\ p \in want[t] /\ rowLock[p] \in {None, t}
                          /\ rowLock' = [rowLock EXCEPT ![p] = t]
  BY DEF LockRow, NextRow, Free
<1>2. UNCHANGED <<obj, acts, rows>> /\ View(t, p) # Absent
  BY <1>1 DEF LockRow, committed, writes, PendingOK
<1>3. \A u \in Tx : \A o \in Object : rowLock[o] = u => rowLock'[o] = u
  BY <1>1, NoneAssumption DEF TypeOK
<1>4. \A o \in Object : rowLock'[o] # None =>
        obj'[o] # Absent \/ rows'[rowLock'[o]][o] # None
  BY <1>1, <1>2 DEF RowsHeld, TypeOK, View
<1> QED BY <1>2, <1>3, <1>4 DEF RowsHeld

LEMMA RowsApply ==
  ASSUME TypeInv, RowsHeld, NEW t \in Tx, Apply(t)
  PROVE  RowsHeld'
<1> USE DEF TypeInv
<1> DEFINE act == [id |-> ActId(t), type |-> Req(t).type, key |-> Req(t).key,
                   sem |-> Semantics(Req(t)), targets |-> want[t],
                   before |-> Before(t), after |-> After(t)]
           moved(o) == [state |-> After(t)[o], ver |-> View(t, o).ver + 1,
                        by |-> View(t, o).by]
<1>1. /\ acts' = [acts EXCEPT ![t] = @ \cup {act}]
      /\ rows' = [rows EXCEPT ![t] = [o \in Object |->
                    IF o \in want[t] /\ MovesState(Req(t).type)
                    THEN moved(o) ELSE rows[t][o]]]
      /\ UNCHANGED <<obj, rowLock>> /\ want[t] \subseteq Object
      /\ \A o \in want[t] : rowLock[o] = t
  BY DEF Apply, committed, locks, TypeOK
<1>2. act.targets = want[t]
  OBVIOUS
<1>3. TypeInv'
  BY TypeApply
<1> HIDE DEF act, moved
<1>4. \A u \in Tx \ {t} : acts'[u] = acts[u] /\ rows'[u] = rows[u]
  BY <1>1 DEF PendingOK, TypeOK
<1>5. acts'[t] = acts[t] \cup {act}
  BY <1>1 DEF PendingOK
<1>6. \A o \in Object : rows'[t][o] # None => rowLock[o] = t
  BY <1>1 DEF RowsHeld, TypeOK
<1>7. \A o \in Object : rows[t][o] # None => rows'[t][o] # None
  <2>1. ASSUME NEW o \in want[t] PROVE moved(o) # None
    <3>1. View(t, o) \in [state : State, ver : Nat, by : Actor]
      BY <1>1, <2>1, ViewType DEF Row, PendingOK, Apply
    <3>2. After(t)[o] \in State
      BY <2>1, <3>1, ReqType, NextStateType DEF Apply, Acceptable, After
    <3>3. moved(o) \in [state : State \cup {None}, ver : Nat, by : Actor \cup {None}]
      BY <3>1, <3>2 DEF moved
    <3> QED BY <3>3, NoneAssumption
  <2> QED BY <1>1, <2>1 DEF TypeOK
<1>8. \A o \in Object : rowLock'[o] # None =>
        obj'[o] # Absent \/ rows'[rowLock'[o]][o] # None
  BY <1>1, <1>4, <1>7 DEF RowsHeld, TypeOK
<1>9. \A u \in Tx : \A a \in acts'[u] :
        a.targets \subseteq Object /\ \A o \in a.targets : rowLock'[o] = u
  BY <1>1, <1>2, <1>4, <1>5 DEF RowsHeld
<1> QED BY <1>1, <1>4, <1>6, <1>8, <1>9 DEF RowsHeld

LEMMA RowsNext == TypeInv /\ RowsHeld /\ [Next]_vars => RowsHeld'
<1> SUFFICES ASSUME TypeInv, RowsHeld, [Next]_vars PROVE RowsHeld'
  OBVIOUS
<1>1. ASSUME NEW t \in Tx, Rollback(t) \/ Commit(t) PROVE RowsHeld'
  BY <1>1, RowsRelease DEF Rollback, Commit, committed
<1>2. ASSUME NEW t \in Tx,
             \/ Begin(t) \/ LockIdempotencyKey(t) \/ ReplayPriorAction(t)
             \/ LockChain(t) \/ AppendAudit(t) \/ NextAct(t)
      PROVE  RowsHeld'
  BY <1>2, RowsQuiet
  DEF Begin, LockIdempotencyKey, ReplayPriorAction, LockChain, AppendAudit, NextAct,
      committed, locks, writes
<1>3. CASE UNCHANGED vars
  BY <1>3, RowsQuiet DEF vars, committed, locks, writes
<1> QED
  BY <1>1, <1>2, <1>3, RowsMaterialize, RowsLock, RowsApply
  DEF Next, Dispatch, Finished, RefuseReplay, RefuseState, Abort

-----------------------------------------------------------------------------
(* Serial is invariant.                                                    *)

Framework == TypeInv /\ SlotInv /\ HeadInv /\ IdInv /\ Alone /\ RowsHeld

(* A step that changes nothing a session sees.                             *)
LEMMA SerialKept ==
  ASSUME NEW u \in Tx, SerialAt(u), UNCHANGED <<ledger, chain, obj>>,
         acts'[u] = acts[u], links'[u] = links[u], rows'[u] = rows[u],
         Loose(u)' = Loose(u), Loose(u) => ActId(u)' = ActId(u),
         Fresh(u)' = Fresh(u), Fresh(u) # {} => Req(u)' = Req(u)
  PROVE  SerialAt(u)'
<1>1. SeenLog(u)' = SeenLog(u) /\ SeenActs(u)' = SeenActs(u)
  BY DEF SeenLog, SeenActs, SeenLinks
<1>2. Loose(u) => Current(u)' = Current(u)
  BY <1>1 DEF Current
<1>3. FullLog(u)' = FullLog(u)
  BY <1>1, <1>2 DEF FullLog
<1>4. \A o \in Object : View(u, o)' = View(u, o)
  BY DEF View
<1> QED BY <1>1, <1>2, <1>3, <1>4 DEF SerialAt

(* The record a new act finds is the one its session sees, the rows its    *)
(* materializer inserted included.                                         *)
LEMMA FoundIsView ==
  ASSUME TypeInv, NEW t \in Tx, SerialAt(t), pc[t] = "rows",
         NEW act, act.sem.actor = Req(t).actor, NEW o \in want[t]
  PROVE  /\ o \in Object /\ View(t, o) \in [state : State, ver : Nat, by : Actor]
         /\ Found(SeenLog(t), act, o) = View(t, o)
<1> USE DEF TypeInv
<1>1. o \in Object /\ View(t, o) \in [state : State, ver : Nat, by : Actor]
      /\ View(t, o) # Absent
  BY ViewType DEF TypeOK, PendingOK, Row
<1>2. FullLog(t) = SeenLog(t)
  BY DEF FullLog, Loose
<1>3. CASE o \in Fresh(t)
  <2>1. rows[t][o] = [state |-> Start, ver |-> 1, by |-> Req(t).actor]
        /\ Rec(SeenLog(t), o) = Absent
    BY <1>2, <1>3 DEF SerialAt
  <2>2. [state |-> Start, ver |-> 1, by |-> Req(t).actor] # None
    <3>1. [state |-> Start, ver |-> 1, by |-> Req(t).actor]
            \in [state : State \cup {None}, ver : Nat, by : Actor \cup {None}]
      BY ReqType, StateAssumption DEF Request
    <3> QED BY <3>1, NoneAssumption
  <2> QED BY <1>1, <2>1, <2>2 DEF View, Found, Was
<1>4. CASE o \notin Fresh(t)
  BY <1>1, <1>2, <1>4 DEF SerialAt, Found, Was
<1> QED BY <1>1, <1>3, <1>4

(* A type that moves the state moves it along a registered transition; any *)
(* other leaves it.                                                        *)
LEMMA LegalStep ==
  ASSUME NEW r \in Request, NEW from \in State, LegalMove(r, from)
  PROVE  IF MovesState(r.type)
         THEN [type |-> r.type, from |-> from, to |-> NextState(r, from)] \in Transition
         ELSE NextState(r, from) = from
<1>1. CASE MovesState(r.type)
  <2>1. NextState(r, from) \in Permitted(r.type, from)
    BY <1>1 DEF LegalMove, NextState
  <2>2. PICK tr \in Transition :
          tr.type = r.type /\ tr.from = from /\ tr.to = NextState(r, from)
    BY <2>1 DEF Permitted
  <2>3. tr = [type |-> r.type, from |-> from, to |-> NextState(r, from)]
    BY <2>2, TransitionAssumption
  <2> QED BY <1>1, <2>3
<1>2. CASE ~ MovesState(r.type)
  <2>1. Permitted(r.type, from) = {}
    BY <1>2 DEF Permitted, MovesState
  <2> QED BY <1>2, <2>1 DEF NextState
<1> QED BY <1>1, <1>2

(* An acceptable act fits after what its session sees.                     *)
LEMMA AcceptableFits ==
  ASSUME Framework, NEW t \in Tx, SerialAt(t), Apply(t),
         NEW act, act.type = Req(t).type, act.key = Req(t).key,
         act.sem = Semantics(Req(t)), act.targets = want[t],
         act.before = Before(t), act.after = After(t)
  PROVE  Fits(SeenLog(t), act)
<1> USE DEF Framework
<1>1. pc[t] = "rows" /\ Acceptable(t) /\ Req(t) \in Request
  BY ReqType DEF Apply, TypeInv
<1>2. /\ act.sem.actor = Req(t).actor /\ act.sem.targets = Req(t).targets
      /\ act.sem.expects = Req(t).expects
  BY DEF Semantics
<1>3. \A o \in want[t] :
        /\ o \in Object /\ View(t, o) \in [state : State, ver : Nat, by : Actor]
        /\ Found(SeenLog(t), act, o) = View(t, o)
  BY <1>1, <1>2, FoundIsView
<1>4. \A j \in 1 .. Len(SeenLog(t)) : Slot(SeenLog(t)[j]) # Slot(act)
  <2>1. SeenLog(t) \in Seq(SeenActs(t))
    BY Seen
  <2>2. \A j \in 1 .. Len(SeenLog(t)) : SeenLog(t)[j] \in SeenActs(t)
    BY <2>1
  <2>3. Slot(act) = Slot(Req(t)) /\ Prior(t) = {}
    BY <1>1 DEF Slot, SlotInv
  <2> QED BY <2>2, <2>3 DEF Prior
<1>5. ASSUME NEW o \in want[t]
      PROVE  /\ act.before[o] = Found(SeenLog(t), act, o).state
             /\ IF MovesState(act.type)
                THEN [type |-> act.type, from |-> act.before[o], to |-> act.after[o]]
                       \in Transition
                ELSE act.after[o] = act.before[o]
             /\ act.type \in Restricted =>
                  Found(SeenLog(t), act, o).by # act.sem.actor
  <2>1. act.before[o] = View(t, o).state
        /\ act.after[o] = NextState(Req(t), View(t, o).state)
    BY DEF Before, After
  <2>2. LegalMove(Req(t), View(t, o).state) /\ View(t, o).state \in State
    BY <1>1, <1>3 DEF Acceptable
  <2>3. IF MovesState(act.type)
        THEN [type |-> act.type, from |-> act.before[o], to |-> act.after[o]]
               \in Transition
        ELSE act.after[o] = act.before[o]
    BY <1>1, <2>1, <2>2, LegalStep
  <2>4. act.type \in Restricted => View(t, o).by # act.sem.actor
    BY <1>1, <1>2 DEF Acceptable, SeparationOfDuty
  <2> QED BY <1>3, <2>1, <2>3, <2>4
<1>6. act.sem.targets \subseteq act.targets
  BY <1>1, <1>2 DEF Acceptable
<1>7. act.sem.expects # None =>
        \A o \in act.sem.targets : Found(SeenLog(t), act, o).ver = act.sem.expects
  BY <1>1, <1>2, <1>3, <1>6 DEF Acceptable, ExpectedVersion
<1> QED BY <1>4, <1>5, <1>6, <1>7 DEF Fits

(* A materializer's rows are new: no act names them.                       *)
LEMMA SerialMaterialize ==
  ASSUME Framework, Serial, NEW t \in Tx, Materialize(t)
  PROVE  Serial'
<1> USE DEF Framework, TypeInv
<1> DEFINE created == [state |-> Start, ver |-> 1, by |-> Req(t).actor]
           unused == {x \in Object : obj[x] = Absent /\ \A u \in Tx : rows[u][x] = None}
           choices == IF Req(t).type \in Creates THEN {{o} : o \in unused} ELSE {{}}
<1>1. PICK new \in choices :
        /\ made' = [made EXCEPT ![t] = new]
        /\ rows' = [rows EXCEPT ![t] = [o \in Object |->
                      IF o \in new THEN created ELSE rows[t][o]]]
  BY DEF Materialize
<1>2. new \subseteq unused
  OBVIOUS
<1>3. /\ UNCHANGED <<ledger, chain, obj, acts, links, step, attempt>>
      /\ pc[t] = "replay" /\ pc'[t] = "rows" /\ \A u \in Tx \ {t} : pc'[u] = pc[u]
  BY DEF Materialize, committed, TypeOK
<1>4. \A u \in Tx \ {t} : rows'[u] = rows[u] /\ made'[u] = made[u]
  BY <1>1 DEF TypeOK
<1> HIDE DEF created, choices
<1>5. made'[t] = new /\ \A o \in Object :
        rows'[t][o] = IF o \in new THEN created ELSE rows[t][o]
  BY <1>1 DEF TypeOK
<1>6. \A u \in Tx \ {t} : SerialAt(u)'
  BY <1>3, <1>4, SerialKept DEF Serial, Loose, Fresh, ActId, Req
<1>7. SerialAt(t)'
  <2>1. SeenLog(t)' = SeenLog(t) /\ ~ Loose(t)' /\ ~ Loose(t)
    BY <1>3 DEF SeenLog, SeenActs, SeenLinks, Loose
  <2>2. FullLog(t)' = SeenLog(t) /\ FullLog(t) = SeenLog(t)
    BY <2>1 DEF FullLog
  <2>3. Fresh(t) = {} /\ Fresh(t)' = new /\ Req(t)' = Req(t)
    BY <1>3, <1>5 DEF Fresh, Req
  <2>4. \A o \in Object : View(t, o) = Rec(SeenLog(t), o)
    BY <2>2, <2>3 DEF Serial, SerialAt
  <2>5. \A o \in new : Rec(SeenLog(t), o) = Absent /\ rows'[t][o] = created
    BY <1>2, <1>5, <2>4 DEF View
  <2>6. \A o \in Object \ new : View(t, o)' = Rec(SeenLog(t), o)
    BY <1>3, <1>5, <2>4 DEF View
  <2> QED BY <1>3, <2>1, <2>2, <2>3, <2>5, <2>6 DEF SerialAt, Serial, created
<1>8. \A o \in Object : obj'[o] = Rec(LogOf, o)'
  BY <1>3 DEF Serial, LogOf
<1> QED BY <1>6, <1>7, <1>8 DEF Serial

(* An act moves the rows it names as the log it extends says.              *)
LEMMA SerialApply ==
  ASSUME Framework, Framework', Serial, NEW t \in Tx, Apply(t)
  PROVE  Serial'
<1> DEFINE act == [id |-> ActId(t), type |-> Req(t).type, key |-> Req(t).key,
                   sem |-> Semantics(Req(t)), targets |-> want[t],
                   before |-> Before(t), after |-> After(t)]
           moved(o) == [state |-> After(t)[o], ver |-> View(t, o).ver + 1,
                        by |-> View(t, o).by]
<1>1. /\ acts' = [acts EXCEPT ![t] = @ \cup {act}]
      /\ rows' = [rows EXCEPT ![t] = [o \in Object |->
                    IF o \in want[t] /\ MovesState(Req(t).type)
                    THEN moved(o) ELSE rows[t][o]]]
      /\ UNCHANGED <<ledger, chain, obj, links, made, step, attempt>>
      /\ pc[t] = "rows" /\ Acceptable(t) /\ want[t] \subseteq Object
      /\ pc'[t] = "chain" /\ \A u \in Tx \ {t} : pc'[u] = pc[u]
  BY DEF Apply, committed, locks, TypeOK, Framework, TypeInv
<1>2. /\ act.id = ActId(t) /\ act.type = Req(t).type /\ act.key = Req(t).key
      /\ act.sem = Semantics(Req(t)) /\ act.targets = want[t]
      /\ act.before = Before(t) /\ act.after = After(t) /\ act.sem.actor = Req(t).actor
  BY DEF Semantics
<1> HIDE DEF act
<1>3. /\ \A u \in Tx \ {t} : acts'[u] = acts[u] /\ rows'[u] = rows[u]
      /\ acts'[t] = acts[t] \cup {act}
      /\ \A o \in Object : rows'[t][o] =
           IF o \in want[t] /\ MovesState(Req(t).type) THEN moved(o) ELSE rows[t][o]
  BY <1>1 DEF Framework, TypeInv, TypeOK, PendingOK
<1> HIDE DEF moved
<1>4. Fits(SeenLog(t), act)
  BY <1>2, AcceptableFits DEF Serial
<1>5. SeenActs(t)' = SeenActs(t) \cup {act} /\ UniqueIds(SeenActs(t)')
      /\ SeenLinks(t)' = SeenLinks(t)
  <2>1. SeenActs(t)' = SeenActs(t) \cup {act} /\ SeenLinks(t)' = SeenLinks(t)
    BY <1>1, <1>3 DEF SeenActs, SeenLinks
  <2>2. SeenActs(t)' \subseteq Everything'
    BY DEF SeenActs, Everything
  <2> QED BY <2>1, <2>2 DEF Framework, Alone, UniqueIds
<1>6. SeenLog(t)' = SeenLog(t)
  BY <1>5, Seen, LogOverMore DEF SeenLog, Framework
<1>7. Current(t)' = act
  <2>1. \A a \in SeenActs(t)' : a.id = ActId(t) <=> a = act
    BY <1>2, <1>5 DEF UniqueIds
  <2>2. ActId(t)' = ActId(t)
    BY <1>1 DEF ActId
  <2> QED BY <1>2, <1>5, <2>1, <2>2 DEF Current
<1>8. FullLog(t) = SeenLog(t) /\ FullLog(t)' = Append(SeenLog(t), act)
      /\ Fresh(t) = made[t] /\ Fresh(t)' = {} /\ made[t] \subseteq want[t]
  BY <1>1, <1>6, <1>7 DEF FullLog, Loose, Fresh, Acceptable
<1>9. SeenLog(t) \in Seq(SeenActs(t)') /\ act \in SeenActs(t)'
  <2>1. SeenLog(t) \in Seq(SeenActs(t))
    BY Seen DEF Framework
  <2> QED BY <1>5, <2>1
<1>10. ASSUME NEW o \in Object PROVE View(t, o)' = Rec(FullLog(t)', o)
  <2>1. Rec(FullLog(t)', o) =
          IF o \in want[t]
          THEN [state |-> After(t)[o],
                ver |-> Found(SeenLog(t), act, o).ver
                          + IF MovesState(Req(t).type) THEN 1 ELSE 0,
                by |-> Found(SeenLog(t), act, o).by]
          ELSE Rec(SeenLog(t), o)
    BY <1>2, <1>8, <1>9, RecAppend
  <2>2. CASE o \notin want[t]
    <3>1. View(t, o)' = View(t, o)
      BY <1>1, <1>3, <2>2 DEF View
    <3>2. View(t, o) = Rec(SeenLog(t), o)
      BY <1>8, <2>2 DEF Serial, SerialAt
    <3> QED BY <2>1, <2>2, <3>1, <3>2
  <2>3. CASE o \in want[t]
    <3>1. /\ View(t, o) \in [state : State, ver : Nat, by : Actor]
          /\ Found(SeenLog(t), act, o) = View(t, o)
      BY <1>1, <1>2, <2>3, FoundIsView DEF Serial, Framework
    <3>2. CASE MovesState(Req(t).type)
      <4>1. rows'[t][o] = moved(o)
        BY <1>3, <2>3, <3>2
      <4>2. moved(o) # None
        <5>1. After(t)[o] \in State
          BY <1>1, <2>3, <3>1, ReqType, NextStateType
          DEF Acceptable, After, Framework, TypeInv
        <5>2. moved(o) \in [state : State \cup {None}, ver : Nat, by : Actor \cup {None}]
          BY <3>1, <5>1 DEF moved
        <5> QED BY <5>2, NoneAssumption
      <4>3. View(t, o)' = moved(o)
        BY <4>1, <4>2 DEF View
      <4> QED BY <2>1, <2>3, <3>1, <3>2, <4>3 DEF moved
    <3>3. CASE ~ MovesState(Req(t).type)
      <4>1. View(t, o)' = View(t, o)
        BY <1>1, <1>3, <3>3 DEF View
      <4>2. After(t)[o] = View(t, o).state
        <5>1. LegalMove(Req(t), View(t, o).state) /\ Req(t) \in Request
          BY <1>1, <2>3, ReqType DEF Acceptable, Framework, TypeInv
        <5> QED BY <2>3, <3>1, <3>3, <5>1, LegalStep DEF After
      <4>3. View(t, o).ver + 0 = View(t, o).ver
        BY <3>1
      <4> QED BY <2>1, <2>3, <3>1, <3>3, <4>1, <4>2, <4>3
    <3> QED BY <3>2, <3>3
  <2> QED BY <2>2, <2>3
<1>11. SerialAt(t)'
  <2>1. \A i \in (Len(chain) + 1) .. Len(SeenLog(t)) : Ledger!Legal(SeenLog(t), i)
    BY DEF Serial, SerialAt
  <2> QED BY <1>1, <1>4, <1>6, <1>7, <1>8, <1>10, <2>1 DEF SerialAt
<1>12. \A u \in Tx \ {t} : SerialAt(u)'
  BY <1>1, <1>3, SerialKept DEF Serial, Loose, Fresh, ActId, Req
<1>13. \A o \in Object : obj'[o] = Rec(LogOf, o)'
  BY <1>1 DEF Serial, LogOf
<1> QED BY <1>11, <1>12, <1>13 DEF Serial

(* Linking an act fixes it at the end of the log, where it is legal.       *)
LEMMA SerialAppend ==
  ASSUME Framework, Serial, NEW t \in Tx, AppendAudit(t)
  PROVE  Serial'
<1> USE DEF Framework, TypeInv
<1>1. /\ UNCHANGED <<ledger, chain, obj, acts, rows, made, step, attempt>>
      /\ links' = [links EXCEPT ![t] = Append(@, NewLink(t))]
      /\ pc[t] = "audit" /\ pc'[t] = "next" /\ \A u \in Tx \ {t} : pc'[u] = pc[u]
  BY DEF AppendAudit, committed, TypeOK
<1>2. links'[t] = Append(links[t], NewLink(t)) /\ \A u \in Tx \ {t} : links'[u] = links[u]
  BY <1>1 DEF PendingOK
<1>3. NewLink(t) \in Link /\ NewLink(t).act = ActId(t)
  <2>1. ActId(t) \in Id /\ nextSeq \in Nat
    BY DEF ActId, TypeOK, Id
  <2> QED BY <2>1 DEF NewLink, Link, HeadInv
<1>4. SeenLinks(t)' = Append(SeenLinks(t), NewLink(t)) /\ SeenActs(t)' = SeenActs(t)
  BY <1>1, <1>2, <1>3, ConcatAppend DEF SeenLinks, SeenActs, HeadInv, Good
<1>5. /\ Loose(t) /\ ~ Loose(t)' /\ Fresh(t) = {} /\ Fresh(t)' = {}
      /\ FullLog(t) = Append(SeenLog(t), Current(t)) /\ FullLog(t)' = SeenLog(t)'
  BY <1>1 DEF Loose, Fresh, FullLog
<1>6. /\ SeenLinks(t) \in Seq(Link) /\ UniqueIds(SeenActs(t))
      /\ Covers(SeenActs(t), SeenLinks(t)) /\ SeenLog(t) \in Seq(SeenActs(t))
      /\ Current(t) \in SeenActs(t) /\ Current(t).id = ActId(t)
  BY <1>5, Seen
<1>7. SeenLog(t)' = Append(SeenLog(t), Current(t))
  BY <1>3, <1>4, <1>6, LogOverAppend DEF SeenLog
<1>8. /\ Len(SeenLog(t)) \in Nat /\ Len(SeenLog(t)') = Len(SeenLog(t)) + 1
      /\ Extends(SeenLog(t)', SeenLog(t))
  BY <1>6, <1>7, AppendIs
<1>9. Ledger!Legal(SeenLog(t)', Len(SeenLog(t)) + 1)
  BY <1>5, <1>6, <1>7, FitsLegal DEF Serial, SerialAt
<1>10. Len(chain) \in Nat
  BY DEF HeadInv, Good
<1>11. ASSUME NEW i \in (Len(chain) + 1) .. Len(SeenLog(t)')
       PROVE  Ledger!Legal(SeenLog(t)', i)
  <2>1. CASE i = Len(SeenLog(t)) + 1
    BY <1>9, <2>1
  <2>2. CASE i # Len(SeenLog(t)) + 1
    <3>1. i \in (Len(chain) + 1) .. Len(SeenLog(t)) /\ i \in 1 .. Len(SeenLog(t))
      BY <1>8, <1>10, <2>2
    <3>2. Ledger!Legal(SeenLog(t), i)
      BY <3>1 DEF Serial, SerialAt
    <3> QED BY <1>8, <3>1, <3>2, SameLegal
  <2> QED BY <2>1, <2>2
<1>12. \A o \in Object : View(t, o)' = Rec(FullLog(t)', o)
  <2>1. SerialAt(t) /\ FullLog(t)' = FullLog(t)
    BY <1>5, <1>7 DEF Serial
  <2>2. \A o \in Object : View(t, o)' = View(t, o)
    BY <1>1 DEF View
  <2> QED BY <1>5, <2>1, <2>2 DEF SerialAt
<1>13. SerialAt(t)'
  BY <1>1, <1>5, <1>11, <1>12 DEF SerialAt
<1>14. \A u \in Tx \ {t} : SerialAt(u)'
  BY <1>1, <1>2, SerialKept DEF Serial, Loose, Fresh, ActId, Req
<1>15. \A o \in Object : obj'[o] = Rec(LogOf, o)'
  BY <1>1 DEF Serial, LogOf
<1> QED BY <1>13, <1>14, <1>15 DEF Serial

(* What Release leaves of a session and of the others.                     *)
LEMMA Released ==
  ASSUME TypeInv, HeadInv, NEW t \in Tx, Release(t), UNCHANGED <<step, attempt>>
  PROVE  /\ acts'[t] = {} /\ links'[t] = << >> /\ \A o \in Object : rows'[t][o] = None
         /\ ~ Loose(t)' /\ Fresh(t)' = {}
         /\ \A u \in Tx \ {t} :
              /\ acts'[u] = acts[u] /\ links'[u] = links[u] /\ rows'[u] = rows[u]
              /\ Loose(u)' = Loose(u) /\ Fresh(u)' = Fresh(u)
              /\ ActId(u)' = ActId(u) /\ Req(u)' = Req(u)
<1>1. /\ pc'[t] = "done"
      /\ \A u \in Tx \ {t} : pc'[u] = pc[u] /\ made'[u] = made[u]
  BY DEF Release, TypeInv, TypeOK
<1>2. /\ acts'[t] = {} /\ links'[t] = << >> /\ \A o \in Object : rows'[t][o] = None
      /\ \A u \in Tx \ {t} :
           acts'[u] = acts[u] /\ links'[u] = links[u] /\ rows'[u] = rows[u]
  BY DEF Release, TypeInv, TypeOK, PendingOK
<1> QED BY <1>1, <1>2 DEF Loose, Fresh, ActId, Req

(* The session that ended sees the committed log again.                    *)
LEMMA SerialEnded ==
  ASSUME TypeInv, HeadInv, NEW t \in Tx, Release(t), UNCHANGED <<step, attempt>>,
         chain' \in Seq(Link), \A o \in Object : obj'[o] = Rec(LogOf', o)
  PROVE  SerialAt(t)'
<1>1. SeenActs(t)' = ledger' /\ SeenLinks(t)' = chain'
  BY Released, ConcatEmpty DEF SeenActs, SeenLinks
<1>2. SeenLog(t)' = LogOf' /\ FullLog(t)' = LogOf'
  BY <1>1, Released DEF SeenLog, LogOf, FullLog
<1>3. Len(LogOf') = Len(chain') /\ Len(chain') \in Nat
  BY DEF LogOf, LogOver
<1>4. \A o \in Object : View(t, o)' = Rec(FullLog(t)', o)
  BY <1>2, Released DEF View
<1>5. \A i \in (Len(chain') + 1) .. Len(SeenLog(t)') : FALSE
  BY <1>2, <1>3
<1> QED BY <1>4, <1>5, Released DEF SerialAt

LEMMA SerialRollback ==
  ASSUME Framework, Serial, NEW t \in Tx, Rollback(t)
  PROVE  Serial'
<1> USE DEF Framework
<1>1. Release(t) /\ UNCHANGED <<ledger, chain, obj, step, attempt>>
  BY DEF Rollback, committed
<1>2. LogOf' = LogOf /\ chain' \in Seq(Link)
  BY <1>1 DEF LogOf, HeadInv, Good
<1>3. \A o \in Object : obj'[o] = Rec(LogOf', o)
  BY <1>1, <1>2 DEF Serial
<1>4. SerialAt(t)'
  BY <1>1, <1>2, <1>3, SerialEnded
<1>5. \A u \in Tx \ {t} : SerialAt(u)'
  BY <1>1, Released, SerialKept DEF Serial
<1> QED BY <1>3, <1>4, <1>5 DEF Serial

-----------------------------------------------------------------------------
(* Commit.                                                                 *)

(* What a commit adds is what its session saw.                             *)
LEMMA CommitLog ==
  ASSUME Framework, Serial, NEW t \in Tx, Commit(t)
  PROVE  /\ Release(t) /\ UNCHANGED <<step, attempt>>
         /\ LogOf' = SeenLog(t) /\ chain' = SeenLinks(t) /\ ledger' = SeenActs(t)
         /\ \A o \in Object : obj'[o] = View(t, o) /\ obj'[o] = Rec(LogOf', o)
         /\ \A o \in Object : rows[t][o] = None =>
              obj'[o] = obj[o] /\ Rec(LogOf', o) = Rec(LogOf, o)
<1>1. /\ Release(t) /\ UNCHANGED <<step, attempt>> /\ pc[t] = "next"
      /\ chain' = SeenLinks(t) /\ ledger' = SeenActs(t)
      /\ \A o \in Object : obj'[o] = View(t, o)
  BY DEF Commit, SeenLinks, SeenActs
<1>2. LogOf' = SeenLog(t)
  BY <1>1 DEF LogOf, SeenLog
<1>3. FullLog(t) = SeenLog(t) /\ Fresh(t) = {}
  BY <1>1 DEF FullLog, Loose, Fresh
<1>4. \A o \in Object : obj'[o] = Rec(LogOf', o)
  BY <1>1, <1>2, <1>3 DEF Serial, SerialAt
<1>5. \A o \in Object : rows[t][o] = None =>
        obj'[o] = obj[o] /\ Rec(LogOf', o) = Rec(LogOf, o)
  BY <1>1, <1>4 DEF View, Serial
<1> QED BY <1>1, <1>2, <1>4, <1>5

(* A session that linked nothing has nothing to commit.                    *)
LEMMA CommitNothing ==
  ASSUME Framework, Serial, NEW t \in Tx, Commit(t), links[t] = << >>
  PROVE  UNCHANGED <<ledger, chain>> /\ \A o \in Object : obj'[o] = obj[o]
<1> USE DEF Framework
<1>1. Unlinked(t) = {} /\ ActsOf(links[t]) = {}
  BY DEF Commit, Unlinked, ActsOf
<1>2. acts[t] = {}
  <2>1. IdsOf(acts[t]) = {}
    BY <1>1 DEF IdInv
  <2> QED BY <2>1 DEF IdsOf
<1>3. ledger' = ledger /\ chain' = chain
  BY <1>2, ConcatEmpty DEF Commit, HeadInv, Good
<1> QED BY <1>3, CommitLog DEF Serial, LogOf

(* While a session commits links, another is either looking at the old     *)
(* log with no act of its own, or holds one act that is not linked yet.    *)
LEMMA SerialOther ==
  ASSUME Framework, Framework', Serial, NEW t \in Tx, Commit(t), links[t] # << >>,
         NEW u \in Tx \ {t}
  PROVE  SerialAt(u)'
<1> USE DEF Framework
<1>1. /\ Release(t) /\ UNCHANGED <<step, attempt>>
      /\ LogOf' = SeenLog(t) /\ chain' = SeenLinks(t) /\ ledger' = SeenActs(t)
      /\ \A o \in Object : obj'[o] = View(t, o) /\ obj'[o] = Rec(LogOf', o)
      /\ \A o \in Object : rows[t][o] = None =>
           obj'[o] = obj[o] /\ Rec(LogOf', o) = Rec(LogOf, o)
  BY CommitLog
<1>2. /\ acts'[u] = acts[u] /\ links'[u] = links[u] /\ rows'[u] = rows[u]
      /\ Loose(u)' = Loose(u) /\ Fresh(u)' = Fresh(u)
      /\ ActId(u)' = ActId(u) /\ Req(u)' = Req(u)
  BY <1>1, Released
<1>3. links[u] = << >>
  BY DEF HeadInv
<1>4. /\ SeenLinks(u) = chain /\ SeenLinks(u)' = chain'
      /\ chain \in Seq(Link) /\ chain' \in Seq(Link)
  BY <1>1, <1>2, <1>3, Seen, ConcatEmpty DEF SeenLinks
<1>5. SeenLog(u) = LogOf /\ SeenLog(u)' = LogOf'
  <2>1. UniqueIds(SeenActs(u)) /\ Covers(ledger, chain) /\ ledger \subseteq SeenActs(u)
    BY Seen DEF SeenActs
  <2>2. Covers(ledger', chain')
    BY <1>1, Seen
  <2>3. UniqueIds(SeenActs(u)') /\ ledger' \subseteq SeenActs(u)'
    BY DEF SeenActs, UniqueIds, Alone, Everything
  <2> QED BY <1>4, <2>1, <2>2, <2>3, LogOverMore DEF SeenLog, LogOf
<1>6. \A o \in Object : rows[u][o] # None => rows[t][o] = None
  BY DEF RowsHeld
<1>7. \A o \in Object : rows[u][o] # None =>
        View(u, o)' = View(u, o) /\ Rec(LogOf', o) = Rec(LogOf, o)
  BY <1>1, <1>2, <1>6 DEF View
<1>8. \A o \in Object : rows[u][o] = None => View(u, o)' = Rec(LogOf', o)
  BY <1>1, <1>2 DEF View
<1>9. /\ Len(LogOf') = Len(chain') /\ Len(chain') \in Nat
      /\ \A i \in (Len(chain') + 1) .. Len(SeenLog(u)') : FALSE
  <2>1. Len(LogOf') = Len(chain') /\ Len(chain') \in Nat
    BY <1>4 DEF LogOf, LogOver
  <2> QED BY <1>5, <2>1
<1>10. CASE ~ Loose(u)
  <2>1. FullLog(u) = LogOf /\ FullLog(u)' = LogOf'
    BY <1>2, <1>5, <1>10 DEF FullLog
  <2>2. \A o \in Object \ Fresh(u) : View(u, o)' = Rec(LogOf', o)
    BY <1>7, <1>8, <2>1 DEF Serial, SerialAt
  <2>3. ASSUME NEW o \in Fresh(u)
        PROVE  /\ Rec(LogOf', o) = Absent
               /\ rows'[u][o] = [state |-> Start, ver |-> 1, by |-> Req(u).actor]
    <3>1. Rec(LogOf, o) = Absent /\ o \in Object
          /\ rows[u][o] = [state |-> Start, ver |-> 1, by |-> Req(u).actor]
      BY <2>1, <2>3 DEF Serial, SerialAt, Fresh, TypeInv, TypeOK
    <3>2. rows[u][o] # None
      <4>1. rows[u][o] \in [state : State \cup {None}, ver : Nat, by : Actor \cup {None}]
        BY <3>1, ReqType, StateAssumption DEF Request, TypeInv
      <4> QED BY <4>1, NoneAssumption
    <3> QED BY <1>2, <1>7, <3>1, <3>2
  <2> QED BY <1>2, <1>9, <1>10, <2>1, <2>2, <2>3 DEF SerialAt
<1>11. CASE Loose(u)
  <2> DEFINE c == Current(u)
  <2>1. /\ c \in acts[u] /\ c.id = ActId(u) /\ c \in SeenActs(u)
        /\ Fits(LogOf, c) /\ FullLog(u) = Append(LogOf, c)
    BY <1>5, <1>11, Seen DEF FullLog, Serial, SerialAt
  <2>2. c \in SeenActs(u)' /\ UniqueIds(SeenActs(u)')
    <3>1. c \in SeenActs(u)'
      BY <1>2, <2>1 DEF SeenActs
    <3> QED BY <3>1 DEF SeenActs, UniqueIds, Alone, Everything
  <2>3. Current(u)' = c
    <3> HIDE DEF c
    <3>1. \A a \in SeenActs(u)' : a.id = ActId(u) <=> a = c
      BY <2>1, <2>2 DEF UniqueIds
    <3> QED BY <1>2, <2>2, <3>1 DEF Current
  <2> HIDE DEF c
  <2>4. FullLog(u)' = Append(LogOf', c) /\ Fresh(u) = {}
    BY <1>2, <1>5, <1>11, <2>3 DEF FullLog, Loose, Fresh
  <2>5. c.targets \subseteq Object /\ \A o \in c.targets : rows[t][o] = None
    BY <2>1 DEF RowsHeld
  <2>6. \A o \in c.targets : Found(LogOf', c, o) = Found(LogOf, c, o)
    BY <1>1, <2>5 DEF Found
  <2>7. Fits(LogOf', c)
    <3>1. \A a \in SeenActs(t) : Slot(a) # Slot(c)
      <4>1. c \in Everything /\ SeenActs(t) \subseteq Everything
        BY <2>1 DEF Everything, SeenActs
      <4>2. c \notin ledger
        <5>1. c.id[1] = u /\ c.id[2] = attempt[u] /\ attempt[u] \in Nat /\ pc[u] \in Active
          BY <1>11, <2>1, AttemptsAssumption DEF ActId, TypeInv, TypeOK, Loose, Active
        <5>2. c.id \notin ActsOf(chain)
          BY <5>1 DEF IdInv
        <5> QED BY <5>2 DEF IdInv, IdsOf
      <4>3. c \notin acts[t]
        <5>1. c.id[1] = u /\ Unlinked(t) = {}
          BY <2>1 DEF ActId, Unlinked, Commit
        <5>2. c.id \notin ActsOf(links[t])
          BY <5>1 DEF IdInv
        <5>3. IdsOf(acts[t]) = ActsOf(links[t]) \cup Unlinked(t)
          BY DEF IdInv
        <5> QED BY <5>1, <5>2, <5>3 DEF IdsOf
      <4> QED BY <4>1, <4>2, <4>3 DEF Alone, SeenActs
    <3>2. \A j \in 1 .. Len(LogOf') : LogOf'[j] \in SeenActs(t)
      <4>1. LogOf' \in Seq(SeenActs(t))
        BY <1>1, Seen
      <4> QED BY <4>1
    <3>3. c.sem.targets \subseteq c.targets
      BY <2>1 DEF Fits
    <3> QED BY <2>1, <2>6, <3>1, <3>2, <3>3 DEF Fits
  <2>8. ASSUME NEW o \in Object PROVE View(u, o)' = Rec(FullLog(u)', o)
    <3>1. View(u, o) = Rec(FullLog(u), o)
      BY <2>4 DEF Serial, SerialAt
    <3>2. LogOf \in Seq(SeenActs(u)) /\ LogOf' \in Seq(SeenActs(u)')
      <4>1. LogOf \in Seq(SeenActs(u)) /\ LogOf' \in Seq(ledger')
        BY <1>1, Seen
      <4>2. ledger' \subseteq SeenActs(u)'
        BY DEF SeenActs
      <4> QED BY <4>1, <4>2
    <3>3. Rec(FullLog(u), o) =
            IF o \in c.targets
            THEN [state |-> c.after[o],
                  ver |-> Found(LogOf, c, o).ver + IF MovesState(c.type) THEN 1 ELSE 0,
                  by |-> Found(LogOf, c, o).by]
            ELSE Rec(LogOf, o)
      BY <2>1, <3>2, RecAppend
    <3>4. Rec(FullLog(u)', o) =
            IF o \in c.targets
            THEN [state |-> c.after[o],
                  ver |-> Found(LogOf', c, o).ver + IF MovesState(c.type) THEN 1 ELSE 0,
                  by |-> Found(LogOf', c, o).by]
            ELSE Rec(LogOf', o)
      BY <2>2, <2>4, <3>2, RecAppend
    <3>5. CASE o \in c.targets
      <4>1. Rec(FullLog(u)', o) = Rec(FullLog(u), o)
        BY <2>6, <3>3, <3>4, <3>5
      <4>2. View(u, o)' = View(u, o)
        BY <1>1, <1>2, <2>5, <3>5 DEF View
      <4> QED BY <3>1, <4>1, <4>2
    <3>6. CASE o \notin c.targets
      BY <1>7, <1>8, <3>1, <3>3, <3>4, <3>6
    <3> QED BY <3>5, <3>6
  <2> QED BY <1>2, <1>5, <1>9, <2>3, <2>4, <2>7, <2>8 DEF SerialAt
<1> QED BY <1>10, <1>11

LEMMA SerialCommit ==
  ASSUME Framework, Framework', Serial, NEW t \in Tx, Commit(t)
  PROVE  Serial'
<1>1. /\ Release(t) /\ UNCHANGED <<step, attempt>> /\ chain' = SeenLinks(t)
      /\ \A o \in Object : obj'[o] = Rec(LogOf', o)
  BY CommitLog
<1>2. SerialAt(t)'
  BY <1>1, Seen, SerialEnded DEF Framework
<1>3. ASSUME NEW u \in Tx \ {t} PROVE SerialAt(u)'
  <2>1. CASE links[t] # << >>
    BY <2>1, SerialOther
  <2>2. CASE links[t] = << >>
    <3>1. UNCHANGED <<ledger, chain>> /\ \A o \in Object : obj'[o] = obj[o]
      BY <2>2, CommitNothing
    <3>2. obj' = obj
      BY <1>1, <3>1 DEF Framework, TypeInv, TypeOK
    <3> QED BY <1>1, <3>1, <3>2, Released, SerialKept DEF Serial, Framework
  <2> QED BY <2>1, <2>2
<1> QED BY <1>1, <1>2, <1>3 DEF Serial

-----------------------------------------------------------------------------

LEMMA SerialInit == Init => Alone /\ RowsHeld /\ Serial
<1> SUFFICES ASSUME Init PROVE Alone /\ RowsHeld /\ Serial
  OBVIOUS
<1>1. Alone /\ RowsHeld
  BY DEF Init, Alone, Everything, RowsHeld
<1>2. /\ LogOf = << >> /\ \A t \in Tx : ~ Loose(t) /\ Fresh(t) = {}
      /\ \A t \in Tx : SeenLinks(t) = << >>
  BY ConcatEmpty DEF Init, LogOf, LogOver, Loose, Fresh, SeenLinks
<1>3. \A t \in Tx : SeenLog(t) = << >> /\ FullLog(t) = << >>
  BY <1>2 DEF SeenLog, FullLog, LogOver
<1>4. \A o \in Object : Rec(<< >>, o) = obj[o]
  <2> TAKE o \in Object
  <2>1. \A i \in 1 .. ((0 + 1) - 1) : FALSE
    OBVIOUS
  <2>2. ~ Named(<< >>, o)
    BY <2>1 DEF Named, Ledger!NamedBefore
  <2>3. Ledger!VersionAt(<< >>, 0 + 1, o) = 1
    <3>1. Ledger!VersionAt(<< >>, 0 + 1, o) = 1 + Cardinality({})
      BY <2>1, SameCount DEF Ledger!VersionAt
    <3> QED BY <3>1, FS_EmptySet
  <2>4. Ledger!StateAt(<< >>, 0 + 1, o) = Start
    BY <2>2 DEF Named, Ledger!StateAt
  <2> QED BY <2>2, <2>3, <2>4 DEF Init, Rec, Ledger!CreatorOf
<1>5. \A t \in Tx : SerialAt(t)
  BY <1>2, <1>3, <1>4 DEF SerialAt, View, Init
<1> QED BY <1>1, <1>2, <1>4, <1>5 DEF Serial

LEMMA FrameworkNext == Framework /\ [Next]_vars => Framework'
BY TypeNext, SlotNext, HeadNext, IdNext, AloneNext, RowsNext DEF Framework

LEMMA SerialNext == Framework /\ Serial /\ [Next]_vars => Serial'
<1> SUFFICES ASSUME Framework, Serial, [Next]_vars PROVE Serial'
  OBVIOUS
<1>1. Framework'
  BY FrameworkNext
<1> USE DEF committed, locks, writes
<1>2. ASSUME NEW t \in Tx,
             \/ Begin(t) \/ LockIdempotencyKey(t) \/ ReplayPriorAction(t)
             \/ LockRow(t) \/ LockChain(t) \/ NextAct(t)
      PROVE  Serial'
  <2>1. UNCHANGED <<ledger, chain, obj, acts, links, rows>>
    BY <1>2 DEF Begin, LockIdempotencyKey, ReplayPriorAction, LockRow, LockChain, NextAct
  <2>2. \A u \in Tx : Loose(u)' = Loose(u) /\ Fresh(u)' = Fresh(u)
    BY <1>2
    DEF Begin, LockIdempotencyKey, ReplayPriorAction, LockRow, LockChain, NextAct,
        Loose, Fresh, Framework, TypeInv, TypeOK
  <2>3. \A u \in Tx : Loose(u) \/ Fresh(u) # {} =>
          ActId(u)' = ActId(u) /\ Req(u)' = Req(u)
    BY <1>2
    DEF Begin, LockIdempotencyKey, ReplayPriorAction, LockRow, LockChain, NextAct,
        Loose, Fresh, Framework, TypeInv, TypeOK, ActId, Req
  <2>4. \A u \in Tx : SerialAt(u)'
    BY <2>1, <2>2, <2>3, SerialKept DEF Serial
  <2> QED BY <2>1, <2>4 DEF Serial, LogOf
<1>3. CASE UNCHANGED vars
  <2>1. /\ UNCHANGED <<ledger, chain, obj, acts, links, rows>>
        /\ \A u \in Tx : /\ Loose(u)' = Loose(u) /\ Fresh(u)' = Fresh(u)
                          /\ ActId(u)' = ActId(u) /\ Req(u)' = Req(u)
    BY <1>3 DEF vars, Loose, Fresh, ActId, Req
  <2>2. \A u \in Tx : SerialAt(u)'
    BY <2>1, SerialKept DEF Serial
  <2> QED BY <2>1, <2>2 DEF Serial, LogOf
<1> QED
  BY <1>1, <1>2, <1>3, SerialMaterialize, SerialApply, SerialAppend, SerialRollback,
     SerialCommit
  DEF Next, Dispatch, Finished, RefuseReplay, RefuseState, Abort

LEMMA KernelInvariant == Spec => [](Framework /\ Serial)
<1>1. Init => Framework /\ Serial
  BY TypeInit, SlotInit, HeadInit, IdInit, SerialInit DEF Framework
<1>2. Framework /\ Serial /\ [Next]_vars => (Framework /\ Serial)'
  BY FrameworkNext, SerialNext
<1> QED BY <1>1, <1>2, PTL DEF Spec

(* Whatever the sessions interleave, a committed record is what the        *)
(* committed acts say of it: its state is the one the last act that names  *)
(* it left, and its version counts the acts that moved it.                 *)
THEOREM RecordsCorrect == Spec => []RecordsMatchLedger
<1>1. Framework /\ Serial => RecordsMatchLedger
  <2> SUFFICES ASSUME Framework, Serial, NEW o \in Object, obj[o] # Absent
               PROVE  /\ obj[o].state = Ledger!StateAt(LogOf, Len(chain) + 1, o)
                      /\ obj[o].ver = Ledger!VersionAt(LogOf, Len(chain) + 1, o)
    BY DEF RecordsMatchLedger
  <2>1. Len(LogOf) = Len(chain)
    BY DEF LogOf, LogOver, Framework, HeadInv, Good
  <2>2. obj[o] = Rec(LogOf, o)
    BY DEF Serial
  <2> QED BY <2>1, <2>2 DEF Rec
<1> QED BY <1>1, KernelInvariant, PTL

(* The concurrent kernel implements the ledger: a step either leaves the   *)
(* committed log as it is or commits one transaction, whose acts it adds   *)
(* at the end, each legal against the state left by all the acts before it.*)
THEOREM KernelImplementsLedger == Spec => RefinesActLedger
<1>1. Init => Ledger!Init
  BY DEF Init, Ledger!Init, LogOf, LogOver
<1>2. ASSUME Framework, Serial, Framework', [Next]_vars
      PROVE  [Ledger!Record]_LogOf
  <2>1. ASSUME NEW t \in Tx, Commit(t) PROVE [Ledger!Record]_LogOf
    <3>1. LogOf' = SeenLog(t) /\ Extends(SeenLog(t), LogOf)
          /\ LogOf \in Seq(ledger) /\ SeenLog(t) \in Seq(SeenActs(t))
          /\ Len(LogOf) = Len(chain) /\ Len(SeenLog(t)) = Len(SeenLinks(t))
          /\ chain \in Seq(Link) /\ links[t] \in Seq(Link)
      BY <1>2, <2>1, CommitLog, Seen DEF Framework
    <3>2. CASE links[t] = << >>
      <4>1. UNCHANGED <<ledger, chain>>
        BY <1>2, <2>1, <3>2, CommitNothing
      <4> QED BY <4>1 DEF LogOf
    <3>3. CASE links[t] # << >>
      <4>1. Len(LogOf') > Len(LogOf)
        BY <3>1, <3>3 DEF SeenLinks
      <4>2. SubSeq(LogOf', 1, Len(LogOf)) = LogOf
        BY <3>1 DEF Extends
      <4>3. \A i \in (Len(LogOf) + 1) .. Len(LogOf') : Ledger!Legal(LogOf', i)
        BY <1>2, <3>1 DEF Serial, SerialAt
      <4> QED BY <4>1, <4>2, <4>3 DEF Ledger!Record
    <3> QED BY <3>2, <3>3
  <2>2. ASSUME UNCHANGED <<ledger, chain>> PROVE [Ledger!Record]_LogOf
    BY <2>2 DEF LogOf
  <2> QED
    BY <1>2, <2>1, <2>2
    DEF Next, Dispatch, Finished, Begin, LockIdempotencyKey, ReplayPriorAction,
        RefuseReplay, Materialize, LockRow, Apply, RefuseState, LockChain, AppendAudit,
        NextAct, Abort, Rollback, committed, vars
<1>3. Framework /\ Serial /\ Framework' /\ [Next]_vars => [Ledger!Record]_LogOf
  BY <1>2
<1> QED BY <1>1, <1>3, KernelInvariant, PTL DEF Spec, RefinesActLedger, Ledger!Spec

-----------------------------------------------------------------------------
(* Replies.                                                                *)

(* Act a is the answer to request r under the id `id`.                     *)
Answers(a, id, r) == a.id = id /\ Slot(a) = Slot(r) /\ a.sem = Semantics(r)

(* A session has an answer for every act of its plan it is done with, each *)
(* of them an act it sees; and a reply names a committed act.              *)
ReplyInv ==
  /\ DOMAIN results = Tx
  /\ \A t \in Tx : results[t] \in Seq(Id)
  /\ \A t \in Tx : Len(results[t]) =
       IF pc[t] \notin Active THEN 0
       ELSE IF pc[t] = "next" THEN step[t] ELSE step[t] - 1
  /\ \A t \in Tx : \A i \in 1 .. Len(results[t]) :
       \E a \in SeenActs(t) : Answers(a, results[t][i], Plan[t][i])
  /\ \A t \in Tx : Loose(t) => \E a \in acts[t] : Answers(a, ActId(t), Req(t))
  /\ \A r \in replies :
       \E a \in ledger : r = [slot |-> Slot(a), sem |-> a.sem, id |-> a.id]

LEMMA ReplyInit == Init => ReplyInv
<1> SUFFICES ASSUME Init PROVE ReplyInv
  OBVIOUS
<1>1. << >> \in Seq(Id)
  OBVIOUS
<1>2. \A t \in Tx : results[t] = << >> /\ ~ Loose(t) /\ pc[t] \notin Active
  BY DEF Init, Loose, Active
<1> QED BY <1>1, <1>2 DEF Init, ReplyInv

(* A step that returns no answer.                                          *)
LEMMA ReplyQuiet ==
  ASSUME ReplyInv, NEW t \in Tx, UNCHANGED <<ledger, results, replies, attempt>>,
         \A u \in Tx \ {t} :
           pc'[u] = pc[u] /\ step'[u] = step[u] /\ acts'[u] = acts[u],
         acts[t] \subseteq acts'[t],
         Loose(t)' => \E a \in acts'[t] : Answers(a, ActId(t)', Req(t)'),
         Len(results[t]) =
           IF pc'[t] \notin Active THEN 0
           ELSE IF pc'[t] = "next" THEN step'[t] ELSE step'[t] - 1
  PROVE  ReplyInv'
<1>1. \A u \in Tx : SeenActs(u) \subseteq SeenActs(u)'
  BY DEF SeenActs
<1>2. \A u \in Tx : \A i \in 1 .. Len(results[u]) :
        \E a \in SeenActs(u)' : Answers(a, results[u][i], Plan[u][i])
  BY <1>1 DEF ReplyInv
<1>3. \A u \in Tx : Loose(u)' => \E a \in acts'[u] : Answers(a, ActId(u)', Req(u)')
  BY DEF ReplyInv, Loose, ActId, Req
<1>4. \A u \in Tx : Len(results[u]) =
        IF pc'[u] \notin Active THEN 0
        ELSE IF pc'[u] = "next" THEN step'[u] ELSE step'[u] - 1
  BY DEF ReplyInv
<1> QED BY <1>2, <1>3, <1>4 DEF ReplyInv

(* A step that returns the answer to the current request.                  *)
LEMMA ReplyAnswered ==
  ASSUME TypeInv, ReplyInv, NEW t \in Tx, pc[t] \in Active \ {"next"}, pc'[t] = "next",
         UNCHANGED <<ledger, acts, replies, attempt, step>>,
         \A u \in Tx \ {t} : pc'[u] = pc[u],
         NEW a \in SeenActs(t), a.id \in Id, Answers(a, a.id, Req(t)),
         results' = [results EXCEPT ![t] = Append(@, a.id)]
  PROVE  ReplyInv'
<1>1. results'[t] = Append(results[t], a.id)
      /\ DOMAIN results' = Tx /\ \A u \in Tx \ {t} : results'[u] = results[u]
  BY DEF ReplyInv
<1>2. /\ results[t] \in Seq(Id) /\ Len(results[t]) = step[t] - 1 /\ step[t] \in Nat \ {0}
      /\ step[t] \in 1 .. Len(Plan[t])
  BY DEF ReplyInv, TypeInv, TypeOK
<1>3. /\ results'[t] \in Seq(Id) /\ Len(results'[t]) = step[t]
      /\ results'[t][step[t]] = a.id
      /\ \A i \in 1 .. (step[t] - 1) : results'[t][i] = results[t][i]
  BY <1>1, <1>2
<1>4. \A u \in Tx : SeenActs(u)' = SeenActs(u)
  BY DEF SeenActs
<1>5. ASSUME NEW i \in 1 .. Len(results'[t])
      PROVE  \E b \in SeenActs(t)' : Answers(b, results'[t][i], Plan[t][i])
  <2>1. CASE i = step[t]
    BY <1>3, <1>4, <2>1 DEF Req
  <2>2. CASE i # step[t]
    <3>1. i \in 1 .. Len(results[t]) /\ results'[t][i] = results[t][i]
      BY <1>2, <1>3, <2>2
    <3> QED BY <1>4, <3>1 DEF ReplyInv
  <2> QED BY <2>1, <2>2
<1>6. \A u \in Tx : Loose(u)' => Loose(u) /\ ActId(u)' = ActId(u) /\ Req(u)' = Req(u)
  BY DEF Loose, ActId, Req
<1>7. \A u \in Tx : \A i \in 1 .. Len(results'[u]) :
        \E b \in SeenActs(u)' : Answers(b, results'[u][i], Plan[u][i])
  BY <1>1, <1>4, <1>5 DEF ReplyInv
<1>8. \A u \in Tx : Len(results'[u]) =
        IF pc'[u] \notin Active THEN 0
        ELSE IF pc'[u] = "next" THEN step'[u] ELSE step'[u] - 1
  BY <1>1, <1>3 DEF ReplyInv, Active
<1>9. \A u \in Tx : results'[u] \in Seq(Id)
  BY <1>1, <1>3 DEF ReplyInv
<1>10. \A u \in Tx : Loose(u)' => \E b \in acts'[u] : Answers(b, ActId(u)', Req(u)')
  BY <1>6 DEF ReplyInv
<1> QED BY <1>1, <1>7, <1>8, <1>9, <1>10 DEF ReplyInv

(* The end of a transaction, and the replies its commit gives.             *)
LEMMA ReplyEnded ==
  ASSUME TypeInv, HeadInv, ReplyInv, NEW t \in Tx, Release(t),
         UNCHANGED <<step, attempt>>, ledger \subseteq ledger',
         \A r \in replies' \ replies :
           \E a \in ledger' : r = [slot |-> Slot(a), sem |-> a.sem, id |-> a.id]
  PROVE  ReplyInv'
<1>1. /\ results'[t] = << >> /\ DOMAIN results' = Tx
      /\ \A u \in Tx \ {t} : results'[u] = results[u]
  BY DEF Release, ReplyInv
<1>2. pc'[t] = "done" /\ \A u \in Tx \ {t} : pc'[u] = pc[u]
  BY DEF Release, TypeInv, TypeOK
<1>3. ~ Loose(t)' /\ \A u \in Tx \ {t} : /\ acts'[u] = acts[u] /\ Loose(u)' = Loose(u)
                                          /\ ActId(u)' = ActId(u) /\ Req(u)' = Req(u)
  BY Released
<1>4. \A u \in Tx \ {t} : SeenActs(u) \subseteq SeenActs(u)'
  BY <1>3 DEF SeenActs
<1>5. \A u \in Tx : \A i \in 1 .. Len(results'[u]) :
        \E a \in SeenActs(u)' : Answers(a, results'[u][i], Plan[u][i])
  BY <1>1, <1>4 DEF ReplyInv
<1>6. \A u \in Tx : Loose(u)' => \E a \in acts'[u] : Answers(a, ActId(u)', Req(u)')
  BY <1>3 DEF ReplyInv
<1>7. \A r \in replies' :
        \E a \in ledger' : r = [slot |-> Slot(a), sem |-> a.sem, id |-> a.id]
  BY DEF ReplyInv
<1>8. << >> \in Seq(Id) /\ "done" \notin Active
  BY DEF Active
<1>9. \A u \in Tx : results'[u] \in Seq(Id)
  BY <1>1, <1>8 DEF ReplyInv
<1>10. \A u \in Tx : Len(results'[u]) =
         IF pc'[u] \notin Active THEN 0
         ELSE IF pc'[u] = "next" THEN step'[u] ELSE step'[u] - 1
  BY <1>1, <1>2, <1>8 DEF ReplyInv
<1> QED BY <1>1, <1>5, <1>6, <1>7, <1>9, <1>10 DEF ReplyInv

LEMMA ReplyCommit ==
  ASSUME TypeInv, HeadInv, ReplyInv, NEW t \in Tx, Commit(t)
  PROVE  ReplyInv'
<1>1. /\ Release(t) /\ UNCHANGED <<step, attempt>>
      /\ pc[t] = "next" /\ step[t] = Len(Plan[t]) /\ ledger' = SeenActs(t)
      /\ replies' = replies \cup
           {[slot |-> Slot(Plan[t][i]), sem |-> Semantics(Plan[t][i]),
             id |-> results[t][i]] : i \in 1 .. Len(Plan[t])}
  BY DEF Commit, SeenActs
<1>2. Len(results[t]) = Len(Plan[t])
  BY <1>1 DEF ReplyInv, Active
<1>3. ASSUME NEW i \in 1 .. Len(Plan[t])
      PROVE  \E a \in ledger' :
               [slot |-> Slot(Plan[t][i]), sem |-> Semantics(Plan[t][i]),
                id |-> results[t][i]]
                 = [slot |-> Slot(a), sem |-> a.sem, id |-> a.id]
  <2>1. PICK a \in SeenActs(t) : Answers(a, results[t][i], Plan[t][i])
    BY <1>2 DEF ReplyInv
  <2> QED BY <1>1, <2>1 DEF Answers
<1>4. \A r \in replies' \ replies :
        \E a \in ledger' : r = [slot |-> Slot(a), sem |-> a.sem, id |-> a.id]
  BY <1>1, <1>3
<1> QED BY <1>1, <1>4, ReplyEnded DEF SeenActs

LEMMA ReplyNext ==
  Framework /\ ReplyInv /\ [Next]_vars => ReplyInv'
<1> SUFFICES ASSUME Framework, ReplyInv, [Next]_vars PROVE ReplyInv'
  OBVIOUS
<1> USE DEF committed, locks, writes
<1>0. TypeInv /\ HeadInv /\ IdInv
  BY DEF Framework
<1>1. ASSUME NEW t \in Tx, Rollback(t) PROVE ReplyInv'
  BY <1>0, <1>1, ReplyEnded DEF Rollback
<1>2. ASSUME NEW t \in Tx,
             \/ Begin(t) \/ LockIdempotencyKey(t) \/ Materialize(t) \/ LockRow(t)
             \/ LockChain(t) \/ NextAct(t)
      PROVE  ReplyInv'
  <2>1. UNCHANGED <<ledger, results, replies, acts>>
        /\ \A u \in Tx \ {t} : pc'[u] = pc[u] /\ step'[u] = step[u] /\ attempt'[u] = attempt[u]
    BY <1>0, <1>2
    DEF Begin, LockIdempotencyKey, Materialize, LockRow, LockChain, NextAct,
        TypeInv, TypeOK
  <2>2. Len(results[t]) =
           IF pc'[t] \notin Active THEN 0
           ELSE IF pc'[t] = "next" THEN step'[t] ELSE step'[t] - 1
    BY <1>0, <1>2
    DEF Begin, LockIdempotencyKey, Materialize, LockRow, LockChain, NextAct,
        TypeInv, TypeOK, ReplyInv, Active
  <2>3. Loose(t)' => Loose(t) /\ ActId(t)' = ActId(t) /\ Req(t)' = Req(t)
    BY <1>0, <1>2
    DEF Begin, LockIdempotencyKey, Materialize, LockRow, LockChain, NextAct,
        TypeInv, TypeOK, Loose, ActId, Req
  <2>4. Loose(t)' => \E a \in acts'[t] : Answers(a, ActId(t)', Req(t)')
    BY <2>1, <2>3 DEF ReplyInv
  <2>5. \A u \in Tx : SeenActs(u)' = SeenActs(u)
    BY <2>1 DEF SeenActs
  <2>6. \A u \in Tx \ {t} : Loose(u)' = Loose(u) /\ ActId(u)' = ActId(u) /\ Req(u)' = Req(u)
    BY <2>1 DEF Loose, ActId, Req
  <2> QED BY <2>1, <2>2, <2>4, <2>5, <2>6 DEF ReplyInv
<1>3. ASSUME NEW t \in Tx, Apply(t) PROVE ReplyInv'
  <2> DEFINE act == [id |-> ActId(t), type |-> Req(t).type, key |-> Req(t).key,
                     sem |-> Semantics(Req(t)), targets |-> want[t],
                     before |-> Before(t), after |-> After(t)]
  <2>1. /\ acts' = [acts EXCEPT ![t] = @ \cup {act}]
        /\ UNCHANGED <<ledger, results, replies, attempt, step>>
        /\ pc[t] = "rows" /\ pc'[t] = "chain" /\ \A u \in Tx \ {t} : pc'[u] = pc[u]
    BY <1>0, <1>3 DEF Apply, TypeInv, TypeOK
  <2>2. Answers(act, ActId(t), Req(t))
    BY DEF Answers, Slot
  <2> HIDE DEF act
  <2>3. acts'[t] = acts[t] \cup {act} /\ \A u \in Tx \ {t} : acts'[u] = acts[u]
    BY <1>0, <2>1 DEF TypeInv, PendingOK
  <2>4. ActId(t)' = ActId(t) /\ Req(t)' = Req(t)
    BY <2>1 DEF ActId, Req
  <2>5. Len(results[t]) =
          IF pc'[t] \notin Active THEN 0
          ELSE IF pc'[t] = "next" THEN step'[t] ELSE step'[t] - 1
    BY <2>1 DEF ReplyInv, Active
  <2> QED BY <2>1, <2>2, <2>3, <2>4, <2>5, ReplyQuiet
<1>4. ASSUME NEW t \in Tx, ReplayPriorAction(t) PROVE ReplyInv'
  <2>1. PICK a \in Prior(t) : /\ Replayable(t, a)
                              /\ results' = [results EXCEPT ![t] = Append(@, a.id)]
    BY <1>4 DEF ReplayPriorAction
  <2>2. a \in SeenActs(t) /\ Answers(a, a.id, Req(t))
    BY <2>1 DEF Prior, Replayable, Answers
  <2>3. a.id \in Id
    BY <1>0, <2>2 DEF SeenActs, TypeInv, TypeOK, PendingOK, Id
  <2>4. /\ UNCHANGED <<ledger, acts, replies, attempt, step>>
        /\ pc[t] = "replay" /\ pc'[t] = "next" /\ \A u \in Tx \ {t} : pc'[u] = pc[u]
    BY <1>0, <1>4 DEF ReplayPriorAction, TypeInv, TypeOK
  <2> QED BY <1>0, <2>1, <2>2, <2>3, <2>4, ReplyAnswered DEF Active
<1>5. ASSUME NEW t \in Tx, AppendAudit(t) PROVE ReplyInv'
  <2>1. /\ UNCHANGED <<ledger, acts, replies, attempt, step>>
        /\ pc[t] = "audit" /\ pc'[t] = "next" /\ \A u \in Tx \ {t} : pc'[u] = pc[u]
        /\ results' = [results EXCEPT ![t] = Append(@, ActId(t))]
    BY <1>0, <1>5 DEF AppendAudit, TypeInv, TypeOK
  <2>2. PICK a \in acts[t] : Answers(a, ActId(t), Req(t))
    BY <2>1 DEF ReplyInv, Loose
  <2>3. a \in SeenActs(t) /\ a.id = ActId(t) /\ a.id \in Id
    BY <1>0, <2>2 DEF SeenActs, Answers, TypeInv, PendingOK, Id
  <2> QED BY <1>0, <2>1, <2>2, <2>3, ReplyAnswered DEF Active
<1>6. CASE UNCHANGED vars
  <2>1. \A t \in Tx : /\ SeenActs(t)' = SeenActs(t) /\ Loose(t)' = Loose(t)
                      /\ ActId(t)' = ActId(t) /\ Req(t)' = Req(t)
    BY <1>6 DEF vars, SeenActs, Loose, ActId, Req
  <2> QED BY <1>6, <2>1 DEF vars, ReplyInv
<1> QED
  BY <1>0, <1>1, <1>2, <1>3, <1>4, <1>5, <1>6, ReplyCommit
  DEF Next, Dispatch, Finished, RefuseReplay, RefuseState, Abort

(* What a caller was told happened did happen, as it was asked for, and    *)
(* every reply for one idempotency key names the same act: whatever was    *)
(* retried, raced, refused or composed in between.                         *)
THEOREM RepliesCorrect == Spec => []RepliesAreDurable
<1>1. Framework /\ ReplyInv => RepliesAreDurable
  <2> SUFFICES ASSUME Framework, ReplyInv, NEW r \in replies
               PROVE  /\ \E a \in ledger : a.id = r.id /\ Slot(a) = r.slot /\ a.sem = r.sem
                      /\ \A q \in replies : q.slot = r.slot => q = r
    BY DEF RepliesAreDurable
  <2>1. PICK a \in ledger : r = [slot |-> Slot(a), sem |-> a.sem, id |-> a.id]
    BY DEF ReplyInv
  <2>2. ASSUME NEW q \in replies, q.slot = r.slot PROVE q = r
    <3>1. PICK b \in ledger : q = [slot |-> Slot(b), sem |-> b.sem, id |-> b.id]
      BY DEF ReplyInv
    <3>2. Slot(a) = Slot(b)
      BY <2>1, <2>2, <3>1
    <3>3. a = b
      BY <3>2 DEF Framework, Alone, Everything
    <3> QED BY <2>1, <3>1, <3>3
  <2> QED BY <2>1, <2>2
<1>2. Init => Framework /\ ReplyInv
  BY TypeInit, SlotInit, HeadInit, IdInit, SerialInit, ReplyInit DEF Framework
<1>3. Framework /\ ReplyInv /\ [Next]_vars => (Framework /\ ReplyInv)'
  BY FrameworkNext, ReplyNext
<1> QED BY <1>1, <1>2, <1>3, PTL DEF Spec

-----------------------------------------------------------------------------
(* Locks are taken in one order.                                           *)

(* A finite set of naturals has a greatest element: a least counterexample *)
(* loses one element and is none any more.                                 *)
LEMMA GreatestOf ==
  ASSUME NEW W \in SUBSET Nat, IsFiniteSet(W), W # {}
  PROVE  \E x \in W : \A y \in W : y <= x
<1> DEFINE Capped(V) == \E x \in V : \A y \in V : y <= x
           Open == {V \in SUBSET Nat : IsFiniteSet(V) /\ V # {} /\ ~ Capped(V)}
           Sizes == {Cardinality(V) : V \in Open}
<1> SUFFICES ASSUME W \in Open PROVE FALSE
  OBVIOUS
<1>1. \A V \in Open : Cardinality(V) \in Nat
  BY FS_CardinalityType
<1>2. Sizes \in SUBSET Nat /\ Sizes # {}
  BY <1>1
<1>3. PICK n \in Sizes : \A m \in Sizes : n <= m
  BY <1>2, Least
<1>4. PICK V \in Open : n = Cardinality(V)
  BY <1>3
<1>5. PICK x \in V : TRUE
  BY <1>4
<1>6. IsFiniteSet(V \ {x}) /\ Cardinality(V \ {x}) = n - 1 /\ n \in Nat
  BY <1>1, <1>4, <1>5, FS_RemoveElement
<1>7. V \ {x} \notin Open
  <2>1. V \ {x} \in Open => Cardinality(V \ {x}) \in Sizes
    OBVIOUS
  <2> HIDE DEF Sizes, Open
  <2> QED BY <1>3, <1>6, <2>1
<1>8. CASE V \ {x} = {}
  <2>1. V = {x} /\ x \in Nat
    BY <1>4, <1>5, <1>8
  <2> QED BY <1>4, <2>1
<1>9. CASE V \ {x} # {}
  <2>1. PICK z \in V \ {x} : \A y \in V \ {x} : y <= z
    BY <1>4, <1>6, <1>7, <1>9
  <2>2. x \in Nat /\ z \in Nat /\ V \subseteq Nat /\ (x <= z \/ z <= x)
    BY <1>4, <1>5, <2>1
  <2>3. Capped(V)
    <3>1. CASE x <= z
      BY <1>5, <2>1, <2>2, <3>1
    <3>2. CASE z <= x
      BY <1>5, <2>1, <2>2, <3>2
    <3> QED BY <2>2, <3>1, <3>2
  <2> QED BY <1>4, <2>3
<1> QED BY <1>8, <1>9

(* A session that dispatches one act holds nothing until its idempotency   *)
(* lock, no row until its materializer ran, its rows in ascending order    *)
(* but for those it created, which nobody else can want, and the chain     *)
(* lock last.                                                              *)
LockOrder ==
  /\ \A t \in Tx : pc[t] \in {"idle", "done", "key"} =>
       /\ \A k \in Type \X Key : keyLock[k] # t
       /\ \A o \in Object : rowLock[o] # t
  /\ \A t \in Tx : chainLock = t => pc[t] \in {"audit", "next"}
  /\ \A t \in Tx : pc[t] = "replay" => \A o \in Object : rowLock[o] # t
  /\ \A t \in Tx : pc[t] = "rows" =>
       \A o \in Object \ made[t] : rowLock[o] = t =>
         o \in want[t] /\ \A p \in want[t] : rowLock[p] # t => o < p
  /\ \A t \in Tx : pc[t] = "rows" =>
       \A o \in made[t] : o \in Object /\ obj[o] = Absent /\ rows[t][o] # None

LEMMA OrderInit == Init => LockOrder
BY NoneAssumption DEF Init, LockOrder

(* A step of t that takes no row lock and creates no row.                  *)
LEMMA OrderQuiet ==
  ASSUME TypeInv, LockOrder, NEW t \in Tx,
         UNCHANGED <<rowLock, obj, want, made>>,
         \A u \in Tx \ {t} : pc'[u] = pc[u] /\ rows'[u] = rows[u],
         \A u \in Tx \ {t} : \A k \in Type \X Key : keyLock'[k] = u => keyLock[k] = u,
         \A u \in Tx \ {t} : chainLock' = u => chainLock = u,
         chainLock' = t => pc'[t] \in {"audit", "next"},
         pc'[t] \in {"idle", "done", "key"} =>
           keyLock' = keyLock /\ pc[t] \in {"idle", "done", "key"},
         pc'[t] = "replay" => pc[t] = "key",
         pc'[t] # "rows"
  PROVE  LockOrder'
<1>1. ASSUME NEW u \in Tx, pc'[u] \in {"idle", "done", "key"}
      PROVE  /\ \A k \in Type \X Key : keyLock'[k] # u
             /\ \A o \in Object : rowLock'[o] # u
  BY <1>1 DEF LockOrder
<1>2. \A u \in Tx : chainLock' = u => pc'[u] \in {"audit", "next"}
  BY DEF LockOrder
<1>3. \A u \in Tx : pc'[u] = "replay" => \A o \in Object : rowLock'[o] # u
  BY DEF LockOrder
<1>4. \A u \in Tx : pc'[u] = "rows" => u # t /\ pc[u] = "rows" /\ rows'[u] = rows[u]
  OBVIOUS
<1> QED BY <1>1, <1>2, <1>3, <1>4 DEF LockOrder

LEMMA OrderMaterialize ==
  ASSUME TypeInv, RowsHeld, LockOrder, NEW t \in Tx, Materialize(t)
  PROVE  LockOrder'
<1> USE DEF TypeInv
<1> DEFINE created == [state |-> Start, ver |-> 1, by |-> Req(t).actor]
           unused == {x \in Object : obj[x] = Absent /\ \A u \in Tx : rows[u][x] = None}
           choices == IF Req(t).type \in Creates THEN {{o} : o \in unused} ELSE {{}}
<1>1. PICK new \in choices :
        /\ made' = [made EXCEPT ![t] = new]
        /\ rows' = [rows EXCEPT ![t] = [o \in Object |->
                      IF o \in new THEN created ELSE rows[t][o]]]
        /\ rowLock' = [o \in Object |-> IF o \in new THEN t ELSE rowLock[o]]
        /\ want' = [want EXCEPT ![t] =
                      {o \in Req(t).targets : View(t, o) # Absent} \cup new]
  BY DEF Materialize
<1>2. new \subseteq unused
  OBVIOUS
<1>3. created # None
  <2>1. created \in [state : State \cup {None}, ver : Nat, by : Actor \cup {None}]
    BY ReqType, StateAssumption DEF Request
  <2> QED BY <2>1, NoneAssumption
<1> HIDE DEF created, choices
<1>4. /\ UNCHANGED <<obj, keyLock, chainLock>> /\ pc[t] = "replay" /\ pc'[t] = "rows"
      /\ \A u \in Tx \ {t} : pc'[u] = pc[u]
  BY DEF Materialize, committed, TypeOK
<1>5. /\ made'[t] = new /\ \A o \in new : rows'[t][o] = created
      /\ \A u \in Tx \ {t} : /\ rows'[u] = rows[u] /\ made'[u] = made[u]
                              /\ want'[u] = want[u]
  BY <1>1, <1>2 DEF TypeOK
<1>6. \A o \in Object : rowLock'[o] = IF o \in new THEN t ELSE rowLock[o]
  BY <1>1
<1>7. \A o \in new : rowLock[o] = None
  BY <1>2 DEF RowsHeld, TypeOK
<1>8. \A o \in Object : rowLock'[o] = t => o \in new
  BY <1>4, <1>6 DEF LockOrder
<1>9. \A u \in Tx \ {t} : \A o \in Object : rowLock'[o] = u <=> rowLock[o] = u
  BY <1>6, <1>7, NoneAssumption
<1>10. \A u \in Tx \ {t} : want[u] \subseteq Object
  BY DEF TypeOK
<1>11. ASSUME NEW u \in Tx, pc'[u] = "rows"
       PROVE  /\ \A o \in Object \ made'[u] : rowLock'[o] = u =>
                   o \in want'[u] /\ \A p \in want'[u] : rowLock'[p] # u => o < p
              /\ \A o \in made'[u] : o \in Object /\ obj'[o] = Absent /\ rows'[u][o] # None
  <2>1. CASE u = t
    BY <1>2, <1>3, <1>4, <1>5, <1>8, <2>1
  <2>2. CASE u # t
    BY <1>4, <1>5, <1>9, <1>10, <1>11, <2>2 DEF LockOrder
  <2> QED BY <2>1, <2>2
<1>12. \A u \in Tx : pc'[u] \in {"idle", "done", "key"} =>
         /\ \A k \in Type \X Key : keyLock'[k] # u
         /\ \A o \in Object : rowLock'[o] # u
  BY <1>4, <1>9 DEF LockOrder
<1>13. \A u \in Tx : chainLock' = u => pc'[u] \in {"audit", "next"}
  BY <1>4 DEF LockOrder
<1>14. \A u \in Tx : pc'[u] = "replay" => \A o \in Object : rowLock'[o] # u
  BY <1>4, <1>9 DEF LockOrder
<1> QED BY <1>11, <1>12, <1>13, <1>14 DEF LockOrder

LEMMA OrderLock ==
  ASSUME TypeInv, LockOrder, NEW t \in Tx, LockRow(t)
  PROVE  LockOrder'
<1> USE DEF TypeInv
<1>1. PICK p \in Object : NextRow(t, p) /\ Free(rowLock[p], t)
                          /\ rowLock' = [rowLock EXCEPT ![p] = t]
  BY DEF LockRow
<1>2. /\ UNCHANGED <<obj, keyLock, chainLock, pc, made, want, rows>> /\ pc[t] = "rows"
  BY DEF LockRow, committed, writes
<1>3. rowLock[p] = None /\ \A o \in Object : rowLock'[o] = IF o = p THEN t ELSE rowLock[o]
  BY <1>1 DEF NextRow, Free, TypeOK
<1>4. \A u \in Tx \ {t} : \A o \in Object : rowLock'[o] = u <=> rowLock[o] = u
  BY <1>3, NoneAssumption
<1>5. \A u \in Tx : want[u] \subseteq Object /\ Object \subseteq Nat
  BY ObjectAssumption DEF TypeOK
<1>6. ASSUME NEW o \in Object \ made[t], rowLock'[o] = t
      PROVE  o \in want[t] /\ \A q \in want[t] : rowLock'[q] # t => o < q
  <2>1. CASE o = p
    <3>1. \A q \in want[t] : rowLock'[q] # t => q # p /\ p <= q
      BY <1>1, <1>3, <1>5 DEF NextRow
    <3> QED BY <1>1, <1>5, <2>1, <3>1 DEF NextRow
  <2>2. CASE o # p
    <3>1. rowLock[o] = t /\ \A q \in want[t] : rowLock'[q] # t => rowLock[q] # t
      BY <1>3, <1>5, <1>6, <2>2
    <3> QED BY <1>2, <3>1 DEF LockOrder
  <2> QED BY <2>1, <2>2
<1>7. \A u \in Tx : pc[u] = "rows" =>
        \A o \in Object \ made[u] : rowLock'[o] = u =>
          o \in want[u] /\ \A q \in want[u] : rowLock'[q] # u => o < q
  BY <1>4, <1>5, <1>6 DEF LockOrder
<1>8. \A u \in Tx : pc[u] \in {"idle", "done", "key", "replay"} =>
        \A o \in Object : rowLock'[o] # u
  BY <1>2, <1>4 DEF LockOrder
<1> QED BY <1>2, <1>7, <1>8 DEF LockOrder

LEMMA OrderRelease ==
  ASSUME TypeInv, RowsHeld, LockOrder, NEW t \in Tx, Release(t),
         obj' = obj \/ obj' = [o \in Object |-> View(t, o)]
  PROVE  LockOrder'
<1> USE DEF TypeInv
<1>1. /\ pc'[t] = "done" /\ \A o \in Object : rowLock'[o] # t
      /\ \A k \in Type \X Key : keyLock'[k] # t
      /\ \A u \in Tx \ {t} :
           /\ pc'[u] = pc[u] /\ rows'[u] = rows[u] /\ made'[u] = made[u]
           /\ want'[u] = want[u] /\ (chainLock' = u => chainLock = u)
           /\ \A o \in Object : rowLock'[o] = u <=> rowLock[o] = u
           /\ \A k \in Type \X Key : keyLock'[k] = u => keyLock[k] = u
  BY NoneAssumption DEF Release, TypeOK
<1>2. chainLock' # t
  BY NoneAssumption DEF Release
<1>3. \A u \in Tx : pc'[u] = "rows" => u # t /\ pc[u] = "rows"
  BY <1>1
<1>4. ASSUME NEW u \in Tx \ {t}, pc[u] = "rows", NEW o \in made[u]
      PROVE  o \in Object /\ obj'[o] = Absent /\ rows'[u][o] # None
  <2>1. o \in Object /\ obj[o] = Absent /\ rows[u][o] # None
    BY <1>4 DEF LockOrder
  <2>2. rows[t][o] = None
    BY <2>1 DEF RowsHeld
  <2> QED BY <1>1, <2>1, <2>2 DEF View
<1>5. \A u \in Tx : want[u] \subseteq Object
  BY DEF TypeOK
<1>6. \A u \in Tx : pc'[u] = "rows" =>
        \A o \in Object \ made'[u] : rowLock'[o] = u =>
          o \in want'[u] /\ \A p \in want'[u] : rowLock'[p] # u => o < p
  BY <1>1, <1>3, <1>5 DEF LockOrder
<1>7. \A u \in Tx : pc'[u] = "rows" =>
        \A o \in made'[u] : o \in Object /\ obj'[o] = Absent /\ rows'[u][o] # None
  BY <1>1, <1>3, <1>4
<1>8. \A u \in Tx : pc'[u] \in {"idle", "done", "key"} =>
        /\ \A k \in Type \X Key : keyLock'[k] # u
        /\ \A o \in Object : rowLock'[o] # u
  BY <1>1 DEF LockOrder
<1>9. \A u \in Tx : /\ chainLock' = u => pc'[u] \in {"audit", "next"}
                    /\ pc'[u] = "replay" => \A o \in Object : rowLock'[o] # u
  BY <1>1, <1>2 DEF LockOrder
<1> QED BY <1>6, <1>7, <1>8, <1>9 DEF LockOrder

LEMMA OrderNext ==
  ASSUME \A t \in Tx : Len(Plan[t]) = 1
  PROVE  TypeInv /\ RowsHeld /\ LockOrder /\ [Next]_vars => LockOrder'
<1> SUFFICES ASSUME TypeInv, RowsHeld, LockOrder, [Next]_vars PROVE LockOrder'
  OBVIOUS
<1> USE DEF committed, locks, writes
<1>1. ASSUME NEW t \in Tx, Rollback(t) \/ Commit(t) PROVE LockOrder'
  BY <1>1, OrderRelease DEF Rollback, Commit
<1>2. ASSUME NEW t \in Tx,
             \/ Begin(t) \/ ReplayPriorAction(t) \/ Apply(t) \/ AppendAudit(t)
      PROVE  LockOrder'
  <2>1. /\ UNCHANGED <<rowLock, obj, want, made, keyLock, chainLock>>
        /\ \A u \in Tx \ {t} : pc'[u] = pc[u] /\ rows'[u] = rows[u]
        /\ pc'[t] \notin {"replay", "rows"}
        /\ pc'[t] \in {"idle", "done", "key"} => pc[t] \in {"idle", "done", "key"}
    BY <1>2 DEF Begin, ReplayPriorAction, Apply, AppendAudit, TypeInv, TypeOK
  <2>2. chainLock = t => pc'[t] \in {"audit", "next"}
    BY <1>2 DEF Begin, ReplayPriorAction, Apply, AppendAudit, TypeInv, TypeOK, LockOrder
  <2> QED BY <2>1, <2>2, OrderQuiet
<1>3. ASSUME NEW t \in Tx, LockIdempotencyKey(t) PROVE LockOrder'
  <2>1. /\ UNCHANGED <<rowLock, obj, want, made, chainLock>>
        /\ \A u \in Tx \ {t} : pc'[u] = pc[u] /\ rows'[u] = rows[u]
        /\ pc[t] = "key" /\ pc'[t] = "replay"
    BY <1>3 DEF LockIdempotencyKey, TypeInv, TypeOK
  <2>2. \A u \in Tx \ {t} : \A k \in Type \X Key : keyLock'[k] = u => keyLock[k] = u
    BY <1>3 DEF LockIdempotencyKey, TypeInv, TypeOK
  <2>3. chainLock' # t
    BY <2>1 DEF LockOrder
  <2> QED BY <2>1, <2>2, <2>3, OrderQuiet
<1>4. ASSUME NEW t \in Tx, LockChain(t) PROVE LockOrder'
  <2>1. /\ UNCHANGED <<rowLock, obj, want, made, keyLock>> /\ chainLock' = t
        /\ \A u \in Tx \ {t} : pc'[u] = pc[u] /\ rows'[u] = rows[u]
        /\ pc'[t] = "audit"
    BY <1>4 DEF LockChain, TypeInv, TypeOK
  <2> QED BY <2>1, OrderQuiet
<1>5. ASSUME NEW t \in Tx, NextAct(t) PROVE FALSE
  <2>1. step[t] < 1 /\ step[t] \in 1 .. 1
    BY <1>5 DEF NextAct, TypeInv, TypeOK
  <2> QED BY <2>1
<1>6. CASE UNCHANGED vars
  BY <1>6 DEF vars, LockOrder
<1> QED
  BY <1>1, <1>2, <1>3, <1>4, <1>5, <1>6, OrderMaterialize, OrderLock
  DEF Next, Dispatch, Finished, RefuseReplay, RefuseState, Abort

(* The row a session waits for, as a relation: t awaits o, which u holds.  *)
Awaits(t, o, u) == pc[t] = "rows" /\ NextRow(t, o) /\ rowLock[o] = u

(* Whoever holds an awaited row and itself waits for a row waits for a     *)
(* higher one: it locked the lower one before, and it did not create it.   *)
LEMMA AwaitsAscend ==
  ASSUME TypeInv, RowsHeld, LockOrder,
         NEW t \in Tx, NEW u \in Tx, t # u, NEW o \in Object, Awaits(t, o, u),
         NEW p \in Object, NEW v, Awaits(u, p, v)
  PROVE  o < p
<1> USE DEF TypeInv
<1>1. o \notin made[u]
  <2> SUFFICES ASSUME o \in made[u] PROVE FALSE
    OBVIOUS
  <2>1. obj[o] = Absent /\ rows[u][o] # None
    BY DEF LockOrder, Awaits
  <2>2. View(t, o) # Absent
    BY DEF Awaits, NextRow, PendingOK
  <2>3. rows[t][o] # None
    BY <2>1, <2>2 DEF View
  <2> QED BY <2>1, <2>3 DEF RowsHeld
<1>2. rowLock[o] = u /\ pc[u] = "rows" /\ p \in want[u] /\ rowLock[p] # u
  BY DEF Awaits, NextRow
<1> QED BY <1>1, <1>2 DEF LockOrder

(* Acts dispatched on their own cannot deadlock, for any number of         *)
(* sessions and any overlap of their keys and targets.                     *)
THEOREM NoDeadlock ==
  ASSUME \A t \in Tx : Len(Plan[t]) = 1, IsFiniteSet(Tx)
  PROVE  Spec => []NoWaitCycle
<1>1. ASSUME TypeInv, RowsHeld, LockOrder,
             NEW S \in SUBSET Tx, S # {}, \A t \in S : \E u \in S : WaitsFor(t, u)
      PROVE  FALSE
  <2> USE <1>1 DEF TypeInv
  <2>1. \A t \in S : pc[t] \in {"key", "rows", "chain"}
    BY DEF WaitsFor
  <2>2. \A u \in S : chainLock # u
    BY <2>1 DEF LockOrder
  <2>3. ASSUME NEW t \in S
        PROVE  \E u \in S \ {t} : pc[u] = "rows" /\
                 (pc[t] = "rows" => \E o \in Object : Awaits(t, o, u))
    <3>1. PICK u \in S : WaitsFor(t, u)
      OBVIOUS
    <3>2. u # t /\ (pc[t] = "key" \/ \E o \in Object : Awaits(t, o, u))
      BY <2>2, <3>1 DEF WaitsFor, Awaits
    <3>3. pc[u] # "key"
      <4>1. CASE pc[t] = "key" /\ keyLock[Slot(Req(t))] = u
        <5>1. Slot(Req(t)) \in Type \X Key
          BY ReqType DEF Slot, Request
        <5> QED BY <4>1, <5>1 DEF LockOrder
      <4>2. CASE \E o \in Object : Awaits(t, o, u)
        BY <4>2 DEF LockOrder, Awaits
      <4> QED BY <2>2, <3>1, <4>1, <4>2 DEF WaitsFor, Awaits
    <3>4. pc[u] # "chain"
      BY <2>2, <3>1 DEF WaitsFor
    <3>5. pc[t] = "rows" => \E o \in Object : Awaits(t, o, u)
      BY <3>2
    <3> QED BY <2>1, <3>2, <3>3, <3>4, <3>5
  <2> DEFINE R == {t \in S : pc[t] = "rows"}
             f == [t \in R |-> CHOOSE o \in Object : \E u \in R \ {t} : Awaits(t, o, u)]
             W == {f[t] : t \in R}
  <2>4. \A t \in R : f[t] \in Object /\ \E u \in R \ {t} : Awaits(t, f[t], u)
    <3> SUFFICES ASSUME NEW t \in R
                 PROVE  \E o \in Object : \E u \in R \ {t} : Awaits(t, o, u)
      OBVIOUS
    <3>1. t \in S /\ pc[t] = "rows"
      OBVIOUS
    <3> QED BY <2>3, <3>1
  <2>5. R # {} /\ IsFiniteSet(R) /\ R \subseteq Tx
    <3>1. R # {} /\ R \subseteq Tx
      BY <2>3
    <3> QED BY <3>1, FS_Subset
  <2> HIDE DEF R
  <2>6. W \in SUBSET Nat /\ W # {}
    <3>1. \A t \in R : f[t] \in Nat
      BY <2>4, ObjectAssumption
    <3> QED BY <2>5, <3>1
  <2>7. IsFiniteSet(W)
    <3>1. f \in Surjection(R, W)
      BY DEF Surjection
    <3> QED BY <2>5, <3>1, FS_Surjection
  <2>8. PICK x \in W : \A y \in W : y <= x
    BY <2>6, <2>7, GreatestOf
  <2>9. PICK t \in R : x = f[t]
    BY <2>8
  <2>10. PICK u \in R \ {t} : Awaits(t, f[t], u)
    BY <2>4
  <2>11. PICK v \in R \ {u} : Awaits(u, f[u], v)
    BY <2>4
  <2>12. f[t] \in Nat /\ f[u] \in Nat /\ f[u] \in W
    BY <2>4, ObjectAssumption
  <2>13. f[t] < f[u]
    <3> HIDE DEF f
    <3> QED BY <2>4, <2>5, <2>10, <2>11, AwaitsAscend
  <2> HIDE DEF f, W
  <2> QED BY <2>8, <2>9, <2>12, <2>13
<1>2. TypeInv /\ RowsHeld /\ LockOrder => NoWaitCycle
  <2> SUFFICES ASSUME TypeInv, RowsHeld, LockOrder, ~ NoWaitCycle PROVE FALSE
    OBVIOUS
  <2>1. PICK S \in (SUBSET Tx) \ {{}} : \A t \in S : \E u \in S : WaitsFor(t, u)
    BY DEF NoWaitCycle
  <2>2. S \in SUBSET Tx /\ S # {}
    OBVIOUS
  <2> QED BY <1>1, <2>1, <2>2
<1>3. Init => TypeInv /\ RowsHeld /\ LockOrder
  BY TypeInit, SerialInit, OrderInit
<1>4. TypeInv /\ RowsHeld /\ LockOrder /\ [Next]_vars
        => (TypeInv /\ RowsHeld /\ LockOrder)'
  BY TypeNext, RowsNext, OrderNext
<1> QED BY <1>2, <1>3, <1>4, PTL DEF Spec
=============================================================================
