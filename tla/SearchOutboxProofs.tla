------------------------- MODULE SearchOutboxProofs -------------------------
(***************************************************************************)
(* Theorems about SearchOutbox, for any drains, rebuilds, records, batch   *)
(* and deployments.                                                        *)
(***************************************************************************)
EXTENDS SearchOutbox, FiniteSetTheorems, SequenceTheorems, TLAPS

Doc == [body : Nat, meta : Nat]
Pc == {"idle", "read", "upsert"}

(* What an indexer's transaction may have on its list: rows it has locked, *)
(* or records that exist.                                                  *)
Items(w) == IF w \in Worker THEN held[w] ELSE Whole(Existing)

(* The records and the outbox.                                             *)
Rows ==
  /\ deployed \in Deployment
  /\ version \in [Object -> Nat]
  /\ \A r \in outbox :
       r.obj \in Object /\ r.ver \in Nat /\ 1 <= r.ver /\ r.ver <= version[r.obj]
  /\ IsFiniteSet(outbox)

(* The indexers.                                                           *)
Lists ==
  /\ pc \in [Indexer -> Pc] /\ DOMAIN todo = Indexer
  /\ \A w \in Indexer : todo[w] \in Seq(Items(w))
  /\ \A w \in Indexer : pc[w] = "upsert" => todo[w] # << >>
  /\ held \in [Indexer -> SUBSET outbox]
  /\ body \in [Indexer -> Nat]
  /\ doc \in [Object -> Doc]
  /\ fresh \in [Indexer -> [Object -> Doc]]

(* Whose the rows are.                                                     *)
Holds ==
  /\ DOMAIN marked = Indexer /\ delivered \subseteq outbox
  /\ \A w \in Indexer : pc[w] = "idle" => marked[w] = {}
  /\ \A w \in Rebuild : marked[w] = {}
  /\ \A w \in Worker :
       /\ marked[w] \subseteq held[w] /\ held[w] \cap delivered = {}
       /\ \A v \in Worker \ {w} : held[w] \cap held[v] = {}

AtLeast(d, ver) == d.body >= ver /\ d.meta >= ver
NoNewer(d, o) == d.body <= version[o] /\ d.meta <= version[o]

(* What the only indexer of an installation has read, written and marked:  *)
(* nothing newer than the records, and nothing older than what was written *)
(* before it.                                                              *)
Reading(w) ==
  LET o == Target(Current(w)) IN
  pc[w] = "upsert" =>
    /\ body[w] >= 1 /\ body[w] <= version[o]
    /\ body[w] >= doc[o].body /\ body[w] >= fresh[w][o].body
    /\ \A r \in held[w] : r.obj = o => body[w] >= r.ver

Index(w) ==
  /\ \A v \in Indexer \ {w} : pc[v] = "idle"
  /\ \A o \in Object : NoNewer(doc[o], o) /\ NoNewer(fresh[w][o], o)
  /\ \A o \in Object : fresh[w][o] = NoDoc
       \/ (fresh[w][o].body >= doc[o].body /\ fresh[w][o].meta >= doc[o].meta)
  /\ pc[w] = "idle" => fresh[w] = [o \in Object |-> NoDoc]
  /\ Reading(w)
  /\ \A r \in delivered : AtLeast(doc[r.obj], r.ver)
  /\ \A r \in marked[w] : AtLeast(fresh[w][r.obj], r.ver)

Single == \A w \in Indexer : deployed = {w} => Index(w)

IInv == Rows /\ Lists /\ Holds /\ Single

-----------------------------------------------------------------------------
(* Facts about the state.                                                  *)

LEMMA ExistingFinite ==
  /\ IsFiniteSet(Whole(Existing))
  /\ Cardinality(Whole(Existing)) \in Nat
<1> DEFINE f == [o \in Existing |-> [obj |-> o]]
<1>1. IsFiniteSet(Existing)
  BY FS_Subset, OutboxAssumption DEF Existing
<1>2. f \in Surjection(Existing, Whole(Existing))
  BY DEF Surjection, Whole
<1> QED
  BY <1>1, <1>2, FS_Surjection, FS_CardinalityType

LEMMA CurrentOK ==
  ASSUME Rows, Lists, NEW w \in Indexer, todo[w] # << >>
  PROVE  /\ Current(w) \in Items(w)
         /\ Tail(todo[w]) \in Seq(Items(w))
         /\ Target(Current(w)) \in Object
         /\ version[Target(Current(w))] \in Nat
         /\ version[Target(Current(w))] >= 1
<1>1. Current(w) \in Items(w) /\ Tail(todo[w]) \in Seq(Items(w))
  BY HeadTailProperties DEF Lists, Current
<1>2. CASE w \in Worker
  <2>1. Current(w) \in outbox
    BY <1>1, <1>2 DEF Items, Lists
  <2> QED
    BY <1>1, <2>1 DEF Rows, Target
<1>3. CASE w \notin Worker
  <2>1. PICK o \in Existing : Current(w) = [obj |-> o]
    BY <1>1, <1>3 DEF Items, Whole
  <2> QED
    BY <1>1, <2>1 DEF Rows, Target, Existing
<1> QED
  BY <1>2, <1>3

(* An installation with one indexer: whoever works is that indexer.        *)
LEMMA OnlyOne ==
  ASSUME Single, NEW w \in Indexer, NEW u \in Indexer, deployed = {u},
         w \in deployed \/ pc[w] # "idle"
  PROVE  w = u /\ Index(w)
BY DEF Single, Index

LEMMA Parts == Worker \subseteq Indexer /\ Rebuild \subseteq Indexer
               /\ (\A w \in Rebuild : w \notin Worker)
               /\ (\A w \in Indexer : w \in Worker \/ w \in Rebuild)
BY OutboxAssumption DEF Indexer

-----------------------------------------------------------------------------
(* The invariant holds initially, and an act keeps it.                     *)

LEMMA InitKeeps == Init => IInv
<1> SUFFICES ASSUME Init PROVE IInv
  OBVIOUS
<1>1. Rows
  BY FS_EmptySet DEF Init, Rows
<1>2. Lists
  BY DEF Init, Lists, Pc, Doc, NoDoc
<1>3. Holds
  BY Parts DEF Init, Holds
<1>4. Single
  BY DEF Init, Single, Index, NoNewer, Reading, NoDoc
<1> QED
  BY <1>1, <1>2, <1>3, <1>4 DEF IInv

LEMMA ActBeginsKeeps ==
  ASSUME IInv, NEW o \in Object, ActBegins(o)
  PROVE  IInv'
<1> USE DEF ActBegins, IInv
<1>1. Rows'
  BY DEF Rows
<1>2. Lists'
  BY DEF Lists, Items, Existing
<1>3. Holds'
  BY DEF Holds
<1>4. Single'
  BY DEF Single, Index, NoNewer, Reading, Current
<1> QED
  BY <1>1, <1>2, <1>3, <1>4

LEMMA ActCommitsKeeps ==
  ASSUME IInv, NEW o \in Object, ActCommits(o)
  PROVE  IInv'
<1> USE DEF ActCommits, IInv
<1>1. /\ version' \in [Object -> Nat]
      /\ \A q \in Object : version'[q] >= version[q]
  BY DEF Rows
<1>2. Rows'
  <2>1. IsFiniteSet(outbox')
    BY FS_AddElement DEF Rows
  <2>2. \A r \in outbox' : r.obj \in Object /\ r.ver \in Nat /\ 1 <= r.ver
                           /\ r.ver <= version'[r.obj]
    BY <1>1 DEF Rows
  <2> QED
    BY <1>1, <2>1, <2>2 DEF Rows
<1>3. Lists'
  <2>1. Existing \subseteq Existing'
    BY <1>1 DEF Rows, Existing
  <2>2. Whole(Existing) \subseteq Whole(Existing')
    BY <2>1 DEF Whole
  <2>3. ASSUME NEW w \in Indexer PROVE Items(w) \subseteq Items(w)'
    BY <2>2 DEF Items
  <2>4. ASSUME NEW w \in Indexer PROVE todo'[w] \in Seq(Items(w)')
    BY <2>3 DEF Lists
  <2> QED
    BY <2>4 DEF Lists
<1>4. Holds'
  BY DEF Holds
<1>5. Single'
  <2> SUFFICES ASSUME NEW w \in Indexer, deployed = {w} PROVE Index(w)'
    BY DEF Single
  <2>1. Index(w)
    BY DEF Single
  <2>2. \A q \in Object : NoNewer(doc[q], q)' /\ NoNewer(fresh[w][q], q)'
    BY <1>1, <2>1 DEF Index, NoNewer, Lists, Rows, Doc
  <2>3. Reading(w)'
    <3> SUFFICES ASSUME pc[w] = "upsert" PROVE Reading(w)'
      BY DEF Reading
    <3>1. Target(Current(w)) \in Object
      BY CurrentOK DEF Lists
    <3> QED
      BY <1>1, <2>1, <3>1 DEF Index, Reading, Lists, Rows, Current
  <2> QED
    BY <2>1, <2>2, <2>3 DEF Index
<1> QED
  BY <1>2, <1>3, <1>4, <1>5

-----------------------------------------------------------------------------
(* An indexer's transaction begins: a drain or a rebuild.                  *)

LEMMA DrainKeeps ==
  ASSUME IInv, NEW w \in Worker, Drain(w)
  PROVE  IInv'
<1> USE DEF Drain, IInv, records
<1> USE Parts
<1>1. PICK rows \in SUBSET Claimable :
        /\ held' = [held EXCEPT ![w] = rows]
        /\ \E q \in Enumerations(rows) : todo' = [todo EXCEPT ![w] = q]
  BY DEF Drain
<1>2. PICK q \in Enumerations(rows) : todo' = [todo EXCEPT ![w] = q]
  BY <1>1
<1>3. rows \subseteq outbox /\ q \in Seq(rows)
  <2>1. rows \subseteq outbox
    BY DEF Claimable
  <2>2. Cardinality(rows) \in Nat
    BY <2>1, FS_Subset, FS_CardinalityType DEF Rows
  <2> QED
    BY <2>1, <2>2 DEF Enumerations
<1>4. Rows'
  BY DEF Rows
<1>5. Lists'
  <2>1. /\ pc' \in [Indexer -> Pc] /\ DOMAIN todo' = Indexer
        /\ held' \in [Indexer -> SUBSET outbox]
    BY <1>1, <1>2, <1>3 DEF Lists, Pc
  <2>2. ASSUME NEW v \in Indexer PROVE todo'[v] \in Seq(Items(v)')
    BY <1>1, <1>2, <1>3 DEF Lists, Items, Existing
  <2>3. ASSUME NEW v \in Indexer, pc'[v] = "upsert" PROVE todo'[v] # << >>
    BY <1>2, <2>3 DEF Lists
  <2> QED
    BY <2>1, <2>2, <2>3 DEF Lists
<1>6. Holds'
  BY <1>1 DEF Holds, Claimable, Lists
<1>7. Single'
  <2> SUFFICES ASSUME NEW u \in Indexer, deployed = {u} PROVE Index(u)'
    BY DEF Single
  <2>1. w = u /\ Index(w)
    BY OnlyOne
  <2>2. marked[w] = {}
    BY DEF Holds
  <2> QED
    BY <2>1, <2>2 DEF Index, NoNewer, Reading, Lists
<1> QED
  BY <1>4, <1>5, <1>6, <1>7

LEMMA StartRebuildKeeps ==
  ASSUME IInv, NEW w \in Rebuild, StartRebuild(w)
  PROVE  IInv'
<1> USE DEF StartRebuild, IInv, records
<1> USE Parts
<1>1. PICK q \in Enumerations(Whole(Existing)) : todo' = [todo EXCEPT ![w] = q]
  OBVIOUS
<1>2. q \in Seq(Items(w))
  BY ExistingFinite DEF Enumerations, Items
<1>3. Rows'
  BY DEF Rows
<1>4. Lists'
  <2>1. /\ pc' \in [Indexer -> Pc] /\ DOMAIN todo' = Indexer
    BY <1>1 DEF Lists, Pc
  <2>2. ASSUME NEW v \in Indexer PROVE todo'[v] \in Seq(Items(v)')
    BY <1>1, <1>2 DEF Lists, Items, Existing
  <2>3. ASSUME NEW v \in Indexer, pc'[v] = "upsert" PROVE todo'[v] # << >>
    BY <1>1, <2>3 DEF Lists
  <2> QED
    BY <2>1, <2>2, <2>3 DEF Lists
<1>5. Holds'
  BY DEF Holds, Lists
<1>6. Single'
  <2> SUFFICES ASSUME NEW u \in Indexer, deployed = {u} PROVE Index(u)'
    BY DEF Single
  <2>1. w = u /\ Index(w)
    BY OnlyOne
  <2>2. marked[w] = {}
    BY DEF Holds
  <2> QED
    BY <2>1, <2>2 DEF Index, NoNewer, Reading, Lists
<1> QED
  BY <1>3, <1>4, <1>5, <1>6

-----------------------------------------------------------------------------
(* A row or a record is indexed, or fails.                                 *)

LEMMA ReadTextKeeps ==
  ASSUME IInv, NEW w \in Indexer, ReadText(w)
  PROVE  IInv'
<1> USE DEF ReadText, IInv, records
<1>1. Rows'
  BY DEF Rows
<1>2. Lists'
  <2>1. body' \in [Indexer -> Nat]
    BY CurrentOK DEF Lists
  <2>2. /\ pc' \in [Indexer -> Pc] /\ Items(w)' = Items(w)
        /\ \A v \in Indexer : Items(v)' = Items(v)
    BY DEF Lists, Pc, Items, Existing
  <2>3. ASSUME NEW v \in Indexer, pc'[v] = "upsert" PROVE todo'[v] # << >>
    BY <2>3 DEF Lists
  <2> QED
    BY <2>1, <2>2, <2>3 DEF Lists
<1>3. Holds'
  BY DEF Holds, Lists
<1>4. Single'
  <2> SUFFICES ASSUME NEW u \in Indexer, deployed = {u} PROVE Index(u)'
    BY DEF Single
  <2>1. w = u /\ Index(w)
    BY OnlyOne
  <2>2. Reading(w)'
    <3> DEFINE o == Target(Current(w))
    <3>1. o \in Object /\ version[o] \in Nat /\ version[o] >= 1 /\ body'[w] = version[o]
      BY CurrentOK DEF Lists
    <3>2. \A r \in held[w] : r.obj = o => version[o] >= r.ver
      BY DEF Lists, Rows
    <3> QED
      BY <2>1, <3>1, <3>2 DEF Index, Reading, NoNewer, Lists, Doc, Current
  <2> QED
    BY <2>1, <2>2 DEF Index, NoNewer, Lists
<1> QED
  BY <1>1, <1>2, <1>3, <1>4

LEMMA UpsertKeeps ==
  ASSUME IInv, NEW w \in Indexer, Upsert(w)
  PROVE  IInv'
<1> USE DEF Upsert, IInv, records
<1> USE Parts
<1> DEFINE o == Target(Current(w))
           d == [body |-> body[w], meta |-> version[o]]
<1>1. /\ todo[w] # << >> /\ o \in Object /\ version[o] \in Nat
      /\ Current(w) \in Items(w) /\ Tail(todo[w]) \in Seq(Items(w))
  BY CurrentOK DEF Lists
<1>2. d \in Doc
  BY <1>1 DEF Lists, Doc
<1>3. Rows'
  BY DEF Rows
<1>4. Lists'
  <2>1. fresh' \in [Indexer -> [Object -> Doc]]
    BY <1>1, <1>2 DEF Lists
  <2>2. \A v \in Indexer : Items(v)' = Items(v)
    BY DEF Items, Existing
  <2>3. \A v \in Indexer : todo'[v] \in Seq(Items(v))
    BY <1>1 DEF Lists
  <2>4. pc' \in [Indexer -> Pc]
    BY DEF Lists, Pc
  <2>5. ASSUME NEW v \in Indexer, pc'[v] = "upsert" PROVE todo'[v] # << >>
    BY <2>5 DEF Lists
  <2> QED
    BY <2>1, <2>2, <2>3, <2>4, <2>5 DEF Lists
<1>5. Holds'
  <2>1. \A v \in Worker : marked'[v] \subseteq held[v]
    BY <1>1 DEF Holds, Items
  <2>2. \A v \in Indexer : pc'[v] = "idle" => marked'[v] = {}
    BY DEF Holds, Lists
  <2>3. \A v \in Rebuild : marked'[v] = {}
    BY DEF Holds
  <2> QED
    BY <2>1, <2>2, <2>3 DEF Holds
<1>6. Single'
  <2> SUFFICES ASSUME NEW u \in Indexer, deployed = {u} PROVE Index(u)'
    BY DEF Single
  <2>1. w = u /\ Index(w)
    BY OnlyOne
  <2>2. /\ body[w] >= 1 /\ body[w] <= version[o]
        /\ body[w] >= doc[o].body /\ body[w] >= fresh[w][o].body
        /\ \A r \in held[w] : r.obj = o => body[w] >= r.ver
    BY <2>1 DEF Index, Reading
  <2>3. fresh'[w] = [fresh[w] EXCEPT ![o] = d]
    BY DEF Lists
  <2>4. \A q \in Object : NoNewer(doc[q], q)' /\ NoNewer(fresh[w][q], q)'
    BY <1>1, <2>1, <2>2, <2>3 DEF Index, NoNewer, Lists
  <2>5. \A q \in Object : fresh'[w][q] = NoDoc
          \/ (fresh'[w][q].body >= doc[q].body /\ fresh'[w][q].meta >= doc[q].meta)
    BY <1>1, <2>1, <2>2, <2>3 DEF Index, NoNewer, Lists
  <2>6. ASSUME NEW r \in marked'[w] PROVE AtLeast(fresh'[w][r.obj], r.ver)
    <3>1. r \in held[w] /\ r \in outbox /\ r.obj \in Object /\ r.ver \in Nat
          /\ r.ver <= version[r.obj]
      BY <1>1, <2>6 DEF Holds, Items, Lists, Rows
    <3>2. CASE r.obj = o
      BY <1>1, <2>2, <2>3, <3>1, <3>2 DEF AtLeast, Lists
    <3>3. CASE r.obj # o
      <4>1. r \in marked[w]
        BY <2>6, <3>3 DEF Target, Lists, Holds
      <4> QED
        BY <2>1, <2>3, <3>1, <3>3, <4>1 DEF Index, Lists
    <3> QED
      BY <3>2, <3>3
  <2>7. /\ \A v \in Indexer \ {w} : pc'[v] = "idle"
        /\ pc'[w] = "read"
    BY <2>1 DEF Index, Lists
  <2> QED
    BY <2>1, <2>4, <2>5, <2>6, <2>7 DEF Index, Reading
<1> QED
  BY <1>3, <1>4, <1>5, <1>6

LEMMA FailRowKeeps ==
  ASSUME IInv, NEW w \in Worker, FailRow(w)
  PROVE  IInv'
<1> USE DEF FailRow, IInv, records
<1> USE Parts
<1>1. todo[w] # << >> /\ pc[w] # "idle" /\ Tail(todo[w]) \in Seq(Items(w))
  BY CurrentOK DEF Lists
<1>2. Rows'
  BY DEF Rows
<1>3. Lists'
  <2>1. \A v \in Indexer : Items(v)' = Items(v)
    BY DEF Items, Existing
  <2>2. \A v \in Indexer : todo'[v] \in Seq(Items(v))
    BY <1>1 DEF Lists
  <2>3. pc' \in [Indexer -> Pc]
    BY DEF Lists, Pc
  <2>4. ASSUME NEW v \in Indexer, pc'[v] = "upsert" PROVE todo'[v] # << >>
    BY <2>4 DEF Lists
  <2> QED
    BY <2>1, <2>2, <2>3, <2>4 DEF Lists
<1>4. Holds'
  BY DEF Holds, Lists
<1>5. Single'
  <2> SUFFICES ASSUME NEW u \in Indexer, deployed = {u} PROVE Index(u)'
    BY DEF Single
  <2>1. w = u /\ Index(w)
    BY <1>1, OnlyOne
  <2> QED
    BY <2>1 DEF Index, NoNewer, Reading, Lists
<1> QED
  BY <1>2, <1>3, <1>4, <1>5

-----------------------------------------------------------------------------
(* A transaction ends: with everything it did, or with nothing.            *)

LEMMA EndKeeps ==
  ASSUME IInv, NEW w \in Indexer, End(w), pc[w] # "idle"
  PROVE  /\ Rows'
         /\ doc' \in [Object -> Doc] => Lists'
         /\ (delivered' \subseteq outbox /\ delivered' \ delivered \subseteq marked[w])
              => Holds'
         /\ fresh'[w] = [q \in Object |-> NoDoc] /\ marked'[w] = {}
<1> USE DEF End, IInv, records
<1> USE Parts
<1>1. Rows'
  BY DEF Rows
<1>2. ASSUME doc' \in [Object -> Doc] PROVE Lists'
  <2>1. ASSUME NEW v \in Indexer PROVE todo'[v] \in Seq(Items(v)')
    <3>1. CASE v = w
      <4>1. todo'[v] = << >>
        BY <3>1 DEF Lists
      <4> QED
        BY <4>1, EmptySeq
    <3>2. CASE v # w
      <4>1. todo'[v] = todo[v] /\ held'[v] = held[v] /\ Existing' = Existing
        BY <3>2 DEF Lists, Existing
      <4>2. Items(v)' = Items(v)
        BY <4>1 DEF Items
      <4> QED
        BY <4>1, <4>2 DEF Lists
    <3> QED
      BY <3>1, <3>2
  <2>2. pc' \in [Indexer -> Pc] /\ held' \in [Indexer -> SUBSET outbox]
    BY DEF Lists, Pc
  <2>3. fresh' \in [Indexer -> [Object -> Doc]]
    BY DEF Lists, Doc, NoDoc
  <2>4. ASSUME NEW v \in Indexer, pc'[v] = "upsert" PROVE todo'[v] # << >>
    BY <2>4 DEF Lists
  <2> QED
    BY <1>2, <2>1, <2>2, <2>3, <2>4 DEF Lists
<1>3. ASSUME delivered' \subseteq outbox, delivered' \ delivered \subseteq marked[w]
      PROVE  Holds'
  <2>1. \A v \in Worker : held'[v] \subseteq held[v] /\ marked'[v] \subseteq held'[v]
    BY DEF Holds, Lists
  <2>2. \A v \in Worker : held'[v] \cap delivered' = {}
    <3> SUFFICES ASSUME NEW v \in Worker, NEW r \in held'[v], r \in delivered'
                 PROVE FALSE
      OBVIOUS
    <3>1. v # w /\ r \in held[v]
      BY DEF Lists
    <3>2. r \in marked[w]
      BY <1>3, <3>1 DEF Holds
    <3>3. w \in Worker /\ r \in held[w]
      BY <3>2 DEF Holds
    <3> QED
      BY <3>1, <3>3 DEF Holds
  <2>3. \A v \in Indexer : pc'[v] = "idle" => marked'[v] = {}
    BY DEF Holds, Lists
  <2>4. \A v \in Rebuild : marked'[v] = {}
    BY DEF Holds
  <2> QED
    BY <1>3, <2>1, <2>2, <2>3, <2>4 DEF Holds
<1>4. fresh'[w] = [q \in Object |-> NoDoc] /\ marked'[w] = {}
  BY DEF Lists, Holds
<1> QED
  BY <1>1, <1>2, <1>3, <1>4

(* What ends with nothing leaves the index as it was.                      *)
LEMMA NothingKeeps ==
  ASSUME IInv, NEW w \in Indexer, End(w), pc[w] # "idle",
         doc' = doc, delivered' = delivered
  PROVE  IInv'
<1>1. Rows' /\ Lists' /\ Holds' /\ fresh'[w] = [q \in Object |-> NoDoc]
      /\ marked'[w] = {}
  <2>1. doc \in [Object -> Doc] /\ delivered \subseteq outbox
    BY DEF IInv, Lists, Holds
  <2> QED
    BY <2>1, EndKeeps
<1>2. Single'
  <2> SUFFICES ASSUME NEW u \in Indexer, deployed = {u} PROVE Index(u)'
    BY DEF Single, End, records
  <2>1. w = u /\ Index(w)
    BY OnlyOne DEF IInv
  <2>2. /\ \A v \in Indexer \ {w} : pc'[v] = "idle"
        /\ pc'[w] = "idle"
    BY <2>1 DEF Index, End, IInv, Lists
  <2>3. \A q \in Object : NoNewer(doc[q], q)' /\ NoNewer(fresh[w][q], q)'
    BY <1>1, <2>1 DEF Index, NoNewer, NoDoc, End, records, IInv, Rows
  <2> QED
    BY <1>1, <2>1, <2>2, <2>3 DEF Index, Reading
<1> QED
  BY <1>1, <1>2 DEF IInv

LEMMA CommitKeeps ==
  ASSUME IInv, NEW w \in Indexer, Commit(w)
  PROVE  IInv'
<1> USE DEF Commit, IInv
<1> USE Parts
<1>1. /\ doc' \in [Object -> Doc]
      /\ \A q \in Object : doc'[q] = IF fresh[w][q] = NoDoc THEN doc[q] ELSE fresh[w][q]
  BY DEF Lists
<1>2. marked[w] \subseteq outbox
  BY DEF Holds, Lists
<1>3. Rows' /\ Lists' /\ Holds' /\ fresh'[w] = [q \in Object |-> NoDoc]
      /\ marked'[w] = {}
  <2>1. delivered' \subseteq outbox /\ delivered' \ delivered \subseteq marked[w]
    BY <1>2 DEF Holds
  <2>2. End(w) /\ pc[w] # "idle"
    OBVIOUS
  <2> QED
    BY <1>1, <2>1, <2>2, EndKeeps
<1>4. Single'
  <2> SUFFICES ASSUME NEW u \in Indexer, deployed = {u} PROVE Index(u)'
    BY DEF Single, End, records
  <2>1. w = u /\ Index(w)
    BY OnlyOne
  <2>2. /\ \A v \in Indexer \ {w} : pc'[v] = "idle"
        /\ pc'[w] = "idle"
    BY <2>1 DEF Index, End, Lists
  <2>3. \A q \in Object : NoNewer(doc[q], q)' /\ NoNewer(fresh[w][q], q)'
    BY <1>1, <1>3, <2>1 DEF Index, NoNewer, NoDoc, End, records, Rows
  <2>4. ASSUME NEW r \in delivered' PROVE AtLeast(doc'[r.obj], r.ver)
    <3>1. r \in outbox /\ r.obj \in Object /\ r.ver \in Nat /\ 1 <= r.ver
      BY <1>2, <2>4 DEF Holds, Rows
    <3>2. CASE r \in marked[w]
      <4>1. AtLeast(fresh[w][r.obj], r.ver)
        BY <2>1, <3>2 DEF Index
      <4>2. fresh[w][r.obj] # NoDoc
        BY <3>1, <4>1 DEF AtLeast, NoDoc
      <4> QED
        BY <1>1, <3>1, <4>1, <4>2
    <3>3. CASE r \in delivered
      <4>1. AtLeast(doc[r.obj], r.ver)
        BY <2>1, <3>3 DEF Index
      <4>2. doc[r.obj] \in Doc /\ fresh[w][r.obj] \in Doc
        BY <3>1 DEF Lists
      <4>3. fresh[w][r.obj] = NoDoc
              \/ (fresh[w][r.obj].body >= doc[r.obj].body
                  /\ fresh[w][r.obj].meta >= doc[r.obj].meta)
        BY <2>1, <3>1 DEF Index
      <4> QED
        BY <1>1, <3>1, <4>1, <4>2, <4>3 DEF AtLeast, Doc
    <3> QED
      BY <2>4, <3>2, <3>3
  <2> QED
    BY <1>3, <2>1, <2>2, <2>3, <2>4 DEF Index, Reading
<1> QED
  BY <1>3, <1>4

-----------------------------------------------------------------------------
(* Every step keeps the invariant.                                         *)

LEMMA EndingKeeps ==
  ASSUME IInv, NEW w \in Indexer, Crash(w) \/ AbortRebuild(w)
  PROVE  IInv'
<1>1. pc[w] # "idle"
  BY DEF Crash, AbortRebuild, Deadlocked
<1>2. End(w) /\ doc' = doc /\ delivered' = delivered
  BY DEF Crash, AbortRebuild
<1> QED
  BY <1>1, <1>2, NothingKeeps

LEMMA NextKeeps ==
  ASSUME IInv, Next
  PROVE  IInv'
<1>1. CASE \E o \in Object : ActBegins(o) \/ ActCommits(o)
  BY <1>1, ActBeginsKeeps, ActCommitsKeeps
<1>2. CASE \E w \in Worker : DrainStep(w) \/ Crash(w)
  <2> SUFFICES ASSUME NEW w \in Worker, DrainStep(w) \/ Crash(w) PROVE IInv'
    BY <1>2
  <2>1. w \in Indexer
    BY Parts
  <2> QED
    BY <2>1, DrainKeeps, ReadTextKeeps, UpsertKeeps, FailRowKeeps, CommitKeeps,
       EndingKeeps DEF DrainStep
<1>3. CASE \E w \in Rebuild : RebuildStep(w) \/ Crash(w)
  <2> SUFFICES ASSUME NEW w \in Rebuild, RebuildStep(w) \/ Crash(w) PROVE IInv'
    BY <1>3
  <2>1. w \in Indexer
    BY Parts
  <2> QED
    BY <2>1, StartRebuildKeeps, ReadTextKeeps, UpsertKeeps, CommitKeeps,
       EndingKeeps DEF RebuildStep
<1> QED
  BY <1>1, <1>2, <1>3 DEF Next

LEMMA StutterKeeps ==
  ASSUME IInv, UNCHANGED vars
  PROVE  IInv'
<1>1. Rows'
  BY DEF IInv, Rows, vars
<1>2. Lists'
  BY DEF IInv, Lists, Items, Existing, vars
<1>3. Holds'
  BY DEF IInv, Holds, vars
<1>4. Single'
  BY DEF IInv, Single, Index, NoNewer, Reading, Current, vars
<1> QED
  BY <1>1, <1>2, <1>3, <1>4 DEF IInv

-----------------------------------------------------------------------------

(* The invariant of the delivery: lists hold locked rows or existing       *)
(* records, rows belong to one drain at a time, and the only indexer of an *)
(* installation reads, writes and marks nothing older than what it wrote.  *)
THEOREM Invariance == Spec => []IInv
<1>1. Init => IInv
  BY InitKeeps
<1>2. IInv /\ [Next]_vars => IInv'
  BY NextKeeps, StutterKeeps
<1> QED
  BY <1>1, <1>2, PTL DEF Spec

(* `for update skip locked` and the savepoints keep rows apart: no row is  *)
(* in the hands of two drains, and none is taken again once it is          *)
(* delivered, whatever fails, crashes or overlaps.                         *)
THEOREM RowsAreDoneOnce == Spec => []NoRowIsDoneTwice
<1>1. IInv => NoRowIsDoneTwice
  BY DEF IInv, Holds, NoRowIsDoneTwice
<1> QED
  BY <1>1, Invariance, PTL

(* Where one drain or rebuild indexes at a time, a row that the drain      *)
(* marked delivered has its act's text and metadata in the search index,   *)
(* for any number of acts, records, crashes and failing handlers.          *)
THEOREM DeliveredStaysIndexed == Spec => []DeliveredIsIndexed
<1>1. IInv => DeliveredIsIndexed
  <2> SUFFICES ASSUME IInv, Cardinality(deployed) = 1
               PROVE \A r \in delivered :
                       doc[r.obj].body >= r.ver /\ doc[r.obj].meta >= r.ver
    BY DEF DeliveredIsIndexed
  <2>1. deployed \subseteq Indexer
    BY OutboxAssumption DEF IInv, Rows
  <2>2. IsFiniteSet(deployed)
    BY <2>1, FS_Subset, OutboxAssumption
  <2>3. PICK w : deployed = {w}
    BY <2>2, FS_Singleton
  <2>4. w \in Indexer
    BY <2>1, <2>3
  <2> QED
    BY <2>3, <2>4 DEF IInv, Single, Index, AtLeast
<1> QED
  BY <1>1, Invariance, PTL

-----------------------------------------------------------------------------
(* Type correctness.                                                       *)

(* A record's version counts the acts that committed on it, and an act     *)
(* that has begun is counted by the clock already; what an indexer read,   *)
(* wrote or committed is a version some record had.                        *)
BoundedDoc == [body : 0 .. MaxActs, meta : 0 .. MaxActs]
Pending(o) == IF began[o] = 0 THEN 0 ELSE 1

Bounded ==
  /\ clock \in 0 .. MaxActs /\ began \in [Object -> Nat]
  /\ \A o \in Object : version[o] + Pending(o) <= clock
  /\ body \in [Indexer -> 0 .. MaxActs]
  /\ doc \in [Object -> BoundedDoc]
  /\ fresh \in [Indexer -> [Object -> BoundedDoc]]

LEMMA VersionBound ==
  ASSUME Rows, Bounded, NEW o \in Object
  PROVE  version[o] \in 0 .. MaxActs
BY OutboxAssumption DEF Rows, Bounded, Pending

LEMMA BoundedInit == Init => Bounded
BY OutboxAssumption DEF Init, Bounded, BoundedDoc, Pending, NoDoc

LEMMA BoundedNext == IInv /\ Bounded /\ [Next]_vars => Bounded'
<1> SUFFICES ASSUME IInv, Bounded, [Next]_vars PROVE Bounded'
  OBVIOUS
<1> USE OutboxAssumption DEF IInv, records
<1>1. ASSUME NEW o \in Object, ActBegins(o) PROVE Bounded'
  BY <1>1 DEF ActBegins, Bounded, Pending, Rows
<1>2. ASSUME NEW o \in Object, ActCommits(o) PROVE Bounded'
  BY <1>2 DEF ActCommits, Bounded, Pending, Rows
<1>3. ASSUME NEW w \in Indexer, ReadText(w) PROVE Bounded'
  <2>1. version[Target(Current(w))] \in 0 .. MaxActs
    BY <1>3, CurrentOK, VersionBound DEF ReadText
  <2> QED BY <1>3, <2>1 DEF ReadText, Bounded, Pending
<1>4. ASSUME NEW w \in Indexer, Upsert(w) PROVE Bounded'
  <2>1. version[Target(Current(w))] \in 0 .. MaxActs
    BY <1>4, CurrentOK, VersionBound DEF Upsert, Lists
  <2>2. [body |-> body[w], meta |-> version[Target(Current(w))]] \in BoundedDoc
    BY <2>1 DEF Bounded, BoundedDoc
  <2> QED BY <1>4, <2>2 DEF Upsert, Bounded, Pending
<1>5. ASSUME NEW w \in Indexer, End(w),
             doc' = doc \/ doc' = [o \in Object |-> IF fresh[w][o] = NoDoc
                                                    THEN doc[o] ELSE fresh[w][o]]
      PROVE  Bounded'
  <2>1. NoDoc \in BoundedDoc
    BY DEF NoDoc, BoundedDoc
  <2> QED BY <1>5, <2>1 DEF End, Bounded, Pending
<1>6. ASSUME NEW w \in Indexer, Commit(w) \/ AbortRebuild(w) \/ Crash(w) PROVE Bounded'
  BY <1>5, <1>6 DEF Commit, AbortRebuild, Crash
<1>7. ASSUME NEW w \in Indexer, Drain(w) \/ StartRebuild(w) \/ FailRow(w) PROVE Bounded'
  BY <1>7 DEF Drain, StartRebuild, FailRow, Bounded, Pending
<1>8. CASE UNCHANGED vars
  BY <1>8 DEF vars, Bounded, Pending
<1> QED
  BY <1>1, <1>2, <1>3, <1>4, <1>6, <1>7, <1>8, Parts
  DEF Next, DrainStep, RebuildStep

(* In every reachable state every variable has its type: no version,       *)
(* committed or indexed, exceeds the number of acts, and only rows of the  *)
(* outbox are marked or delivered.                                         *)
THEOREM TypeCorrectness == Spec => []TypeOK
<1>1. IInv /\ Bounded => TypeOK
  <2> SUFFICES ASSUME IInv, Bounded PROVE TypeOK
    OBVIOUS
  <2>1. version \in [Object -> 0 .. MaxActs]
    BY VersionBound DEF IInv, Rows
  <2>2. \A w \in Indexer : marked[w] \subseteq outbox
    BY Parts DEF IInv, Holds, Lists
  <2> QED BY <2>1, <2>2 DEF TypeOK, IInv, Bounded, BoundedDoc, Lists, Holds, Pc
<1>2. Init => IInv /\ Bounded
  BY InitKeeps, BoundedInit
<1>3. IInv /\ Bounded /\ [Next]_vars => (IInv /\ Bounded)'
  BY NextKeeps, StutterKeeps, BoundedNext
<1> QED BY <1>1, <1>2, <1>3, PTL DEF Spec
=============================================================================
