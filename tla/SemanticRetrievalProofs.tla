---------------------- MODULE SemanticRetrievalProofs -----------------------
(***************************************************************************)
(* Theorems about SemanticRetrieval, for any records, queries, processes   *)
(* and callers, and any number of moves of the world.                      *)
(***************************************************************************)
EXTENDS SemanticRetrieval, TLAPS

(* An open connection is to the embedder its process has pinned: a restart *)
(* closes every connection, and a handshake refuses any other embedder.    *)
PinInv ==
  /\ home \in [Query -> Process] /\ open \subseteq Query
  /\ DOMAIN pinned = Process
  /\ \A q \in open : embedder = pinned[home[q]] /\ embedder # "remote"

LEMMA PinInit == Init => PinInv
BY RetrievalAssumption DEF Init, PinInv

(* A query's step and the pin: a process accepts the embedder it pinned or *)
(* pins the one it meets, and only a handshake opens a connection.         *)
LEMMA QueryPins ==
  ASSUME PinInv, NEW q \in Query, Step(q)
  PROVE  /\ home' = home /\ embedder' = embedder
         /\ pinned' = pinned \/ (Accepted(q) /\ Pin(q))
         /\ open' \subseteq open \/ (Accepted(q) /\ Pin(q) /\ open' = open \cup {q})
<1> USE DEF Rigid, processVars, engineVars
<1>1. ASSUME NEW r, End(q, r) PROVE open' \subseteq open
  BY <1>1 DEF End, Drop
<1>2. ASSUME Retry(q) PROVE open' \subseteq open
  BY <1>1, <1>2 DEF Retry, Drop
<1>3. CASE CurrentBandVersion(q)
  BY <1>3 DEF CurrentBandVersion
<1>4. CASE SlotsAndVersion(q)
  BY <1>4 DEF SlotsAndVersion
<1>5. CASE ReadBands(q)
  BY <1>5 DEF ReadBands
<1>6. CASE ReadVersionAgain(q)
  BY <1>6, <1>2 DEF ReadVersionAgain
<1>7. CASE PushBands(q)
  BY <1>7, <1>2 DEF PushBands
<1>8. CASE ScopeAndHandshake(q)
  BY <1>8, <1>2 DEF ScopeAndHandshake
<1>9. CASE Search(q)
  BY <1>9, <1>2 DEF Search
<1>10. CASE Recheck(q)
  BY <1>10, <1>1 DEF Recheck
<1>11. CASE Unavailable(q)
  BY <1>11, <1>1 DEF Unavailable
<1> QED BY <1>3, <1>4, <1>5, <1>6, <1>7, <1>8, <1>9, <1>10, <1>11 DEF Step

(* A pin stays, in every step.                                             *)
LEMMA PinsStay ==
  ASSUME PinInv, [Next]_vars
  PROVE  \A p \in Process : pinned[p] # None => pinned'[p] = pinned[p]
<1>1. ASSUME NEW q \in Query, Step(q)
      PROVE  \A p \in Process : pinned[p] # None => pinned'[p] = pinned[p]
  <2>1. CASE Accepted(q) /\ Pin(q)
    BY <2>1 DEF Accepted, Pin, PinInv
  <2> QED BY <1>1, <2>1, QueryPins
<1>2. CASE UNCHANGED vars
  BY <1>2 DEF vars, processVars
<1>3. ASSUME Move PROVE pinned' = pinned
  BY <1>3 DEF Move, processVars
<1>4. ASSUME NEW q \in Query, Begin(q) PROVE pinned' = pinned
  BY <1>4 DEF Begin, processVars
<1> QED BY <1>1, <1>2, <1>3, <1>4 DEF Next, Write, Grow, Restart, LoseRow, Reorder

LEMMA PinStep ==
  ASSUME PinInv, [Next]_vars
  PROVE  PinInv'
<1>1. CASE UNCHANGED vars
  BY <1>1 DEF PinInv, vars, processVars, engineVars
<1>2. ASSUME NEW e \in Embedder, Restart(e) PROVE PinInv'
  BY <1>2 DEF PinInv, Restart, Move, processVars
<1>3. ASSUME \/ \E r \in Record, c \in {0} \cup Band : Write(r, c)
             \/ \E r \in Record : Grow(r)
             \/ LoseRow \/ Reorder
      PROVE  PinInv'
  BY <1>3 DEF PinInv, Write, Grow, LoseRow, Reorder, Move, processVars, engineVars
<1>4. ASSUME NEW q \in Query, Begin(q) PROVE PinInv'
  BY <1>4 DEF PinInv, Begin, Rigid, processVars, engineVars
<1>5. ASSUME NEW q \in Query, Step(q) PROVE PinInv'
  <2>1. home' = home /\ embedder' = embedder
    BY <1>5, QueryPins
  <2>2. CASE Accepted(q) /\ Pin(q)
    <3>1. open' \subseteq open \cup {q}
      BY <1>5, QueryPins
    <3>2. pinned'[home[q]] = embedder /\ embedder # "remote"
      BY <2>2 DEF PinInv, Accepted, Pin
    <3>3. \A o \in open : pinned'[home[o]] = embedder /\ embedder # "remote"
      BY <2>2 DEF PinInv, Accepted, Pin
    <3>4. DOMAIN pinned' = Process
      BY <2>2 DEF PinInv, Pin
    <3> QED BY <2>1, <3>1, <3>2, <3>3, <3>4 DEF PinInv
  <2>3. CASE pinned' = pinned /\ open' \subseteq open
    BY <2>1, <2>3 DEF PinInv
  <2> QED BY <1>5, <2>2, <2>3, QueryPins
<1> QED BY <1>1, <1>2, <1>3, <1>4, <1>5 DEF Next

(* A process sends its queries' text to one embedder only, and to a local  *)
(* one: the handshake of client.ts pins the first it hears, and what is    *)
(* sent after a handshake goes to the engine that answered it.             *)
THEOREM TextStaysLocal == Spec => OneLocalEmbedder
<1>1. Init => PinInv
  BY PinInit
<1>2. PinInv /\ [Next]_vars => PinInv'
  BY PinStep
<1>3. PinInv /\ [Next]_vars =>
        [/\ \A p \in Process : pinned[p] # None => pinned'[p] = pinned[p]
         /\ \A q \in open : pc[q] = "ask" /\ pc'[q] # "ask" =>
              embedder = pinned[home[q]] /\ embedder # "remote"]_vars
  <2>1. ASSUME PinInv, [Next]_vars
        PROVE  /\ \A p \in Process : pinned[p] # None => pinned'[p] = pinned[p]
               /\ \A q \in open : pc[q] = "ask" /\ pc'[q] # "ask" =>
                    embedder = pinned[home[q]] /\ embedder # "remote"
    BY <2>1, PinsStay DEF PinInv
  <2> QED BY <2>1
<1> QED BY <1>1, <1>2, <1>3, PTL DEF Spec, OneLocalEmbedder

-----------------------------------------------------------------------------
Point == {"ranked", "withheld", "version", "slots", "bands", "again", "push",
          "search", "ask", "recheck"}

(* What the proofs need of every variable.                                 *)
Types ==
  /\ home \in [Query -> Process] /\ class \in [Record -> {0} \cup Band]
  /\ epoch \in Nat /\ counter \in Nat /\ epochs \in Nat /\ epoch \in {0, epochs}
  /\ embedder \in Embedder /\ slots \in Seq(Record) /\ generation \in Nat
  /\ held \in {None} \cup Bitmaps
  /\ pushed \in [Process -> {None} \cup Bitmaps]
  /\ pinned \in [Process -> {None} \cup Embedder]
  /\ pc \in [Query -> Point] /\ tries \in [Query -> {0, 1}] /\ open \subseteq Query
  /\ before \in [Query -> {None} \cup (Nat \X Nat)]
  /\ bits \in [Query -> {None} \cup Bitmaps]
  /\ allow \in [Query -> SUBSET Record] /\ hits \in [Query -> SUBSET Record]
  /\ must \in [Query -> SUBSET Record]
  /\ calm \in [Query -> BOOLEAN] /\ short \in [Query -> BOOLEAN]

(* A version is handed out once: a bump makes one that nobody has yet.     *)
Known(v) ==
  v \in Nat \X Nat =>
    v[1] <= epochs /\ (epoch # 0 /\ v[1] = epoch => v[2] <= counter)

(* Bitmaps of the engine's present generation were built over the slots it *)
(* has, or over the first of them.                                         *)
Placed(b) ==
  /\ b.generation <= generation
  /\ b.generation = generation =>
       Len(b.of) <= Len(slots) /\ \A i \in DOMAIN b.of : b.of[i] = slots[i]

Complete(b) == b.version # None /\ Len(b.band) = Len(b.of)

Right(b) == \A i \in DOMAIN b.of : b.band[i] = class[b.of[i]]

(* Two bitmaps of one version give a record one band.                      *)
Agree(a, b) ==
  a.version = b.version /\ a.version \in Nat \X Nat =>
    \A i \in DOMAIN a.of, j \in DOMAIN b.of :
      a.of[i] = b.of[j] => a.band[i] = b.band[j]

Built == {q \in Query : pc[q] \in {"push", "search", "ask"}}
Sent == {q \in Query : pc[q] \in {"search", "ask"}}

(* All the finished bitmaps there are.                                     *)
Maps ==
  ({held} \cup {pushed[p] : p \in Process} \cup {bits[q] : q \in Built}) \ {None}

MapInv ==
  /\ \A b \in Maps : Complete(b) /\ Known(b.version) /\ Placed(b)
  /\ \A b \in Maps : b.version = Stored => Right(b)
  /\ \A a, b \in Maps : Agree(a, b)

(* Nobody goes by bitmaps of a later generation than the engine's, and a   *)
(* token that nothing was stored under names one push.                     *)
HeldInv ==
  held # None =>
    /\ \A p \in Process : pushed[p] # None => pushed[p].generation <= held.generation
    /\ \A q \in Sent :
         /\ bits[q].generation <= held.generation
         /\ bits[q].version = q /\ held.version = q => held = bits[q]

(* What Reads asks of a band.                                              *)
Permits(q, r, b) == b \in 1..Clearance[q] /\ (b <= Ceiling[q] \/ r \in Named[q])

(* What a query relies on at each point.                                   *)
QueryInv(q) ==
  /\ bits[q] # None <=> pc[q] \in {"bands", "again", "push", "search", "ask"}
  /\ pc[q] \in {"bands", "again"} => Placed(bits[q]) /\ Known(before[q])
  /\ pc[q] = "again" =>
       /\ Len(bits[q].band) = Len(bits[q].of)
       /\ before[q] = Stored /\ Stored # None => Right(bits[q])
  /\ pc[q] \in {"push", "search", "ask"} => bits[q].version \in (Nat \X Nat) \cup {q}
  /\ must[q] \subseteq Indexed /\ \A r \in must[q] : Reads(q, r, class)
  /\ pc[q] \in {"again", "push", "search", "ask"} =>
       \A i \in DOMAIN bits[q].of :
         bits[q].of[i] \in must[q] => Permits(q, bits[q].of[i], bits[q].band[i])
  /\ pc[q] = "ask" =>
       /\ must[q] \cap Named[q] \subseteq allow[q]
       /\ bits[q].generation = generation =>
            \A r \in must[q] : \E i \in DOMAIN bits[q].of : slots[i] = r
  /\ pc[q] = "recheck" => must[q] \subseteq hits[q] \/ short[q]
  /\ Ended(q) => tries[q] = 0

(* Bitmaps that a search now would go by.                                  *)
Fresh(b) ==
  b.version = Stored /\ b.generation = generation /\ Len(b.of) = Len(slots)

HeldFresh == held # None /\ held.version = Stored

(* What a calm query finds: an attempt that builds its bands builds them   *)
(* fresh, and a second attempt goes by fresh ones.                         *)
CalmInv(q) ==
  calm[q] =>
    /\ Still /\ ~Ended(q) /\ \A o \in Query : Ended(o) \/ calm[o]
    /\ pc[q] \in {"bands", "again"} =>
         /\ before[q] = Stored
         /\ bits[q].generation = generation /\ Len(bits[q].of) = Len(slots)
    /\ pc[q] = "push" => Fresh(bits[q])
    /\ pc[q] \in {"search", "ask"} => bits[q].version = Stored
    /\ pc[q] \in {"search", "ask"} /\ tries[q] = 1 => Fresh(bits[q]) /\ HeldFresh
    /\ tries[q] = 1 /\ pushed[home[q]] # None => Fresh(pushed[home[q]]) /\ HeldFresh
    /\ pc[q] = "ask" => q \in open /\ \A r \in allow[q] : Reads(q, r, class)
    /\ pc[q] = "recheck" => \A r \in hits[q] : Reads(q, r, class)

Inv ==
  Types /\ MapInv /\ HeldInv
    /\ (\A q \in Query : QueryInv(q)) /\ (\A q \in Query : CalmInv(q))

LEMMA InvInit == Init => Inv
<1> SUFFICES ASSUME Init PROVE Inv
  OBVIOUS
<1>1. PICK st \in Start : class = st.class /\ slots = st.slots
  BY DEF Init
<1>2. class \in [Record -> {0} \cup Band] /\ slots \in Seq(Record)
  BY <1>1, RetrievalAssumption
<1>3. Types
  BY <1>2, RetrievalAssumption DEF Init, Types, Embedder, Point
<1>4. Maps = {}
  BY DEF Maps, Built, Init
<1>5. MapInv /\ HeldInv
  BY <1>4 DEF MapInv, HeldInv, Init
<1>6. \A q \in Query : QueryInv(q) /\ CalmInv(q)
  BY DEF QueryInv, CalmInv, Init, Ended
<1> QED
  BY <1>3, <1>5, <1>6 DEF Inv

-----------------------------------------------------------------------------
(* The world's moves.                                                      *)

LEMMA StoredKnown ==
  ASSUME Types PROVE Known(Stored) /\ Stored \in {None} \cup (Nat \X Nat)
BY RetrievalAssumption DEF Types, Known, Stored

(* Nobody is calm while something still moves.                             *)
LEMMA NoneCalm ==
  ASSUME \A q \in Query : CalmInv(q), Move
  PROVE  \A q \in Query : ~ calm[q] /\ CalmInv(q)'
<1>1. \A q \in Query : calm[q] = FALSE \/ Still
  BY DEF CalmInv
<1>2. ~ Still
  BY RetrievalAssumption DEF Move, Still
<1>3. calm' = calm
  BY DEF Move
<1> QED
  BY <1>1, <1>2, <1>3 DEF CalmInv

LEMMA MovesKeepMaps ==
  ASSUME Move, held' \in {held, None} PROVE Maps' \subseteq Maps
BY DEF Move, Maps, Built, processVars

LEMMA MovesKeepHeld ==
  ASSUME HeldInv, Move, held' \in {held, None} PROVE HeldInv'
BY DEF Move, HeldInv, Sent, processVars

(* A write's version is new: nothing is taken to be of it.                 *)
LEMMA BumpIsNew ==
  ASSUME Types, BumpBandVersion
  PROVE  /\ epoch' \in Nat /\ counter' \in Nat /\ epochs' \in Nat /\ epoch' \in {0, epochs'}
         /\ Stored' \in Nat \X Nat
         /\ \A v : Known(v) => v # Stored' /\ Known(v)'
<1>1. CASE epoch = 0
  <2>1. epoch' = epochs + 1 /\ epochs' = epochs + 1 /\ counter' = 1
    BY <1>1 DEF BumpBandVersion
  <2> QED
    BY <2>1 DEF Types, Known, Stored
<1>2. CASE epoch # 0
  <2>1. counter' = counter + 1 /\ epoch' = epoch /\ epochs' = epochs /\ epoch = epochs
    BY <1>2 DEF BumpBandVersion, Types
  <2> QED
    BY <1>2, <2>1 DEF Types, Known, Stored
<1> QED
  BY <1>1, <1>2

LEMMA WriteInv ==
  ASSUME Inv, NEW r \in Record, NEW c \in {0} \cup Band, Write(r, c)
  PROVE  Inv'
<1> USE DEF Inv
<1>1. Move /\ UNCHANGED <<embedder, slots, generation, held, open>>
  BY DEF Write, engineVars
<1>2. Types'
  BY <1>1, BumpIsNew DEF Types, Write, Move, processVars
<1>3. MapInv'
  <2>1. Maps' \subseteq Maps
    BY <1>1, MovesKeepMaps
  <2>2. \A b \in Maps : Known(b.version)' /\ b.version # Stored'
    BY BumpIsNew DEF MapInv, Write
  <2> QED
    BY <1>1, <2>1, <2>2 DEF MapInv, Complete, Placed, Agree
<1>4. ASSUME NEW q \in Query PROVE QueryInv(q)'
  <2>1. pc'[q] = pc[q] /\ bits'[q] = bits[q] /\ before' = before /\ tries' = tries
        /\ allow' = allow /\ hits' = hits /\ short' = short
    BY <1>1 DEF Move
  <2>2. must'[q] = {x \in must[q] : Reads(q, x, class')}
    BY DEF Write
  <2>3. Known(before[q]) => Known(before[q])' /\ before'[q] # Stored'
    BY <2>1, BumpIsNew DEF Write
  <2> QED
    BY <1>1, <2>1, <2>2, <2>3 DEF QueryInv, Placed, Indexed, Ended, Reads, Permits, Known
<1> QED
  BY <1>1, <1>2, <1>3, <1>4, MovesKeepHeld, NoneCalm

LEMMA LoseRowInv ==
  ASSUME Inv, LoseRow PROVE Inv'
<1> USE DEF Inv
<1>1. Move /\ UNCHANGED <<class, epochs, embedder, slots, generation, held, open, must>>
      /\ epoch' = 0 /\ counter' = 0
  BY DEF LoseRow, engineVars
<1>2. Types'
  BY <1>1 DEF Types, Move, processVars
<1>3. MapInv'
  <2>1. Maps' \subseteq Maps
    BY <1>1, MovesKeepMaps
  <2>2. Stored' = None
    BY <1>1 DEF Stored
  <2> QED
    BY <1>1, <2>1, <2>2 DEF MapInv, Complete, Placed, Known, Agree
<1>4. ASSUME NEW q \in Query PROVE QueryInv(q)'
  <2>1. pc'[q] = pc[q] /\ bits'[q] = bits[q] /\ before' = before /\ tries' = tries
        /\ allow' = allow /\ hits' = hits /\ short' = short
    BY <1>1 DEF Move
  <2>2. Stored' = None
    BY <1>1 DEF Stored
  <2> QED
    BY <1>1, <2>1, <2>2 DEF QueryInv, Placed, Indexed, Ended, Reads, Permits, Known
<1> QED
  BY <1>1, <1>2, <1>3, <1>4, MovesKeepHeld, NoneCalm

(* What was placed stays placed when slots are added at the end.           *)
LEMMA GrowPlaced ==
  ASSUME Types, NEW r \in Record, Grow(r)
  PROVE  /\ slots' \in Seq(Record) /\ Indexed \subseteq Indexed'
         /\ Len(slots') >= Len(slots) /\ \A i \in DOMAIN slots : slots'[i] = slots[i]
         /\ \A b \in Bitmaps : Placed(b) => Placed(b)'
<1>1. slots' = Append(slots, r) /\ generation' = generation
  BY DEF Grow
<1>2. slots' \in Seq(Record) /\ Len(slots') = Len(slots) + 1
      /\ \A i \in 1..Len(slots) : slots'[i] = slots[i]
  BY <1>1 DEF Types
<1>3. DOMAIN slots = 1..Len(slots) /\ DOMAIN slots' = 1..Len(slots')
  BY <1>2 DEF Types
<1>4. Indexed \subseteq Indexed'
  BY <1>2, <1>3 DEF Indexed, Range, Types
<1>5. ASSUME NEW b \in Bitmaps, Placed(b) PROVE Placed(b)'
  <2>1. DOMAIN b.of = 1..Len(b.of) /\ Len(b.of) \in Nat
    BY DEF Bitmaps
  <2> QED
    BY <1>1, <1>2, <1>5, <2>1 DEF Placed, Types
<1> QED
  BY <1>2, <1>3, <1>4, <1>5 DEF Types

LEMMA GrowInv ==
  ASSUME Inv, NEW r \in Record, Grow(r) PROVE Inv'
<1> USE DEF Inv
<1>1. Move /\ UNCHANGED <<class, epoch, counter, epochs, embedder, generation, held,
                          open, must>>
  BY DEF Grow, databaseVars
<1>2. Types'
  BY <1>1, GrowPlaced DEF Types, Move, processVars
<1>3. Stored' = Stored
  BY <1>1 DEF Stored
<1>4. MapInv'
  <2>1. Maps' \subseteq Maps
    BY <1>1, MovesKeepMaps
  <2>2. Maps \subseteq Bitmaps
    BY DEF Maps, Built, Types
  <2> QED
    BY <1>1, <1>3, <2>1, <2>2, GrowPlaced
    DEF MapInv, Complete, Known, Right, Agree
<1>5. ASSUME NEW q \in Query PROVE QueryInv(q)'
  <2>1. pc'[q] = pc[q] /\ bits'[q] = bits[q] /\ before' = before /\ tries' = tries
        /\ allow' = allow /\ hits' = hits /\ short' = short
    BY <1>1 DEF Move
  <2>2. pc[q] \in {"bands", "again"} => Placed(bits[q])'
    BY GrowPlaced, <2>1 DEF QueryInv, Types, Placed
  <2>3. pc[q] = "ask" => Placed(bits[q]) /\ DOMAIN bits[q].of = 1..Len(bits[q].of)
                         /\ Len(bits[q].of) \in Nat
    BY DEF QueryInv, Types, MapInv, Maps, Built, Bitmaps
  <2>4. pc[q] = "ask" =>
          /\ must[q] \cap Named[q] \subseteq allow[q]
          /\ bits[q].generation = generation =>
               \A x \in must[q] : \E i \in DOMAIN bits[q].of : slots'[i] = x
    <3> SUFFICES ASSUME pc[q] = "ask", bits[q].generation = generation, NEW x \in must[q]
                 PROVE  \E i \in DOMAIN bits[q].of : slots'[i] = x
      BY DEF QueryInv
    <3>1. PICK i \in DOMAIN bits[q].of : slots[i] = x
      BY DEF QueryInv
    <3>2. i \in DOMAIN slots
      BY <2>3, <3>1 DEF Placed, Types
    <3> QED
      BY <3>1, <3>2, GrowPlaced
  <2>5. must'[q] \subseteq Indexed'
    BY <1>1, GrowPlaced DEF QueryInv
  <2> QED
    BY <1>1, <1>3, <2>1, <2>2, <2>4, <2>5
    DEF QueryInv, Ended, Reads, Permits, Known, Right
<1> QED
  BY <1>1, <1>2, <1>4, <1>5, MovesKeepHeld, NoneCalm

LEMMA ReorderInv ==
  ASSUME Inv, Reorder PROVE Inv'
<1> USE DEF Inv
<1>1. Move /\ UNCHANGED <<class, epoch, counter, epochs, embedder, held, open, must>>
      /\ slots' = Reverse(slots) /\ generation' = generation + 1
  BY DEF Reorder, databaseVars
<1>2. /\ slots' \in Seq(Record) /\ Len(slots') = Len(slots)
      /\ \A i \in 1..Len(slots) : slots'[i] = slots[Len(slots) - i + 1]
  BY <1>1 DEF Reverse, Types
<1>3. Indexed \subseteq Indexed'
  <2>1. ASSUME NEW i \in DOMAIN slots PROVE slots[i] \in Indexed'
    <3>1. i \in 1..Len(slots) /\ Len(slots) \in Nat
      BY DEF Types
    <3>2. Len(slots) - i + 1 \in 1..Len(slots)
          /\ Len(slots) - (Len(slots) - i + 1) + 1 = i
      BY <3>1
    <3>3. slots'[Len(slots) - i + 1] = slots[i]
      BY <1>2, <3>2
    <3>4. Len(slots) - i + 1 \in DOMAIN slots'
      BY <1>2, <3>2
    <3> QED
      BY <3>3, <3>4 DEF Indexed, Range
  <2> QED
    BY <2>1 DEF Indexed, Range
<1>4. Types'
  BY <1>1, <1>2 DEF Types, Move, processVars
<1>5. Stored' = Stored
  BY <1>1 DEF Stored
<1>6. \A b \in Bitmaps : Placed(b) => Placed(b)' /\ b.generation # generation'
  BY <1>1 DEF Placed, Types, Bitmaps
<1>7. MapInv'
  <2>1. Maps' \subseteq Maps
    BY <1>1, MovesKeepMaps
  <2>2. Maps \subseteq Bitmaps
    BY DEF Maps, Built, Types
  <2> QED
    BY <1>1, <1>5, <1>6, <2>1, <2>2 DEF MapInv, Complete, Known, Right, Agree
<1>8. ASSUME NEW q \in Query PROVE QueryInv(q)'
  <2>1. pc'[q] = pc[q] /\ bits'[q] = bits[q] /\ before' = before /\ tries' = tries
        /\ allow' = allow /\ hits' = hits /\ short' = short
    BY <1>1 DEF Move
  <2>2. pc[q] \in {"bands", "again"} => Placed(bits[q])'
    BY <1>6, <2>1 DEF QueryInv, Types, Placed
  <2>3. pc[q] = "ask" => bits[q].generation # generation'
    BY <1>6 DEF QueryInv, Types, MapInv, Maps, Built
  <2> QED
    BY <1>1, <1>3, <1>5, <2>1, <2>2, <2>3
    DEF QueryInv, Ended, Reads, Permits, Known, Right
<1> QED
  BY <1>1, <1>4, <1>7, <1>8, MovesKeepHeld, NoneCalm

LEMMA RestartInv ==
  ASSUME Inv, NEW e \in Embedder, Restart(e) PROVE Inv'
<1> USE DEF Inv
<1>1. Move /\ UNCHANGED <<class, epoch, counter, epochs, slots, generation, must>>
      /\ held' = None /\ open' = {} /\ embedder' = e
  BY DEF Restart, databaseVars
<1>2. Types'
  BY <1>1 DEF Types, Move, processVars
<1>3. Stored' = Stored
  BY <1>1 DEF Stored
<1>4. MapInv'
  <2>1. Maps' \subseteq Maps
    BY <1>1, MovesKeepMaps
  <2> QED
    BY <1>1, <1>3, <2>1 DEF MapInv, Complete, Known, Placed, Right, Agree
<1>5. ASSUME NEW q \in Query PROVE QueryInv(q)'
  <2>1. pc'[q] = pc[q] /\ bits'[q] = bits[q] /\ before' = before /\ tries' = tries
        /\ allow' = allow /\ hits' = hits /\ short' = short
    BY <1>1 DEF Move
  <2> QED
    BY <1>1, <1>3, <2>1
    DEF QueryInv, Placed, Indexed, Ended, Reads, Permits, Known, Right
<1> QED
  BY <1>1, <1>2, <1>4, <1>5, MovesKeepHeld, NoneCalm

LEMMA BeginInv ==
  ASSUME Inv, NEW q \in Query, Begin(q) PROVE Inv'
<1> USE DEF Inv
<1>1. /\ Ended(q) /\ pc' = [pc EXCEPT ![q] = "version"]
      /\ must' = [must EXCEPT ![q] = {r \in Indexed : Reads(q, r, class)}]
      /\ calm' = [calm EXCEPT ![q] = Still /\ \A o \in Query \ {q} : Ended(o) \/ calm[o]]
      /\ UNCHANGED <<home, class, epoch, counter, epochs, moves, embedder, slots,
                     generation, held, pushed, pinned, tries, open, before, bits, allow,
                     hits, short>>
  BY DEF Begin, Goto, Rigid, databaseVars, engineVars, processVars
<1>2. Types'
  <2>1. {r \in Indexed : Reads(q, r, class)} \subseteq Record
    BY DEF Indexed, Range, Types
  <2>2. (Still /\ \A o \in Query \ {q} : Ended(o) \/ calm[o]) \in BOOLEAN
    OBVIOUS
  <2>3. must' \in [Query -> SUBSET Record]
    BY <1>1, <2>1 DEF Types
  <2>4. calm' \in [Query -> BOOLEAN]
    BY <1>1, <2>2, Zenon DEF Types
  <2>5. pc' \in [Query -> Point]
    BY <1>1 DEF Types, Point
  <2> QED
    BY <1>1, <2>3, <2>4, <2>5 DEF Types
<1>3. /\ pc'[q] = "version" /\ \A o \in Query \ {q} : pc'[o] = pc[o]
      /\ must'[q] = {r \in Indexed : Reads(q, r, class)}
      /\ \A o \in Query \ {q} : must'[o] = must[o]
      /\ Stored' = Stored
  BY <1>1 DEF Types, Stored
<1>4. /\ calm'[q] <=> Still /\ \A o \in Query \ {q} : Ended(o) \/ calm[o]
      /\ \A o \in Query \ {q} : calm'[o] = calm[o]
  BY <1>1, Zenon DEF Types
<1>5. Maps' = Maps /\ Sent' = Sent
  BY <1>1, <1>3 DEF Maps, Built, Sent, Ended
<1>6. MapInv'
  BY <1>1, <1>3, <1>5 DEF MapInv, Complete, Known, Placed, Right, Agree
<1>7. HeldInv'
  BY <1>1, <1>5 DEF HeldInv
<1>8. ASSUME NEW o \in Query PROVE QueryInv(o)'
  <2>1. CASE o = q
    BY <1>1, <1>3, <2>1 DEF QueryInv, Indexed, Reads, Ended
  <2>2. CASE o # q
    BY <1>1, <1>3, <2>2
    DEF QueryInv, Placed, Indexed, Ended, Reads, Permits, Known, Right
  <2> QED
    BY <2>1, <2>2
<1>9. ASSUME NEW o \in Query PROVE CalmInv(o)'
  <2>1. Still' = Still
    BY <1>1 DEF Still
  <2>2. HeldFresh' = HeldFresh /\ \A b : Fresh(b)' = Fresh(b)
    BY <1>1, <1>3 DEF HeldFresh, Fresh
  <2>3. CASE o = q
    <3>1. tries[q] = 0
      BY <1>1 DEF QueryInv
    <3> SUFFICES ASSUME calm'[q]
                 PROVE  Still' /\ ~Ended(q)' /\ \A x \in Query : Ended(x)' \/ calm'[x]
      BY <1>1, <1>3, <2>3, <3>1 DEF CalmInv
    <3> QED
      BY <1>1, <1>3, <1>4, <2>1 DEF Ended
  <2>4. CASE o # q /\ calm[o]
    <3>1. Still /\ \A x \in Query : Ended(x) \/ calm[x]
      BY <2>4 DEF CalmInv
    <3>2. calm'[q]
      BY <1>4, <3>1
    <3>3. \A x \in Query : Ended(x)' \/ calm'[x]
      BY <1>1, <1>3, <1>4, <3>1, <3>2 DEF Ended
    <3>4. \A r : Reads(o, r, class)' = Reads(o, r, class)
      BY <1>1 DEF Reads
    <3> QED
      BY <1>1, <1>3, <2>1, <2>2, <2>4, <3>3, <3>4 DEF CalmInv, Ended
  <2>5. CASE o # q /\ ~ calm[o]
    BY <1>4, <2>5 DEF CalmInv
  <2> QED
    BY <2>3, <2>4, <2>5
<1> QED
  BY <1>2, <1>6, <1>7, <1>8, <1>9

-----------------------------------------------------------------------------
(* A query's step.                                                         *)

(* What is each query's own, by its type.                                  *)
OwnTypes ==
  /\ pc \in [Query -> Point] /\ tries \in [Query -> {0, 1}] /\ open \subseteq Query
  /\ before \in [Query -> {None} \cup (Nat \X Nat)]
  /\ bits \in [Query -> {None} \cup Bitmaps]
  /\ allow \in [Query -> SUBSET Record] /\ hits \in [Query -> SUBSET Record]
  /\ must \in [Query -> SUBSET Record]
  /\ calm \in [Query -> BOOLEAN] /\ short \in [Query -> BOOLEAN]

(* A query leaves the others' alone.                                       *)
Untouched(q) ==
  \A o \in Query \ {q} :
    /\ pc'[o] = pc[o] /\ tries'[o] = tries[o] /\ before'[o] = before[o]
    /\ bits'[o] = bits[o] /\ allow'[o] = allow[o] /\ hits'[o] = hits[o]
    /\ must'[o] = must[o] /\ calm'[o] = calm[o] /\ short'[o] = short[o]
    /\ o \in open' <=> o \in open

World == <<home, class, epoch, counter, epochs, moves, embedder, slots, generation>>

(* An attempt is over: the query is answered, or starts again once.        *)
Quits(q) ==
  /\ pc'[q] \in {"ranked", "withheld", "version"} /\ bits'[q] = None
  /\ must'[q] \subseteq must[q]
  /\ pc'[q] # "version" => tries'[q] = 0 /\ must'[q] = {} /\ calm'[q] = FALSE
  /\ pc'[q] = "version" => tries[q] = 0 /\ tries'[q] = 1 /\ calm'[q] = calm[q]

LEMMA EndQuits ==
  ASSUME Types, NEW q \in Query, NEW result \in {"ranked", "withheld"}, End(q, result)
  PROVE  OwnTypes' /\ Untouched(q) /\ Quits(q) /\ pc'[q] = result
<1>1. OwnTypes'
  BY DEF Types, OwnTypes, End, Goto, Drop, Point
<1>2. Untouched(q)
  BY DEF Types, Untouched, End, Goto, Drop
<1>3. Quits(q) /\ pc'[q] = result
  BY DEF Types, Quits, End, Goto, Drop
<1> QED
  BY <1>1, <1>2, <1>3

LEMMA RetryQuits ==
  ASSUME Types, NEW q \in Query, Retry(q)
  PROVE  OwnTypes' /\ Untouched(q) /\ Quits(q) /\ (tries[q] = 0 => pc'[q] = "version")
<1>1. CASE End(q, "withheld") /\ tries[q] = 1
  BY <1>1, EndQuits
<1>2. CASE tries[q] = 0 /\ Goto(q, "version") /\ Drop(q) /\ tries' = [tries EXCEPT ![q] = 1]
           /\ UNCHANGED <<must, calm, short>>
  <2>1. OwnTypes'
    BY <1>2 DEF Types, OwnTypes, Goto, Drop, Point
  <2>2. Untouched(q)
    BY <1>2 DEF Types, Untouched, Goto, Drop
  <2>3. Quits(q) /\ pc'[q] = "version"
    BY <1>2 DEF Types, Quits, Goto, Drop
  <2> QED
    BY <2>1, <2>2, <2>3
<1> QED
  BY <1>1, <1>2 DEF Retry

(* The finished bitmaps are the same, or fewer.                            *)
LEMMA FewerMaps ==
  ASSUME MapInv, UNCHANGED World, Maps' \subseteq Maps
  PROVE  MapInv'
<1>1. Stored' = Stored
  BY DEF World, Stored
<1> QED
  BY <1>1 DEF World, MapInv, Complete, Known, Placed, Right, Agree

LEMMA QuitInv ==
  ASSUME Inv, NEW q \in Query, Quits(q), UNCHANGED World
  PROVE  QueryInv(q)'
BY DEF Inv, QueryInv, Quits, World, Indexed, Reads, Ended

(* The invariant after a step of a query, from what its own part of it     *)
(* needs and from what the others see of it.                               *)
LEMMA StepKeeps ==
  ASSUME Inv, NEW q \in Query, UNCHANGED World, Untouched(q), OwnTypes',
         held' \in {None} \cup Bitmaps, pushed' \in [Process -> {None} \cup Bitmaps],
         pinned' \in [Process -> {None} \cup Embedder],
         MapInv', HeldInv', QueryInv(q)', CalmInv(q)', ~ Ended(q),
         Ended(q)' \/ calm'[q] = calm[q],
         \A p \in Process : pinned'[p] \in {pinned[p], embedder},
         calm[q] => held' = held \/ HeldFresh',
         calm[q] => \A p \in Process :
           pushed'[p] \in {pushed[p], None} \/ (Fresh(pushed[p])' /\ HeldFresh')
  PROVE  Inv'
<1>1. Types'
  BY DEF Inv, Types, OwnTypes, World
<1>2. Stored' = Stored
  BY DEF World, Stored
<1>3. ASSUME NEW o \in Query, o # q PROVE QueryInv(o)'
  BY <1>2, <1>3
  DEF Inv, QueryInv, Untouched, World, Placed, Indexed, Ended, Reads, Permits, Known, Right
<1>4. ASSUME NEW o \in Query, o # q, calm[o] PROVE CalmInv(o)'
  <2>1. /\ CalmInv(o) /\ calm[q] /\ home' = home /\ home[o] \in Process
        /\ Still /\ ~Ended(o) /\ \A x \in Query : Ended(x) \/ calm[x]
    BY <1>4 DEF Inv, CalmInv, World, Types
  <2>2. Still'
    BY <2>1 DEF Still, World
  <2>3. ~Ended(o)' /\ \A x \in Query : Ended(x)' \/ calm'[x]
    BY <1>4, <2>1 DEF Untouched, Ended
  <2>4. HeldFresh => HeldFresh'
    BY <1>2, <2>1 DEF HeldFresh
  <2>5. \A b : Fresh(b)' <=> b.version = Stored /\ b.generation = generation
                             /\ Len(b.of) = Len(slots)
    BY <1>2 DEF Fresh, World
  <2>6. tries'[o] = 1 /\ pushed'[home'[o]] # None => Fresh(pushed[home[o]])' /\ HeldFresh'
    <3> SUFFICES ASSUME tries'[o] = 1, pushed'[home[o]] # None
                 PROVE  Fresh(pushed[home[o]])' /\ HeldFresh'
      BY <2>1
    <3>1. CASE pushed'[home[o]] = pushed[home[o]]
      <4>1. tries[o] = 1
        BY <1>4 DEF Untouched
      <4>2. Fresh(pushed[home[o]]) /\ HeldFresh
        BY <1>4, <2>1, <3>1, <4>1 DEF CalmInv
      <4> QED
        BY <1>2, <2>1, <2>4, <3>1, <4>2 DEF Fresh, World
    <3>2. CASE pushed'[home[o]] # pushed[home[o]]
      BY <2>1, <3>2 DEF Fresh
    <3> QED
      BY <3>1, <3>2
  <2>7. pc'[o] = pc[o] /\ tries'[o] = tries[o] /\ before'[o] = before[o]
        /\ bits'[o] = bits[o] /\ allow'[o] = allow[o] /\ hits'[o] = hits[o]
        /\ (o \in open' <=> o \in open)
    BY <1>4 DEF Untouched
  <2>8. Fresh(bits[o])' <=> Fresh(bits[o])
    BY <1>2, <2>7 DEF Fresh, World
  <2>9. UNCHANGED <<class, slots, generation>>
    BY DEF World
  <2> QED
    BY <1>2, <1>4, <2>1, <2>2, <2>3, <2>4, <2>6, <2>7, <2>8, <2>9 DEF CalmInv, Reads
<1>5. ASSUME NEW o \in Query, o # q, ~ calm[o] PROVE CalmInv(o)'
  BY <1>5 DEF CalmInv, Untouched
<1> QED
  BY <1>1, <1>3, <1>4, <1>5 DEF Inv

LEMMA ForgetDrops ==
  ASSUME Types, NEW q \in Query, NEW searched, Forget(q, searched)
  PROVE  /\ pushed' \in [Process -> {None} \cup Bitmaps]
         /\ \A p \in Process : pushed'[p] \in {pushed[p], None}
         /\ tries[q] = 0 \/ searched => pushed'[home[q]] = None
BY DEF Types, Forget

LEMMA QuitKeeps ==
  ASSUME Inv, NEW q \in Query, UNCHANGED World, Untouched(q), OwnTypes', Quits(q),
         UNCHANGED held, pushed' \in [Process -> {None} \cup Bitmaps],
         \A p \in Process : pushed'[p] \in {pushed[p], None}
  PROVE  MapInv' /\ HeldInv' /\ QueryInv(q)'
<1>1. Maps' \subseteq Maps
  BY DEF Maps, Built, Untouched, Quits
<1>2. Sent' \subseteq Sent /\ q \notin Sent'
  BY DEF Sent, Untouched, Quits
<1>3. HeldInv'
  BY <1>2 DEF Inv, HeldInv, Sent, Untouched
<1> QED
  BY <1>1, <1>3, FewerMaps, QuitInv DEF Inv

(* An attempt ends early: the rest of the invariant.                       *)
LEMMA QuitEarly ==
  ASSUME Inv, NEW q \in Query, UNCHANGED World, Untouched(q), OwnTypes', Quits(q),
         UNCHANGED held, pushed' \in [Process -> {None} \cup Bitmaps],
         \A p \in Process : pushed'[p] \in {pushed[p], None},
         pinned' \in [Process -> {None} \cup Embedder],
         \A p \in Process : pinned'[p] \in {pinned[p], embedder},
         ~ Ended(q), calm[q] /\ pc'[q] = "version" => pushed'[home[q]] = None
  PROVE  Inv'
<1>1. MapInv' /\ HeldInv' /\ QueryInv(q)'
  BY QuitKeeps
<1>2. Ended(q)' \/ calm'[q] = calm[q]
  BY DEF Quits, Ended
<1>3. CalmInv(q)'
  <2> SUFFICES ASSUME calm'[q] PROVE CalmInv(q)'
    BY DEF CalmInv
  <2>1. pc'[q] = "version" /\ calm[q]
    BY DEF Quits
  <2>2. Still /\ \A x \in Query : Ended(x) \/ calm[x]
    BY <2>1 DEF Inv, CalmInv
  <2>3. Still'
    BY <2>2 DEF Still, World
  <2>4. ~ Ended(q)' /\ \A x \in Query : Ended(x)' \/ calm'[x]
    BY <2>1, <2>2 DEF Untouched, Ended
  <2> QED
    BY <2>1, <2>3, <2>4 DEF CalmInv, World
<1>4. held' \in {None} \cup Bitmaps
  BY DEF Inv, Types
<1> QED
  BY <1>1, <1>2, <1>3, <1>4, StepKeeps

LEMMA CurrentInv ==
  ASSUME Inv, NEW q \in Query, CurrentBandVersion(q) PROVE Inv'
<1> USE DEF Inv
<1> DEFINE cached == pushed[home[q]]
<1>1. pc[q] = "version" /\ ~ Ended(q) /\ UNCHANGED World
      /\ UNCHANGED <<held, pushed, pinned, tries, open, before, allow, hits, must, calm, short>>
  BY DEF CurrentBandVersion, Rigid, databaseVars, engineVars, processVars, World, Ended
<1>2. home[q] \in Process /\ cached \in {None} \cup Bitmaps
  BY DEF Types
<1>3. Stored' = Stored
  BY <1>1 DEF Stored, World
<1>4. CASE cached # None /\ cached.version = Stored
  <2>1. pc' = [pc EXCEPT ![q] = "search"] /\ bits' = [bits EXCEPT ![q] = cached]
    BY <1>4 DEF CurrentBandVersion, Goto
  <2>2. OwnTypes' /\ Untouched(q) /\ pc'[q] = "search" /\ bits'[q] = cached
    BY <1>1, <1>2, <2>1 DEF Types, OwnTypes, Untouched, Point
  <2>3. cached \in Maps /\ Complete(cached) /\ Right(cached) /\ Stored \in Nat \X Nat
    BY <1>2, <1>4, StoredKnown DEF Maps, MapInv, Complete
  <2>4. MapInv'
    <3>1. Maps' \subseteq Maps
      BY <1>1, <2>2, <2>3 DEF Maps, Built, Untouched
    <3> QED
      BY <1>1, <3>1, FewerMaps
  <2>5. HeldInv'
    <3>1. cached.version # q
      BY <1>4, <2>3, RetrievalAssumption
    <3> QED
      BY <1>1, <1>2, <1>4, <2>2, <3>1 DEF HeldInv, Sent, Untouched
  <2>6. QueryInv(q)'
    <3>1. cached # None
      BY <1>4
    <3>2. ASSUME NEW i \in DOMAIN cached.of, cached.of[i] \in must[q]
          PROVE  Permits(q, cached.of[i], cached.band[i])
      BY <2>3, <3>2 DEF Right, QueryInv, Reads, Permits
    <3>3. must'[q] \subseteq Indexed' /\ \A r \in must'[q] : Reads(q, r, class)'
      BY <1>1 DEF QueryInv, World, Indexed, Reads
    <3> QED
      BY <1>1, <1>4, <2>2, <2>3, <3>1, <3>2, <3>3 DEF QueryInv, Permits, Ended
  <2>7. CalmInv(q)'
    <3> SUFFICES ASSUME calm[q] PROVE CalmInv(q)'
      BY <1>1 DEF CalmInv
    <3>1. Still' /\ ~ Ended(q)' /\ \A x \in Query : Ended(x)' \/ calm'[x]
      BY <1>1, <2>2 DEF CalmInv, Still, World, Untouched, Ended
    <3>2. tries[q] = 1 => Fresh(cached) /\ HeldFresh
      BY <1>4 DEF CalmInv
    <3>3. tries'[q] = 1 => Fresh(cached)' /\ HeldFresh'
      BY <1>1, <1>3, <3>2 DEF Fresh, HeldFresh, World
    <3> QED
      BY <1>1, <1>3, <1>4, <2>2, <3>1, <3>3 DEF CalmInv, World
  <2> QED
    BY <1>1, <2>2, <2>4, <2>5, <2>6, <2>7, StepKeeps DEF Types
<1>5. CASE ~ (cached # None /\ cached.version = Stored)
  <2>1. pc' = [pc EXCEPT ![q] = "slots"] /\ bits' = bits
    BY <1>5 DEF CurrentBandVersion, Goto
  <2>2. OwnTypes' /\ Untouched(q) /\ pc'[q] = "slots"
    BY <1>1, <2>1 DEF Types, OwnTypes, Untouched, Point
  <2>3. MapInv' /\ HeldInv'
    <3>1. Maps' \subseteq Maps /\ Sent' = Sent
      BY <1>1, <2>1, <2>2 DEF Maps, Built, Sent, Untouched
    <3>2. HeldInv'
      BY <1>1, <2>1, <3>1 DEF HeldInv
    <3> QED
      BY <1>1, <3>1, <3>2, FewerMaps
  <2>4. QueryInv(q)'
    BY <1>1, <2>1, <2>2 DEF QueryInv, World, Indexed, Reads, Ended
  <2>5. CalmInv(q)'
    <3> SUFFICES ASSUME calm[q] PROVE CalmInv(q)'
      BY <1>1 DEF CalmInv
    <3>1. Still' /\ ~ Ended(q)' /\ \A x \in Query : Ended(x)' \/ calm'[x]
      BY <1>1, <2>2 DEF CalmInv, Still, World, Untouched, Ended
    <3>2. tries[q] = 1 /\ cached # None => Fresh(cached)' /\ HeldFresh'
      BY <1>1, <1>3 DEF CalmInv, Fresh, HeldFresh, World
    <3> QED
      BY <1>1, <2>2, <3>1, <3>2 DEF CalmInv, World
  <2> QED
    BY <1>1, <2>2, <2>3, <2>4, <2>5, StepKeeps DEF Types
<1> QED
  BY <1>4, <1>5

LEMMA SlotsInv ==
  ASSUME Inv, NEW q \in Query, SlotsAndVersion(q) PROVE Inv'
<1> USE DEF Inv
<1>0. PICK b : b = [version |-> None, generation |-> generation, of |-> slots, band |-> << >>]
  OBVIOUS
<1>1. /\ pc[q] = "slots" /\ ~ Ended(q) /\ UNCHANGED World
      /\ UNCHANGED <<held, pushed, tries, open, allow, hits, must, calm, short>>
      /\ pinned' = [pinned EXCEPT ![home[q]] = embedder]
      /\ pc' = [pc EXCEPT ![q] = "bands"] /\ bits' = [bits EXCEPT ![q] = b]
      /\ before' = [before EXCEPT ![q] = Stored]
  BY <1>0 DEF SlotsAndVersion, Pin, Goto, Rigid, databaseVars, engineVars, World, Ended
<1>2. b \in Bitmaps /\ b # None
  <2>1. << >> \in Seq({0} \cup Band)
    OBVIOUS
  <2>2. b \in Bitmaps
    BY <1>0, <2>1 DEF Types, Bitmaps
  <2> QED
    BY <2>2, RetrievalAssumption
<1>3. OwnTypes' /\ Untouched(q) /\ pc'[q] = "bands" /\ bits'[q] = b /\ before'[q] = Stored
  BY <1>1, <1>2, StoredKnown DEF Types, OwnTypes, Untouched, Point
<1>4. Stored' = Stored
  BY <1>1 DEF Stored, World
<1>5. MapInv' /\ HeldInv'
  <2>1. Maps' \subseteq Maps /\ Sent' \subseteq Sent
    BY <1>1, <1>3 DEF Maps, Built, Sent, Untouched
  <2>2. HeldInv'
    BY <1>1, <1>3, <2>1 DEF HeldInv, Sent, Untouched
  <2> QED
    BY <1>1, <2>1, <2>2, FewerMaps
<1>6. QueryInv(q)'
  <2>1. Placed(b)' /\ Known(Stored)'
    BY <1>0, <1>1, <1>4, StoredKnown DEF Placed, World, Types, Known
  <2> QED
    BY <1>1, <1>2, <1>3, <1>4, <2>1 DEF QueryInv, World, Indexed, Reads, Ended
<1>7. CalmInv(q)'
  <2> SUFFICES ASSUME calm[q] PROVE CalmInv(q)'
    BY <1>1 DEF CalmInv
  <2>1. Still' /\ ~ Ended(q)' /\ \A x \in Query : Ended(x)' \/ calm'[x]
    BY <1>1, <1>3 DEF CalmInv, Still, World, Untouched, Ended, Types
  <2>2. tries[q] = 1 /\ pushed[home[q]] # None => Fresh(pushed[home[q]])' /\ HeldFresh'
    BY <1>1, <1>4 DEF CalmInv, Fresh, HeldFresh, World
  <2> QED
    BY <1>0, <1>1, <1>3, <1>4, <2>1, <2>2 DEF CalmInv, World
<1>8. pinned' \in [Process -> {None} \cup Embedder]
      /\ \A p \in Process : pinned'[p] \in {pinned[p], embedder}
  BY <1>1 DEF Types
<1> QED
  BY <1>1, <1>3, <1>5, <1>6, <1>7, <1>8, StepKeeps DEF Types

LEMMA BandsInv ==
  ASSUME Inv, NEW q \in Query, ReadBands(q) PROVE Inv'
<1> USE DEF Inv
<1> DEFINE read == [i \in DOMAIN bits[q].of |-> class[bits[q].of[i]]]
<1>1. /\ pc[q] = "bands" /\ ~ Ended(q) /\ UNCHANGED World
      /\ UNCHANGED <<held, pushed, pinned, tries, open, before, allow, hits, must, calm, short>>
      /\ pc' = [pc EXCEPT ![q] = "again"] /\ bits' = [bits EXCEPT ![q].band = read]
  BY DEF ReadBands, Goto, Rigid, databaseVars, engineVars, processVars, World, Ended
<1>2. bits[q] \in Bitmaps /\ bits[q] # None
  BY <1>1 DEF Types, QueryInv
<1>3. read \in Seq({0} \cup Band) /\ Len(read) = Len(bits[q].of)
  <2>1. bits[q].of \in Seq(Record)
    BY <1>2 DEF Bitmaps
  <2>2. DOMAIN bits[q].of = 1..Len(bits[q].of) /\ Len(bits[q].of) \in Nat
        /\ \A i \in DOMAIN bits[q].of : bits[q].of[i] \in Record
    BY <2>1
  <2>3. read \in [1..Len(bits[q].of) -> {0} \cup Band]
    BY <2>2 DEF Types
  <2> QED
    BY <2>2, <2>3
<1>4. PICK b : /\ b = [bits[q] EXCEPT !.band = read] /\ b \in Bitmaps
               /\ b.generation = bits[q].generation /\ b.of = bits[q].of /\ b.band = read
  <2>1. LET x == [bits[q] EXCEPT !.band = read]
        IN  x \in Bitmaps /\ x.generation = bits[q].generation /\ x.of = bits[q].of
            /\ x.band = read
    BY <1>2, <1>3 DEF Bitmaps
  <2> QED
    BY <2>1
<1>5. bits'[q] = b /\ bits' \in [Query -> {None} \cup Bitmaps]
  BY <1>1, <1>4 DEF Types
<1>6. b # None
  BY <1>4, RetrievalAssumption
<1>7. OwnTypes' /\ Untouched(q) /\ pc'[q] = "again"
  BY <1>1, <1>5 DEF Types, OwnTypes, Untouched, Point
<1>8. Stored' = Stored
  BY <1>1 DEF Stored, World
<1>9. MapInv' /\ HeldInv'
  <2>1. Maps' \subseteq Maps /\ Sent' \subseteq Sent
    BY <1>1, <1>7 DEF Maps, Built, Sent, Untouched
  <2>2. HeldInv'
    BY <1>1, <1>7, <2>1 DEF HeldInv, Sent, Untouched
  <2> QED
    BY <1>1, <2>1, <2>2, FewerMaps
<1>10. QueryInv(q)'
  <2>1. Placed(bits[q]) /\ Known(before[q])
    BY <1>1 DEF QueryInv
  <2>2. Placed(b)' /\ Known(before[q])'
    BY <1>1, <1>4, <2>1 DEF Placed, Known, World
  <2>3. Right(b)'
    BY <1>1, <1>4 DEF Right, World
  <2>4. must'[q] \subseteq Indexed' /\ \A r \in must'[q] : Reads(q, r, class)'
    BY <1>1 DEF QueryInv, World, Indexed, Reads
  <2>5. \A i \in DOMAIN b.of : b.of[i] \in must[q] => Permits(q, b.of[i], b.band[i])
    BY <1>4 DEF QueryInv, Reads, Permits
  <2>6. Len(b.band) = Len(b.of)
    BY <1>3, <1>4
  <2>7. before'[q] = before[q] /\ must'[q] = must[q]
    BY <1>1
  <2> HIDE DEF read
  <2> QED
    BY <1>5, <1>6, <1>7, <2>2, <2>3, <2>4, <2>5, <2>6, <2>7
    DEF QueryInv, Ended, Permits
<1>11. CalmInv(q)'
  <2> SUFFICES ASSUME calm[q] PROVE CalmInv(q)'
    BY <1>1 DEF CalmInv
  <2>1. Still' /\ ~ Ended(q)' /\ \A x \in Query : Ended(x)' \/ calm'[x]
    BY <1>1, <1>7 DEF CalmInv, Still, World, Untouched, Ended
  <2>2. tries[q] = 1 /\ pushed[home[q]] # None => Fresh(pushed[home[q]])' /\ HeldFresh'
    BY <1>1, <1>8 DEF CalmInv, Fresh, HeldFresh, World
  <2>3. before[q] = Stored /\ b.generation = generation /\ Len(b.of) = Len(slots)
    BY <1>1, <1>4 DEF CalmInv
  <2> QED
    BY <1>1, <1>5, <1>7, <1>8, <2>1, <2>2, <2>3 DEF CalmInv, World
<1> QED
  BY <1>1, <1>7, <1>9, <1>10, <1>11, StepKeeps DEF Types

LEMMA AgainInv ==
  ASSUME Inv, NEW q \in Query, ReadVersionAgain(q) PROVE Inv'
<1> USE DEF Inv
<1> DEFINE token == TokenFor(q, Stored)
<1>1. pc[q] = "again" /\ ~ Ended(q) /\ UNCHANGED World /\ UNCHANGED <<held, pinned>>
  BY DEF ReadVersionAgain, Rigid, databaseVars, engineVars, World, Ended
<1>2. Stored' = Stored
  BY <1>1 DEF Stored, World
<1>3. CASE before[q] = Stored
  <2>1. /\ UNCHANGED <<tries, open, allow, hits, pushed, must, calm, short>>
        /\ pc' = [pc EXCEPT ![q] = "push"] /\ bits' = [bits EXCEPT ![q].version = token]
        /\ before' = [before EXCEPT ![q] = None]
    BY <1>3 DEF ReadVersionAgain, SameStoredVersion, Goto
  <2>2. bits[q] \in Bitmaps /\ bits[q] # None
    BY <1>1 DEF Types, QueryInv
  <2>3. token \in Query \cup (Nat \X Nat) /\ token # None /\ token \in (Nat \X Nat) \cup {q}
        /\ Known(token) /\ (Stored # None => token = Stored)
        /\ (Stored = None => token = q)
    BY StoredKnown, RetrievalAssumption DEF TokenFor, Known
  <2>4. PICK b : /\ b = [bits[q] EXCEPT !.version = token] /\ b \in Bitmaps
                 /\ b.generation = bits[q].generation /\ b.of = bits[q].of
                 /\ b.band = bits[q].band /\ b.version = token
    <3>1. LET x == [bits[q] EXCEPT !.version = token]
          IN  x \in Bitmaps /\ x.generation = bits[q].generation /\ x.of = bits[q].of
              /\ x.band = bits[q].band /\ x.version = token
      BY <2>2, <2>3 DEF Bitmaps
    <3> QED
      BY <3>1
  <2>5. bits'[q] = b /\ b # None /\ bits' \in [Query -> {None} \cup Bitmaps]
    BY <2>1, <2>4, RetrievalAssumption DEF Types
  <2> HIDE DEF token
  <2>6. OwnTypes' /\ Untouched(q) /\ pc'[q] = "push"
    BY <2>1, <2>5 DEF Types, OwnTypes, Untouched, Point
  <2>7. Len(b.band) = Len(b.of) /\ (Stored # None => Right(b)) /\ Placed(b)
    BY <1>1, <1>3, <2>4 DEF QueryInv, Right, Placed
  <2>8. MapInv'
    <3>1. Maps' \subseteq Maps \cup {b}
      BY <1>1, <2>1, <2>5, <2>6 DEF Maps, Built, Untouched
    <3>2. \A m \in Maps' : Complete(m) /\ Known(m.version) /\ Placed(m)
                           /\ (m.version = Stored => Right(m))
      <4>1. b.version = Stored => Stored # None
        BY <2>3, <2>4
      <4> QED
        BY <2>3, <2>4, <2>7, <3>1, <4>1 DEF MapInv, Complete
    <3>3. \A m, n \in Maps' : Agree(m, n)
      <4>1. ASSUME NEW m \in Maps, m.version = token, token \in Nat \X Nat
            PROVE  Right(m) /\ Right(b)
        <5>1. Stored = token
          BY <2>3, <4>1, RetrievalAssumption
        <5> QED
          BY <2>3, <2>7, <4>1, <5>1 DEF MapInv
      <4>2. ASSUME NEW m \in Maps PROVE Agree(m, b) /\ Agree(b, m)
        BY <2>4, <4>1 DEF Agree, Right
      <4>3. Agree(b, b)
        <5>1. token \in Nat \X Nat => Right(b)
          BY <2>3, <2>7, RetrievalAssumption
        <5> QED
          BY <2>4, <5>1 DEF Agree, Right
      <4> QED
        BY <3>1, <4>2, <4>3 DEF MapInv
    <3> QED
      BY <1>1, <1>2, <3>2, <3>3 DEF MapInv, Complete, Known, Placed, Right, Agree, World
  <2>9. HeldInv'
    <3>1. Sent' \subseteq Sent
      BY <1>1, <2>6 DEF Sent, Untouched
    <3> QED
      BY <1>1, <2>1, <2>6, <3>1 DEF HeldInv, Sent, Untouched
  <2>10. QueryInv(q)'
    <3>1. \A i \in DOMAIN b.of : b.of[i] \in must[q] => Permits(q, b.of[i], b.band[i])
      BY <1>1, <2>4 DEF QueryInv
    <3>2. must'[q] \subseteq Indexed' /\ \A r \in must'[q] : Reads(q, r, class)'
      BY <1>1, <2>1 DEF QueryInv, World, Indexed, Reads
    <3> QED
      BY <2>1, <2>3, <2>4, <2>5, <2>6, <3>1, <3>2 DEF QueryInv, Ended, Permits
  <2>11. CalmInv(q)'
    <3> SUFFICES ASSUME calm[q] PROVE CalmInv(q)'
      BY <2>1 DEF CalmInv
    <3>1. Still' /\ ~ Ended(q)' /\ \A x \in Query : Ended(x)' \/ calm'[x]
      BY <1>1, <2>1, <2>6 DEF CalmInv, Still, World, Untouched, Ended
    <3>2. tries[q] = 1 /\ pushed[home[q]] # None => Fresh(pushed[home[q]])' /\ HeldFresh'
      BY <1>1, <1>2, <2>1 DEF CalmInv, Fresh, HeldFresh, World
    <3>3. Stored # None
      BY RetrievalAssumption DEF CalmInv, Still, Stored, Types
    <3>4. Fresh(b)'
      BY <1>1, <1>2, <2>3, <2>4, <3>3 DEF CalmInv, Fresh, World
    <3> QED
      BY <1>1, <2>1, <2>5, <2>6, <3>1, <3>2, <3>4 DEF CalmInv, Fresh, World
  <2> QED
    BY <1>1, <2>1, <2>6, <2>8, <2>9, <2>10, <2>11, StepKeeps DEF Types
<1>4. CASE before[q] # Stored
  <2>1. Forget(q, FALSE) /\ Retry(q)
    BY <1>4 DEF ReadVersionAgain, SameStoredVersion
  <2>2. ~ calm[q]
    BY <1>1, <1>4 DEF CalmInv
  <2> QED
    BY <1>1, <2>1, <2>2, ForgetDrops, RetryQuits, QuitEarly DEF Types
<1> QED
  BY <1>3, <1>4

LEMMA PushInv ==
  ASSUME Inv, NEW q \in Query, PushBands(q) PROVE Inv'
<1> USE DEF Inv
<1>1. /\ pc[q] = "push" /\ ~ Ended(q) /\ UNCHANGED World
      /\ pinned' = [pinned EXCEPT ![home[q]] = embedder]
  BY DEF PushBands, Pin, Rigid, databaseVars, World, Ended
<1>2. Stored' = Stored
  BY <1>1 DEF Stored, World
<1>3. /\ bits[q] \in Maps /\ bits[q] \in Bitmaps /\ bits[q] # None
      /\ home[q] \in Process
  BY <1>1 DEF Types, QueryInv, Maps, Built
<1>4. pinned' \in [Process -> {None} \cup Embedder]
      /\ \A p \in Process : pinned'[p] \in {pinned[p], embedder}
  BY <1>1 DEF Types
<1>5. CASE bits[q].generation = generation
  <2>1. /\ held' = bits[q] /\ pushed' = [pushed EXCEPT ![home[q]] = bits[q]]
        /\ pc' = [pc EXCEPT ![q] = "search"]
        /\ UNCHANGED <<tries, open, before, bits, allow, hits, must, calm, short>>
    BY <1>5 DEF PushBands, Goto
  <2>2. OwnTypes' /\ Untouched(q) /\ pc'[q] = "search"
    BY <2>1 DEF Types, OwnTypes, Untouched, Point
  <2>3. MapInv'
    <3>1. Maps' \subseteq Maps
      BY <1>1, <1>3, <2>1, <2>2 DEF Maps, Built, Untouched, Types
    <3> QED
      BY <1>1, <3>1, FewerMaps
  <2>4. HeldInv'
    <3>1. \A m \in Maps : m.generation <= generation
      BY DEF MapInv, Placed
    <3>2. ASSUME NEW p \in Process, pushed'[p] # None
          PROVE  pushed'[p].generation <= generation
      BY <1>3, <2>1, <3>1, <3>2 DEF Types, Maps
    <3>3. ASSUME NEW o \in Sent' PROVE bits[o].generation <= generation
                                       /\ (bits[o].version = o /\ bits[q].version = o =>
                                             bits[q] = bits[o])
      <4>1. o \in Query /\ bits[o] \in Maps
        BY <1>1, <2>1, <2>2, <3>3 DEF Sent, Untouched, Maps, Built, QueryInv
      <4>2. bits[q].version \in (Nat \X Nat) \cup {q}
        BY <1>1 DEF QueryInv
      <4>3. bits[q].version = o => o = q
        BY <4>1, <4>2, RetrievalAssumption
      <4> QED
        BY <3>1, <4>1, <4>3
    <3> QED
      BY <1>5, <2>1, <3>2, <3>3 DEF HeldInv
  <2>5. QueryInv(q)'
    <3>1. must'[q] \subseteq Indexed' /\ \A r \in must'[q] : Reads(q, r, class)'
      BY <1>1, <2>1 DEF QueryInv, World, Indexed, Reads
    <3> QED
      BY <1>1, <2>1, <2>2, <3>1 DEF QueryInv, Ended, Permits
  <2>6. calm[q] => HeldFresh' /\ Fresh(bits[q]) /\ Fresh(bits[q])'
    BY <1>1, <1>2, <1>3, <2>1 DEF CalmInv, HeldFresh, Fresh, World
  <2>7. CalmInv(q)'
    <3> SUFFICES ASSUME calm[q] PROVE CalmInv(q)'
      BY <2>1 DEF CalmInv
    <3>1. Still' /\ ~ Ended(q)' /\ \A x \in Query : Ended(x)' \/ calm'[x]
      BY <1>1, <2>1, <2>2 DEF CalmInv, Still, World, Untouched, Ended, Types
    <3>2. pushed'[home'[q]] = bits[q] /\ bits' = bits
      BY <1>1, <1>3, <2>1 DEF Types, World
    <3>3. Fresh(pushed[home[q]])'
      BY <2>6, <3>2 DEF Fresh
    <3> QED
      BY <2>2, <2>6, <3>1, <3>3 DEF CalmInv, Fresh
  <2>8. pushed' \in [Process -> {None} \cup Bitmaps] /\ held' \in {None} \cup Bitmaps
    BY <1>3, <2>1 DEF Types
  <2>9. calm[q] => \A p \in Process :
          pushed'[p] \in {pushed[p], None} \/ (Fresh(pushed[p])' /\ HeldFresh')
    <3> SUFFICES ASSUME calm[q], NEW p \in Process, pushed'[p] # pushed[p]
                 PROVE  Fresh(pushed[p])' /\ HeldFresh'
      OBVIOUS
    <3>1. pushed'[p] = bits[q] /\ bits' = bits
      BY <2>1 DEF Types
    <3> QED
      BY <2>6, <3>1 DEF Fresh
  <2> QED
    BY <1>1, <1>4, <2>1, <2>2, <2>3, <2>4, <2>5, <2>6, <2>7, <2>8, <2>9, StepKeeps
<1>6. CASE bits[q].generation # generation
  <2>1. Forget(q, FALSE) /\ Retry(q) /\ held' = held
    BY <1>6 DEF PushBands
  <2>2. ~ calm[q]
    BY <1>1, <1>6 DEF CalmInv, Fresh
  <2> QED
    BY <1>1, <1>4, <2>1, <2>2, ForgetDrops, RetryQuits, QuitEarly DEF Types
<1> QED
  BY <1>5, <1>6

LEMMA ScopeInv ==
  ASSUME Inv, NEW q \in Query, ScopeAndHandshake(q) PROVE Inv'
<1> USE DEF Inv
<1>1. /\ pc[q] = "search" /\ ~ Ended(q) /\ UNCHANGED World /\ UNCHANGED held
      /\ pinned' = [pinned EXCEPT ![home[q]] = embedder]
  BY DEF ScopeAndHandshake, Pin, Rigid, databaseVars, engineVars, World, Ended
<1>2. Stored' = Stored
  BY <1>1 DEF Stored, World
<1>3. /\ bits[q] \in Maps /\ bits[q] \in Bitmaps /\ bits[q] # None
      /\ home[q] \in Process
  BY <1>1 DEF Types, QueryInv, Maps, Built
<1>4. pinned' \in [Process -> {None} \cup Embedder]
      /\ \A p \in Process : pinned'[p] \in {pinned[p], embedder}
  BY <1>1 DEF Types
<1>5. CASE SlotsCovered(q)
  <2>1. /\ UNCHANGED <<tries, before, bits, hits, pushed, must, calm, short>>
        /\ pc' = [pc EXCEPT ![q] = "ask"]
        /\ allow' = [allow EXCEPT ![q] = {r \in Named[q] : Reads(q, r, class)}]
        /\ open' = open \cup {q}
    BY <1>5 DEF ScopeAndHandshake, Goto
  <2>2. OwnTypes' /\ Untouched(q) /\ pc'[q] = "ask"
        /\ allow'[q] = {r \in Named[q] : Reads(q, r, class)}
    <3>1. {r \in Named[q] : Reads(q, r, class)} \in SUBSET Record
      BY RetrievalAssumption
    <3>2. allow' \in [Query -> SUBSET Record]
      BY <2>1, <3>1 DEF Types
    <3> QED
      BY <2>1, <3>2 DEF Types, OwnTypes, Untouched, Point
  <2>3. MapInv' /\ HeldInv'
    <3>1. Maps' \subseteq Maps /\ Sent' \subseteq Sent
      BY <1>1, <2>1, <2>2 DEF Maps, Built, Sent, Untouched
    <3>2. HeldInv'
      BY <1>1, <2>1, <3>1 DEF HeldInv, Sent
    <3> QED
      BY <1>1, <3>1, <3>2, FewerMaps
  <2>4. QueryInv(q)'
    <3>1. must'[q] \subseteq Indexed' /\ \A r \in must'[q] : Reads(q, r, class)'
      BY <1>1, <2>1 DEF QueryInv, World, Indexed, Reads
    <3>2. must'[q] \cap Named[q] \subseteq allow'[q]
      BY <2>1, <2>2 DEF QueryInv
    <3>3. \A r \in must[q] : \E i \in DOMAIN bits[q].of : slots[i] = r
      <4>1. DOMAIN bits[q].of = DOMAIN slots
        BY <1>3, <1>5 DEF SlotsCovered, Bitmaps, Types
      <4> QED
        BY <4>1 DEF QueryInv, Indexed, Range
    <3> QED
      BY <1>1, <2>1, <2>2, <3>1, <3>2, <3>3 DEF QueryInv, Ended, Permits, World
  <2>5. CalmInv(q)'
    <3> SUFFICES ASSUME calm[q] PROVE CalmInv(q)'
      BY <2>1 DEF CalmInv
    <3>1. Still' /\ ~ Ended(q)' /\ \A x \in Query : Ended(x)' \/ calm'[x]
      BY <1>1, <2>1, <2>2 DEF CalmInv, Still, World, Untouched, Ended, Types
    <3>2. tries[q] = 1 /\ pushed[home[q]] # None => Fresh(pushed[home[q]])' /\ HeldFresh'
      BY <1>1, <1>2, <2>1 DEF CalmInv, Fresh, HeldFresh, World
    <3>3. tries[q] = 1 => Fresh(bits[q])' /\ HeldFresh'
      BY <1>1, <1>2, <2>1 DEF CalmInv, Fresh, HeldFresh, World
    <3>4. q \in open' /\ \A r \in allow'[q] : Reads(q, r, class)'
      BY <1>1, <2>1, <2>2 DEF World, Reads
    <3>5. bits'[q].version = Stored'
      BY <1>1, <1>2, <2>1 DEF CalmInv
    <3> QED
      BY <1>1, <2>1, <2>2, <3>1, <3>2, <3>3, <3>4, <3>5 DEF CalmInv, World
  <2> QED
    BY <1>1, <1>4, <2>1, <2>2, <2>3, <2>4, <2>5, StepKeeps DEF Types
<1>6. CASE ~ SlotsCovered(q)
  <2>1. Forget(q, TRUE) /\ Retry(q)
    BY <1>6 DEF ScopeAndHandshake
  <2>2. pushed'[home[q]] = None
    BY <2>1, ForgetDrops
  <2> QED
    BY <1>1, <1>4, <2>1, <2>2, ForgetDrops, RetryQuits, QuitEarly DEF Types
<1> QED
  BY <1>5, <1>6

(* The engine in step with a query: it holds the bands of that query's     *)
(* version, over the slots it has now or over the first of them.           *)
LEMMA InStepHolds ==
  ASSUME Inv, NEW q \in Query, pc[q] = "ask", InStep(q)
  PROVE  /\ held \in Bitmaps /\ bits[q] \in Bitmaps
         /\ held \in Maps /\ bits[q] \in Maps /\ held.generation = generation
         /\ Complete(held) /\ Placed(held) /\ Placed(bits[q])
         /\ held = bits[q] \/ (Agree(held, bits[q]) /\ held.version \in Nat \X Nat)
<1> USE DEF Inv
<1>1. held # None /\ held.version = bits[q].version /\ bits[q].generation = generation
  BY DEF InStep
<1>2. held \in Bitmaps /\ bits[q] \in Bitmaps
  BY <1>1 DEF Types, QueryInv
<1>3. held \in Maps /\ bits[q] \in Maps
  BY <1>1 DEF Maps, Built, QueryInv
<1>4. held.generation <= generation /\ bits[q].generation <= held.generation
  BY <1>1, <1>3 DEF MapInv, Placed, HeldInv, Sent
<1>5. held.generation = generation
  BY <1>1, <1>2, <1>4 DEF Bitmaps
<1>6. bits[q].version \in (Nat \X Nat) \cup {q}
  BY DEF QueryInv
<1>7. held.version = q => held = bits[q]
  BY <1>1 DEF HeldInv, Sent
<1>8. held = bits[q] \/ (Agree(held, bits[q]) /\ held.version \in Nat \X Nat)
  <2>1. Agree(held, bits[q])
    BY <1>3 DEF MapInv
  <2>2. held.version = q \/ held.version \in Nat \X Nat
    BY <1>1, <1>6
  <2> QED
    BY <1>7, <2>1, <2>2
<1>9. Complete(held) /\ Placed(held) /\ Placed(bits[q])
  BY <1>3 DEF MapInv
<1> QED
  BY <1>2, <1>3, <1>5, <1>8, <1>9

(* What the engine scores misses no record that the caller could read all  *)
(* along, unless it masks by fewer slots than the query built.             *)
LEMMA ScoredIsWhole ==
  ASSUME Inv, NEW q \in Query, pc[q] = "ask", InStep(q),
         Len(held.of) >= Len(bits[q].of)
  PROVE  must[q] \subseteq Scored(q)
<1> USE DEF Inv
<1> SUFFICES ASSUME NEW r \in must[q] PROVE r \in Scored(q)
  OBVIOUS
<1>1. bits[q].generation = generation
  BY DEF InStep
<1>2. PICK i \in DOMAIN bits[q].of : slots[i] = r
  BY <1>1 DEF QueryInv
<1>3. /\ i \in 1..Len(bits[q].of) /\ Len(bits[q].of) \in Nat /\ Len(held.of) \in Nat
      /\ DOMAIN held.of = 1..Len(held.of) /\ DOMAIN held.band = 1..Len(held.band)
      /\ DOMAIN slots = 1..Len(slots) /\ Len(slots) \in Nat
  <2>1. held.of \in Seq(Record) /\ held.band \in Seq({0} \cup Band)
        /\ bits[q].of \in Seq(Record) /\ slots \in Seq(Record)
    BY InStepHolds DEF Bitmaps, Types
  <2> QED
    BY <1>2, <2>1
<1>4. i \in DOMAIN held.of /\ i \in DOMAIN held.band /\ i \in DOMAIN slots
  BY <1>1, <1>3, InStepHolds DEF Complete, Placed
<1>5. held.of[i] = r /\ bits[q].of[i] = r
  BY <1>1, <1>2, <1>4, InStepHolds DEF Placed
<1>6. held.band[i] = bits[q].band[i]
  BY <1>2, <1>4, <1>5, InStepHolds DEF Agree, InStep
<1>7. Permits(q, r, held.band[i])
  BY <1>2, <1>5, <1>6 DEF QueryInv
<1>8. held.band[i] # 0 /\ (held.band[i] <= Ceiling[q] \/ r \in allow[q])
  BY <1>7 DEF Permits, QueryInv
<1>9. i \in {j \in DOMAIN slots \cap DOMAIN held.band :
               held.band[j] # 0 /\ (held.band[j] <= Ceiling[q] \/ slots[j] \in allow[q])}
  BY <1>2, <1>4, <1>8
<1> QED
  BY <1>2, <1>9 DEF Scored

(* For a calm query the bands are those of now: it reads what is scored.   *)
LEMMA ScoredIsRead ==
  ASSUME Inv, NEW q \in Query, pc[q] = "ask", InStep(q), calm[q]
  PROVE  \A r \in Scored(q) : Reads(q, r, class)
<1> USE DEF Inv
<1> SUFFICES ASSUME NEW i \in DOMAIN slots \cap DOMAIN held.band, held.band[i] # 0,
                    held.band[i] <= Ceiling[q] \/ slots[i] \in allow[q]
             PROVE  Reads(q, slots[i], class)
  BY DEF Scored
<1>1. held.version = Stored
  BY DEF CalmInv, InStep
<1>2. Right(held)
  BY <1>1, InStepHolds DEF MapInv
<1>3. held.band \in Seq({0} \cup Band) /\ held.of \in Seq(Record)
  BY InStepHolds DEF Bitmaps
<1>4. i \in DOMAIN held.of /\ held.band[i] \in {0} \cup Band
  BY <1>3, InStepHolds DEF Complete
<1>5. held.of[i] = slots[i] /\ held.band[i] = class[slots[i]]
  BY <1>2, <1>4, InStepHolds DEF Placed, Right
<1>6. CASE held.band[i] <= Ceiling[q]
  BY <1>4, <1>5, <1>6, RetrievalAssumption DEF Reads, Band
<1>7. CASE slots[i] \in allow[q]
  BY <1>7 DEF CalmInv
<1> QED
  BY <1>6, <1>7

LEMMA SearchInv ==
  ASSUME Inv, NEW q \in Query, Search(q) PROVE Inv'
<1> USE DEF Inv
<1>1. /\ pc[q] = "ask" /\ ~ Ended(q) /\ UNCHANGED World /\ UNCHANGED <<held, pinned>>
  BY DEF Search, Rigid, databaseVars, engineVars, World, Ended
<1>2. Stored' = Stored
  BY <1>1 DEF Stored, World
<1>3. CASE InStep(q)
  <2>1. /\ UNCHANGED <<tries, before, pushed, must, calm>>
        /\ pc' = [pc EXCEPT ![q] = "recheck"] /\ open' = open \ {q}
        /\ bits' = [bits EXCEPT ![q] = None] /\ allow' = [allow EXCEPT ![q] = {}]
        /\ hits' = [hits EXCEPT ![q] = Scored(q)]
        /\ short' = [short EXCEPT ![q] = Len(held.of) < Len(bits[q].of)]
    BY <1>3 DEF Search, Goto
  <2>2. Scored(q) \in SUBSET Record
    BY DEF Scored, Types
  <2>3. (Len(held.of) < Len(bits[q].of)) \in BOOLEAN
        /\ Len(held.of) \in Nat /\ Len(bits[q].of) \in Nat
    BY <1>1, <1>3, InStepHolds DEF Bitmaps
  <2>4. /\ short' \in [Query -> BOOLEAN]
        /\ short'[q] <=> Len(held.of) < Len(bits[q].of)
        /\ \A o \in Query \ {q} : short'[o] = short[o]
    BY <2>1, <2>3, Zenon DEF Types
  <2>5. OwnTypes'
    BY <2>1, <2>2, <2>4 DEF Types, OwnTypes, Point
  <2>6. Untouched(q)
    BY <2>1, <2>4 DEF Types, Untouched
  <2>7. pc'[q] = "recheck" /\ bits'[q] = None /\ hits'[q] = Scored(q)
    BY <2>1 DEF Types
  <2>8. MapInv' /\ HeldInv'
    <3>1. Maps' \subseteq Maps /\ Sent' \subseteq Sent /\ q \notin Sent'
      BY <1>1, <2>1, <2>6, <2>7 DEF Maps, Built, Sent, Untouched
    <3>2. HeldInv'
      BY <1>1, <2>1, <2>6, <3>1 DEF HeldInv, Sent, Untouched
    <3> QED
      BY <1>1, <3>1, <3>2, FewerMaps
  <2>9. QueryInv(q)'
    <3>1. must[q] \subseteq Scored(q) \/ Len(held.of) < Len(bits[q].of)
      BY <1>1, <1>3, <2>3, ScoredIsWhole
    <3>2. must'[q] \subseteq Indexed' /\ \A r \in must'[q] : Reads(q, r, class)'
      BY <1>1, <2>1 DEF QueryInv, World, Indexed, Reads
    <3> QED
      BY <2>1, <2>4, <2>7, <3>1, <3>2 DEF QueryInv, Ended
  <2>10. CalmInv(q)'
    <3> SUFFICES ASSUME calm[q] PROVE CalmInv(q)'
      BY <2>1 DEF CalmInv
    <3>1. Still' /\ ~ Ended(q)' /\ \A x \in Query : Ended(x)' \/ calm'[x]
      BY <1>1, <2>1, <2>6, <2>7 DEF CalmInv, Still, World, Untouched, Ended, Types
    <3>2. tries[q] = 1 /\ pushed[home[q]] # None => Fresh(pushed[home[q]])' /\ HeldFresh'
      BY <1>1, <1>2, <2>1 DEF CalmInv, Fresh, HeldFresh, World
    <3>3. \A r \in hits'[q] : Reads(q, r, class)'
      BY <1>1, <1>3, <2>7, ScoredIsRead DEF World, Reads
    <3> QED
      BY <1>1, <2>1, <2>7, <3>1, <3>2, <3>3 DEF CalmInv, World
  <2> QED
    BY <1>1, <2>1, <2>5, <2>6, <2>8, <2>9, <2>10, StepKeeps DEF Types
<1>4. CASE ~ InStep(q)
  <2>1. Forget(q, TRUE) /\ Retry(q)
    BY <1>4 DEF Search
  <2>2. pushed'[home[q]] = None
    BY <2>1, ForgetDrops
  <2> QED
    BY <1>1, <2>1, <2>2, ForgetDrops, RetryQuits, QuitEarly DEF Types
<1> QED
  BY <1>3, <1>4

LEMMA RecheckInv ==
  ASSUME Inv, NEW q \in Query, Recheck(q) PROVE Inv'
<1> USE DEF Inv
<1>1. /\ pc[q] = "recheck" /\ ~ Ended(q) /\ UNCHANGED World
      /\ UNCHANGED <<held, pushed, pinned>>
  BY DEF Recheck, Rigid, databaseVars, engineVars, processVars, World, Ended
<1>2. PICK result \in {"ranked", "withheld"} : End(q, result)
  BY DEF Recheck
<1>3. OwnTypes' /\ Untouched(q) /\ Quits(q) /\ pc'[q] # "version"
  BY <1>2, EndQuits
<1> QED
  BY <1>1, <1>3, QuitEarly DEF Types

LEMMA UnavailableInv ==
  ASSUME Inv, NEW q \in Query, Unavailable(q) PROVE Inv'
<1> USE DEF Inv
<1>1. /\ pc[q] \in {"slots", "push", "search", "ask"} /\ ~ Ended(q) /\ UNCHANGED World
      /\ UNCHANGED pushed /\ End(q, "withheld")
      /\ pinned' = pinned \/ pinned' = [pinned EXCEPT ![home[q]] = embedder]
  BY DEF Unavailable, Pin, Rigid, databaseVars, World, Ended
<1>2. OwnTypes' /\ Untouched(q) /\ Quits(q) /\ pc'[q] = "withheld"
  BY <1>1, EndQuits
<1>3. pinned' \in [Process -> {None} \cup Embedder]
      /\ \A p \in Process : pinned'[p] \in {pinned[p], embedder}
  BY <1>1 DEF Types
<1>4. CASE held' = held
  BY <1>1, <1>2, <1>3, <1>4, QuitEarly DEF Types
<1>5. CASE pc[q] = "push" /\ Accepted(q) /\ bits[q].generation = generation
           /\ held' = bits[q]
  <2>1. ~ calm[q]
    BY <1>5 DEF Unavailable
  <2>2. bits[q] \in Maps /\ bits[q] \in Bitmaps
    BY <1>5 DEF Types, QueryInv, Maps, Built
  <2>3. MapInv'
    <3>1. Maps' \subseteq Maps
      BY <1>1, <1>2, <1>5, <2>2 DEF Maps, Built, Untouched
    <3> QED
      BY <1>1, <3>1, FewerMaps
  <2>4. HeldInv'
    <3>1. \A m \in Maps : m.generation <= generation
      BY DEF MapInv, Placed
    <3>2. ASSUME NEW o \in Sent' PROVE /\ bits'[o].generation <= generation
                                       /\ bits[q].version # o
      <4>1. o \in Query /\ o # q /\ bits'[o] = bits[o] /\ bits[o] \in Maps
        BY <1>2, <3>2 DEF Sent, Untouched, Maps, Built, QueryInv
      <4>2. bits[q].version \in (Nat \X Nat) \cup {q}
        BY <1>5 DEF QueryInv
      <4> QED
        BY <3>1, <4>1, <4>2, RetrievalAssumption
    <3>3. ASSUME NEW p \in Process, pushed[p] # None PROVE pushed[p].generation <= generation
      BY <3>1, <3>3 DEF Maps
    <3> QED
      BY <1>1, <1>5, <3>2, <3>3 DEF HeldInv
  <2>5. QueryInv(q)' /\ CalmInv(q)' /\ Ended(q)'
    BY <1>1, <1>2, QuitInv DEF CalmInv, Quits, Ended
  <2> QED
    BY <1>1, <1>2, <1>3, <1>5, <2>1, <2>2, <2>3, <2>4, <2>5, StepKeeps DEF Types
<1> QED
  BY <1>4, <1>5 DEF Unavailable

(* A step of one query leaves the others alone.                            *)
LEMMA StepAlone ==
  ASSUME Types, NEW q \in Query, Step(q)
  PROVE  Untouched(q) /\ ~ Ended(q) /\ (pc[q] = "recheck" => Recheck(q))
<1>1. CASE CurrentBandVersion(q)
  BY <1>1 DEF CurrentBandVersion, Goto, Types, Untouched, Ended
<1>2. CASE SlotsAndVersion(q)
  BY <1>2 DEF SlotsAndVersion, Goto, Types, Untouched, Ended
<1>3. CASE ReadBands(q)
  BY <1>3 DEF ReadBands, Goto, Types, Untouched, Ended
<1>4. CASE ReadVersionAgain(q)
  BY <1>4, RetryQuits DEF ReadVersionAgain, Goto, Types, Untouched, Ended
<1>5. CASE PushBands(q)
  BY <1>5, RetryQuits DEF PushBands, Goto, Types, Untouched, Ended
<1>6. CASE ScopeAndHandshake(q)
  BY <1>6, RetryQuits DEF ScopeAndHandshake, Goto, Types, Untouched, Ended
<1>7. CASE Search(q)
  BY <1>7, RetryQuits DEF Search, Goto, Types, Untouched, Ended
<1>8. CASE Recheck(q)
  BY <1>8, EndQuits DEF Recheck, Ended
<1>9. CASE Unavailable(q)
  BY <1>9, EndQuits DEF Unavailable, Ended
<1> QED
  BY <1>1, <1>2, <1>3, <1>4, <1>5, <1>6, <1>7, <1>8, <1>9 DEF Step

LEMMA InvStep ==
  ASSUME Inv, [Next]_vars PROVE Inv'
<1>1. CASE UNCHANGED vars
  <2>1. Stored' = Stored /\ Maps' = Maps /\ Sent' = Sent
    BY <1>1 DEF vars, databaseVars, engineVars, processVars, Stored, Maps, Built, Sent
  <2>2. MapInv' /\ HeldInv'
    BY <1>1, <2>1 DEF Inv, vars, databaseVars, engineVars, processVars, MapInv, HeldInv,
       Complete, Known, Placed, Right, Agree
  <2>3. ASSUME NEW q \in Query PROVE QueryInv(q)'
    BY <1>1, <2>1 DEF Inv, vars, databaseVars, engineVars, processVars, history, QueryInv,
       Known, Placed, Right, Indexed, Reads, Permits, Ended
  <2>4. ASSUME NEW q \in Query PROVE CalmInv(q)'
    BY <1>1, <2>1 DEF Inv, vars, databaseVars, engineVars, processVars, history, CalmInv,
       Still, Ended, Fresh, HeldFresh, Reads
  <2>5. Types'
    BY <1>1 DEF Inv, vars, databaseVars, engineVars, processVars, history, Types
  <2> QED
    BY <2>2, <2>3, <2>4, <2>5 DEF Inv
<1>2. ASSUME NEW q \in Query, Step(q) PROVE Inv'
  BY <1>2, CurrentInv, SlotsInv, BandsInv, AgainInv, PushInv, ScopeInv, SearchInv,
     RecheckInv, UnavailableInv DEF Step
<1> QED
  BY <1>1, <1>2, WriteInv, LoseRowInv, GrowInv, ReorderInv, RestartInv, BeginInv DEF Next

LEMMA RetrievalInvariant == Spec => []Inv
BY InvInit, InvStep, PTL DEF Spec

-----------------------------------------------------------------------------

(* Every variable has its type, and a query holds bitmaps at exactly the   *)
(* points of rank.ts where it goes by some, complete and with a version    *)
(* once it has compared the versions.                                      *)
THEOREM TypeCorrectness == Spec => []TypeOK
<1>1. Inv => TypeOK
  <2> SUFFICES ASSUME Inv PROVE TypeOK
    OBVIOUS
  <2> USE DEF Inv
  <2>1. \A q \in Query : pc[q] \in {"push", "search", "ask"} =>
          bits[q].version # None /\ Len(bits[q].band) = Len(bits[q].of)
    BY DEF QueryInv, MapInv, Maps, Built, Complete
  <2> QED
    BY <2>1 DEF TypeOK, Types, QueryInv
<1> QED
  BY <1>1, RetrievalInvariant, PTL

(* A ranking that is served is whole, for any number of processes, queries *)
(* and records and however the world moves: the version a search names is  *)
(* the version of the bands the engine masks by, a version names one state *)
(* of the bands, that state was the database's while the query was under   *)
(* way, and the engine's generation says which slot is whose.              *)
THEOREM Rankings == Spec => RankingsAreWhole
<1>1. Inv /\ [Next]_vars =>
        [\A q \in Query : Served(q) =>
           /\ must[q] \subseteq hits[q] \/ short[q]
           /\ \A r \in hits[q] : Reads(q, r, class)]_vars
  <2> SUFFICES ASSUME Inv, [Next]_vars, NEW q \in Query, Served(q)
               PROVE  /\ must[q] \subseteq hits[q] \/ short[q]
                      /\ \A r \in hits[q] : Reads(q, r, class)
    OBVIOUS
  <2>1. must[q] \subseteq hits[q] \/ short[q]
    BY DEF Inv, QueryInv, Served
  <2>2. Recheck(q)
    <3>1. pc[q] = "recheck" /\ pc'[q] = "ranked" /\ pc \in [Query -> Point]
      BY DEF Served, Inv, Types
    <3>2. ~ UNCHANGED vars /\ ~ Move
      BY <3>1 DEF vars, Move
    <3>3. PICK o \in Query : Begin(o) \/ Step(o)
      BY <3>2 DEF Next, Write, Grow, Restart, LoseRow, Reorder
    <3>4. ~ Begin(o)
      BY <3>1 DEF Begin, Ended, Goto
    <3>5. Untouched(o) /\ (pc[o] = "recheck" => Recheck(o))
      BY <3>3, <3>4, StepAlone DEF Inv
    <3> QED
      BY <3>1, <3>5 DEF Untouched
  <2>3. \A r \in hits[q] : Reads(q, r, class)
    <3>1. pc' = [pc EXCEPT ![q] = IF \A r \in hits[q] : Reads(q, r, class) THEN "ranked"
                                  ELSE "withheld"]
      BY <2>2 DEF Recheck, End, Goto
    <3> QED
      BY <3>1 DEF Served, Inv, Types
  <2> QED
    BY <2>1, <2>3
<1> QED
  BY <1>1, RetrievalInvariant, PTL DEF Spec, RankingsAreWhole

(* A query begun when nothing moves any more, and nothing older is under   *)
(* way, is ranked: in a first attempt only a search can fail, and the      *)
(* bitmaps the process then forgets are replaced by ones that cannot.      *)
THEOREM CalmIsRanked == Spec => CalmQueriesAreRanked
<1>1. Inv /\ [Next]_vars => [\A q \in Query : calm[q] => pc'[q] # "withheld"]_vars
  <2> SUFFICES ASSUME Inv, [Next]_vars, NEW q \in Query, calm[q]
               PROVE  pc'[q] # "withheld"
    OBVIOUS
  <2> USE DEF Inv
  <2>1. pc[q] # "withheld" /\ pc \in [Query -> Point] /\ Still
        /\ home[q] \in Process /\ tries[q] \in {0, 1}
    BY DEF CalmInv, Ended, Types
  <2>2. CASE UNCHANGED vars \/ Move
    BY <2>1, <2>2 DEF vars, Move
  <2>3. ASSUME NEW o \in Query, Begin(o) PROVE pc'[q] # "withheld"
    BY <2>1, <2>3 DEF Begin, Goto
  <2>4. ASSUME NEW o \in Query, Step(o), o # q PROVE pc'[q] # "withheld"
    BY <2>1, <2>4, StepAlone DEF Untouched
  <2>5. ASSUME Step(q) PROVE pc'[q] # "withheld"
    <3>1. ASSUME tries[q] = 0, Retry(q) PROVE pc'[q] # "withheld"
      BY <3>1, RetryQuits
    <3>2. CASE CurrentBandVersion(q)
      BY <2>1, <3>2 DEF CurrentBandVersion, Goto
    <3>3. CASE SlotsAndVersion(q)
      BY <2>1, <3>3 DEF SlotsAndVersion, Goto
    <3>4. CASE ReadBands(q)
      BY <2>1, <3>4 DEF ReadBands, Goto
    <3>5. CASE ReadVersionAgain(q)
      <4>1. before[q] = Stored
        BY <3>5 DEF CalmInv, ReadVersionAgain
      <4> QED
        BY <2>1, <3>5, <4>1 DEF ReadVersionAgain, SameStoredVersion, Goto
    <3>6. CASE PushBands(q)
      <4>1. bits[q].generation = generation
        BY <3>6 DEF CalmInv, PushBands, Fresh
      <4> QED
        BY <2>1, <3>6, <4>1 DEF PushBands, Goto
    <3>7. CASE ScopeAndHandshake(q)
      <4>1. tries[q] = 1 => SlotsCovered(q)
        BY <3>7 DEF CalmInv, ScopeAndHandshake, Fresh, SlotsCovered
      <4> QED
        BY <2>1, <3>1, <3>7, <4>1 DEF ScopeAndHandshake, Goto
    <3>8. CASE Search(q)
      <4>1. tries[q] = 1 => InStep(q)
        BY <3>8 DEF CalmInv, Search, Fresh, HeldFresh, InStep
      <4> QED
        BY <2>1, <3>1, <3>8, <4>1 DEF Search, Goto
    <3>9. CASE Recheck(q)
      <4>1. \A r \in hits[q] : Reads(q, r, class)
        BY <3>9 DEF CalmInv, Recheck
      <4>2. pc' = [pc EXCEPT ![q] = "ranked"]
        BY <3>9, <4>1 DEF Recheck, End, Goto
      <4> QED
        BY <2>1, <4>2
    <3>10. ~ Unavailable(q)
      <4>1. Accepted(q)
        BY <2>1 DEF Still, Accepted
      <4>2. pc[q] = "ask" => q \in open
        BY DEF CalmInv
      <4> QED
        BY <4>1, <4>2 DEF Unavailable
    <3> QED
      BY <2>5, <3>2, <3>3, <3>4, <3>5, <3>6, <3>7, <3>8, <3>9, <3>10 DEF Step
  <2> QED
    BY <2>2, <2>3, <2>4, <2>5 DEF Next, Write, Grow, Restart, LoseRow, Reorder
<1> QED
  BY <1>1, RetrievalInvariant, PTL DEF Spec, CalmQueriesAreRanked
=============================================================================
