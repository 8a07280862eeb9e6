------------------------- MODULE SemanticRetrieval --------------------------
(***************************************************************************)
(* Semantic ranking of one organization's records (packages/retrieval, and *)
(* the re-check of packages/search).  An API process keeps the band        *)
(* bitmaps it last pushed to the engine, trusts them while the band        *)
(* version is the one they were built under, and alternates short          *)
(* transactions with exchanges on the engine's socket.                     *)
(*                                                                         *)
(* Bands are numbers; 0 is no record.  A bitmap is the band each slot had  *)
(* when it was built.  The engine is another system: an ordering of slots  *)
(* with a generation, the bands last pushed to it, and an embedder.        *)
(***************************************************************************)
EXTENDS Naturals, Sequences, FiniteSets, SequencesExt

CONSTANTS
  Record,
  Query,       \* requests, each begun again for ever
  Process,     \* API processes
  Homes,       \* which query may run in which process
  Clearance, Ceiling, Named,  \* each query's caller: clearance, the band an
               \* organization-wide grant reaches, object-scoped grants
  Start,       \* records' bands and the engine's slots at the start
  MaxMoves,    \* bound: writes, restarts, growth, reordering, lost rows
  None

Band == 1..2
Embedder == {"first", "other", "remote"}

(* A version is the query's own token, or an epoch and a counter.          *)
Bitmaps ==
  [version : {None} \cup Query \cup (Nat \X Nat), generation : Nat,
   of : Seq(Record), band : Seq({0} \cup Band)]

ASSUME RetrievalAssumption ==
  /\ None \notin Bitmaps /\ None \notin Query \cup (Nat \X Nat)
  /\ Query \cap (Nat \X Nat) = {}
  /\ Start \subseteq [class : [Record -> {0} \cup Band], slots : Seq(Record)]
  /\ MaxMoves \in Nat /\ Homes \subseteq [Query -> Process]
  /\ Clearance \in [Query -> Band] /\ Named \in [Query -> SUBSET Record]
  /\ Ceiling \in [Query -> {0} \cup Band]
  /\ \A q \in Query : Ceiling[q] <= Clearance[q]
  /\ \A s \in Start : \A i \in DOMAIN s.slots : s.class[s.slots[i]] # 0

VARIABLES
  home,        \* the process a query runs in; never changes
  class,       \* core.object.classification
  epoch, counter, epochs,  \* retrieval.band_version; epoch 0 is no row
  embedder, slots, generation, held,  \* the engine
  pushed,      \* per process: the bitmaps it last pushed
  pinned,      \* per process: the embedder it first heard
  pc, tries,
  open,        \* queries whose connection for a search is open
  before,      \* the stored version buildBandBitmaps read first
  bits,        \* the bitmaps the query goes by
  allow, hits,
  moves,
  must,        \* history: indexed and readable ever since the query began
  calm,        \* history: begun when nothing moves any more
  short        \* history: the engine masked by fewer slots than the query's

databaseVars == <<class, epoch, counter, epochs>>
engineVars == <<embedder, slots, generation, held>>
processVars == <<pushed, pinned>>
history == <<must, calm, short>>
vars == <<home, databaseVars, engineVars, processVars, pc, tries, open, before,
          bits, allow, hits, moves, history>>

Reads(q, r, cl) ==
  /\ cl[r] \in 1..Clearance[q]
  /\ cl[r] <= Ceiling[q] \/ r \in Named[q]

Indexed == Range(slots)

Init ==
  /\ home \in Homes
  /\ \E s \in Start : class = s.class /\ slots = s.slots
  /\ epoch = 1 /\ counter = 1 /\ epochs = 1
  /\ embedder = "first" /\ generation = 0 /\ held = None
  /\ pushed = [p \in Process |-> None] /\ pinned = [p \in Process |-> None]
  /\ pc = [q \in Query |-> "withheld"] /\ tries = [q \in Query |-> 0]
  /\ open = {} /\ before = [q \in Query |-> None]
  /\ bits = [q \in Query |-> None] /\ allow = [q \in Query |-> {}]
  /\ hits = [q \in Query |-> {}]
  /\ moves = 0
  /\ must = [q \in Query |-> {}] /\ calm = [q \in Query |-> FALSE]
  /\ short = [q \in Query |-> FALSE]

-----------------------------------------------------------------------------
(* What moves around a query.                                              *)

Move ==
  /\ moves < MaxMoves
  /\ moves' = moves + 1
  /\ UNCHANGED <<home, processVars, pc, tries, before, bits, allow, hits, calm,
                 short>>

(* Nothing moves any more, and every process is content with the engine.   *)
Still ==
  /\ moves = MaxMoves /\ epoch # 0 /\ embedder # "remote"
  /\ \A p \in Process : pinned[p] \in {None, embedder}

(* retrieval.bump_band_version: once, as the transaction that moved a band *)
(* commits.                                                                *)
BumpBandVersion ==
  IF epoch = 0
  THEN epoch' = epochs + 1 /\ epochs' = epochs + 1 /\ counter' = 1
  ELSE counter' = counter + 1 /\ UNCHANGED <<epoch, epochs>>

(* A record appears, is reclassified, or is deleted; the deferred triggers *)
(* on core.object move the version with it.                                *)
Write(r, c) ==
  /\ Move /\ class[r] # c
  /\ class' = [class EXCEPT ![r] = c]
  /\ BumpBandVersion
  /\ must' = [q \in Query |-> {x \in must[q] : Reads(q, x, class')}]
  /\ UNCHANGED <<engineVars, open>>

(* The derived row is lost to a restore or a truncation.                   *)
LoseRow ==
  /\ Move /\ epoch # 0
  /\ epoch' = 0 /\ counter' = 0
  /\ UNCHANGED <<class, epochs, engineVars, open, must>>

(* The worker's pump writes a record's vector: a new slot at the end.      *)
Grow(r) ==
  /\ Move /\ class[r] # 0 /\ r \notin Indexed
  /\ slots' = Append(slots, r)
  /\ UNCHANGED <<databaseVars, embedder, generation, held, open, must>>

(* The engine's index is rebuilt in another order.                         *)
Reorder ==
  /\ Move /\ Len(slots) > 1
  /\ slots' = Reverse(slots) /\ generation' = generation + 1
  /\ UNCHANGED <<databaseVars, embedder, held, open, must>>

(* The engine restarts: connections and bands are gone.                    *)
Restart(e) ==
  /\ Move
  /\ embedder' = e /\ held' = None /\ open' = {}
  /\ UNCHANGED <<databaseVars, slots, generation, must>>

-----------------------------------------------------------------------------
(* A query.                                                                *)

Ended(q) == pc[q] \in {"ranked", "withheld"}

Goto(q, next) == pc' = [pc EXCEPT ![q] = next]

Rigid == UNCHANGED <<home, databaseVars, moves>>

Begin(q) ==
  /\ Ended(q)
  /\ Goto(q, "version")
  /\ must' = [must EXCEPT ![q] = {r \in Indexed : Reads(q, r, class)}]
  /\ calm' = [calm EXCEPT ![q] =
                Still /\ \A o \in Query \ {q} : Ended(o) \/ calm[o]]
  /\ Rigid
  /\ UNCHANGED <<engineVars, processVars, tries, open, before, bits, allow,
                 hits, short>>

(* What an attempt has gathered is dropped.                                *)
Drop(q) ==
  /\ open' = open \ {q} /\ before' = [before EXCEPT ![q] = None]
  /\ bits' = [bits EXCEPT ![q] = None] /\ allow' = [allow EXCEPT ![q] = {}]
  /\ hits' = [hits EXCEPT ![q] = {}]

(* The request is answered: with a ranking, or with the reason for none.   *)
End(q, result) ==
  /\ Goto(q, result) /\ Drop(q)
  /\ tries' = [tries EXCEPT ![q] = 0]
  /\ must' = [must EXCEPT ![q] = {}] /\ calm' = [calm EXCEPT ![q] = FALSE]
  /\ short' = [short EXCEPT ![q] = FALSE]

(* The bands have to be built again: once.                                 *)
Retry(q) ==
  \/ /\ tries[q] = 0
     /\ Goto(q, "version") /\ Drop(q)
     /\ tries' = [tries EXCEPT ![q] = 1]
     /\ UNCHANGED <<must, calm, short>>
  \/ tries[q] = 1 /\ End(q, "withheld")

(* Mutant of Forget: the process keeps its bitmaps.                        *)
ForgetNothing(q, searched) == UNCHANGED pushed

(* this.pushed.delete: by rank after a first attempt, by attempt after a   *)
(* search.                                                                 *)
Forget(q, searched) ==
  pushed' = IF tries[q] = 0 \/ searched
            THEN [pushed EXCEPT ![home[q]] = None] ELSE pushed

(* Mutant of Stored: the counter without its epoch.                        *)
StoredCounter == IF epoch = 0 THEN None ELSE <<0, counter>>

(* The stored version; None is no row.                                     *)
Stored == IF epoch = 0 THEN None ELSE <<epoch, counter>>

(* Mutant of TokenFor: the missing row has a token too.                    *)
TokenForNoRow(q, stored) == stored

(* The token it makes.  Without a row it is a fresh one that nothing will  *)
(* match but the search it is pushed for: the query's own name.            *)
TokenFor(q, stored) == IF stored = None THEN q ELSE stored

(* current: the bitmaps this process pushed, if they are of this version.  *)
CurrentBandVersion(q) ==
  /\ pc[q] = "version"
  /\ LET cached == pushed[home[q]]
     IN IF cached # None /\ cached.version = Stored
        THEN Goto(q, "search") /\ bits' = [bits EXCEPT ![q] = cached]
        ELSE Goto(q, "slots") /\ UNCHANGED bits
  /\ Rigid
  /\ UNCHANGED <<engineVars, processVars, tries, open, before, allow, hits,
                 must, calm, short>>

(* Mutant of Accepted: any local embedder will do.                         *)
AcceptedLocal(q) == embedder # "remote"

(* handshake: a local embedder, and the one this process first heard.      *)
Accepted(q) ==
  /\ embedder # "remote"
  /\ pinned[home[q]] \in {None, embedder}

Pin(q) == pinned' = [pinned EXCEPT ![home[q]] = embedder]

(* An exchange that fails: a handshake refused, a connection lost with the *)
(* engine it was opened to, a generation that moved after the handshake, or*)
(* no answer in time.  If the handshake succeeded the embedder is pinned,  *)
(* and bands it carried may have been taken all the same.  A calm query    *)
(* meets none of these but the first two.                                  *)
Unavailable(q) ==
  /\ pc[q] \in {"slots", "push", "search", "ask"}
  /\ \/ pc[q] # "ask" /\ ~Accepted(q)
     \/ pc[q] = "ask" /\ q \notin open
     \/ ~calm[q]
  /\ \/ UNCHANGED <<held, pinned>>
     \/ /\ pc[q] # "ask" /\ Accepted(q) /\ Pin(q)
        /\ \/ UNCHANGED held
           \/ /\ pc[q] = "push" /\ bits[q].generation = generation
              /\ held' = bits[q]
  /\ End(q, "withheld")
  /\ Rigid
  /\ UNCHANGED <<embedder, slots, generation, pushed>>

(* The slot ordering the bitmaps are to be built over, and then, in the    *)
(* first of three statements of a READ COMMITTED transaction, the version. *)
(* The one reads the engine and the other the database: what moves between *)
(* them has moved before both or moves after both.                         *)
SlotsAndVersion(q) ==
  /\ pc[q] = "slots" /\ Accepted(q) /\ Pin(q)
  /\ Goto(q, "bands")
  /\ bits' = [bits EXCEPT ![q] = [version |-> None, generation |-> generation,
                                  of |-> slots, band |-> <<>>]]
  /\ before' = [before EXCEPT ![q] = Stored]
  /\ Rigid
  /\ UNCHANGED <<engineVars, pushed, tries, open, allow, hits, must, calm,
                 short>>

(* retrieval.slot_bands                                                    *)
ReadBands(q) ==
  /\ pc[q] = "bands"
  /\ Goto(q, "again")
  /\ bits' = [bits EXCEPT ![q].band =
                [i \in DOMAIN bits[q].of |-> class[bits[q].of[i]]]]
  /\ Rigid
  /\ UNCHANGED <<engineVars, processVars, tries, open, before, allow, hits,
                 must, calm, short>>

(* Mutant of SameStoredVersion: the version is not compared.               *)
AnyStoredVersion(q) == TRUE

SameStoredVersion(q) == before[q] = Stored

(* The bitmaps are of that version, or BandVersionMoved asks for a rebuild.*)
ReadVersionAgain(q) ==
  /\ pc[q] = "again"
  /\ \/ /\ SameStoredVersion(q)
        /\ Goto(q, "push")
        /\ bits' = [bits EXCEPT ![q].version = TokenFor(q, Stored)]
        /\ before' = [before EXCEPT ![q] = None]
        /\ UNCHANGED <<tries, open, allow, hits, pushed, must, calm, short>>
     \/ /\ ~SameStoredVersion(q)
        /\ Forget(q, FALSE)
        /\ Retry(q)
  /\ Rigid
  /\ UNCHANGED <<engineVars, pinned>>

(* The engine is given the bands if it is of their generation.             *)
PushBands(q) ==
  /\ pc[q] = "push" /\ Accepted(q) /\ Pin(q)
  /\ \/ /\ bits[q].generation = generation
        /\ held' = bits[q]
        /\ pushed' = [pushed EXCEPT ![home[q]] = bits[q]]
        /\ Goto(q, "search")
        /\ UNCHANGED <<tries, open, before, bits, allow, hits, must, calm,
                       short>>
     \/ /\ bits[q].generation # generation
        /\ Forget(q, FALSE)
        /\ Retry(q)
        /\ UNCHANGED held
  /\ Rigid
  /\ UNCHANGED <<embedder, slots, generation>>

(* Mutant of SlotsCovered: the slots are not counted.                      *)
SlotsNotCounted(q) == TRUE

(* hello.slotCount is what the bands cover.                                *)
SlotsCovered(q) == Len(bits[q].of) = Len(slots)

(* engineScope reads the named records the caller reads now; then the     *)
(* handshake of a search.                                                  *)
ScopeAndHandshake(q) ==
  /\ pc[q] = "search" /\ Accepted(q) /\ Pin(q)
  /\ \/ /\ SlotsCovered(q)
        /\ Goto(q, "ask")
        /\ allow' = [allow EXCEPT ![q] = {r \in Named[q] : Reads(q, r, class)}]
        /\ open' = open \cup {q}
        /\ UNCHANGED <<tries, before, bits, hits, pushed, must, calm, short>>
     \/ /\ ~SlotsCovered(q)
        /\ Forget(q, TRUE)
        /\ Retry(q)
  /\ Rigid
  /\ UNCHANGED engineVars

(* The engine's mask: a slot past the bands it holds is closed.            *)
Scored(q) ==
  {slots[i] : i \in {j \in DOMAIN slots \cap DOMAIN held.band :
     held.band[j] # 0
       /\ (held.band[j] <= Ceiling[q] \/ slots[j] \in allow[q])}}

InStep(q) ==
  /\ held # None /\ held.version = bits[q].version
  /\ bits[q].generation = generation

(* The query's text is sent.  An engine that is out of step refuses it, and*)
(* the bands are built again.                                              *)
Search(q) ==
  /\ pc[q] = "ask" /\ q \in open
  /\ \/ /\ InStep(q)
        /\ Goto(q, "recheck")
        /\ open' = open \ {q}
        /\ bits' = [bits EXCEPT ![q] = None]
        /\ allow' = [allow EXCEPT ![q] = {}]
        /\ hits' = [hits EXCEPT ![q] = Scored(q)]
        /\ short' = [short EXCEPT ![q] = Len(held.of) < Len(bits[q].of)]
        /\ UNCHANGED <<tries, before, pushed, must, calm>>
     \/ /\ ~InStep(q)
        /\ Forget(q, TRUE)
        /\ Retry(q)
  /\ Rigid
  /\ UNCHANGED <<engineVars, pinned>>

(* recheck: one record outside what the caller reads refuses the list.     *)
Recheck(q) ==
  /\ pc[q] = "recheck"
  /\ End(q, IF \A r \in hits[q] : Reads(q, r, class) THEN "ranked"
            ELSE "withheld")
  /\ Rigid
  /\ UNCHANGED <<engineVars, processVars>>

-----------------------------------------------------------------------------

Step(q) ==
  \/ CurrentBandVersion(q) \/ SlotsAndVersion(q) \/ ReadBands(q)
  \/ ReadVersionAgain(q) \/ PushBands(q) \/ ScopeAndHandshake(q)
  \/ Search(q) \/ Recheck(q) \/ Unavailable(q)

Next ==
  \/ \E r \in Record, c \in {0} \cup Band : Write(r, c)
  \/ \E r \in Record : Grow(r)
  \/ \E e \in Embedder : Restart(e)
  \/ LoseRow \/ Reorder
  \/ \E q \in Query : Begin(q) \/ Step(q)

Spec == Init /\ [][Next]_vars

-----------------------------------------------------------------------------

(* Type correctness, with what a query holds at each point.                *)
TypeOK ==
  /\ class \in [Record -> {0} \cup Band] /\ <<epoch, counter>> \in Nat \X Nat
  /\ held \in {None} \cup Bitmaps
  /\ pushed \in [Process -> {None} \cup Bitmaps]
  /\ pinned \in [Process -> {None} \cup Embedder]
  /\ bits \in [Query -> {None} \cup Bitmaps]
  /\ \A q \in Query :
       /\ bits[q] # None <=> pc[q] \in
            {"bands", "again", "push", "search", "ask"}
       /\ pc[q] \in {"push", "search", "ask"} =>
            bits[q].version # None /\ Len(bits[q].band) = Len(bits[q].of)

Served(q) == pc[q] = "recheck" /\ pc'[q] = "ranked"

(* A ranking that is served is whole: no record that the caller could read *)
(* and the engine had indexed all the while is missing, and none is there  *)
(* that the caller does not read at the re-check; whatever was             *)
(* reclassified, restarted, reordered or lost meanwhile.  The exception is *)
(* an engine whose bands another query replaced, under the same version, by*)
(* ones built over fewer slots.                                            *)
RankingsAreWhole ==
  [][\A q \in Query : Served(q) =>
       /\ must[q] \subseteq hits[q] \/ short[q]
       /\ \A r \in hits[q] : Reads(q, r, class)]_vars

(* engine.ts on rank: never a partial list.                                *)
NeverAPartialList ==
  [][\A q \in Query : Served(q) => must[q] \subseteq hits[q]]_vars

(* A query begun when nothing moves any more, and nothing older is under   *)
(* way, is ranked, whatever bands the engine and the processes were left   *)
(* with: one retry is enough.                                              *)
CalmQueriesAreRanked ==
  [][\A q \in Query : calm[q] => pc'[q] # "withheld"]_vars

(* A process sends its queries' text to one embedder only, which is local, *)
(* however often the engine is restarted with another.                     *)
OneLocalEmbedder ==
  [][/\ \A p \in Process : pinned[p] # None => pinned'[p] = pinned[p]
     /\ \A q \in open : pc[q] = "ask" /\ pc'[q] # "ask" =>
          embedder = pinned[home[q]] /\ embedder # "remote"]_vars
=============================================================================
