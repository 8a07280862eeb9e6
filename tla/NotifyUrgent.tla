---------------------------- MODULE NotifyUrgent ----------------------------
(***************************************************************************)
(* The urgent notifier (apps/notify): every five minutes a run reads the   *)
(* urgent items that arose after the boundary its file keeps, pushes each  *)
(* one to each person entitled to it, and moves the boundary.  A person    *)
(* whose destination fails keeps a cursor of their own in the file.        *)
(*                                                                         *)
(* Items are numbered in the order (arose_at, item_id).  arose_at is the   *)
(* start of the transaction that raised the item, so items become visible  *)
(* in any order.  The file is replaced by a rename: a save is one step.    *)
(***************************************************************************)
EXTENDS Naturals, FiniteSets, FiniteSetsExt

CONSTANTS
  MaxItem,        \* bound: urgent items
  Person,         \* (organization, person) pairs, ordered as their identifiers
  Audience,       \* for each item, who is told of it if entitled
  PushPerson,     \* whom the host's alert path reaches, or 0
  MaxFailures,    \* MAX_DESTINATION_FAILURES
  MaxCrashes,     \* bound: runs killed part-way
  MaxChanges      \* bound: changes of a person's settings

Item == 1..MaxItem
Setting == {"own", "none", "off"}

ASSUME NotifyAssumption ==
  /\ MaxItem \in Nat /\ MaxCrashes \in Nat /\ MaxChanges \in Nat
  /\ MaxFailures \in Nat \ {0}
  /\ Person \subseteq Nat \ {0}
  /\ Audience \in [Item -> SUBSET Person]

VARIABLES
  item,       \* "unborn", "begun" (not committed), "visible", "resolved"
  setting,    \* own destination, none, or not to be pushed to at all
  started,    \* the boundary file exists
  head,       \* the file: settled for everyone up to here
  at, fails,  \* the file's lagging entries: fails = 0 is no entry
  running,    \* a run is between its read and its last save
  waiting,    \* the run's people it has not dealt with
  owed, dest, \* what the run read: items owed to each, their destination
  last,       \* the last item of the run's rows, or 0
  told,       \* the last item pushed to the person being dealt with, or 0
  crashes, changes,
  sent,       \* history: acknowledged pushes of an item to a person
  saved,      \* history: pairs pushed by a person's turn that ended in a save
  late,       \* history: items committed behind a boundary already read
  excused     \* history: pairs left to the digest

file == <<started, head, at, fails>>
run == <<running, waiting, owed, dest, last, told>>
bounds == <<crashes, changes>>
history == <<sent, saved, late, excused>>
vars == <<item, setting, file, run, bounds, history>>

NoRun ==
  /\ running' = FALSE /\ waiting' = {} /\ last' = 0 /\ told' = 0
  /\ owed' = [p \in Person |-> {}] /\ dest' = [p \in Person |-> "none"]

Init ==
  /\ item = [i \in Item |-> "unborn"]
  /\ setting \in [Person -> Setting]
  /\ started = FALSE /\ head = 0
  /\ at = [p \in Person |-> 0] /\ fails = [p \in Person |-> 0]
  /\ running = FALSE /\ waiting = {} /\ last = 0 /\ told = 0
  /\ owed = [p \in Person |-> {}] /\ dest = [p \in Person |-> "none"]
  /\ crashes = 0 /\ changes = 0
  /\ sent = [p \in Person |-> [i \in Item |-> 0]]
  /\ saved = {} /\ late = {} /\ excused = {}

-----------------------------------------------------------------------------
(* The database, as core.urgent_pushes sees it.                            *)

(* How far the file says p has been told.                                  *)
Cursor(p) == IF fails[p] > 0 THEN at[p] ELSE head

Arisen == {i \in Item : item[i] # "unborn"}
Visible == {i \in Item : item[i] = "visible"}

(* A transaction that raises an item begins: its arose_at is taken.        *)
Arises(i) ==
  /\ item[i] = "unborn" /\ \A j \in 1..(i - 1) : item[j] # "unborn"
  /\ item' = [item EXCEPT ![i] = "begun"]
  /\ UNCHANGED <<setting, file, run, bounds, history>>

Commits(i) ==
  /\ item[i] = "begun"
  /\ item' = [item EXCEPT ![i] = "visible"]
  /\ late' = IF i <= Max({head, last} \cup {Cursor(p) : p \in Person})
             THEN late \cup {i} ELSE late
  /\ UNCHANGED <<setting, file, run, bounds, sent, saved, excused>>

Resolves(i) ==
  /\ item[i] = "visible"
  /\ item' = [item EXCEPT ![i] = "resolved"]
  /\ UNCHANGED <<setting, file, run, bounds, history>>

(* set_push_destination, a push preference, a membership, a grant.         *)
ChangeSetting(p, s) ==
  /\ changes < MaxChanges /\ setting[p] # s
  /\ setting' = [setting EXCEPT ![p] = s]
  /\ changes' = changes + 1
  /\ UNCHANGED <<item, file, run, crashes, history>>

-----------------------------------------------------------------------------
(* A run.                                                                  *)

(* No boundary yet: start from now.                                        *)
StartFromNow ==
  /\ ~started
  /\ started' = TRUE
  /\ head' = Cardinality(Arisen)
  /\ late' = late \cup Arisen
  /\ UNCHANGED <<item, setting, at, fails, run, bounds, sent, saved, excused>>

(* Mutant of earliest: the items after the head only.                      *)
earliestIsHead == head

earliest == Min({head} \cup {Cursor(p) : p \in Person})

(* core.urgent_pushes($1, $2)                                              *)
Rows(since) ==
  {r \in Person \X Visible :
     r[1] \in Audience[r[2]] /\ setting[r[1]] # "off" /\ r[2] > since}

BeginRun ==
  /\ started /\ ~running
  /\ LET rows == Rows(earliest)
         Owed(p) == {i \in Item : <<p, i>> \in rows /\ i > Cursor(p)}
     IN /\ owed' = [p \in Person |-> Owed(p)]
        /\ waiting' = {p \in Person : Owed(p) # {}}
        /\ last' = Max({0} \cup {r[2] : r \in rows})
  /\ dest' = setting
  /\ running' = TRUE /\ told' = 0
  /\ excused' = excused \cup
       {r \in Person \X Visible : setting[r[1]] = "off" /\ r[2] > Cursor(r[1])}
  /\ UNCHANGED <<item, setting, file, bounds, sent, saved, late>>

(* The order of the run: by the first item owed, then by person.           *)
Turn(p) ==
  /\ p \in waiting
  /\ \A q \in waiting \ {p} :
       \/ Min(owed[p]) < Min(owed[q])
       \/ Min(owed[p]) = Min(owed[q]) /\ p < q

Left(p) == {i \in owed[p] : i > told}

(* lagging.delete                                                          *)
CaughtUp(people) ==
  /\ fails' = [p \in Person |-> IF p \in people THEN 0 ELSE fails[p]]
  /\ at' = [p \in Person |-> IF p \in people THEN 0 ELSE at[p]]

(* The person's turn ends, and the file is saved with the run's old head.  *)
EndTurn(p) ==
  /\ waiting' = waiting \ {p} /\ told' = 0
  /\ saved' = saved \cup {<<p, i>> : i \in owed[p] \ Left(p)}
  /\ UNCHANGED <<item, setting, started, head, running, owed, dest, last,
                 bounds, sent, late>>

(* One push per item, in order, to the person's own destination.           *)
Send(p) ==
  /\ Turn(p) /\ dest[p] = "own" /\ Left(p) # {}
  /\ told' = Min(Left(p))
  /\ sent' = [sent EXCEPT ![p][Min(Left(p))] = @ + 1]
  /\ UNCHANGED <<item, setting, file, running, waiting, owed, dest, last,
                 bounds, saved, late, excused>>

(* One fixed line for everything, on the host's alert path.                *)
AlertPush(p) ==
  /\ Turn(p) /\ dest[p] # "own" /\ p = PushPerson /\ Left(p) # {}
  /\ told' = Max(owed[p])
  /\ sent' = [sent EXCEPT ![p] =
                [i \in Item |-> IF i \in owed[p] THEN @[i] + 1 ELSE @[i]]]
  /\ UNCHANGED <<item, setting, file, running, waiting, owed, dest, last,
                 bounds, saved, late, excused>>

(* Everything was sent: the person is no longer behind.                    *)
AllSent(p) ==
  /\ Turn(p) /\ Left(p) = {}
  /\ CaughtUp({p})
  /\ EndTurn(p)
  /\ UNCHANGED excused

(* Mutant of GivesUp: one run too many.                                    *)
GivesUpLate(p) == fails[p] + 1 > MaxFailures

(* MAX_DESTINATION_FAILURES runs in a row.                                 *)
GivesUp(p) == fails[p] + 1 >= MaxFailures

(* Mutant of Reached: the cursor stays where the run found it.             *)
ReachedBefore(p) == Cursor(p)

(* told ?? before ?? head                                                  *)
Reached(p) == IF told > 0 THEN told ELSE Cursor(p)

(* Mutant of SendFails: a destination is never given up.                   *)
SendFailsForever(p) ==
  /\ Turn(p) /\ Left(p) # {}
  /\ dest[p] = "own" \/ p = PushPerson
  /\ fails' = [fails EXCEPT ![p] = IF GivesUp(p) THEN @ ELSE @ + 1]
  /\ at' = [at EXCEPT ![p] = Reached(p)]
  /\ EndTurn(p)
  /\ UNCHANGED excused

(* A push is refused or not answered in time: the person's turn ends, and  *)
(* they are behind from the last item they were told of, until the         *)
(* destination is given up.                                                *)
SendFails(p) ==
  /\ Turn(p) /\ Left(p) # {}
  /\ dest[p] = "own" \/ p = PushPerson
  /\ \/ /\ GivesUp(p)
        /\ CaughtUp({p})
        /\ excused' = excused \cup {<<p, i>> : i \in Left(p)}
     \/ /\ ~GivesUp(p)
        /\ fails' = [fails EXCEPT ![p] = @ + 1]
        /\ at' = [at EXCEPT ![p] = Reached(p)]
        /\ UNCHANGED excused
  /\ EndTurn(p)

(* No destination, and not the alert path's person: the digest tells them. *)
NoDestination(p) ==
  /\ Turn(p) /\ dest[p] # "own" /\ p # PushPerson
  /\ CaughtUp({p})
  /\ excused' = excused \cup {<<p, i>> : i \in owed[p]}
  /\ EndTurn(p)

(* Who lags with nothing owed is caught up; the head moves to the last row.*)
Finish ==
  /\ running /\ waiting = {}
  /\ CaughtUp({p \in Person : owed[p] = {}})
  /\ head' = Max({head, last})
  /\ NoRun
  /\ UNCHANGED <<item, setting, started, bounds, history>>

(* The process dies between two steps of a run; the file stays.            *)
Crash ==
  /\ running /\ crashes < MaxCrashes
  /\ crashes' = crashes + 1
  /\ NoRun
  /\ UNCHANGED <<item, setting, file, changes, history>>

-----------------------------------------------------------------------------

Step ==
  \/ StartFromNow \/ BeginRun \/ Finish
  \/ \E p \in Person : \/ Send(p) \/ AlertPush(p) \/ AllSent(p)
                       \/ SendFails(p) \/ NoDestination(p)

Next ==
  \/ Step \/ Crash
  \/ \E i \in Item : Arises(i) \/ Commits(i) \/ Resolves(i)
  \/ \E p \in Person, s \in Setting : ChangeSetting(p, s)

Spec == Init /\ [][Next]_vars

(* The timer fires for ever and a run that is not killed goes on: every    *)
(* request has a time limit.  No push is assumed to succeed.               *)
FairSpec == Spec /\ WF_vars(Step)

-----------------------------------------------------------------------------
(* Type correctness, with the shape of the file and of a run.              *)
TypeOK ==
  /\ item \in [Item -> {"unborn", "begun", "visible", "resolved"}]
  /\ setting \in [Person -> Setting] /\ dest \in [Person -> Setting]
  /\ started \in BOOLEAN /\ head \in 0..MaxItem
  /\ at \in [Person -> 0..MaxItem] /\ fails \in [Person -> 0..(MaxFailures - 1)]
  /\ running \in BOOLEAN /\ waiting \subseteq Person
  /\ owed \in [Person -> SUBSET Item] /\ \A p \in waiting : owed[p] # {}
  /\ last \in 0..MaxItem /\ told \in 0..last
  /\ sent \in [Person -> [Item -> Nat]]
  /\ saved \subseteq Person \X Item /\ excused \subseteq Person \X Item
  /\ late \subseteq Item

(* A person is pushed an item a second time only after a run that told them*)
(* died: failures, cursors, changes of destination and the alert path never*)
(* repeat an acknowledged push.                                            *)
RepeatsNeedACrash ==
  \A p \in Person, i \in Item : sent[p][i] <= 1 + crashes

(* What the file calls settled for a person was pushed to them, or left to *)
(* their digest: whatever fails, lags, is given up or dies part-way.  The  *)
(* exception is an item that was committed behind the boundary.            *)
NobodyIsSkipped ==
  \A i \in Visible \ late : \A p \in Audience[i] :
    started /\ i <= Cursor(p) => sent[p][i] > 0 \/ <<p, i>> \in excused

(* An item that is waiting is pushed, or left to the digest because there  *)
(* is no destination or it was given up, even when pushes fail for ever.   *)
EveryItemIsTold ==
  \A i \in Item : \A p \in Audience[i] :
    item[i] = "visible" ~>
      \/ sent[p][i] > 0 \/ <<p, i>> \in excused
      \/ i \in late \/ item[i] = "resolved"

(* run.ts on the save at the end of a person's turn: a crash part-way      *)
(* repeats nobody already told.                                            *)
CrashRepeatsNobody ==
  [][\A r \in saved : sent'[r[1]][r[2]] = sent[r[1]][r[2]]]_vars
=============================================================================
