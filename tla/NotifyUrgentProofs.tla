------------------------- MODULE NotifyUrgentProofs -------------------------
(***************************************************************************)
(* Theorems about NotifyUrgent, for any items, people, audiences, limits,  *)
(* crashes and changes of settings.                                        *)
(***************************************************************************)
EXTENDS NotifyUrgent, FiniteSetTheorems, WellFoundedInduction, TLAPS

(* Types, and the shape of a run.                                          *)
Shape ==
  /\ item \in [Item -> {"unborn", "begun", "visible", "resolved"}]
  /\ setting \in [Person -> Setting] /\ dest \in [Person -> Setting]
  /\ started \in BOOLEAN /\ head \in 0..MaxItem
  /\ at \in [Person -> 0..MaxItem] /\ fails \in [Person -> 0..(MaxFailures - 1)]
  /\ running \in BOOLEAN /\ waiting \subseteq Person
  /\ owed \in [Person -> SUBSET Item]
  /\ last \in 0..MaxItem /\ told \in 0..last
  /\ sent \in [Person -> [Item -> Nat]]
  /\ saved \subseteq Person \X Item /\ excused \subseteq Person \X Item
  /\ late \subseteq Item /\ crashes \in Nat
  /\ running => started
  /\ ~ started => \A p \in Person, i \in Item : sent[p][i] = 0

(* What a run owes lies between the person's cursor and its last row, and  *)
(* what it has told belongs to the person whose turn it is.                *)
Owing ==
  /\ \A p \in Person : \A i \in owed[p] : running /\ i <= last
  /\ \A p \in waiting : running /\ owed[p] # {} /\ \A i \in owed[p] : i > Cursor(p)
  /\ told > 0 => \E p \in waiting : Turn(p) /\ told \in owed[p]
  /\ \A p \in waiting : Turn(p) /\ dest[p] # "own" /\ told > 0 => Left(p) = {}

Done(p) == p \notin waiting /\ owed[p] # {}
Ahead(p, i) == i > head \/ i > Cursor(p)
Once(p, i) == sent[p][i] <= crashes

(* Who has been pushed what: whatever lies ahead of a person was pushed at *)
(* most once per crash, and once more only what this run told them.        *)
Pushed ==
  /\ \A p \in Person, i \in Item : sent[p][i] <= 1 + crashes
  /\ ~ running => \A p \in Person, i \in Item : Ahead(p, i) => Once(p, i)
  /\ running => \A p \in Person, i \in Item :
       /\ i > head /\ i > last => Once(p, i)
       /\ ~ Done(p) /\ i \notin owed[p] /\ Ahead(p, i) => Once(p, i)
       /\ p \in waiting /\ i \in owed[p] /\ ~ (Turn(p) /\ i <= told) => Once(p, i)
       /\ Done(p) /\ fails[p] > 0 /\ i > at[p] => Once(p, i)

Told(p, i) == sent[p][i] > 0 \/ <<p, i>> \in excused
Due(p, i) == item[i] = "visible" /\ i \notin late /\ p \in Audience[i]

(* What the file will settle when the run ends: everything a person is due *)
(* up to the head or the run's last row was read by the run, told, or left *)
(* to the digest.                                                          *)
SettledFor(p, i) ==
  /\ started /\ i <= Cursor(p) => Told(p, i)
  /\ running /\ (i <= head \/ i <= last) =>
       /\ ~ Done(p) => i <= Cursor(p) \/ i \in owed[p] \/ <<p, i>> \in excused
       /\ Done(p) /\ fails[p] = 0 => Told(p, i)
       /\ p \in waiting /\ i \in owed[p] /\ Turn(p) /\ i <= told => Told(p, i)

Settled == \A p \in Person, i \in Item : Due(p, i) => SettledFor(p, i)

IInv == Shape /\ Owing /\ Pushed /\ Settled

-----------------------------------------------------------------------------
(* Least and greatest elements, and whose turn it is.                      *)

LEMMA MinOK ==
  ASSUME NEW S \in SUBSET Nat, S # {}
  PROVE  Min(S) \in S /\ \A y \in S : Min(S) <= y
<1>1. PICK d \in S : \A e \in S : <<e, d>> \notin OpToRel(<, Nat)
  BY NatLessThanWellFounded, WFMin
<1>2. ASSUME NEW y \in S PROVE d <= y
  <2>1. y \in Nat /\ d \in Nat /\ ~ (y < d)
    BY <1>1 DEF OpToRel
  <2> QED
    BY <2>1
<1> QED
  BY <1>2 DEF Min

LEMMA MaxOK ==
  ASSUME NEW n \in Nat, NEW S \in SUBSET (0..n), S # {}
  PROVE  Max(S) \in S /\ \A y \in S : Max(S) >= y
<1> DEFINE T == {n - y : y \in S}
<1>1. T \in SUBSET Nat /\ T # {}
  <2>1. \A y \in S : n - y \in Nat
    OBVIOUS
  <2> QED
    BY <2>1
<1>2. PICK m \in S : n - m = Min(T)
  BY <1>1, MinOK
<1>3. ASSUME NEW y \in S PROVE m >= y
  <2>1. n - m <= n - y
    BY <1>1, <1>2, MinOK
  <2> QED
    BY <2>1
<1> QED
  BY <1>3 DEF Max

LEMMA Bounds ==
  ASSUME Shape
  PROVE  /\ MaxItem \in Nat /\ Item \subseteq Nat
         /\ \A p \in Person : Cursor(p) \in 0..MaxItem /\ fails[p] \in Nat
         /\ \A p \in Person : at[p] \in 0..MaxItem
         /\ \A p \in Person : owed[p] \subseteq Nat
BY NotifyAssumption DEF Shape, Cursor, Item

LEMMA OneTurn ==
  ASSUME Shape, Owing, NEW p \in Person, NEW q \in Person, Turn(p), Turn(q)
  PROVE  p = q
<1>1. p \in waiting /\ q \in waiting /\ p \in Nat /\ q \in Nat
  BY NotifyAssumption DEF Turn
<1>2. Min(owed[p]) \in Nat /\ Min(owed[q]) \in Nat
  BY <1>1, Bounds, MinOK DEF Owing
<1> QED
  BY <1>1, <1>2 DEF Turn

LEMMA ToldIsOwed ==
  ASSUME Shape, Owing, NEW p \in Person, Turn(p), told > 0
  PROVE  told \in owed[p]
BY OneTurn DEF Owing, Shape

-----------------------------------------------------------------------------
LEMMA InitOK == Init => IInv
<1> SUFFICES ASSUME Init PROVE IInv
  OBVIOUS
<1>1. Shape
  <2>1. 0 \in 0..(MaxFailures - 1) /\ 0 \in 0..MaxItem /\ 0 \in 0..0
    BY NotifyAssumption
  <2> QED
    BY <2>1 DEF Init, Shape, Setting
<1>2. Owing
  BY DEF Init, Owing
<1>3. Pushed
  BY <1>1, NotifyAssumption DEF Init, Pushed, Once
<1>4. Settled
  BY DEF Init, Settled, Due
<1> QED
  BY <1>1, <1>2, <1>3, <1>4 DEF IInv

-----------------------------------------------------------------------------
(* Outside a run: items, settings, the first boundary.                     *)

(* Nothing a run or the file is about moves.                               *)
LEMMA WorldKeeps ==
  ASSUME IInv, UNCHANGED <<file, run, sent, saved, excused, crashes>>
  PROVE  /\ Owing' /\ Pushed'
         /\ \A p \in Person : Cursor(p)' = Cursor(p) /\ (Turn(p)' <=> Turn(p))
<1> USE DEF file, run, IInv
<1>1. \A p \in Person : Cursor(p)' = Cursor(p) /\ (Turn(p)' <=> Turn(p))
  BY DEF Cursor, Turn
<1>2. Owing'
  <2>1. \A p \in Person : Left(p)' = Left(p)
    BY DEF Left
  <2> QED
    BY <1>1, <2>1 DEF Owing, Shape
<1>3. Pushed'
  BY <1>1 DEF Pushed, Ahead, Once, Done
<1> QED
  BY <1>1, <1>2, <1>3

LEMMA ItemKeeps ==
  ASSUME IInv, NEW i \in Item, Arises(i) \/ Commits(i) \/ Resolves(i)
  PROVE  IInv'
<1>1. UNCHANGED <<file, run, sent, saved, excused, crashes, setting>>
  BY DEF Arises, Commits, Resolves, bounds, history
<1>2. Shape'
  <2>1. /\ item' \in [Item -> {"unborn", "begun", "visible", "resolved"}]
        /\ late' \subseteq Item
    BY DEF Arises, Commits, Resolves, IInv, Shape, history
  <2> QED
    BY <1>1, <2>1 DEF Shape, IInv, file, run
<1>3. Owing' /\ Pushed'
  BY <1>1, WorldKeeps
<1>4. ASSUME NEW p \in Person, NEW j \in Item, Due(p, j)', ~ Due(p, j)
      PROVE  Commits(i) /\ j = i /\ j > head /\ j > last /\ j > Cursor(p)
  <2>1. Commits(i) /\ j = i /\ j \notin late'
    BY <1>4 DEF Arises, Commits, Resolves, Due, IInv, Shape, history
  <2> DEFINE S == {head, last} \cup {Cursor(q) : q \in Person}
  <2>2. S \in SUBSET (0..MaxItem) /\ S # {} /\ head \in S /\ last \in S /\ Cursor(p) \in S
    BY Bounds DEF IInv, Shape
  <2>3. ~ (i <= Max(S))
    BY <2>1 DEF Commits
  <2> HIDE DEF S
  <2>4. MaxItem \in Nat /\ i \in Nat
    BY Bounds DEF IInv
  <2>5. Max(S) \in S /\ \A y \in S : Max(S) >= y
    BY <2>2, <2>4, MaxOK
  <2>6. \A y \in S : y \in Nat
    BY <2>2, <2>4
  <2>7. \A y \in S : i > y
    BY <2>3, <2>4, <2>5, <2>6
  <2> QED
    BY <2>1, <2>2, <2>7
<1>5. Settled'
  <2> SUFFICES ASSUME NEW p \in Person, NEW j \in Item, Due(p, j)'
               PROVE  SettledFor(p, j)'
    BY DEF Settled
  <2>1. CASE Due(p, j)
    <3>1. SettledFor(p, j)
      BY <2>1 DEF Settled, IInv
    <3> QED
      BY <1>1, <3>1, WorldKeeps DEF SettledFor, Told, Done, file, run
  <2>2. CASE ~ Due(p, j)
    <3>1. j > head /\ j > last /\ j > Cursor(p)
      BY <1>4, <2>2
    <3>2. j \in Nat /\ head \in Nat /\ last \in Nat /\ Cursor(p) \in Nat
      BY Bounds DEF IInv, Shape
    <3>3. ~ (j <= head') /\ ~ (j <= last') /\ ~ (j <= Cursor(p)')
      BY <1>1, <3>1, <3>2, WorldKeeps DEF file, run
    <3> QED
      BY <3>3 DEF SettledFor
  <2> QED
    BY <2>1, <2>2
<1> QED
  BY <1>2, <1>3, <1>5 DEF IInv

LEMMA SettingKeeps ==
  ASSUME IInv, NEW p \in Person, NEW t \in Setting, ChangeSetting(p, t)
  PROVE  IInv'
<1>1. UNCHANGED <<file, run, history, crashes, item>>
  BY DEF ChangeSetting
<1>2. Shape'
  <2>1. setting' \in [Person -> Setting]
    BY DEF ChangeSetting, IInv, Shape
  <2> QED
    BY <1>1, <2>1 DEF Shape, IInv, file, run, history
<1>3. Owing' /\ Pushed'
  BY <1>1, WorldKeeps DEF history
<1>4. Settled'
  <2> SUFFICES ASSUME NEW q \in Person, NEW j \in Item, Due(q, j)'
               PROVE  SettledFor(q, j)'
    BY DEF Settled
  <2>1. Due(q, j)
    BY <1>1 DEF Due, history
  <2>2. SettledFor(q, j)
    BY <2>1 DEF Settled, IInv
  <2> QED
    BY <1>1, <2>2, WorldKeeps DEF SettledFor, Told, Done, file, run, history
<1> QED
  BY <1>2, <1>3, <1>4 DEF IInv

LEMMA StartFromNowKeeps ==
  ASSUME IInv, StartFromNow
  PROVE  IInv'
<1>1. ~ started /\ ~ running /\ started' = TRUE /\ head' = Cardinality(Arisen)
      /\ late' = late \cup Arisen
      /\ UNCHANGED <<item, setting, at, fails, run, bounds, sent, saved, excused>>
  BY DEF StartFromNow, IInv, Shape
<1>2. head' \in 0..MaxItem
  <2>1. IsFiniteSet(Item) /\ Cardinality(Item) = MaxItem /\ Arisen \subseteq Item
    BY NotifyAssumption, FS_Interval DEF Item, Arisen
  <2> QED
    BY <1>1, <2>1, FS_Subset, FS_CardinalityType, NotifyAssumption
<1>3. Shape'
  <2>1. late' \subseteq Item
    BY <1>1 DEF IInv, Shape, Arisen
  <2> QED
    BY <1>1, <1>2, <2>1 DEF Shape, IInv, run, bounds
<1>4. Owing'
  BY <1>1 DEF Owing, IInv, Shape, run
<1>5. Pushed'
  BY <1>1, NotifyAssumption DEF Pushed, IInv, Shape, Once, run, bounds
<1>6. Settled'
  BY <1>1 DEF Settled, Due, Arisen
<1> QED
  BY <1>3, <1>4, <1>5, <1>6 DEF IInv

-----------------------------------------------------------------------------
(* A run begins, ends, or dies.                                            *)

LEMMA BeginRunKeeps ==
  ASSUME IInv, BeginRun
  PROVE  IInv'
<1> DEFINE rows == Rows(earliest)
           Owed(p) == {i \in Item : <<p, i>> \in rows /\ i > Cursor(p)}
           L == {0} \cup {r[2] : r \in rows}
           C == {head} \cup {Cursor(p) : p \in Person}
<1>1. /\ started /\ ~ running /\ running' = TRUE /\ told' = 0
      /\ owed' = [p \in Person |-> Owed(p)]
      /\ waiting' = {p \in Person : Owed(p) # {}} /\ last' = Max(L)
      /\ dest' = setting
      /\ UNCHANGED <<item, setting, file, bounds, sent, saved, late>>
  BY DEF BeginRun
<1>2. rows \subseteq Person \X Item /\ MaxItem \in Nat
  BY Bounds DEF Rows, Visible, IInv
<1>3. last' \in 0..MaxItem /\ \A r \in rows : r[2] <= last'
  <2>1. L \in SUBSET (0..MaxItem) /\ L # {} /\ \A r \in rows : r[2] \in L
    BY <1>2 DEF Item
  <2> HIDE DEF L
  <2>2. Max(L) \in L /\ \A y \in L : Max(L) >= y
    BY <1>2, <2>1, MaxOK
  <2>3. \A y \in L : y \in Nat
    BY <1>2, <2>1
  <2> QED
    BY <1>1, <2>1, <2>2, <2>3
<1>4. \A p \in Person : earliest <= Cursor(p)
  <2>1. C \in SUBSET Nat /\ C # {}
    BY Bounds DEF IInv, Shape
  <2>2. earliest = Min(C)
    BY DEF earliest
  <2> HIDE DEF C
  <2>3. \A y \in C : earliest <= y
    BY <2>1, <2>2, MinOK
  <2> QED
    BY <2>3 DEF C
<1>5. earliest \in Nat
  <2>1. C \in SUBSET Nat /\ C # {}
    BY Bounds DEF IInv, Shape
  <2>2. earliest = Min(C)
    BY DEF earliest
  <2> HIDE DEF C
  <2> QED
    BY <2>1, <2>2, MinOK
<1> HIDE DEF rows, L, C
<1>6. /\ \A p \in Person : Cursor(p)' = Cursor(p)
      /\ \A p \in Person, i \in Item :
           i \in owed'[p] <=> <<p, i>> \in rows /\ i > Cursor(p)
      /\ \A p \in Person : p \in waiting' <=> owed'[p] # {}
      /\ \A p \in Person : owed'[p] \subseteq Item
  BY <1>1 DEF Cursor, file
<1>7. Shape'
  <2>1. excused' \subseteq Person \X Item
    BY DEF BeginRun, IInv, Shape, Visible
  <2>2. told' \in 0..last' /\ waiting' \subseteq Person /\ owed' \in [Person -> SUBSET Item]
    BY <1>1, <1>3
  <2> QED
    BY <1>1, <1>3, <2>1, <2>2 DEF Shape, IInv, file, bounds
<1>8. Owing'
  <2>1. \A p \in Person : \A i \in owed'[p] : i <= last' /\ i > Cursor(p)'
    BY <1>3, <1>6
  <2>2. \A p \in waiting' : p \in Person /\ owed'[p] # {}
    BY <1>1, <1>6
  <2> QED
    BY <1>1, <2>1, <2>2 DEF Owing
<1>9. Pushed'
  <2>1. \A p \in Person : ~ Done(p)'
    BY <1>6 DEF Done
  <2>2. \A p \in Person, i \in Item : Ahead(p, i)' <=> Ahead(p, i)
    BY <1>1, <1>6 DEF Ahead, file
  <2>3. \A p \in Person, i \in Item :
          /\ Once(p, i)' <=> Once(p, i)
          /\ Ahead(p, i) => Once(p, i)
          /\ sent'[p][i] <= 1 + crashes'
    BY <1>1 DEF Pushed, IInv, Once, bounds
  <2>4. \A p \in Person, i \in Item : i > head' \/ i \in owed'[p] => Ahead(p, i)
    BY <1>1, <1>6 DEF Ahead, file
  <2> QED
    BY <1>1, <2>1, <2>2, <2>3, <2>4 DEF Pushed
<1>10. Settled'
  <2> SUFFICES ASSUME NEW p \in Person, NEW i \in Item, Due(p, i)'
               PROVE  SettledFor(p, i)'
    BY DEF Settled
  <2>1. Due(p, i) /\ excused \subseteq excused'
    BY <1>1 DEF Due, BeginRun
  <2>2. started /\ i <= Cursor(p) => Told(p, i)
    BY <2>1 DEF Settled, SettledFor, IInv
  <2>3. Told(p, i) => Told(p, i)'
    BY <1>1, <2>1 DEF Told
  <2>4. ~ Done(p)' /\ ~ (i <= told')
    BY <1>1, <1>6, NotifyAssumption DEF Done, Item
  <2>5. i <= Cursor(p) \/ i \in owed'[p] \/ <<p, i>> \in excused'
    <3> SUFFICES ASSUME ~ (i <= Cursor(p)) PROVE i \in owed'[p] \/ <<p, i>> \in excused'
      OBVIOUS
    <3>1. i \in Nat /\ Cursor(p) \in Nat /\ i > Cursor(p) /\ i > earliest
      <4>1. i \in Nat /\ Cursor(p) \in Nat /\ earliest <= Cursor(p)
        BY <1>4, Bounds DEF IInv
      <4> QED
        BY <1>5, <4>1
    <3>2. i \in Visible /\ p \in Audience[i]
      BY <2>1 DEF Due, Visible
    <3>3. CASE setting[p] = "off"
      BY <3>1, <3>2, <3>3 DEF BeginRun
    <3>4. CASE setting[p] # "off"
      BY <1>6, <3>1, <3>2, <3>4 DEF Rows, rows
    <3> QED
      BY <3>3, <3>4
  <2> QED
    BY <1>1, <1>6, <2>2, <2>3, <2>4, <2>5 DEF SettledFor, file
<1> QED
  BY <1>7, <1>8, <1>9, <1>10 DEF IInv

LEMMA FinishKeeps ==
  ASSUME IInv, Finish
  PROVE  IInv'
<1>1. /\ running /\ waiting = {} /\ NoRun
      /\ head' = Max({head, last})
      /\ UNCHANGED <<item, setting, started, bounds, history>>
      /\ \A p \in Person : IF owed[p] = {} THEN fails'[p] = 0
                           ELSE fails'[p] = fails[p] /\ at'[p] = at[p]
      /\ fails' \in [Person -> 0..(MaxFailures - 1)] /\ at' \in [Person -> 0..MaxItem]
  <2>1. 0 \in 0..(MaxFailures - 1) /\ 0 \in 0..MaxItem
    BY NotifyAssumption
  <2> QED
    BY <2>1 DEF Finish, CaughtUp, IInv, Shape
<1>2. head' \in 0..MaxItem /\ (head' = head \/ head' = last) /\ head <= head' /\ last <= head'
  <2> DEFINE S == {head, last}
  <2>1. S \in SUBSET (0..MaxItem) /\ S # {} /\ MaxItem \in Nat
    BY Bounds DEF IInv, Shape
  <2>2. Max(S) \in S /\ \A y \in S : Max(S) >= y
    BY <2>1, MaxOK
  <2>3. \A y \in S : y \in Nat
    BY <2>1
  <2> QED
    BY <1>1, <2>1, <2>2, <2>3
<1>3. Shape'
  <2>1. owed' \in [Person -> SUBSET Item] /\ dest' \in [Person -> Setting]
        /\ waiting' \subseteq Person
    BY <1>1 DEF NoRun, Setting
  <2>2. last' \in 0..MaxItem /\ told' \in 0..last' /\ running' = FALSE
    BY <1>1, NotifyAssumption DEF NoRun
  <2> QED
    BY <1>1, <1>2, <2>1, <2>2 DEF Shape, IInv, bounds, history
<1>4. Owing'
  BY <1>1 DEF NoRun, Owing
<1>5. \A p \in Person : \/ Cursor(p)' = head' /\ (owed[p] = {} \/ fails[p] = 0)
                        \/ Cursor(p)' = at[p] /\ Done(p) /\ fails[p] > 0
  BY <1>1, Bounds DEF Cursor, Done, IInv
<1>6. Pushed'
  <2> SUFFICES ASSUME NEW p \in Person, NEW i \in Item
               PROVE  /\ sent[p][i] <= 1 + crashes
                      /\ i > head' \/ i > Cursor(p)' => Once(p, i)
    BY <1>1 DEF Pushed, Ahead, Once, NoRun, bounds, history
  <2>1. i > head' => i > head /\ i > last
    BY <1>2, Bounds DEF IInv, Shape
  <2> QED
    BY <1>1, <1>5, <2>1 DEF Pushed, IInv
<1>7. Settled'
  <2> SUFFICES ASSUME NEW p \in Person, NEW i \in Item, Due(p, i)'
               PROVE  i <= Cursor(p)' => Told(p, i)
    BY <1>1 DEF Settled, SettledFor, NoRun, Told, history
  <2>1. SettledFor(p, i) /\ started
    BY <1>1 DEF Due, history, Settled, IInv, Shape
  <2>2. i <= head' => i <= head \/ i <= last
    BY <1>2
  <2>3. CASE Cursor(p)' = head' /\ owed[p] = {}
    BY <1>1, <2>1, <2>2, <2>3 DEF SettledFor, Done, Told
  <2>4. CASE Cursor(p)' = head' /\ owed[p] # {} /\ fails[p] = 0
    BY <1>1, <2>1, <2>2, <2>4 DEF SettledFor, Done
  <2>5. CASE Cursor(p)' = at[p] /\ fails[p] > 0
    BY <2>1, <2>5 DEF SettledFor, Cursor
  <2> QED
    BY <1>5, <2>3, <2>4, <2>5
<1> QED
  BY <1>3, <1>4, <1>6, <1>7 DEF IInv

LEMMA CrashKeeps ==
  ASSUME IInv, Crash
  PROVE  IInv'
<1>1. /\ NoRun /\ crashes' = crashes + 1
      /\ UNCHANGED <<item, setting, file, changes, history>>
  BY DEF Crash
<1>2. Shape'
  <2>1. owed' \in [Person -> SUBSET Item] /\ dest' \in [Person -> Setting]
        /\ waiting' \subseteq Person
    BY <1>1 DEF NoRun, Setting
  <2>2. last' \in 0..MaxItem /\ told' \in 0..last' /\ running' = FALSE
    BY <1>1, NotifyAssumption DEF NoRun
  <2>3. crashes' \in Nat
    BY <1>1 DEF IInv, Shape
  <2> QED
    BY <1>1, <2>1, <2>2, <2>3 DEF Shape, IInv, file, history
<1>3. Owing'
  BY <1>1 DEF NoRun, Owing
<1>4. Pushed'
  <2> SUFFICES ASSUME NEW p \in Person, NEW i \in Item
               PROVE  sent[p][i] <= 1 + (crashes + 1) /\ sent[p][i] <= crashes + 1
    BY <1>1 DEF Pushed, Once, NoRun, history
  <2>1. sent[p][i] <= 1 + crashes /\ sent[p][i] \in Nat /\ crashes \in Nat
    BY DEF Pushed, IInv, Shape
  <2> QED
    BY <2>1
<1>5. Settled'
  BY <1>1 DEF Settled, SettledFor, Due, Told, Cursor, NoRun, IInv, file, history
<1> QED
  BY <1>2, <1>3, <1>4, <1>5 DEF IInv

-----------------------------------------------------------------------------
(* A person's turn: pushes.                                                *)

LEMMA OnTurn ==
  ASSUME IInv, NEW p \in Person, Turn(p)
  PROVE  /\ running /\ started /\ p \in waiting /\ ~ Done(p) /\ owed[p] # {}
         /\ \A i \in owed[p] : i \in Item /\ i \in Nat /\ i > Cursor(p) /\ i <= last
         /\ told \in Nat /\ last \in 0..MaxItem /\ Cursor(p) \in Nat /\ head \in Nat
         /\ last \in Nat
<1>1. p \in waiting
  BY DEF Turn
<1>2. told \in Nat /\ last \in 0..MaxItem /\ Cursor(p) \in Nat /\ head \in Nat
      /\ last \in Nat /\ owed[p] \subseteq Item /\ Item \subseteq Nat
  BY Bounds DEF IInv, Shape
<1> QED
  BY <1>1, <1>2 DEF IInv, Shape, Owing, Done

(* A push moves what was told and what was sent, and nothing else.         *)
LEMMA PushKeeps ==
  ASSUME IInv, NEW p \in Person, Turn(p), told' \in owed[p], told <= told',
         sent' \in [Person -> [Item -> Nat]],
         \A q \in Person, i \in Item :
           \/ sent'[q][i] = sent[q][i]
           \/ /\ q = p /\ i \in owed[p] /\ i > told /\ i <= told'
              /\ sent'[q][i] = sent[q][i] + 1,
         \A i \in owed[p] : i > told /\ i <= told' => sent'[p][i] > 0,
         dest[p] # "own" => \A i \in owed[p] : i <= told',
         UNCHANGED <<item, setting, file, running, waiting, owed, dest, last,
                     bounds, saved, late, excused>>
  PROVE  IInv'
<1>1. /\ running /\ started /\ p \in waiting /\ ~ Done(p)
      /\ \A i \in owed[p] : i \in Item /\ i \in Nat /\ i > Cursor(p) /\ i <= last
      /\ told \in Nat /\ last \in Nat /\ Cursor(p) \in Nat /\ head \in Nat
  BY OnTurn
<1>2. \A q \in Person : /\ Cursor(q)' = Cursor(q) /\ (Turn(q)' <=> Turn(q))
                        /\ (Done(q)' <=> Done(q))
  BY DEF Cursor, Turn, Done, file
<1>3. Shape'
  <2>1. told' \in 0..last'
    BY <1>1
  <2> QED
    BY <1>1, <2>1 DEF Shape, IInv, file, bounds
<1>4. Owing'
  <2>1. \A q \in waiting : Turn(q)' /\ dest[q] # "own" => Left(q)' = {}
    <3> SUFFICES ASSUME NEW q \in waiting, Turn(q), dest[q] # "own" PROVE Left(q)' = {}
      BY <1>2 DEF IInv, Shape
    <3>1. q = p
      BY OneTurn DEF IInv, Shape
    <3> QED
      BY <1>1, <3>1 DEF Left
  <2>2. \A q \in waiting : q \in Person
    BY DEF IInv, Shape
  <2> QED
    BY <1>1, <1>2, <2>1, <2>2 DEF Owing, IInv
<1>5. Pushed'
  <2>1. ASSUME NEW q \in Person, NEW i \in Item
        PROVE  /\ sent'[q][i] <= 1 + crashes'
               /\ i > head' /\ i > last' => Once(q, i)'
               /\ ~ Done(q)' /\ i \notin owed'[q] /\ Ahead(q, i)' => Once(q, i)'
               /\ q \in waiting' /\ i \in owed'[q] /\ ~ (Turn(q)' /\ i <= told')
                    => Once(q, i)'
               /\ Done(q)' /\ fails'[q] > 0 /\ i > at'[q] => Once(q, i)'
    <3>1. CASE sent'[q][i] = sent[q][i]
      <4>1. ASSUME q \in waiting, i \in owed[q], ~ (Turn(q) /\ i <= told')
            PROVE  ~ (Turn(q) /\ i <= told)
        <5>1. Turn(q) => q = p
          BY OneTurn DEF IInv
        <5> QED
          BY <1>1, <4>1, <5>1
      <4> QED
        BY <1>1, <1>2, <3>1, <4>1 DEF IInv, Pushed, Ahead, Once, file, bounds
    <3>2. CASE q = p /\ i \in owed[p] /\ i > told /\ i <= told'
               /\ sent'[q][i] = sent[q][i] + 1
      <4>1. Once(p, i) /\ sent[p][i] \in Nat /\ crashes \in Nat
        BY <1>1, <3>2 DEF IInv, Shape, Pushed
      <4>2. sent'[q][i] <= 1 + crashes' /\ ~ (i > last')
        BY <1>1, <3>2, <4>1 DEF Once, bounds
      <4> QED
        BY <1>1, <1>2, <3>2, <4>2
    <3> QED
      BY <3>1, <3>2
  <2> QED
    BY <1>1, <2>1 DEF Pushed
<1>6. Settled'
  <2> SUFFICES ASSUME NEW q \in Person, NEW i \in Item, Due(q, i)'
               PROVE  SettledFor(q, i)'
    BY DEF Settled
  <2>1. SettledFor(q, i)
    BY DEF Due, Settled, IInv
  <2>2. Told(q, i) => Told(q, i)'
    BY <1>1 DEF Told, IInv, Shape
  <2>3. ASSUME q \in waiting, i \in owed[q], Turn(q), i <= told', i <= head \/ i <= last
        PROVE  Told(q, i)'
    <3>1. q = p
      BY <2>3, OneTurn DEF IInv
    <3>2. CASE i <= told
      BY <1>1, <2>1, <2>2, <2>3, <3>2 DEF SettledFor
    <3>3. CASE i > told
      BY <2>3, <3>1, <3>3 DEF Told
    <3> QED
      BY <1>1, <2>3, <3>1, <3>2, <3>3
  <2> QED
    BY <1>1, <1>2, <2>1, <2>2, <2>3 DEF SettledFor, file
<1> QED
  BY <1>3, <1>4, <1>5, <1>6 DEF IInv

LEMMA SendKeeps ==
  ASSUME IInv, NEW p \in Person, Send(p)
  PROVE  IInv'
<1>1. Turn(p) /\ dest[p] = "own" /\ Left(p) # {} /\ told' = Min(Left(p))
  BY DEF Send
<1>2. /\ \A i \in owed[p] : i \in Item /\ i \in Nat /\ i > Cursor(p) /\ i <= last
      /\ told \in Nat
  BY <1>1, OnTurn
<1>3. Left(p) \in SUBSET Nat
  BY <1>2 DEF Left
<1>4. told' \in Left(p) /\ \A i \in Left(p) : told' <= i
  BY <1>1, <1>3, MinOK
<1>5. told' \in owed[p] /\ told' > told /\ told' \in Nat /\ told' \in Item
  BY <1>2, <1>4 DEF Left
<1>6. \A i \in owed[p] : i > told /\ i <= told' => i = told'
  BY <1>2, <1>4, <1>5 DEF Left
<1>7. sent' \in [Person -> [Item -> Nat]]
  BY <1>1, <1>5 DEF Send, IInv, Shape
<1>8. sent'[p][told'] = sent[p][told'] + 1 /\ sent[p][told'] \in Nat
  BY <1>1, <1>5 DEF Send, IInv, Shape
<1>9. \A q \in Person, i \in Item : q # p \/ i # told' => sent'[q][i] = sent[q][i]
  BY <1>1 DEF Send, IInv, Shape
<1>10. \A q \in Person, i \in Item :
         \/ sent'[q][i] = sent[q][i]
         \/ /\ q = p /\ i \in owed[p] /\ i > told /\ i <= told'
            /\ sent'[q][i] = sent[q][i] + 1
  <2> TAKE q \in Person, i \in Item
  <2>1. CASE q = p /\ i = told'
    BY <1>5, <1>8, <2>1
  <2>2. CASE q # p \/ i # told'
    BY <1>9, <2>2
  <2> QED
    BY <2>1, <2>2
<1>11. \A i \in owed[p] : i > told /\ i <= told' => sent'[p][i] > 0
  BY <1>6, <1>8
<1>12. UNCHANGED <<item, setting, file, running, waiting, owed, dest, last,
                   bounds, saved, late, excused>>
  BY DEF Send
<1>13. told <= told'
  BY <1>2, <1>5
<1> QED
  BY <1>1, <1>5, <1>7, <1>10, <1>11, <1>12, <1>13, PushKeeps

LEMMA AlertPushKeeps ==
  ASSUME IInv, NEW p \in Person, AlertPush(p)
  PROVE  IInv'
<1>1. Turn(p) /\ dest[p] # "own" /\ Left(p) # {} /\ told' = Max(owed[p])
  BY DEF AlertPush
<1>2. /\ \A i \in owed[p] : i \in Item /\ i \in Nat /\ i > Cursor(p) /\ i <= last
      /\ told \in Nat /\ p \in waiting /\ last \in 0..MaxItem
  BY <1>1, OnTurn
<1>3. told = 0
  BY <1>1, <1>2 DEF IInv, Owing
<1>4. owed[p] \in SUBSET (0..MaxItem) /\ owed[p] # {} /\ MaxItem \in Nat
  BY <1>1, <1>2, OnTurn, Bounds DEF Item, IInv
<1>5. told' \in owed[p] /\ \A i \in owed[p] : told' >= i
  BY <1>1, <1>4, MaxOK
<1>6. \A i \in owed[p] : i > told /\ i <= told'
  BY <1>2, <1>3, <1>5, NotifyAssumption DEF Item
<1>7. sent' \in [Person -> [Item -> Nat]]
  BY DEF AlertPush, IInv, Shape
<1>8. \A i \in owed[p] : sent'[p][i] = sent[p][i] + 1 /\ sent[p][i] \in Nat
  BY <1>2 DEF AlertPush, IInv, Shape
<1>9. \A q \in Person, i \in Item : q # p \/ i \notin owed[p] => sent'[q][i] = sent[q][i]
  BY DEF AlertPush, IInv, Shape
<1>10. \A q \in Person, i \in Item :
         \/ sent'[q][i] = sent[q][i]
         \/ /\ q = p /\ i \in owed[p] /\ i > told /\ i <= told'
            /\ sent'[q][i] = sent[q][i] + 1
  BY <1>6, <1>8, <1>9
<1>11. \A i \in owed[p] : sent'[p][i] > 0
  BY <1>8
<1>12. UNCHANGED <<item, setting, file, running, waiting, owed, dest, last,
                   bounds, saved, late, excused>>
  BY DEF AlertPush
<1>13. told <= told'
  BY <1>2, <1>5, <1>6
<1> QED
  BY <1>1, <1>5, <1>6, <1>7, <1>10, <1>11, <1>12, <1>13, PushKeeps

-----------------------------------------------------------------------------
(* A person's turn ends.                                                   *)

(* What a person was due and the run has not told them is still owed.      *)
LEMMA TurnTold ==
  ASSUME IInv, NEW p \in Person, Turn(p), NEW i \in Item, Due(p, i),
         i <= head \/ i <= last
  PROVE  Told(p, i) \/ (i \in owed[p] /\ i \in Left(p))
<1>1. /\ running /\ started /\ p \in waiting /\ ~ Done(p)
      /\ \A j \in owed[p] : j \in Nat
      /\ told \in Nat
  BY OnTurn
<1>2. SettledFor(p, i)
  BY DEF IInv, Settled
<1>3. CASE i \in owed[p] /\ i <= told
  BY <1>1, <1>2, <1>3 DEF SettledFor
<1>4. CASE i \in owed[p] /\ i > told
  BY <1>4 DEF Left
<1>5. CASE i \notin owed[p]
  BY <1>1, <1>2, <1>5 DEF SettledFor, Told
<1> QED
  BY <1>1, <1>3, <1>4, <1>5

LEMMA EndTurnKeeps ==
  ASSUME IInv, NEW p \in Person, Turn(p), EndTurn(p), crashes' = crashes,
         fails' \in [Person -> 0..(MaxFailures - 1)], at' \in [Person -> 0..MaxItem],
         \A q \in Person \ {p} : fails'[q] = fails[q] /\ at'[q] = at[q],
         excused \subseteq excused', excused' \subseteq Person \X Item,
         fails'[p] > 0 => \A i \in Item : i > at'[p] => Once(p, i),
         \A i \in Item : Due(p, i) =>
           /\ i <= Cursor(p)' => Told(p, i)'
           /\ fails'[p] = 0 /\ (i <= head \/ i <= last) => Told(p, i)'
  PROVE  IInv'
<1>1. /\ waiting' = waiting \ {p} /\ told' = 0
      /\ UNCHANGED <<item, setting, started, head, running, owed, dest, last, sent, late>>
      /\ saved' = saved \cup {<<p, i>> : i \in owed[p] \ Left(p)}
  BY DEF EndTurn
<1>2. /\ running /\ started /\ p \in waiting /\ ~ Done(p) /\ owed[p] # {}
      /\ \A i \in owed[p] : i \in Item
      /\ last \in 0..MaxItem
  BY OnTurn
<1>3. Shape'
  <2>1. saved' \subseteq Person \X Item
    BY <1>1, <1>2 DEF IInv, Shape
  <2>2. told' \in 0..last' /\ waiting' \subseteq Person /\ crashes' \in Nat
    BY <1>1, <1>2 DEF IInv, Shape
  <2> QED
    BY <1>1, <2>1, <2>2 DEF Shape, IInv
<1>4. /\ \A q \in Person \ {p} : Cursor(q)' = Cursor(q) /\ (Done(q)' <=> Done(q))
      /\ Done(p)'
      /\ \A q \in waiting' : q \in Person /\ q # p /\ q \in waiting
  BY <1>1, <1>2 DEF Cursor, Done, IInv, Shape
<1>5. Owing'
  <2>1. \A q \in waiting' :
          running' /\ owed'[q] # {} /\ \A i \in owed'[q] : i > Cursor(q)'
    BY <1>1, <1>4 DEF Owing, IInv
  <2> QED
    BY <1>1, <2>1 DEF Owing, IInv
<1>6. Pushed'
  <2>1. ASSUME NEW q \in Person, NEW i \in Item
        PROVE  /\ sent'[q][i] <= 1 + crashes'
               /\ i > head' /\ i > last' => Once(q, i)'
               /\ ~ Done(q)' /\ i \notin owed'[q] /\ Ahead(q, i)' => Once(q, i)'
               /\ q \in waiting' /\ i \in owed'[q] /\ ~ (Turn(q)' /\ i <= told')
                    => Once(q, i)'
               /\ Done(q)' /\ fails'[q] > 0 /\ i > at'[q] => Once(q, i)'
    <3>1. (Once(q, i)' <=> Once(q, i)) /\ sent'[q][i] <= 1 + crashes'
          /\ (i > head /\ i > last => Once(q, i))
      BY <1>1, <1>2 DEF Once, IInv, Pushed
    <3>2. CASE q = p
      BY <1>1, <1>4, <3>1, <3>2
    <3>3. CASE q # p
      <4>1. ~ Turn(q)
        BY <3>3, OneTurn DEF IInv
      <4>2. Ahead(q, i)' <=> Ahead(q, i)
        BY <1>1, <1>4, <3>3 DEF Ahead
      <4>3. /\ ~ Done(q) /\ i \notin owed[q] /\ Ahead(q, i) => Once(q, i)
            /\ q \in waiting /\ i \in owed[q] => Once(q, i)
            /\ Done(q) /\ fails[q] > 0 /\ i > at[q] => Once(q, i)
        BY <1>2, <4>1 DEF IInv, Pushed
      <4> QED
        BY <1>1, <1>4, <3>1, <3>3, <4>2, <4>3
    <3> QED
      BY <3>2, <3>3
  <2> QED
    BY <1>1, <1>2, <2>1 DEF Pushed
<1>7. Settled'
  <2> SUFFICES ASSUME NEW q \in Person, NEW i \in Item, Due(q, i)'
               PROVE  SettledFor(q, i)'
    BY DEF Settled
  <2>1. Due(q, i) /\ SettledFor(q, i)
    BY <1>1 DEF Due, Settled, IInv
  <2>2. Told(q, i) => Told(q, i)'
    BY <1>1 DEF Told
  <2>3. CASE q = p
    BY <1>1, <1>2, <1>4, <2>1, <2>3 DEF SettledFor
  <2>4. CASE q # p
    <3>1. i \in Nat /\ ~ (i <= told')
      BY <1>1, NotifyAssumption DEF Item
    <3> QED
      BY <1>1, <1>4, <2>1, <2>2, <2>4, <3>1 DEF SettledFor
  <2> QED
    BY <2>3, <2>4
<1> QED
  BY <1>3, <1>5, <1>6, <1>7 DEF IInv

(* Everything owed was told, or is left to the digest: no longer behind.   *)
LEMMA CaughtUpKeeps ==
  ASSUME IInv, NEW p \in Person, Turn(p), EndTurn(p), CaughtUp({p}),
         crashes' = crashes,
         excused \subseteq excused', excused' \subseteq Person \X Item,
         \A i \in Left(p) : <<p, i>> \in excused'
  PROVE  IInv'
<1>1. /\ fails' \in [Person -> 0..(MaxFailures - 1)] /\ at' \in [Person -> 0..MaxItem]
      /\ \A q \in Person \ {p} : fails'[q] = fails[q] /\ at'[q] = at[q]
      /\ fails'[p] = 0
  <2>1. 0 \in 0..(MaxFailures - 1) /\ 0 \in 0..MaxItem
    BY NotifyAssumption
  <2> QED
    BY <2>1 DEF CaughtUp, IInv, Shape
<1>2. ASSUME NEW i \in Item, Due(p, i), i <= head \/ i <= last PROVE Told(p, i)'
  BY <1>2, TurnTold DEF Told, EndTurn
<1>3. Cursor(p)' = head /\ ~ (fails'[p] > 0)
  BY <1>1 DEF Cursor, EndTurn
<1>4. \A i \in Item : Due(p, i) =>
        /\ i <= Cursor(p)' => Told(p, i)'
        /\ fails'[p] = 0 /\ (i <= head \/ i <= last) => Told(p, i)'
  BY <1>2, <1>3
<1> QED
  BY <1>1, <1>3, <1>4, EndTurnKeeps

LEMMA AllSentKeeps ==
  ASSUME IInv, NEW p \in Person, AllSent(p)
  PROVE  IInv'
<1>1. /\ Turn(p) /\ Left(p) = {} /\ CaughtUp({p}) /\ EndTurn(p) /\ excused' = excused
  BY DEF AllSent
<1>2. crashes' = crashes /\ excused' \subseteq Person \X Item
  BY <1>1 DEF EndTurn, bounds, IInv, Shape
<1> QED
  BY <1>1, <1>2, CaughtUpKeeps

LEMMA NoDestinationKeeps ==
  ASSUME IInv, NEW p \in Person, NoDestination(p)
  PROVE  IInv'
<1>1. /\ Turn(p) /\ CaughtUp({p}) /\ EndTurn(p)
      /\ excused' = excused \cup {<<p, i>> : i \in owed[p]}
  BY DEF NoDestination
<1>2. crashes' = crashes /\ excused' \subseteq Person \X Item
      /\ \A i \in Left(p) : <<p, i>> \in excused'
  BY <1>1 DEF EndTurn, bounds, IInv, Shape, Left
<1> QED
  BY <1>1, <1>2, CaughtUpKeeps

LEMMA SendFailsKeeps ==
  ASSUME IInv, NEW p \in Person, SendFails(p)
  PROVE  IInv'
<1>1. Turn(p) /\ Left(p) # {} /\ EndTurn(p) /\ crashes' = crashes
  BY DEF SendFails, EndTurn, bounds
<1>2. CASE CaughtUp({p}) /\ excused' = excused \cup {<<p, i>> : i \in Left(p)}
  <2>1. excused' \subseteq Person \X Item /\ \A i \in Left(p) : <<p, i>> \in excused'
    BY <1>2 DEF IInv, Shape, Left
  <2> QED
    BY <1>1, <1>2, <2>1, CaughtUpKeeps
<1>3. CASE /\ ~ GivesUp(p) /\ excused' = excused
           /\ fails' = [fails EXCEPT ![p] = fails[p] + 1]
           /\ at' = [at EXCEPT ![p] = Reached(p)]
  <2>1. /\ running /\ started /\ p \in waiting /\ ~ Done(p) /\ owed[p] # {}
        /\ \A i \in owed[p] : i \in Item /\ i \in Nat /\ i > Cursor(p) /\ i <= last
        /\ told \in Nat /\ last \in 0..MaxItem /\ Cursor(p) \in Nat /\ head \in Nat
        /\ last \in Nat
    BY <1>1, OnTurn
  <2>2. Cursor(p) \in 0..MaxItem /\ MaxItem \in Nat /\ fails[p] \in Nat
    BY Bounds DEF IInv
  <2>3. Reached(p) \in 0..MaxItem
    BY <2>1, <2>2 DEF Reached, IInv, Shape
  <2>4. /\ fails' \in [Person -> 0..(MaxFailures - 1)] /\ at' \in [Person -> 0..MaxItem]
        /\ \A q \in Person \ {p} : fails'[q] = fails[q] /\ at'[q] = at[q]
        /\ fails'[p] > 0 /\ at'[p] = Reached(p)
    <3>1. fails[p] + 1 \in 0..(MaxFailures - 1)
      BY <1>3, <2>2, NotifyAssumption DEF GivesUp
    <3> QED
      BY <1>3, <2>2, <2>3, <3>1 DEF IInv, Shape
  <2>5. ASSUME told > 0 PROVE told \in owed[p] /\ told > Cursor(p)
    BY <1>1, <2>1, <2>5, ToldIsOwed DEF IInv
  <2>6. ASSUME NEW i \in Item, i > Reached(p) PROVE Once(p, i)
    <3>1. i \in Nat /\ i > told /\ i > Cursor(p)
      <4>1. i \in Nat /\ i > 0
        BY NotifyAssumption DEF Item
      <4>2. CASE told > 0
        BY <2>1, <2>5, <2>6, <4>1, <4>2 DEF Reached
      <4>3. CASE told = 0
        BY <2>1, <2>6, <4>1, <4>3 DEF Reached
      <4> QED
        BY <2>1, <4>2, <4>3
    <3>2. CASE i \in owed[p]
      <4>1. ~ (i <= told)
        BY <2>1, <3>1
      <4> QED
        BY <2>1, <3>2, <4>1 DEF IInv, Pushed
    <3>3. CASE i \notin owed[p]
      BY <2>1, <3>1, <3>3 DEF IInv, Pushed, Ahead
    <3> QED
      BY <3>2, <3>3
  <2>7. ASSUME NEW i \in Item, Due(p, i), i <= Reached(p) PROVE Told(p, i)
    <3>1. SettledFor(p, i) /\ i \in Nat
      BY <2>7, NotifyAssumption DEF IInv, Settled, Item
    <3>2. CASE told = 0
      BY <2>1, <2>7, <3>1, <3>2 DEF Reached, SettledFor
    <3>3. CASE told > 0
      <4>1. i <= told /\ i <= last
        BY <2>1, <2>5, <2>7, <3>1, <3>3 DEF Reached
      <4>2. i \notin Left(p)
        BY <2>1, <3>1, <4>1 DEF Left
      <4> QED
        BY <1>1, <2>7, <4>1, <4>2, TurnTold
    <3> QED
      BY <2>1, <3>2, <3>3
  <2>8. Cursor(p)' = Reached(p) /\ fails'[p] # 0
    BY <2>4, NotifyAssumption DEF Cursor
  <2>9. \A i \in Item : Told(p, i) => Told(p, i)'
    BY <1>1, <1>3 DEF Told, EndTurn
  <2>10. \A i \in Item : Due(p, i) =>
           /\ i <= Cursor(p)' => Told(p, i)'
           /\ fails'[p] = 0 /\ (i <= head \/ i <= last) => Told(p, i)'
    BY <2>7, <2>8, <2>9
  <2>11. \A i \in Item : i > at'[p] => Once(p, i)
    BY <2>4, <2>6
  <2>12. excused \subseteq excused' /\ excused' \subseteq Person \X Item
    BY <1>3 DEF IInv, Shape
  <2> QED
    BY <1>1, <2>4, <2>10, <2>11, <2>12, EndTurnKeeps
<1> QED
  BY <1>2, <1>3 DEF SendFails

-----------------------------------------------------------------------------

LEMMA NextKeeps == IInv /\ [Next]_vars => IInv'
<1> SUFFICES ASSUME IInv, [Next]_vars PROVE IInv'
  OBVIOUS
<1>1. CASE Next
  BY <1>1, ItemKeeps, SettingKeeps, StartFromNowKeeps, BeginRunKeeps, FinishKeeps,
     CrashKeeps, SendKeeps, AlertPushKeeps, AllSentKeeps, SendFailsKeeps,
     NoDestinationKeeps
  DEF Next, Step
<1>2. CASE UNCHANGED vars
  <2>1. UNCHANGED <<file, run, sent, saved, excused, crashes>>
        /\ UNCHANGED <<item, setting, late>>
    BY <1>2 DEF vars, bounds, history
  <2>2. Owing' /\ Pushed' /\ \A p \in Person : Cursor(p)' = Cursor(p) /\ (Turn(p)' <=> Turn(p))
    BY <2>1, WorldKeeps
  <2>3. Shape'
    BY <2>1 DEF Shape, IInv, file, run
  <2>4. Settled'
    BY <2>1, <2>2 DEF Settled, SettledFor, Due, Told, Done, IInv, file, run
  <2> QED
    BY <2>2, <2>3, <2>4 DEF IInv
<1> QED
  BY <1>1, <1>2

(* What a run owes is ahead of the person's cursor, what it has told       *)
(* belongs to one person's turn, and what it skips was told or excused.    *)
THEOREM Invariance == Spec => []IInv
BY InitOK, NextKeeps, PTL DEF Spec

(* Types, with the shape of the file and of a run.                         *)
THEOREM TypeCorrectness == Spec => []TypeOK
<1>1. IInv => TypeOK
  BY DEF IInv, Shape, Owing, TypeOK
<1> QED
  BY <1>1, Invariance, PTL

(* An acknowledged push is repeated only by a run after one that died:     *)
(* failures, cursors behind and ahead of the head, changes of destination  *)
(* and the alert path repeat nothing, for any number of people and items.  *)
THEOREM NothingIsRepeated == Spec => []RepeatsNeedACrash
<1>1. IInv => RepeatsNeedACrash
  BY DEF IInv, Pushed, RepeatsNeedACrash
<1> QED
  BY <1>1, Invariance, PTL

(* The file never runs ahead of what was told: an item committed before    *)
(* the boundary passed it was pushed to everyone it is due to, or left to  *)
(* their digest.                                                           *)
THEOREM NobodyIsLeftOut == Spec => []NobodyIsSkipped
<1>1. IInv => NobodyIsSkipped
  <2> SUFFICES ASSUME IInv, NEW i \in Visible \ late, NEW p \in Audience[i],
                      started, i <= Cursor(p)
               PROVE  sent[p][i] > 0 \/ <<p, i>> \in excused
    BY DEF NobodyIsSkipped
  <2>1. i \in Item /\ p \in Person
    BY NotifyAssumption DEF Visible
  <2>2. Due(p, i)
    BY DEF Due, Visible
  <2> QED
    BY <2>1, <2>2 DEF IInv, Settled, SettledFor, Told
<1> QED
  BY <1>1, Invariance, PTL
=============================================================================
