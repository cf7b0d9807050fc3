----------------------------- MODULE SlotProofs -----------------------------
(***************************************************************************)
(* Proofs about the arena of shared generations and what runs in it, for   *)
(* every set of slots, overlays, paths and deltas, of arenas and threads,  *)
(* of generations, and of envelopes and workers.                           *)
(***************************************************************************)
EXTENDS PrismArena, PrismOverlays, GenerationStore, SlotExecutor, FiniteSetTheorems,
        WellFoundedInduction, TLAPS

----------------------------------------------------------------------------
(* Finite sets of numbers *)

(* A finite set of integers has a greatest element, and Max is one of its elements. *)
LEMMA MaxIsElement ==
    ASSUME NEW S \in SUBSET Int, IsFiniteSet(S), S # {}
    PROVE  Max(S) \in S
<1> DEFINE Top(X) == \E x \in X : \A y \in X : x >= y
           Bad == {X \in FiniteSubsetsOf(S) : X # {} /\ ~Top(X)}
<1>1. ASSUME Bad # {} PROVE FALSE
  <2>1. PICK X \in Bad : \A Y \in Bad : <<Y, X>> \notin StrictSubsetOrdering(S)
    <3>1. Bad \subseteq FiniteSubsetsOf(S)
      OBVIOUS
    <3> HIDE DEF Bad
    <3> QED
      BY <1>1, <3>1, FS_StrictSubsetOrderingWellFounded, WFMin
  <2>2. PICK x \in X : TRUE
    OBVIOUS
  <2> DEFINE Y == X \ {x}
  <2>3. Y \in FiniteSubsetsOf(S) /\ X \in SUBSET S
    BY FS_RemoveElement DEF FiniteSubsetsOf
  <2>4. <<Y, X>> \in StrictSubsetOrdering(S)
    BY <2>2, <2>3 DEF StrictSubsetOrdering, FiniteSubsetsOf
  <2>5. Y \notin Bad
    <3> HIDE DEF Bad, Y
    <3> QED
      BY <2>1, <2>4
  <2>6. \A y \in X : y \in Int
    BY <2>3
  <2>7. CASE Y = {}
    <3>1. X = {x}
      BY <2>2, <2>7
    <3> QED
      BY <3>1, <2>6
  <2>8. CASE Y # {}
    <3>1. PICK m \in Y : \A y \in Y : m >= y
      BY <2>3, <2>5, <2>8
    <3>2. m \in Int /\ x \in Int
      BY <2>6
    <3>3. CASE x >= m
      BY <3>1, <3>2, <3>3, <2>6
    <3>4. CASE m >= x
      BY <3>1, <3>2, <3>4, <2>6
    <3> QED
      BY <3>2, <3>3, <3>4
  <2> QED
    BY <2>7, <2>8
<1>2. Top(S)
  BY <1>1 DEF FiniteSubsetsOf
<1> QED
  BY <1>2 DEF Max

----------------------------------------------------------------------------
(* Overlays: the operators *)

Task == [op : {"create"}] \cup [op : {"delta", "publish"}, changed : Records, candidate : Records]
Entry == [active : BOOLEAN, records : Records]

(* Records under which everything is the base. *)
LEMMA NoRecordsShowBase == NoRecords \in Records /\ Seen(NoRecords) = Base /\ Range(NoRecords) = {}
<1>1. NoRecords \in [{} -> Stored] /\ {} \in SUBSET Path
  BY DEF NoRecords
<1>2. NoRecords \in Records
  BY <1>1, Zenon DEF Records
<1>3. Seen(NoRecords) = Base
  BY OverlayAssumption DEF NoRecords, Seen
<1> QED
  BY <1>1, <1>2, <1>3 DEF Range

LEMMA SeenType == ASSUME NEW r \in Records PROVE Seen(r) \in [Path -> Stored]
BY OverlayAssumption DEF Seen, Records

(* Applying a delta to records leaves records, and nothing but what was there or was drawn. *)
LEMMA ChangedType ==
    ASSUME NEW seen \in [Path -> Stored], NEW d \in Delta
    PROVE  Changed(seen, d) \in Records
<1> DEFINE sources == DOMAIN d.renames
           targets == {d.renames[p] : p \in sources}
           Sent(q) == {p \in sources : d.renames[p] = q}
           paths == sources \cup targets \cup d.deletes \cup DOMAIN d.writes
<1>1. paths \subseteq Path
  BY DeltaAssumption
<1>2. ASSUME NEW q \in targets PROVE Max(Sent(q)) \in Path
  <2>1. Sent(q) \subseteq sources /\ sources \subseteq Path /\ IsFiniteSet(sources)
    BY DeltaAssumption
  <2>2. IsFiniteSet(Sent(q))
    BY <2>1, FS_Subset
  <2>3. Sent(q) \in SUBSET Int /\ Sent(q) # {}
    BY <2>1, DeltaAssumption
  <2> HIDE DEF Sent, sources
  <2> QED
    BY <2>1, <2>2, <2>3, MaxIsElement
<1>3. ASSUME NEW q \in paths PROVE Changed(seen, d)[q] \in Stored
  <2>1. CASE q \in DOMAIN d.writes
    BY <2>1, DeltaAssumption DEF Changed, Stored
  <2>2. CASE q \notin DOMAIN d.writes /\ q \in d.deletes
    BY <2>2 DEF Changed, Stored
  <2>3. CASE q \notin DOMAIN d.writes /\ q \notin d.deletes
    <3>1. CASE q \in targets
      BY <2>3, <3>1, <1>2 DEF Changed, Stored
    <3>2. CASE q \notin targets
      BY <2>3, <3>2 DEF Changed, Stored
    <3> QED
      BY <3>1, <3>2
  <2> QED
    BY <2>1, <2>2, <2>3
<1>4. Changed(seen, d) = [q \in paths |-> Changed(seen, d)[q]]
  BY DEF Changed
<1> HIDE DEF paths
<1>5. Changed(seen, d) \in [paths -> Stored]
  BY <1>3, <1>4
<1> QED
  BY <1>1, <1>5 DEF Records

LEMMA MergedType ==
    ASSUME NEW r \in Records, NEW c \in Records
    PROVE  Merged(r, c) \in Records /\ Range(Merged(r, c)) \subseteq Range(r) \cup Range(c)
<1>1. Merged(r, c) \in [DOMAIN r \cup DOMAIN c -> Stored]
  BY DEF Merged, Records
<1>2. DOMAIN r \subseteq Path /\ DOMAIN c \subseteq Path
  BY DEF Records
<1> QED
  BY <1>1, <1>2 DEF Records, Merged, Range

(* Seeing what a delta was merged into is seeing what the delta does to the view. *)
LEMMA MergedIsApplied ==
    ASSUME NEW r \in Records, NEW d \in Delta
    PROVE  Seen(Merged(r, Changed(Seen(r), d))) = Applied(Seen(r), d)
<1> DEFINE c == Changed(Seen(r), d)
<1>1. c \in Records
  BY SeenType, ChangedType
<1> HIDE DEF c
<1>2. Seen(Merged(r, c)) = [p \in Path |-> IF p \in DOMAIN c THEN c[p] ELSE Seen(r)[p]]
  BY <1>1 DEF Seen, Merged, Records
<1> QED
  BY <1>2 DEF Applied, c

(* Nothing recorded is within every budget. *)
LEMMA NoRecordsInBudget == WithinBudget(NoRecords)
<1> DEFINE D == DOMAIN NoRecords
           f(p) == IF NoRecords[p] = Absent THEN 0 ELSE Size[NoRecords[p]]
           Step(g) == [s \in SUBSET D |->
                          IF s = {} THEN 0
                          ELSE f(CHOOSE x \in s : TRUE) + g[s \ {CHOOSE x \in s : TRUE}]]
           fix == CHOOSE g : g = Step(g)
<1>1. D = {}
  BY DEF NoRecords
<1>2. Step([s \in SUBSET D |-> 0]) = [s \in SUBSET D |-> 0]
  <2> HIDE DEF D
  <2> QED
    BY <1>1
<1>3. fix = Step(fix)
  <2> HIDE DEF Step
  <2> QED
    BY <1>2, Zenon
<1>4. fix[D] = 0
  <2> HIDE DEF fix, D
  <2> QED
    BY <1>1, <1>3
<1>5. Cardinality(DOMAIN NoRecords) = 0
  BY <1>1, FS_EmptySet
<1> QED
  BY <1>4, <1>5, OverlayAssumption DEF WithinBudget, MapThenSumSet, MapThenFoldSet

----------------------------------------------------------------------------
(* Overlays: the inductive invariant *)

OverlayTypes ==
    /\ overlays \in [Overlay -> Entry \cup {NoOverlay}]
    /\ objects \in [Overlay -> SUBSET Content]
    /\ tasks \in [Overlay -> Task \cup {NoTask}]

(* What a cleanup is going to remove was abandoned and is still in the table, and its
   directory and its entry are not both on the list. *)
RemovedIsAbandoned ==
    \A o \in Overlay :
        /\ <<o, "tree">> \in cleaning \/ <<o, "forget">> \in cleaning => InTable(o) /\ ~Active(o)
        /\ ~(<<o, "tree">> \in cleaning /\ <<o, "forget">> \in cleaning)

(* A delta under way was drawn from the records that the overlay has now. *)
InDelta(o) == tasks[o] # NoTask /\ tasks[o].op \in {"delta", "publish"}
DrawnFromNow ==
    \A o \in Overlay : InDelta(o) /\ InTable(o) =>
        /\ \E d \in Delta : tasks[o].changed = Changed(Seen(overlays[o].records), d)
        /\ tasks[o].candidate = Merged(overlays[o].records, tasks[o].changed)
        /\ WithinBudget(tasks[o].candidate)

(* The objects of a delta are on disk before its records are. *)
ObjectsComeFirst ==
    \A o \in Overlay : InDelta(o) /\ tasks[o].op = "publish" /\ Active(o) =>
        Range(tasks[o].changed) \ {Absent} \subseteq objects[o]

OverlayInv ==
    /\ OverlayTypes
    /\ RemovedIsAbandoned
    /\ DrawnFromNow
    /\ ObjectsComeFirst
    /\ OverlaysAreSound
    /\ \A s \in Slot : IsFiniteSet(ActiveOf(s))

LEMMA OverlayInitInv == OverlayInit => OverlayInv
<1> SUFFICES ASSUME OverlayInit PROVE OverlayInv
  OBVIOUS
<1>1. OverlayTypes /\ RemovedIsAbandoned /\ DrawnFromNow /\ ObjectsComeFirst
  BY DEF OverlayInit, OverlayTypes, RemovedIsAbandoned, DrawnFromNow, ObjectsComeFirst, InDelta
<1>2. \A o \in Overlay : ~InTable(o)
  BY DEF OverlayInit, InTable
<1>3. \A s \in Slot : ActiveOf(s) = {}
  BY <1>2 DEF ActiveOf, Active
<1>4. OverlaysAreSound
  BY <1>2, <1>3, FS_EmptySet, OverlayAssumption
     DEF OverlaysAreSound, RecordsHaveObjects, BudgetsHold, Active
<1> QED
  BY <1>1, <1>3, <1>4, FS_EmptySet DEF OverlayInv

(* What a state with the same overlays, objects and tasks keeps. *)
LEMMA OverlaysUntouched ==
    ASSUME OverlayInv, UNCHANGED <<overlays, objects, tasks>>, cleaning' = cleaning
    PROVE  OverlayInv'
BY DEF OverlayInv, OverlayTypes, RemovedIsAbandoned, DrawnFromNow, ObjectsComeFirst, OverlaysAreSound,
       RecordsHaveObjects, BudgetsHold, InDelta, InTable, Active, ActiveOf

(* A slot whose active overlays are some of those it had keeps its number of overlays. *)
LEMMA FewerOverlays ==
    ASSUME OverlayInv, \A o \in Overlay : Active(o)' => Active(o)
    PROVE  \A s \in Slot : IsFiniteSet(ActiveOf(s))' /\ (Cardinality(ActiveOf(s)) <= MaxOverlays)'
<1> SUFFICES ASSUME NEW s \in Slot
             PROVE  IsFiniteSet(ActiveOf(s)') /\ Cardinality(ActiveOf(s)') <= MaxOverlays
  OBVIOUS
<1>1. ActiveOf(s)' \in SUBSET ActiveOf(s)
  BY DEF ActiveOf
<1>2. IsFiniteSet(ActiveOf(s)) /\ Cardinality(ActiveOf(s)) <= MaxOverlays
  BY DEF OverlayInv, OverlaysAreSound, BudgetsHold
<1> HIDE DEF ActiveOf
<1>3. IsFiniteSet(ActiveOf(s)') /\ Cardinality(ActiveOf(s)') <= Cardinality(ActiveOf(s))
  BY <1>1, <1>2, FS_Subset
<1>4. Cardinality(ActiveOf(s)') \in Nat /\ Cardinality(ActiveOf(s)) \in Nat
  BY <1>2, <1>3, FS_CardinalityType
<1> QED
  BY <1>2, <1>3, <1>4, OverlayAssumption

(* Overlays that are closed or abandoned keep their records; nothing else changes. *)
LEMMA AbandonKeeps ==
    ASSUME OverlayInv, UNCHANGED <<objects, tasks, cleaning>>, NEW os \in SUBSET Overlay,
           \A o \in os : Active(o),
           overlays' = [o \in Overlay |-> IF o \in os THEN [overlays[o] EXCEPT !.active = FALSE]
                                          ELSE overlays[o]]
    PROVE  OverlayInv'
<1>1. \A o \in Overlay : /\ InTable(o)' <=> InTable(o)
                         /\ Active(o)' <=> Active(o) /\ o \notin os
                         /\ InTable(o) => overlays'[o].records = overlays[o].records
  BY DeltaAssumption DEF OverlayInv, OverlayTypes, InTable, Active, Entry
<1>2. OverlayTypes'
  BY DEF OverlayInv, OverlayTypes, Entry, Active, InTable
<1>3. RemovedIsAbandoned'
  BY <1>1 DEF OverlayInv, RemovedIsAbandoned
<1>4. DrawnFromNow'
  BY <1>1 DEF OverlayInv, DrawnFromNow, InDelta
<1>5. ObjectsComeFirst'
  BY <1>1 DEF OverlayInv, ObjectsComeFirst, InDelta
<1>6. RecordsHaveObjects'
  BY <1>1 DEF OverlayInv, OverlaysAreSound, RecordsHaveObjects, Active
<1>7. \A o \in Overlay : InTable(o)' => WithinBudget(overlays'[o].records)
  BY <1>1 DEF OverlayInv, OverlaysAreSound, BudgetsHold
<1>8. \A s \in Slot : IsFiniteSet(ActiveOf(s))' /\ (Cardinality(ActiveOf(s)) <= MaxOverlays)'
  BY <1>1, FewerOverlays
<1> QED
  BY <1>2, <1>3, <1>4, <1>5, <1>6, <1>7, <1>8 DEF OverlayInv, OverlaysAreSound, BudgetsHold

LEMMA ReleaseKeeps == ASSUME OverlayInv, NEW s \in Slot, ReleaseSlot(s) PROVE OverlayInv'
<1>1. ActiveOf(s) \in SUBSET Overlay /\ \A o \in ActiveOf(s) : Active(o)
  BY DEF ActiveOf
<1> QED
  BY <1>1, AbandonKeeps DEF ReleaseSlot

LEMMA CloseKeeps == ASSUME OverlayInv, NEW o \in Overlay, CloseOverlay(o) PROVE OverlayInv'
<1>1. Active(o) /\ UNCHANGED <<objects, tasks, cleaning>>
  BY DEF CloseOverlay
<1>2. overlays' = [x \in Overlay |-> IF x \in {o} THEN [overlays[x] EXCEPT !.active = FALSE]
                                     ELSE overlays[x]]
  BY DEF CloseOverlay, OverlayInv, OverlayTypes
<1>3. {o} \in SUBSET Overlay /\ \A x \in {o} : Active(x)
  BY <1>1
<1> QED
  BY <1>1, <1>2, <1>3, AbandonKeeps

LEMMA CreateCheckKeeps == ASSUME OverlayInv, NEW o \in Overlay, CreateCheck(o) PROVE OverlayInv'
<1>1. OverlayTypes'
  BY DEF OverlayInv, OverlayTypes, CreateCheck, Task
<1>2. \A x \in Overlay : InDelta(x)' => InDelta(x) /\ tasks'[x] = tasks[x]
  BY DEF OverlayInv, OverlayTypes, CreateCheck, InDelta
<1>3. UNCHANGED <<overlays, objects, cleaning>>
  BY DEF CreateCheck
<1>4. RemovedIsAbandoned' /\ OverlaysAreSound' /\ \A s \in Slot : IsFiniteSet(ActiveOf(s))'
  BY <1>3 DEF OverlayInv, RemovedIsAbandoned, OverlaysAreSound, RecordsHaveObjects, BudgetsHold,
              InTable, Active, ActiveOf
<1>5. DrawnFromNow' /\ ObjectsComeFirst'
  BY <1>2, <1>3 DEF OverlayInv, DrawnFromNow, ObjectsComeFirst, InTable, Active
<1> QED
  BY <1>1, <1>4, <1>5 DEF OverlayInv

LEMMA CreateInsertKeeps == ASSUME OverlayInv, NEW o \in Overlay, CreateInsert(o) PROVE OverlayInv'
<1> DEFINE entry == [active |-> TRUE, records |-> NoRecords]
<1>1. UNCHANGED <<objects, cleaning>> /\ tasks' = [tasks EXCEPT ![o] = NoTask]
  BY DEF CreateInsert
<1>2. \A x \in Overlay : InDelta(x)' => InDelta(x) /\ x # o /\ tasks'[x] = tasks[x]
  BY <1>1 DEF OverlayInv, OverlayTypes, InDelta
<1>3. tasks' \in [Overlay -> Task \cup {NoTask}]
  BY <1>1 DEF OverlayInv, OverlayTypes
<1>4. CASE overlays' = overlays
  <2>1. RemovedIsAbandoned' /\ OverlaysAreSound' /\ \A s \in Slot : IsFiniteSet(ActiveOf(s))'
    BY <1>1, <1>4 DEF OverlayInv, RemovedIsAbandoned, OverlaysAreSound, RecordsHaveObjects,
                      BudgetsHold, InTable, Active, ActiveOf
  <2>2. DrawnFromNow' /\ ObjectsComeFirst'
    BY <1>1, <1>2, <1>4 DEF OverlayInv, DrawnFromNow, ObjectsComeFirst, InTable, Active
  <2> QED
    BY <1>1, <1>3, <1>4, <2>1, <2>2 DEF OverlayInv, OverlayTypes
<1>5. CASE /\ ~InTable(o)
           /\ ~(Cardinality(ActiveOf(SlotOf[o])) >= MaxOverlays)
           /\ overlays' = [overlays EXCEPT ![o] = entry]
  <2>1. entry \in Entry /\ entry # NoOverlay
    <3>1. entry \in Entry
      BY NoRecordsShowBase DEF Entry
    <3>2. NoOverlay \notin Entry
      BY DeltaAssumption DEF Entry
    <3> QED
      BY <3>1, <3>2
  <2>2. overlays' \in [Overlay -> Entry \cup {NoOverlay}]
    BY <1>5, <2>1 DEF OverlayInv, OverlayTypes
  <2>3. \A x \in Overlay : x # o => overlays'[x] = overlays[x]
    BY <1>5 DEF OverlayInv, OverlayTypes
  <2>4. overlays'[o] = entry
    BY <1>5 DEF OverlayInv, OverlayTypes
  <2> HIDE DEF entry
  <2>5. InTable(o)' /\ \A x \in Overlay : x # o => (InTable(x)' <=> InTable(x)) /\ (Active(x)' <=> Active(x))
    BY <2>1, <2>3, <2>4 DEF InTable, Active
  <2>6. OverlayTypes'
    BY <1>1, <1>3, <2>2 DEF OverlayInv, OverlayTypes
  <2>7. RemovedIsAbandoned'
    BY <1>1, <1>5, <2>5 DEF OverlayInv, RemovedIsAbandoned
  <2>8. DrawnFromNow' /\ ObjectsComeFirst'
    BY <1>1, <1>2, <2>3, <2>5 DEF OverlayInv, DrawnFromNow, ObjectsComeFirst
  <2>9. RecordsHaveObjects'
    BY <1>1, <2>3, <2>4, <2>5, NoRecordsShowBase
       DEF OverlayInv, OverlaysAreSound, RecordsHaveObjects, Active, entry
  <2>10. \A x \in Overlay : InTable(x)' => WithinBudget(overlays'[x].records)
    BY <2>3, <2>4, <2>5, NoRecordsInBudget DEF OverlayInv, OverlaysAreSound, BudgetsHold, entry
  <2>11. ASSUME NEW s \in Slot
         PROVE  IsFiniteSet(ActiveOf(s)') /\ Cardinality(ActiveOf(s)') <= MaxOverlays
    <3>1. IsFiniteSet(ActiveOf(s)) /\ Cardinality(ActiveOf(s)) <= MaxOverlays
      BY DEF OverlayInv, OverlaysAreSound, BudgetsHold
    <3>2. CASE s = SlotOf[o]
      <4>1. ActiveOf(s)' \subseteq ActiveOf(s) \cup {o}
        BY <2>5 DEF ActiveOf
      <4>2. Cardinality(ActiveOf(s)) \in Nat
        BY <3>1, FS_CardinalityType
      <4>3. IsFiniteSet(ActiveOf(s) \cup {o}) /\ Cardinality(ActiveOf(s) \cup {o}) <= MaxOverlays
        <5>1. /\ IsFiniteSet(ActiveOf(s) \cup {o})
              /\ \/ Cardinality(ActiveOf(s) \cup {o}) = Cardinality(ActiveOf(s))
                 \/ Cardinality(ActiveOf(s) \cup {o}) = Cardinality(ActiveOf(s)) + 1
          BY <3>1, FS_AddElement
        <5>2. Cardinality(ActiveOf(s)) < MaxOverlays
          BY <1>5, <3>2, <4>2, OverlayAssumption
        <5> QED
          BY <5>1, <5>2, <4>2, OverlayAssumption
      <4>4. Cardinality(ActiveOf(s) \cup {o}) \in Nat
        BY <4>3, FS_CardinalityType
      <4>5. /\ IsFiniteSet(ActiveOf(s)')
            /\ Cardinality(ActiveOf(s)') <= Cardinality(ActiveOf(s) \cup {o})
            /\ Cardinality(ActiveOf(s)') \in Nat
        BY <4>1, <4>3, FS_Subset, FS_CardinalityType
      <4> QED
        BY <4>3, <4>4, <4>5, OverlayAssumption
    <3>3. CASE s # SlotOf[o]
      <4>1. ActiveOf(s)' = ActiveOf(s)
        BY <2>5, <3>3 DEF ActiveOf
      <4> QED
        BY <3>1, <4>1
    <3> QED
      BY <3>2, <3>3
  <2> QED
    BY <2>6, <2>7, <2>8, <2>9, <2>10, <2>11 DEF OverlayInv, OverlaysAreSound, BudgetsHold
<1> QED
  BY <1>4, <1>5 DEF CreateInsert

LEMMA DeltaCheckKeeps ==
    ASSUME OverlayInv, NEW o \in Overlay, NEW d \in Delta, DeltaCheck(o, d) PROVE OverlayInv'
<1> DEFINE r == overlays[o].records
           changed == Changed(Seen(r), d)
           call == [op |-> "delta", changed |-> changed, candidate |-> Merged(r, changed)]
<1>1. UNCHANGED <<overlays, objects, cleaning>> /\ tasks' = [tasks EXCEPT ![o] = call]
  BY DEF DeltaCheck
<1>2. WithinBudget(Merged(r, changed))
  BY DEF DeltaCheck
<1>3. r \in Records
  BY DEF DeltaCheck, Active, InTable, OverlayInv, OverlayTypes, Entry
<1>4. changed \in Records /\ Merged(r, changed) \in Records
  BY <1>3, SeenType, ChangedType, MergedType
<1>5. tasks'[o].op = "delta" /\ tasks'[o].changed = changed /\ tasks'[o].candidate = Merged(r, changed)
  BY <1>1 DEF OverlayInv, OverlayTypes
<1>6. \A x \in Overlay : x # o => tasks'[x] = tasks[x]
  BY <1>1 DEF OverlayInv, OverlayTypes
<1> HIDE DEF r, changed
<1>7. OverlayTypes'
  BY <1>1, <1>4 DEF OverlayInv, OverlayTypes, Task
<1>8. RemovedIsAbandoned' /\ OverlaysAreSound' /\ \A s \in Slot : IsFiniteSet(ActiveOf(s))'
  BY <1>1 DEF OverlayInv, RemovedIsAbandoned, OverlaysAreSound, RecordsHaveObjects, BudgetsHold,
              InTable, Active, ActiveOf
<1>9. DrawnFromNow'
  <2> SUFFICES ASSUME NEW x \in Overlay, InDelta(x)', InTable(x)'
               PROVE  /\ \E e \in Delta : tasks'[x].changed = Changed(Seen(overlays[x].records), e)
                      /\ tasks'[x].candidate = Merged(overlays[x].records, tasks'[x].changed)
                      /\ WithinBudget(tasks'[x].candidate)
    BY <1>1 DEF DrawnFromNow
  <2>1. CASE x = o
    BY <1>2, <1>5, <2>1 DEF changed, r
  <2>2. CASE x # o
    BY <1>1, <1>6, <2>2 DEF OverlayInv, DrawnFromNow, InDelta, InTable
  <2> QED
    BY <2>1, <2>2
<1>10. ObjectsComeFirst'
  BY <1>1, <1>5, <1>6 DEF OverlayInv, ObjectsComeFirst, InDelta, Active, InTable
<1> QED
  BY <1>7, <1>8, <1>9, <1>10 DEF OverlayInv

LEMMA DeltaObjectsKeeps ==
    ASSUME OverlayInv, NEW o \in Overlay, DeltaObjects(o) PROVE OverlayInv'
<1>1. /\ UNCHANGED <<overlays, cleaning>>
      /\ tasks[o] # NoTask /\ tasks[o].op = "delta"
      /\ objects' = [objects EXCEPT ![o] = @ \cup (Range(tasks[o].changed) \ {Absent})]
      /\ tasks' = [tasks EXCEPT ![o].op = "publish"]
  BY DEF DeltaObjects
<1>2. tasks[o] \in [op : {"delta", "publish"}, changed : Records, candidate : Records]
  BY <1>1 DEF OverlayInv, OverlayTypes, Task
<1>3. Range(tasks[o].changed) \ {Absent} \subseteq Content
  BY <1>2 DEF Records, Range, Stored
<1>4. /\ tasks'[o].op = "publish" /\ tasks'[o].changed = tasks[o].changed
      /\ tasks'[o].candidate = tasks[o].candidate
      /\ tasks'[o] \in [op : {"delta", "publish"}, changed : Records, candidate : Records]
  BY <1>1, <1>2 DEF OverlayInv, OverlayTypes
<1>5. \A x \in Overlay : x # o => tasks'[x] = tasks[x] /\ objects'[x] = objects[x]
  BY <1>1 DEF OverlayInv, OverlayTypes
<1>6. objects'[o] = objects[o] \cup (Range(tasks[o].changed) \ {Absent})
  BY <1>1 DEF OverlayInv, OverlayTypes
<1>7. OverlayTypes'
  <2>1. tasks' \in [Overlay -> Task \cup {NoTask}]
    BY <1>1, <1>4, <1>5 DEF OverlayInv, OverlayTypes, Task
  <2>2. objects' \in [Overlay -> SUBSET Content]
    BY <1>1, <1>3 DEF OverlayInv, OverlayTypes
  <2> QED
    BY <1>1, <2>1, <2>2 DEF OverlayInv, OverlayTypes
<1>8. RemovedIsAbandoned' /\ \A s \in Slot : IsFiniteSet(ActiveOf(s))'
  BY <1>1 DEF OverlayInv, RemovedIsAbandoned, InTable, Active, ActiveOf
<1>9. OverlaysAreSound'
  <2>1. BudgetsHold'
    BY <1>1 DEF OverlayInv, OverlaysAreSound, BudgetsHold, InTable, Active, ActiveOf
  <2>2. \A x \in Overlay : objects[x] \subseteq objects'[x]
    BY <1>5, <1>6
  <2>3. RecordsHaveObjects'
    BY <1>1, <2>2 DEF OverlayInv, OverlaysAreSound, RecordsHaveObjects, InTable, Active
  <2> QED
    BY <2>1, <2>3 DEF OverlaysAreSound
<1>10. DrawnFromNow'
  <2>1. \A x \in Overlay : InDelta(x)' => /\ InDelta(x) /\ tasks'[x].changed = tasks[x].changed
                                          /\ tasks'[x].candidate = tasks[x].candidate
    BY <1>1, <1>4, <1>5 DEF InDelta
  <2> QED
    BY <1>1, <2>1 DEF OverlayInv, DrawnFromNow, InTable
<1>11. ObjectsComeFirst'
  BY <1>1, <1>4, <1>5, <1>6 DEF OverlayInv, ObjectsComeFirst, InDelta, Active, InTable
<1> QED
  BY <1>7, <1>8, <1>9, <1>10, <1>11 DEF OverlayInv

LEMMA DeltaPublishKeeps ==
    ASSUME OverlayInv, NEW o \in Overlay, DeltaPublish(o) PROVE OverlayInv'
<1>1. /\ UNCHANGED <<objects, cleaning>>
      /\ tasks[o] # NoTask /\ tasks[o].op = "publish"
      /\ tasks' = [tasks EXCEPT ![o] = NoTask]
  BY DEF DeltaPublish
<1>2. tasks[o] \in [op : {"delta", "publish"}, changed : Records, candidate : Records]
  BY <1>1 DEF OverlayInv, OverlayTypes, Task
<1>3. \A x \in Overlay : InDelta(x)' => InDelta(x) /\ x # o /\ tasks'[x] = tasks[x]
  BY <1>1 DEF OverlayInv, OverlayTypes, InDelta
<1>4. tasks' \in [Overlay -> Task \cup {NoTask}]
  BY <1>1 DEF OverlayInv, OverlayTypes
<1>5. CASE ~InTable(o)
  <2>1. overlays' = overlays
    BY <1>5 DEF DeltaPublish
  <2>2. RemovedIsAbandoned' /\ OverlaysAreSound' /\ \A s \in Slot : IsFiniteSet(ActiveOf(s))'
    BY <1>1, <2>1 DEF OverlayInv, RemovedIsAbandoned, OverlaysAreSound, RecordsHaveObjects,
                      BudgetsHold, InTable, Active, ActiveOf
  <2>3. DrawnFromNow' /\ ObjectsComeFirst'
    BY <1>1, <1>3, <2>1 DEF OverlayInv, DrawnFromNow, ObjectsComeFirst, InTable, Active
  <2> QED
    BY <1>1, <1>4, <2>1, <2>2, <2>3 DEF OverlayInv, OverlayTypes
<1>6. CASE InTable(o)
  <2>1. overlays' = [overlays EXCEPT ![o].records = tasks[o].candidate]
    BY <1>6 DEF DeltaPublish
  <2>2. overlays[o] \in Entry
    BY <1>6 DEF InTable, OverlayInv, OverlayTypes
  <2>3. /\ overlays'[o] \in Entry /\ overlays'[o].active = overlays[o].active
        /\ overlays'[o].records = tasks[o].candidate
    BY <1>2, <2>1, <2>2 DEF OverlayInv, OverlayTypes, Entry
  <2>4. \A x \in Overlay : x # o => overlays'[x] = overlays[x]
    BY <2>1 DEF OverlayInv, OverlayTypes
  <2>5. NoOverlay \notin Entry
    BY DeltaAssumption DEF Entry
  <2>6. \A x \in Overlay : (InTable(x)' <=> InTable(x)) /\ (Active(x)' <=> Active(x))
    BY <1>6, <2>3, <2>4, <2>5 DEF InTable, Active
  <2>7. OverlayTypes'
    <3>1. DOMAIN overlays' = Overlay /\ overlays' = [x \in Overlay |-> overlays'[x]]
      BY <2>1 DEF OverlayInv, OverlayTypes
    <3> QED
      BY <1>1, <1>4, <2>3, <2>4, <3>1 DEF OverlayInv, OverlayTypes
  <2>8. RemovedIsAbandoned'
    BY <1>1, <2>6 DEF OverlayInv, RemovedIsAbandoned
  <2>9. DrawnFromNow' /\ ObjectsComeFirst'
    BY <1>1, <1>3, <2>4, <2>6 DEF OverlayInv, DrawnFromNow, ObjectsComeFirst
  <2>10. InDelta(o)
    BY <1>1 DEF InDelta
  <2>11. RecordsHaveObjects'
    <3> SUFFICES ASSUME NEW x \in Overlay, Active(x)
                 PROVE  Range(overlays'[x].records) \ {Absent} \subseteq objects[x]
      BY <1>1, <2>6 DEF RecordsHaveObjects
    <3>1. Range(overlays[x].records) \ {Absent} \subseteq objects[x]
      BY DEF OverlayInv, OverlaysAreSound, RecordsHaveObjects
    <3>2. CASE x = o
      <4>1. tasks[o].candidate = Merged(overlays[o].records, tasks[o].changed)
        BY <1>6, <2>10 DEF OverlayInv, DrawnFromNow
      <4>2. Range(tasks[o].changed) \ {Absent} \subseteq objects[o]
        BY <1>1, <2>10, <3>2 DEF OverlayInv, ObjectsComeFirst
      <4>3. overlays[o].records \in Records /\ tasks[o].changed \in Records
        BY <1>2, <2>2 DEF Entry
      <4>4. Range(tasks[o].candidate) \subseteq Range(overlays[o].records) \cup Range(tasks[o].changed)
        BY <4>1, <4>3, MergedType
      <4> QED
        BY <2>3, <3>1, <3>2, <4>2, <4>4
    <3>3. CASE x # o
      BY <2>4, <3>1, <3>3
    <3> QED
      BY <3>2, <3>3
  <2>12. \A x \in Overlay : InTable(x)' => WithinBudget(overlays'[x].records)
    <3>1. WithinBudget(overlays'[o].records)
      BY <1>6, <2>3, <2>10 DEF OverlayInv, DrawnFromNow
    <3> QED
      BY <2>4, <2>6, <3>1 DEF OverlayInv, OverlaysAreSound, BudgetsHold
  <2>13. \A s \in Slot : IsFiniteSet(ActiveOf(s))' /\ (Cardinality(ActiveOf(s)) <= MaxOverlays)'
    BY <2>6, FewerOverlays
  <2> QED
    BY <2>7, <2>8, <2>9, <2>11, <2>12, <2>13 DEF OverlayInv, OverlaysAreSound, BudgetsHold
<1> QED
  BY <1>5, <1>6

LEMMA CleanupBeginKeeps == ASSUME OverlayInv, CleanupBegin PROVE OverlayInv'
<1>1. UNCHANGED <<overlays, objects, tasks>>
  BY DEF CleanupBegin
<1>2. RemovedIsAbandoned'
  <2>1. \A o \in Overlay : /\ <<o, "forget">> \notin cleaning'
                           /\ <<o, "tree">> \in cleaning' => InTable(o) /\ ~Active(o)
    BY DEF CleanupBegin
  <2> QED
    BY <1>1, <2>1 DEF RemovedIsAbandoned, InTable, Active
<1> QED
  BY <1>1, <1>2 DEF OverlayInv, OverlayTypes, DrawnFromNow, ObjectsComeFirst, OverlaysAreSound,
                    RecordsHaveObjects, BudgetsHold, InDelta, InTable, Active, ActiveOf

LEMMA CleanupTreeKeeps == ASSUME OverlayInv, NEW o \in Overlay, CleanupTree(o) PROVE OverlayInv'
<1>1. /\ UNCHANGED <<overlays, tasks>> /\ <<o, "tree">> \in cleaning
      /\ objects' = [objects EXCEPT ![o] = {}]
      /\ cleaning' = (cleaning \ {<<o, "tree">>}) \cup {<<o, "forget">>}
  BY DEF CleanupTree
<1>2. ~Active(o) /\ InTable(o)
  BY <1>1 DEF OverlayInv, RemovedIsAbandoned
<1>3. \A x \in Overlay : x # o => objects'[x] = objects[x]
  BY <1>1 DEF OverlayInv, OverlayTypes
<1>4. OverlayTypes'
  BY <1>1 DEF OverlayInv, OverlayTypes
<1>5. RemovedIsAbandoned'
  BY <1>1, <1>2 DEF OverlayInv, RemovedIsAbandoned, InTable, Active
<1>6. RecordsHaveObjects' /\ ObjectsComeFirst'
  BY <1>1, <1>2, <1>3 DEF OverlayInv, OverlaysAreSound, RecordsHaveObjects, ObjectsComeFirst,
                          InDelta, InTable, Active
<1>7. BudgetsHold' /\ DrawnFromNow' /\ \A s \in Slot : IsFiniteSet(ActiveOf(s))'
  BY <1>1 DEF OverlayInv, OverlaysAreSound, BudgetsHold, DrawnFromNow, InDelta, InTable, Active, ActiveOf
<1> QED
  BY <1>4, <1>5, <1>6, <1>7 DEF OverlayInv, OverlaysAreSound

LEMMA CleanupForgetKeeps == ASSUME OverlayInv, NEW o \in Overlay, CleanupForget(o) PROVE OverlayInv'
<1>1. /\ UNCHANGED <<objects, tasks>> /\ <<o, "forget">> \in cleaning
      /\ overlays' = [overlays EXCEPT ![o] = NoOverlay]
      /\ cleaning' = cleaning \ {<<o, "forget">>}
  BY DEF CleanupForget
<1>2. ~Active(o) /\ <<o, "tree">> \notin cleaning
  BY <1>1 DEF OverlayInv, RemovedIsAbandoned
<1>3. ~InTable(o)' /\ \A x \in Overlay : x # o => overlays'[x] = overlays[x]
  BY <1>1 DEF OverlayInv, OverlayTypes, InTable
<1>4. \A x \in Overlay : /\ Active(x)' <=> Active(x)
                         /\ InTable(x)' <=> InTable(x) /\ x # o
  BY <1>2, <1>3 DEF InTable, Active
<1>5. OverlayTypes'
  BY <1>1 DEF OverlayInv, OverlayTypes
<1>6. RemovedIsAbandoned'
  BY <1>1, <1>2, <1>4 DEF OverlayInv, RemovedIsAbandoned
<1>7. DrawnFromNow' /\ ObjectsComeFirst'
  BY <1>1, <1>3, <1>4 DEF OverlayInv, DrawnFromNow, ObjectsComeFirst, InDelta
<1>8. RecordsHaveObjects' /\ \A x \in Overlay : InTable(x)' => WithinBudget(overlays'[x].records)
  BY <1>1, <1>2, <1>3, <1>4 DEF OverlayInv, OverlaysAreSound, RecordsHaveObjects, BudgetsHold
<1>9. \A s \in Slot : IsFiniteSet(ActiveOf(s))' /\ (Cardinality(ActiveOf(s)) <= MaxOverlays)'
  BY <1>4, FewerOverlays
<1> QED
  BY <1>5, <1>6, <1>7, <1>8, <1>9 DEF OverlayInv, OverlaysAreSound, BudgetsHold

LEMMA OverlayNextInv == OverlayInv /\ [OverlayNext]_overlayVars => OverlayInv'
<1> SUFFICES ASSUME OverlayInv, [OverlayNext]_overlayVars PROVE OverlayInv'
  OBVIOUS
<1>1. ASSUME NEW s \in Slot, OpenSlot(s) \/ LeaseExpires(s) \/ RenewCheck(s) \/ RenewSlot(s)
      PROVE  OverlayInv'
  BY <1>1, OverlaysUntouched DEF OpenSlot, LeaseExpires, RenewCheck, RenewSlot
<1>2. ASSUME NEW s \in Slot, ReleaseSlot(s) PROVE OverlayInv'
  BY <1>2, ReleaseKeeps
<1>3. ASSUME NEW o \in Overlay, OverlayStep(o) PROVE OverlayInv'
  BY <1>3, CreateCheckKeeps, CreateInsertKeeps, CloseKeeps, DeltaObjectsKeeps, DeltaPublishKeeps,
     CleanupTreeKeeps, CleanupForgetKeeps DEF OverlayStep
<1>4. ASSUME NEW o \in Overlay, NEW d \in Delta, DeltaCheck(o, d) PROVE OverlayInv'
  BY <1>4, DeltaCheckKeeps
<1>5. CASE CleanupBegin
  BY <1>5, CleanupBeginKeeps
<1>6. CASE UNCHANGED overlayVars
  BY <1>6, OverlaysUntouched DEF overlayVars
<1> QED
  BY <1>1, <1>2, <1>3, <1>4, <1>5, <1>6 DEF OverlayNext

(* What the records of an overlay say is on disk and within its budgets, whatever is
   released, renewed, closed or cleaned up while a delta is published (apply_delta,
   cleanup_abandoned and release_slot of prism_arena.py). *)
THEOREM OverlaysSound == OverlaySpec => []OverlaysAreSound
<1>1. OverlayInv => OverlaysAreSound
  BY DEF OverlayInv
<1> QED
  BY <1>1, OverlayInitInv, OverlayNextInv, PTL DEF OverlaySpec

----------------------------------------------------------------------------
(* Overlays: the refinement of private views *)

ViewNow == [o \in Overlay |-> Shown(o)]

LEMMA ViewOpens ==
    ASSUME OverlayInv, NEW o \in Overlay, CreateInsert(o)
    PROVE  Views!OpenView(o) \/ ViewNow' = ViewNow
<1>1. CASE overlays' = overlays
  BY <1>1 DEF ViewNow, Shown, Active, InTable
<1>2. CASE ~InTable(o) /\ overlays' = [overlays EXCEPT ![o] = [active |-> TRUE, records |-> NoRecords]]
  <2>1. NoOverlay \notin Entry /\ [active |-> TRUE, records |-> NoRecords] \in Entry
    BY DeltaAssumption, NoRecordsShowBase DEF Entry
  <2>2. overlays'[o] # NoOverlay /\ overlays'[o].active /\ overlays'[o].records = NoRecords
    BY <1>2, <2>1 DEF OverlayInv, OverlayTypes
  <2>3. Shown(o) = NoView /\ Shown(o)' = Base
    BY <1>2, <2>2, NoRecordsShowBase DEF Shown, Active, InTable
  <2>4. \A x \in Overlay : x # o => Shown(x)' = Shown(x)
    BY <1>2 DEF OverlayInv, OverlayTypes, Shown, Active, InTable
  <2> QED
    BY <2>3, <2>4 DEF Views!OpenView, ViewNow
<1> QED
  BY <1>1, <1>2 DEF CreateInsert

LEMMA ViewChanges ==
    ASSUME OverlayInv, NEW o \in Overlay, DeltaPublish(o)
    PROVE  (\E d \in Delta : Views!ChangeView(o, d)) \/ ViewNow' = ViewNow
<1>1. CASE ~InTable(o)
  BY <1>1 DEF DeltaPublish, ViewNow, Shown, Active, InTable
<1>2. CASE InTable(o)
  <2>1. overlays[o] \in Entry /\ NoOverlay \notin Entry
    BY <1>2, DeltaAssumption DEF InTable, OverlayInv, OverlayTypes, Entry
  <2>2. InDelta(o) /\ overlays' = [overlays EXCEPT ![o].records = tasks[o].candidate]
    BY <1>2 DEF DeltaPublish, InDelta
  <2>3. tasks[o] \in [op : {"delta", "publish"}, changed : Records, candidate : Records]
    BY <2>2 DEF InDelta, OverlayInv, OverlayTypes, Task
  <2>4. PICK d \in Delta : tasks[o].changed = Changed(Seen(overlays[o].records), d)
    BY <1>2, <2>2 DEF OverlayInv, DrawnFromNow
  <2>5. tasks[o].candidate = Merged(overlays[o].records, Changed(Seen(overlays[o].records), d))
    BY <1>2, <2>2, <2>4 DEF OverlayInv, DrawnFromNow
  <2>6. /\ overlays'[o] \in Entry /\ overlays'[o].active = overlays[o].active
        /\ overlays'[o].records = tasks[o].candidate
    BY <2>1, <2>2, <2>3 DEF OverlayInv, OverlayTypes, Entry
  <2>7. \A x \in Overlay : x # o => Shown(x)' = Shown(x)
    BY <2>2 DEF OverlayInv, OverlayTypes, Shown, Active, InTable
  <2>8. CASE ~overlays[o].active
    <3>1. Shown(o)' = Shown(o)
      BY <2>6, <2>8 DEF Shown, Active
    <3> QED
      BY <2>7, <3>1 DEF ViewNow
  <2>9. CASE overlays[o].active
    <3>1. Shown(o) = Seen(overlays[o].records) /\ Shown(o)' = Seen(tasks[o].candidate)
      BY <1>2, <2>1, <2>6, <2>9 DEF Shown, Active, InTable
    <3>2. overlays[o].records \in Records
      BY <2>1 DEF Entry
    <3>3. Shown(o)' = Applied(Shown(o), d)
      BY <2>5, <3>1, <3>2, MergedIsApplied
    <3>4. Shown(o) # NoView
      BY <3>1, <3>2, SeenType, DeltaAssumption
    <3>5. Views!ChangeView(o, d)
      BY <2>7, <3>3, <3>4 DEF Views!ChangeView, ViewNow
    <3> QED
      BY <3>5
  <2> QED
    BY <2>8, <2>9
<1> QED
  BY <1>1, <1>2

(* Overlays that are no longer shown drop out together, and the others stay as they are. *)
LEMMA ViewsDrop ==
    ASSUME NEW os \in SUBSET Overlay,
           \A o \in os : ~Active(o)',
           \A o \in Overlay \ os : (Active(o)' <=> Active(o)) /\ (Active(o) => overlays'[o].records = overlays[o].records)
    PROVE  Views!DropViews(os)
<1>1. \A o \in Overlay : Shown(o)' = IF o \in os THEN NoView ELSE Shown(o)
  BY DEF Shown, Active
<1> QED
  BY <1>1 DEF Views!DropViews

LEMMA ViewStep == OverlayInv /\ [OverlayNext]_overlayVars => [Views!ViewNext]_ViewNow
<1> SUFFICES ASSUME OverlayInv, [OverlayNext]_overlayVars PROVE Views!ViewNext \/ ViewNow' = ViewNow
  BY DEF ViewNow
<1>1. CASE overlays' = overlays
  BY <1>1 DEF ViewNow, Shown, Active, InTable
<1>2. ASSUME NEW s \in Slot, ReleaseSlot(s) PROVE Views!ViewNext
  <2>1. \A o \in ActiveOf(s) : o \in Overlay /\ InTable(o) /\ overlays[o] \in Entry
    BY DEF ActiveOf, Active, InTable, OverlayInv, OverlayTypes
  <2>2. \A o \in ActiveOf(s) : ~overlays'[o].active
    BY <1>2, <2>1 DEF ReleaseSlot, Entry
  <2>3. \A o \in Overlay \ ActiveOf(s) : overlays'[o] = overlays[o]
    BY <1>2 DEF ReleaseSlot
  <2>4. Views!DropViews(ActiveOf(s)) /\ ActiveOf(s) \in SUBSET Overlay
    BY <2>1, <2>2, <2>3, ViewsDrop DEF Active, InTable
  <2> QED
    BY <2>4 DEF Views!ViewNext
<1>3. ASSUME NEW o \in Overlay, CloseOverlay(o) PROVE Views!ViewNext
  <2>1. overlays[o] \in Entry /\ overlays' = [overlays EXCEPT ![o].active = FALSE]
    BY <1>3 DEF CloseOverlay, Active, InTable, OverlayInv, OverlayTypes
  <2>2. ~overlays'[o].active /\ \A x \in Overlay \ {o} : overlays'[x] = overlays[x]
    BY <2>1 DEF OverlayInv, OverlayTypes, Entry
  <2>3. {o} \in SUBSET Overlay /\ Views!DropViews({o})
    BY <2>2, ViewsDrop DEF Active, InTable
  <2> QED
    BY <2>3 DEF Views!ViewNext
<1>4. ASSUME NEW o \in Overlay, CleanupForget(o) PROVE Views!ViewNext
  <2>1. overlays' = [overlays EXCEPT ![o] = NoOverlay]
    BY <1>4 DEF CleanupForget
  <2>2. overlays'[o] = NoOverlay /\ \A x \in Overlay \ {o} : overlays'[x] = overlays[x]
    BY <2>1 DEF OverlayInv, OverlayTypes
  <2>3. {o} \in SUBSET Overlay /\ Views!DropViews({o})
    BY <2>2, ViewsDrop DEF Active, InTable
  <2> QED
    BY <2>3 DEF Views!ViewNext
<1>5. ASSUME NEW o \in Overlay, CreateInsert(o) PROVE Views!ViewNext \/ ViewNow' = ViewNow
  BY <1>5, ViewOpens DEF Views!ViewNext
<1>6. ASSUME NEW o \in Overlay, DeltaPublish(o) PROVE Views!ViewNext \/ ViewNow' = ViewNow
  BY <1>6, ViewChanges DEF Views!ViewNext
<1> QED
  BY <1>1, <1>2, <1>3, <1>4, <1>5, <1>6
     DEF OverlayNext, OverlayStep, overlayVars, OpenSlot, LeaseExpires, RenewCheck, RenewSlot,
         CreateCheck, DeltaCheck, DeltaObjects, CleanupBegin, CleanupTree

(* Overlays implement private copies of the base: a view is opened, changed by whole deltas
   of its own and dropped, and no release, close, renewal or cleanup beside it changes what
   its task is shown (read and apply_delta of prism_arena.py). *)
THEOREM OverlaysArePrivate == OverlaySpec => Isolated
<1>1. OverlayInit => Views!ViewInit
  BY DEF OverlayInit, Views!ViewInit, Shown, Active, InTable
<1>2. OverlayInv /\ [OverlayNext]_overlayVars => [Views!ViewNext]_ViewNow
  BY ViewStep
<1> QED
  BY <1>1, <1>2, OverlayInitInv, OverlayNextInv, PTL DEF OverlaySpec, Isolated, Views!ViewSpec, ViewNow

----------------------------------------------------------------------------
(* Arenas: the inductive invariant *)

Mapping == [source : Source, refcount : Int, mapped : BOOLEAN]

ArenaTypes ==
    /\ current \in Source \cup {NoSource}
    /\ arenas \in [Opening -> ArenaObject \cup {NoArena}]
    /\ handles \in Seq(Mapping)
    /\ registry \in [Source -> Nat \cup {NoHandle}]
    /\ jobs \in [Thread -> Job \cup {NoJob}]

(* How far a publication has come is what is on disk. *)
FilesComeFirst ==
    \A t \in Thread : Busy(t) =>
        /\ jobs[t].pc = "metadata" => jobs[t].source \in baseFiles
        /\ jobs[t].pc \in {"current", "open"} => Whole(jobs[t].source)

(* An arena that is being opened does not exist yet, and no other job opens it; one that
   is being closed exists, is its generation's, and no other job closes it. *)
IsClose(t) == Busy(t) /\ jobs[t].op = "close"
IsOpening(t) == Busy(t) /\ jobs[t].op # "close" /\ jobs[t].pc # "drain"
JobsAreApart ==
    \A t \in Thread : Busy(t) =>
        /\ jobs[t].op = "close" <=> jobs[t].pc \in {"release", "closed"}
        /\ jobs[t].op # "close" /\ jobs[t].pc # "drain" => arenas[jobs[t].arena] = NoArena
        /\ jobs[t].op = "close" => /\ arenas[jobs[t].arena] # NoArena
                                   /\ ~arenas[jobs[t].arena].closed
                                   /\ arenas[jobs[t].arena].source = jobs[t].source
        /\ jobs[t].from # NoArena => arenas[jobs[t].from] # NoArena
        /\ jobs[t].pc = "drain" => jobs[t].from # NoArena
        /\ \A u \in Thread : /\ IsClose(t) /\ IsClose(u) /\ jobs[u].arena = jobs[t].arena => u = t
                             /\ IsOpening(t) /\ IsOpening(u) /\ jobs[u].arena = jobs[t].arena => u = t

(* The registry names exactly the mappings that are open. *)
RegistryIsExact ==
    /\ \A g \in Source : registry[g] # NoHandle =>
          /\ registry[g] \in DOMAIN handles
          /\ handles[registry[g]].source = g /\ handles[registry[g]].mapped
    /\ \A h \in DOMAIN handles : handles[h].mapped => registry[handles[h].source] = h

ArenasHaveHandles ==
    /\ \A a \in Opening : arenas[a] # NoArena => arenas[a].handle \in DOMAIN handles
    /\ \A h \in DOMAIN handles : IsFiniteSet(Holders(h))

ArenaInv ==
    /\ ArenaTypes
    /\ FilesComeFirst
    /\ JobsAreApart
    /\ RegistryIsExact
    /\ ArenasHaveHandles
    /\ GenerationsStayMapped

LEMMA ArenaInitInv == ArenaInit => ArenaInv
<1> SUFFICES ASSUME ArenaInit PROVE ArenaInv
  OBVIOUS
<1>1. ArenaTypes
  BY DEF ArenaInit, ArenaTypes
<1>2. \A t \in Thread : ~Busy(t)
  BY DEF ArenaInit, Busy
<1>3. FilesComeFirst /\ JobsAreApart
  BY <1>2 DEF FilesComeFirst, JobsAreApart
<1>4. handles = << >> /\ DOMAIN handles = {}
  BY DEF ArenaInit
<1>5. RegistryIsExact /\ ArenasHaveHandles /\ MappedWhileHeld
  BY <1>4 DEF ArenaInit, RegistryIsExact, ArenasHaveHandles, MappedWhileHeld
<1>6. CurrentIsWhole
  BY DEF ArenaInit, CurrentIsWhole
<1> QED
  BY <1>1, <1>3, <1>5, <1>6 DEF ArenaInv, GenerationsStayMapped

(* Who holds a mapping depends on the arenas and on the closes that have released it. *)
Released(a) == \E t \in Thread : Busy(t) /\ jobs[t].arena = a /\ jobs[t].pc = "closed"

LEMMA HoldersSame ==
    ASSUME arenas' = arenas, \A a \in Opening : Released(a)' <=> Released(a), NEW h
    PROVE  Holders(h)' = Holders(h)
BY DEF Holders, Released

(* A step that gives a thread another job, and neither begins nor ends the last part of a
   close, leaves arenas and mappings as they are. *)
LEMMA MappingsSame ==
    ASSUME ArenaInv, UNCHANGED <<arenas, handles, registry>>,
           NEW t \in Thread, NEW j \in Job \cup {NoJob}, jobs' = [jobs EXCEPT ![t] = j],
           j # NoJob => j.pc # "closed", Busy(t) => jobs[t].pc # "closed"
    PROVE  /\ jobs' \in [Thread -> Job \cup {NoJob}]
           /\ jobs'[t] = j /\ \A u \in Thread : u # t => jobs'[u] = jobs[u]
           /\ RegistryIsExact' /\ ArenasHaveHandles' /\ MappedWhileHeld'
<1>1. /\ jobs' \in [Thread -> Job \cup {NoJob}]
      /\ jobs'[t] = j /\ \A u \in Thread : u # t => jobs'[u] = jobs[u]
  BY DEF ArenaInv, ArenaTypes
<1>2. \A a \in Opening : Released(a)' <=> Released(a)
  BY <1>1 DEF Released, Busy
<1>3. \A h : Holders(h)' = Holders(h)
  BY <1>2, HoldersSame
<1>4. RegistryIsExact' /\ ArenasHaveHandles'
  BY <1>3 DEF ArenaInv, RegistryIsExact, ArenasHaveHandles
<1>5. MappedWhileHeld'
  BY <1>3 DEF ArenaInv, GenerationsStayMapped, MappedWhileHeld
<1> QED
  BY <1>1, <1>4, <1>5

LEMMA PublishBeginKeeps ==
    ASSUME ArenaInv, NEW t \in Thread, NEW a \in Opening, NEW g \in Source,
           NEW from \in Opening \cup {NoArena}, PublishBegin(t, a, g, from)
    PROVE  ArenaInv'
<1> DEFINE j == [op |-> "publish", pc |-> "base", arena |-> a, source |-> g, from |-> from]
<1>1. /\ UNCHANGED <<baseFiles, metadata, current, arenas, handles, registry>>
      /\ jobs' = [jobs EXCEPT ![t] = j] /\ ~Busy(t) /\ arenas[a] = NoArena /\ ~Claimed(a)
      /\ from # NoArena => arenas[from] # NoArena
  BY DEF PublishBegin, diskVars, Open
<1>2. j \in Job
  BY DEF Job
<1>3. /\ jobs' \in [Thread -> Job \cup {NoJob}]
      /\ jobs'[t] = j /\ \A u \in Thread : u # t => jobs'[u] = jobs[u]
      /\ RegistryIsExact' /\ ArenasHaveHandles' /\ MappedWhileHeld'
  BY <1>1, <1>2, MappingsSame
<1>4. FilesComeFirst' /\ CurrentIsWhole'
  BY <1>1, <1>3 DEF ArenaInv, FilesComeFirst, GenerationsStayMapped, CurrentIsWhole, Busy, Whole
<1>5. JobsAreApart'
  BY <1>1, <1>3 DEF ArenaInv, JobsAreApart, IsClose, IsOpening, Busy, Claimed
<1> QED
  BY <1>1, <1>3, <1>4, <1>5 DEF ArenaInv, ArenaTypes, GenerationsStayMapped

LEMMA OpenCurrentKeeps ==
    ASSUME ArenaInv, NEW t \in Thread, NEW a \in Opening, OpenCurrent(t, a)
    PROVE  ArenaInv'
<1> DEFINE j == [op |-> "open", pc |-> "open", arena |-> a, source |-> current, from |-> NoArena]
<1>1. /\ UNCHANGED <<baseFiles, metadata, current, arenas, handles, registry>>
      /\ jobs' = [jobs EXCEPT ![t] = j] /\ ~Busy(t) /\ arenas[a] = NoArena /\ ~Claimed(a)
      /\ current # NoSource
  BY DEF OpenCurrent, diskVars
<1>2. j \in Job
  BY <1>1 DEF Job, ArenaInv, ArenaTypes
<1>3. /\ jobs' \in [Thread -> Job \cup {NoJob}]
      /\ jobs'[t] = j /\ \A u \in Thread : u # t => jobs'[u] = jobs[u]
      /\ RegistryIsExact' /\ ArenasHaveHandles' /\ MappedWhileHeld'
  BY <1>1, <1>2, MappingsSame
<1>4. FilesComeFirst' /\ CurrentIsWhole'
  BY <1>1, <1>3 DEF ArenaInv, FilesComeFirst, GenerationsStayMapped, CurrentIsWhole, Busy, Whole
<1>5. JobsAreApart'
  BY <1>1, <1>3 DEF ArenaInv, JobsAreApart, IsClose, IsOpening, Busy, Claimed
<1> QED
  BY <1>1, <1>3, <1>4, <1>5 DEF ArenaInv, ArenaTypes, GenerationsStayMapped

LEMMA CloseBeginKeeps ==
    ASSUME ArenaInv, NEW t \in Thread, NEW a \in Opening, CloseBegin(t, a)
    PROVE  ArenaInv'
<1> DEFINE j == [op |-> "close", pc |-> "release", arena |-> a, source |-> arenas[a].source,
                 from |-> NoArena]
<1>1. /\ UNCHANGED <<baseFiles, metadata, current, arenas, handles, registry>>
      /\ jobs' = [jobs EXCEPT ![t] = j] /\ ~Busy(t) /\ ~Closing(a)
      /\ arenas[a] # NoArena /\ ~arenas[a].closed
  BY DEF CloseBegin, diskVars, Open
<1>2. j \in Job
  BY <1>1 DEF Job, ArenaInv, ArenaTypes, ArenaObject
<1>3. /\ jobs' \in [Thread -> Job \cup {NoJob}]
      /\ jobs'[t] = j /\ \A u \in Thread : u # t => jobs'[u] = jobs[u]
      /\ RegistryIsExact' /\ ArenasHaveHandles' /\ MappedWhileHeld'
  BY <1>1, <1>2, MappingsSame
<1>4. FilesComeFirst' /\ CurrentIsWhole'
  BY <1>1, <1>3 DEF ArenaInv, FilesComeFirst, GenerationsStayMapped, CurrentIsWhole, Busy, Whole
<1>5. JobsAreApart'
  BY <1>1, <1>3 DEF ArenaInv, JobsAreApart, IsClose, IsOpening, Busy, Closing
<1> QED
  BY <1>1, <1>3, <1>4, <1>5 DEF ArenaInv, ArenaTypes, GenerationsStayMapped

(* The three writes of a publication. *)
LEMMA PublishKeeps ==
    ASSUME ArenaInv, NEW t \in Thread, PublishBase(t) \/ PublishMetadata(t) \/ PublishCurrent(t)
    PROVE  ArenaInv'
<1>1. PICK pc \in {"metadata", "current", "open"} :
         /\ Goes(t, pc)
         /\ pc = "metadata" => jobs[t].pc = "base" /\ baseFiles' = baseFiles \cup {jobs[t].source}
                               /\ UNCHANGED <<metadata, current>>
         /\ pc = "current" => jobs[t].pc = "metadata" /\ metadata' = metadata \cup {jobs[t].source}
                              /\ UNCHANGED <<baseFiles, current>>
         /\ pc = "open" => jobs[t].pc = "current" /\ current' = jobs[t].source
                           /\ UNCHANGED <<baseFiles, metadata>>
  BY DEF PublishBase, PublishMetadata, PublishCurrent
<1>2. UNCHANGED <<arenas, handles, registry>> /\ Busy(t) /\ jobs[t] \in Job
  BY DEF PublishBase, PublishMetadata, PublishCurrent, Busy, ArenaInv, ArenaTypes
<1> DEFINE j == [jobs[t] EXCEPT !.pc = pc]
<1>3. /\ j \in Job /\ j.pc = pc /\ j.op = jobs[t].op /\ j.arena = jobs[t].arena
      /\ j.source = jobs[t].source /\ j.from = jobs[t].from
  BY <1>2 DEF Job
<1>4. jobs' = [jobs EXCEPT ![t] = j]
  BY <1>1 DEF Goes
<1> HIDE DEF j
<1>5. /\ jobs' \in [Thread -> Job \cup {NoJob}]
      /\ jobs'[t] = j /\ \A u \in Thread : u # t => jobs'[u] = jobs[u]
      /\ RegistryIsExact' /\ ArenasHaveHandles' /\ MappedWhileHeld'
  BY <1>1, <1>2, <1>3, <1>4, MappingsSame
<1>6. j # NoJob /\ jobs[t].op # "close"
  BY <1>1, <1>2, <1>3, ArenaAssumption DEF ArenaInv, JobsAreApart
<1>7. FilesComeFirst'
  BY <1>1, <1>2, <1>3, <1>5, <1>6 DEF ArenaInv, FilesComeFirst, Busy, Whole
<1>8. CurrentIsWhole'
  BY <1>1, <1>2, <1>3 DEF ArenaInv, FilesComeFirst, GenerationsStayMapped, CurrentIsWhole, Whole
<1>9. JobsAreApart'
  BY <1>1, <1>2, <1>3, <1>5, <1>6 DEF ArenaInv, JobsAreApart, IsClose, IsOpening, Busy
<1>10. current' \in Source \cup {NoSource}
  BY <1>1, <1>2 DEF ArenaInv, ArenaTypes, Job
<1> QED
  BY <1>2, <1>5, <1>7, <1>8, <1>9, <1>10 DEF ArenaInv, ArenaTypes, GenerationsStayMapped

(* An arena that is opened takes hold of the registered mapping, or of a new one. *)
LEMMA AcquireKeeps == ASSUME ArenaInv, NEW t \in Thread, Acquire(t) PROVE ArenaInv'
<1> DEFINE fresh == registry[jobs[t].source] = NoHandle
<1>0. PICK g, a, h : /\ g = jobs[t].source /\ a = jobs[t].arena
                     /\ h = IF fresh THEN Len(handles) + 1 ELSE registry[g]
  OBVIOUS
<1> DEFINE new == [source |-> g, handle |-> h, closed |-> FALSE, draining |-> FALSE]
           map == [source |-> g, refcount |-> 1, mapped |-> TRUE]
<1>1. /\ Busy(t) /\ jobs[t].pc = "open" /\ Whole(g)
      /\ handles' = IF fresh THEN Append(handles, map) ELSE [handles EXCEPT ![h].refcount = @ + 1]
      /\ registry' = [registry EXCEPT ![g] = h]
      /\ arenas' = [arenas EXCEPT ![a] = new]
      /\ UNCHANGED <<baseFiles, metadata, current>>
  BY <1>0 DEF Acquire, diskVars
<1>2. jobs[t] \in Job /\ g \in Source /\ a \in Opening /\ jobs[t].op # "close" /\ arenas[a] = NoArena
  BY <1>0, <1>1 DEF ArenaInv, ArenaTypes, JobsAreApart, Busy, Job
<1>4. /\ jobs' \in [Thread -> Job \cup {NoJob}]
      /\ \A u \in Thread : u # t => jobs'[u] = jobs[u]
      /\ jobs'[t] # NoJob => /\ jobs'[t].pc = "drain" /\ jobs'[t].op = jobs[t].op
                             /\ jobs'[t].arena = a /\ jobs'[t].from = jobs[t].from
                             /\ jobs[t].from # NoArena
  <2>1. CASE jobs[t].from = NoArena
    BY <2>1 DEF Acquire, Ends, ArenaInv, ArenaTypes
  <2>2. CASE jobs[t].from # NoArena
    <3>1. jobs' = [jobs EXCEPT ![t].pc = "drain"]
      BY <2>2 DEF Acquire, Goes
    <3> QED
      BY <1>0, <1>2, <2>2, <3>1 DEF ArenaInv, ArenaTypes, Job
  <2> QED
    BY <2>1, <2>2
<1>5. /\ handles \in Seq(Mapping) /\ map \in Mapping
      /\ ~fresh => h \in DOMAIN handles /\ handles[h].source = g /\ handles[h].mapped
      /\ fresh => h = Len(handles) + 1
      /\ fresh <=> registry[g] = NoHandle
      /\ ~fresh => h = registry[g]
  BY <1>0, <1>2 DEF ArenaInv, ArenaTypes, RegistryIsExact, Mapping
<1>6. h \in Nat \ {0}
  BY <1>5
<1> HIDE DEF fresh, map
<1>7. new \in ArenaObject /\ new # NoArena
  <2>1. new \in ArenaObject
    BY <1>2, <1>6 DEF ArenaObject
  <2> QED
    BY <2>1, ArenaAssumption
<1>8. /\ arenas' \in [Opening -> ArenaObject \cup {NoArena}] /\ arenas'[a] = new
      /\ \A b \in Opening : b # a => arenas'[b] = arenas[b]
  BY <1>1, <1>2, <1>7 DEF ArenaInv, ArenaTypes
<1>9. /\ registry' \in [Source -> Nat \cup {NoHandle}] /\ registry'[g] = h
      /\ \A f \in Source : f # g => registry'[f] = registry[f]
  BY <1>1, <1>2, <1>6 DEF ArenaInv, ArenaTypes
<1>10. /\ handles' \in Seq(Mapping) /\ h \in DOMAIN handles'
       /\ DOMAIN handles' = DOMAIN handles \cup {h}
       /\ \A k \in DOMAIN handles : k # h => handles'[k] = handles[k]
       /\ handles'[h].source = g /\ handles'[h].mapped
       /\ handles'[h].refcount = IF fresh THEN 1 ELSE handles[h].refcount + 1
       /\ fresh => h \notin DOMAIN handles
  <2>1. CASE fresh
    BY <1>1, <1>5, <2>1 DEF map
  <2>2. CASE ~fresh
    <3> DEFINE m == [handles[h] EXCEPT !.refcount = @ + 1]
    <3>1. h \in DOMAIN handles /\ handles[h] \in Mapping
      BY <1>5, <2>2
    <3>2. m \in Mapping /\ m.source = handles[h].source /\ m.mapped = handles[h].mapped
          /\ m.refcount = handles[h].refcount + 1
      BY <3>1 DEF Mapping
    <3>3. handles' = [handles EXCEPT ![h] = m]
      BY <1>1, <2>2
    <3> HIDE DEF m
    <3> QED
      <4>1. handles' \in Seq(Mapping) /\ DOMAIN handles' = DOMAIN handles
        BY <1>5, <3>1, <3>2, <3>3
      <4>2. handles'[h] = m /\ \A k \in DOMAIN handles : k # h => handles'[k] = handles[k]
        BY <1>5, <3>1, <3>3
      <4> QED
        BY <1>5, <2>2, <3>1, <3>2, <4>1, <4>2
  <2> QED
    BY <2>1, <2>2
<1>11. \A b \in Opening : Released(b)' <=> Released(b)
  BY <1>1, <1>4 DEF Released, Busy
<1>12. ~Released(a)
  BY <1>2 DEF ArenaInv, JobsAreApart, Released
<1>13. Holders(h)' = Holders(h) \cup {a} /\ \A k : k # h => Holders(k)' = Holders(k)
  <2>1. \A b \in Opening : b \in Holders(h)' <=> b \in Holders(h) \/ b = a
    BY <1>2, <1>7, <1>8, <1>11, <1>12 DEF Holders, Released
  <2>2. \A k : k # h => \A b \in Opening : b \in Holders(k)' <=> b \in Holders(k)
    BY <1>2, <1>7, <1>8, <1>11, <1>12 DEF Holders, Released
  <2>3. \A k : Holders(k) \subseteq Opening /\ Holders(k)' \subseteq Opening
    BY DEF Holders
  <2>4. Holders(h)' = Holders(h) \cup {a}
    BY <1>2, <2>1, <2>3
  <2>5. ASSUME NEW k, k # h PROVE Holders(k)' = Holders(k)
    BY <2>2, <2>3, <2>5
  <2> QED
    BY <2>4, <2>5
<1>14. a \notin Holders(h) /\ (fresh => Holders(h) = {})
  <2>1. a \notin Holders(h)
    BY <1>2 DEF Holders
  <2>2. \A b \in Opening : arenas[b] # NoArena => arenas[b].handle \in DOMAIN handles
    BY DEF ArenaInv, ArenasHaveHandles
  <2> QED
    BY <1>10, <2>1, <2>2 DEF Holders
<1>15. ArenasHaveHandles'
  <2>1. \A k \in DOMAIN handles : IsFiniteSet(Holders(k))
    BY DEF ArenaInv, ArenasHaveHandles
  <2>2. IsFiniteSet(Holders(h)')
    <3>1. IsFiniteSet(Holders(h))
      BY <1>5, <1>14, <2>1, FS_EmptySet
    <3> QED
      BY <1>13, <3>1, FS_AddElement
  <2>3. \A b \in Opening : arenas'[b] # NoArena => arenas'[b].handle \in DOMAIN handles'
    BY <1>8, <1>10 DEF ArenaInv, ArenasHaveHandles
  <2> QED
    BY <1>10, <1>13, <2>1, <2>2, <2>3 DEF ArenasHaveHandles
<1>16. MappedWhileHeld'
  <2> SUFFICES ASSUME NEW k \in DOMAIN handles'
               PROVE  /\ handles'[k].refcount = Cardinality(Holders(k)')
                      /\ handles'[k].mapped = (Holders(k)' # {})
                      /\ \A b \in Holders(k)' : arenas'[b].source = handles'[k].source
    BY DEF MappedWhileHeld
  <2>1. CASE k = h
    <3>1. handles'[h].refcount = Cardinality(Holders(h)')
      <4>1. CASE fresh
        <5>1. Holders(h)' = {a}
          BY <1>13, <1>14, <4>1
        <5>2. Cardinality(Holders(h)') = 1
          BY <5>1, FS_Singleton
        <5> QED
          BY <1>10, <4>1, <5>2
      <4>2. CASE ~fresh
        <5>1. h \in DOMAIN handles /\ IsFiniteSet(Holders(h))
          BY <1>5, <4>2 DEF ArenaInv, ArenasHaveHandles
        <5>2. handles[h].refcount = Cardinality(Holders(h))
          BY <5>1 DEF ArenaInv, GenerationsStayMapped, MappedWhileHeld
        <5>3. Cardinality(Holders(h) \cup {a}) = Cardinality(Holders(h)) + 1
          BY <1>14, <5>1, FS_AddElement
        <5> QED
          BY <1>10, <1>13, <4>2, <5>2, <5>3
      <4> QED
        BY <4>1, <4>2
    <3>2. \A b \in Holders(h)' : arenas'[b].source = g
      <4>1. \A b \in Holders(h) : arenas[b].source = g
        <5>1. CASE fresh
          BY <1>14, <5>1
        <5>2. CASE ~fresh
          BY <1>5, <5>2 DEF ArenaInv, GenerationsStayMapped, MappedWhileHeld
        <5> QED
          BY <5>1, <5>2
      <4>2. Holders(h) \subseteq Opening
        BY DEF Holders
      <4> QED
        BY <1>8, <1>13, <1>14, <4>1, <4>2
    <3>3. handles'[h].mapped = (Holders(h)' # {})
      <4>1. handles'[h].mapped = TRUE
        BY <1>10 DEF Mapping
      <4> QED
        BY <1>13, <4>1
    <3> QED
      BY <1>10, <2>1, <3>1, <3>2, <3>3
  <2>2. CASE k # h
    <3>1. k \in DOMAIN handles /\ handles'[k] = handles[k] /\ Holders(k)' = Holders(k)
      BY <1>10, <1>13, <2>2
    <3>2. a \notin Holders(k) /\ Holders(k) \subseteq Opening
      BY <1>2 DEF Holders
    <3> QED
      BY <1>8, <3>1, <3>2 DEF ArenaInv, GenerationsStayMapped, MappedWhileHeld
  <2> QED
    BY <2>1, <2>2
<1>17. RegistryIsExact'
  <2>1. ASSUME NEW f \in Source, registry'[f] # NoHandle
        PROVE  /\ registry'[f] \in DOMAIN handles'
               /\ handles'[registry'[f]].source = f /\ handles'[registry'[f]].mapped
    <3>1. CASE f = g
      BY <1>9, <1>10, <3>1
    <3>2. CASE f # g
      <4>1. registry'[f] = registry[f] /\ registry[f] \in DOMAIN handles
            /\ handles[registry[f]].source = f /\ handles[registry[f]].mapped
        BY <1>9, <2>1, <3>2 DEF ArenaInv, RegistryIsExact
      <4>2. registry[f] # h
        BY <1>5, <1>10, <3>2, <4>1
      <4> QED
        BY <1>10, <4>1, <4>2
    <3> QED
      BY <3>1, <3>2
  <2>2. ASSUME NEW k \in DOMAIN handles', handles'[k].mapped
        PROVE  registry'[handles'[k].source] = k
    <3>1. CASE k = h
      BY <1>9, <1>10, <3>1
    <3>2. CASE k # h
      <4>1. k \in DOMAIN handles /\ handles'[k] = handles[k] /\ handles[k].mapped
        BY <1>10, <2>2, <3>2
      <4>2. registry[handles[k].source] = k /\ handles[k].source \in Source
        <5>1. handles[k] \in Mapping
          BY <1>5, <4>1
        <5> QED
          BY <4>1, <5>1 DEF ArenaInv, RegistryIsExact, Mapping
      <4>3. k # NoHandle
        BY <1>5, <4>1, ArenaAssumption
      <4>4. handles[k].source # g
        BY <1>5, <3>2, <4>2, <4>3
      <4> QED
        BY <1>9, <4>1, <4>2, <4>4
    <3> QED
      BY <3>1, <3>2
  <2> QED
    BY <2>1, <2>2 DEF RegistryIsExact
<1>18. FilesComeFirst'
  BY <1>1, <1>4 DEF ArenaInv, FilesComeFirst, Busy, Whole
<1>19. JobsAreApart'
  <2>1. \A u \in Thread : u # t /\ IsOpening(u) => jobs[u].arena # a
    BY <1>0, <1>1, <1>2 DEF ArenaInv, JobsAreApart, IsOpening
  <2>2. \A u \in Thread : IsClose(u) => jobs[u].arena # a
    BY <1>2 DEF ArenaInv, JobsAreApart, IsClose
  <2>3. \A b \in Opening : arenas[b] # NoArena => arenas'[b] = arenas[b]
    BY <1>2, <1>8
  <2>4. \A u \in Thread : Busy(u) => jobs[u].arena \in Opening /\ jobs[u].from \in Opening \cup {NoArena}
    BY DEF ArenaInv, ArenaTypes, Busy, Job
  <2> QED
    BY <1>1, <1>2, <1>4, <1>8, <2>1, <2>2, <2>3, <2>4 DEF ArenaInv, JobsAreApart, IsClose, IsOpening, Busy
<1> QED
  BY <1>1, <1>4, <1>8, <1>9, <1>10, <1>15, <1>16, <1>17, <1>18, <1>19
     DEF ArenaInv, ArenaTypes, GenerationsStayMapped, CurrentIsWhole, Whole

(* The older arena of a refresh is marked; nobody loses its mapping. *)
LEMMA DrainKeeps == ASSUME ArenaInv, NEW t \in Thread, Drain(t) PROVE ArenaInv'
<1>1. /\ Busy(t) /\ jobs[t].pc = "drain" /\ jobs' = [jobs EXCEPT ![t] = NoJob]
      /\ arenas' = [arenas EXCEPT ![jobs[t].from].draining = TRUE]
      /\ UNCHANGED <<baseFiles, metadata, current, handles, registry>>
  BY DEF Drain, Ends, diskVars
<1>2. PICK b \in Opening : b = jobs[t].from
  BY <1>1 DEF ArenaInv, ArenaTypes, JobsAreApart, Busy, Job
<1>3. arenas[b] \in ArenaObject
  BY <1>1, <1>2 DEF ArenaInv, ArenaTypes, JobsAreApart, Busy
<1> DEFINE new == [arenas[b] EXCEPT !.draining = TRUE]
<1>4. /\ new \in ArenaObject /\ new.source = arenas[b].source /\ new.handle = arenas[b].handle
      /\ new.closed = arenas[b].closed
  BY <1>3 DEF ArenaObject
<1>5. arenas' = [arenas EXCEPT ![b] = new]
  BY <1>1, <1>2
<1> HIDE DEF new
<1>6. NoArena \notin ArenaObject
  BY ArenaAssumption
<1>7. /\ arenas' \in [Opening -> ArenaObject \cup {NoArena}]
      /\ \A a \in Opening : /\ arenas'[a] = NoArena <=> arenas[a] = NoArena
                            /\ arenas[a] # NoArena => /\ arenas'[a].source = arenas[a].source
                                                      /\ arenas'[a].handle = arenas[a].handle
                                                      /\ arenas'[a].closed = arenas[a].closed
  BY <1>3, <1>4, <1>5, <1>6 DEF ArenaInv, ArenaTypes
<1>8. /\ jobs' \in [Thread -> Job \cup {NoJob}] /\ jobs'[t] = NoJob
      /\ \A u \in Thread : u # t => jobs'[u] = jobs[u]
  BY <1>1 DEF ArenaInv, ArenaTypes
<1>9. \A u \in Thread : Busy(u)' => Busy(u) /\ jobs'[u] = jobs[u] /\ jobs[u] \in Job
  BY <1>8 DEF Busy, ArenaInv, ArenaTypes
<1>10. \A a \in Opening : Released(a)' <=> Released(a)
  BY <1>1, <1>8 DEF Released, Busy
<1>11. \A h : Holders(h)' = Holders(h)
  BY <1>7, <1>10 DEF Holders, Released
<1>12. RegistryIsExact'
  BY <1>1 DEF ArenaInv, RegistryIsExact
<1>13. ArenasHaveHandles'
  BY <1>1, <1>7, <1>11 DEF ArenaInv, ArenasHaveHandles
<1>14. MappedWhileHeld'
  <2>1. \A h : \A a \in Holders(h) : a \in Opening /\ arenas'[a].source = arenas[a].source
    BY <1>7 DEF Holders
  <2> QED
    BY <1>1, <1>11, <2>1 DEF ArenaInv, GenerationsStayMapped, MappedWhileHeld
<1>15. FilesComeFirst' /\ CurrentIsWhole'
  BY <1>1, <1>9 DEF ArenaInv, FilesComeFirst, GenerationsStayMapped, CurrentIsWhole, Whole
<1>16. JobsAreApart'
  <2>1. \A u \in Thread : Busy(u)' => jobs[u].arena \in Opening /\ jobs[u].from \in Opening \cup {NoArena}
    BY <1>9 DEF Job
  <2> QED
    BY <1>7, <1>9, <2>1 DEF ArenaInv, JobsAreApart, IsClose, IsOpening
<1> QED
  BY <1>1, <1>7, <1>8, <1>12, <1>13, <1>14, <1>15, <1>16 DEF ArenaInv, ArenaTypes, GenerationsStayMapped

(* The last holder unmaps and unregisters what it held. *)
LEMMA CloseReleaseKeeps == ASSUME ArenaInv, NEW t \in Thread, CloseRelease(t) PROVE ArenaInv'
<1>1. Busy(t) /\ jobs[t].pc = "release" /\ jobs[t] \in Job /\ jobs[t].op = "close"
  BY DEF CloseRelease, Busy, ArenaInv, ArenaTypes, JobsAreApart
<1>2. PICK a \in Opening, g \in Source :
         /\ a = jobs[t].arena /\ g = jobs[t].source
         /\ arenas[a] \in ArenaObject /\ ~arenas[a].closed /\ arenas[a].source = g
  BY <1>1 DEF ArenaInv, ArenaTypes, JobsAreApart, Job
<1>3. PICK h \in DOMAIN handles : h = arenas[a].handle
  BY <1>2, ArenaAssumption DEF ArenaInv, ArenasHaveHandles
<1> DEFINE last == handles[h].refcount = 1
           m == [handles[h] EXCEPT !.refcount = @ - 1, !.mapped = ~last]
           j == [jobs[t] EXCEPT !.pc = "closed"]
<1>4. /\ handles' = [handles EXCEPT ![h] = m]
      /\ registry' = IF last THEN [registry EXCEPT ![g] = NoHandle] ELSE registry
      /\ jobs' = [jobs EXCEPT ![t] = j]
      /\ UNCHANGED <<baseFiles, metadata, current, arenas>>
  BY <1>2, <1>3 DEF CloseRelease, Goes, diskVars
<1>5. handles \in Seq(Mapping) /\ handles[h] \in Mapping
  BY <1>3 DEF ArenaInv, ArenaTypes
<1>6. /\ m \in Mapping /\ m.source = handles[h].source /\ m.refcount = handles[h].refcount - 1
      /\ m.mapped = ~last
  <2>1. PICK still \in BOOLEAN : still = ~last
    OBVIOUS
  <2>2. PICK r \in Mapping : r = handles[h]
    BY <1>5
  <2>3. PICK n \in Int : n = r.refcount - 1
    BY <2>2 DEF Mapping
  <2>4. m = [r EXCEPT !.refcount = n, !.mapped = still]
    BY <2>1, <2>2, <2>3
  <2> HIDE DEF m, last
  <2>5. m \in Mapping /\ m.source = r.source /\ m.refcount = n /\ m.mapped = still
    BY <2>4 DEF Mapping
  <2> QED
    BY <2>1, <2>2, <2>3, <2>5
<1>7. /\ j \in Job /\ j.pc = "closed" /\ j.op = "close" /\ j.arena = a /\ j.source = g
      /\ j.from = jobs[t].from
  BY <1>1, <1>2 DEF Job
<1> HIDE DEF m, j, last
<1>8. /\ handles' \in Seq(Mapping) /\ DOMAIN handles' = DOMAIN handles /\ handles'[h] = m
      /\ \A k \in DOMAIN handles : k # h => handles'[k] = handles[k]
  BY <1>3, <1>4, <1>5, <1>6
<1>9. /\ jobs' \in [Thread -> Job \cup {NoJob}] /\ jobs'[t] = j
      /\ \A u \in Thread : u # t => jobs'[u] = jobs[u]
  BY <1>4, <1>7 DEF ArenaInv, ArenaTypes
<1>10. j # NoJob
  BY <1>7, ArenaAssumption
<1>11. \A u \in Thread : Busy(u)' <=> Busy(u)
  BY <1>1, <1>9, <1>10 DEF Busy
<1>12. ~Released(a)
  BY <1>1, <1>2 DEF ArenaInv, JobsAreApart, Released, IsClose
<1>13. Released(a)' /\ \A b \in Opening : b # a => (Released(b)' <=> Released(b))
  BY <1>1, <1>2, <1>7, <1>9, <1>10 DEF Released, Busy
<1>14. a \in Holders(h) /\ Holders(h)' = Holders(h) \ {a} /\ \A k : k # h => Holders(k)' = Holders(k)
  <2>1. arenas[a] # NoArena
    BY <1>2, ArenaAssumption
  <2>2. a \in Holders(h) /\ a \notin Holders(h)'
    BY <1>2, <1>3, <1>12, <1>13, <2>1 DEF Holders, Released
  <2>3. \A k : \A b \in Opening : b # a => (b \in Holders(k)' <=> b \in Holders(k))
    BY <1>4, <1>13 DEF Holders, Released
  <2>4. \A k : k # h => a \notin Holders(k)' /\ a \notin Holders(k)
    BY <1>3, <1>4 DEF Holders
  <2>5. \A k : Holders(k) \subseteq Opening /\ Holders(k)' \subseteq Opening
    BY DEF Holders
  <2>6. Holders(h)' = Holders(h) \ {a}
    BY <2>2, <2>3, <2>5
  <2>7. ASSUME NEW k, k # h PROVE Holders(k)' = Holders(k)
    BY <2>3, <2>4, <2>5, <2>7
  <2> QED
    BY <2>2, <2>6, <2>7
<1>15. IsFiniteSet(Holders(h)) /\ handles[h].refcount = Cardinality(Holders(h)) /\ handles[h].source = g
  BY <1>2, <1>3, <1>14 DEF ArenaInv, ArenasHaveHandles, GenerationsStayMapped, MappedWhileHeld
<1>16. /\ IsFiniteSet(Holders(h)') /\ Cardinality(Holders(h)') = Cardinality(Holders(h)) - 1
       /\ last <=> Holders(h)' = {}
  <2>1. IsFiniteSet(Holders(h)') /\ Cardinality(Holders(h)') = Cardinality(Holders(h)) - 1
    BY <1>14, <1>15, FS_RemoveElement
  <2>2. Cardinality(Holders(h)) \in Nat
    BY <1>15, FS_CardinalityType
  <2>3. Holders(h)' = {} <=> Cardinality(Holders(h)') = 0
    BY <2>1, FS_EmptySet
  <2> QED
    BY <1>15, <2>1, <2>2, <2>3 DEF last
<1>17. ArenasHaveHandles'
  BY <1>4, <1>8, <1>14, <1>16 DEF ArenaInv, ArenasHaveHandles
<1>18. MappedWhileHeld'
  <2> SUFFICES ASSUME NEW k \in DOMAIN handles
               PROVE  /\ handles'[k].refcount = Cardinality(Holders(k)')
                      /\ handles'[k].mapped = (Holders(k)' # {})
                      /\ \A b \in Holders(k)' : arenas[b].source = handles'[k].source
    BY <1>4, <1>8 DEF MappedWhileHeld
  <2>1. CASE k = h
    <3>1. \A b \in Holders(h)' : arenas[b].source = g
      BY <1>14, <1>15 DEF ArenaInv, GenerationsStayMapped, MappedWhileHeld
    <3> QED
      BY <1>6, <1>8, <1>15, <1>16, <2>1, <3>1
  <2>2. CASE k # h
    BY <1>8, <1>14, <2>2 DEF ArenaInv, GenerationsStayMapped, MappedWhileHeld
  <2> QED
    BY <2>1, <2>2
<1>19. RegistryIsExact' /\ registry' \in [Source -> Nat \cup {NoHandle}]
  <2>1. registry \in [Source -> Nat \cup {NoHandle}]
    BY DEF ArenaInv, ArenaTypes
  <2>2. handles[h].mapped /\ registry[g] = h
    BY <1>3, <1>14, <1>15 DEF ArenaInv, GenerationsStayMapped, MappedWhileHeld, RegistryIsExact
  <2>3. CASE last
    <3>1. registry' = [registry EXCEPT ![g] = NoHandle]
      BY <1>4, <2>3
    <3>2. ASSUME NEW f \in Source, registry'[f] # NoHandle
          PROVE  /\ registry'[f] \in DOMAIN handles
                 /\ handles'[registry'[f]].source = f /\ handles'[registry'[f]].mapped
      <4>1. f # g /\ registry'[f] = registry[f]
        BY <2>1, <3>1, <3>2
      <4>2. registry[f] \in DOMAIN handles /\ handles[registry[f]].source = f /\ handles[registry[f]].mapped
        BY <3>2, <4>1 DEF ArenaInv, RegistryIsExact
      <4>3. registry[f] # h
        BY <1>15, <4>1, <4>2
      <4> QED
        BY <1>8, <4>1, <4>2, <4>3
    <3>3. ASSUME NEW k \in DOMAIN handles, handles'[k].mapped
          PROVE  registry'[handles'[k].source] = k
      <4>1. k # h
        BY <1>6, <1>8, <2>3, <3>3
      <4>2. handles'[k] = handles[k] /\ handles[k] \in Mapping
        BY <1>5, <1>8, <4>1
      <4>3. registry[handles[k].source] = k /\ handles[k].source \in Source
        BY <3>3, <4>2 DEF ArenaInv, RegistryIsExact, Mapping
      <4>4. handles[k].source # g
        BY <2>2, <4>1, <4>3
      <4> QED
        BY <2>1, <3>1, <4>2, <4>3, <4>4
    <3> QED
      BY <1>8, <2>1, <3>1, <3>2, <3>3 DEF RegistryIsExact
  <2>4. CASE ~last
    <3>1. registry' = registry
      BY <1>4, <2>4
    <3>2. /\ \A k \in DOMAIN handles : handles'[k].source = handles[k].source
          /\ \A k \in DOMAIN handles : handles'[k].mapped <=> handles[k].mapped
      BY <1>6, <1>8, <2>2, <2>4
    <3> QED
      BY <1>8, <2>1, <3>1, <3>2 DEF ArenaInv, RegistryIsExact
  <2> QED
    BY <2>3, <2>4
<1>20. FilesComeFirst' /\ CurrentIsWhole'
  BY <1>4, <1>7, <1>9, <1>11 DEF ArenaInv, FilesComeFirst, GenerationsStayMapped, CurrentIsWhole, Whole
<1>21. JobsAreApart'
  BY <1>1, <1>2, <1>4, <1>7, <1>9, <1>11 DEF ArenaInv, JobsAreApart, IsClose, IsOpening
<1> QED
  BY <1>4, <1>8, <1>9, <1>17, <1>18, <1>19, <1>20, <1>21 DEF ArenaInv, ArenaTypes, GenerationsStayMapped

(* A closed arena held nothing any more. *)
LEMMA CloseEndKeeps == ASSUME ArenaInv, NEW t \in Thread, CloseEnd(t) PROVE ArenaInv'
<1>1. /\ Busy(t) /\ jobs[t].pc = "closed" /\ jobs' = [jobs EXCEPT ![t] = NoJob]
      /\ arenas' = [arenas EXCEPT ![jobs[t].arena].closed = TRUE]
      /\ UNCHANGED <<baseFiles, metadata, current, handles, registry>>
  BY DEF CloseEnd, Ends, diskVars
<1>2. PICK b \in Opening : b = jobs[t].arena
  BY <1>1 DEF ArenaInv, ArenaTypes, Busy, Job
<1>3. jobs[t].op = "close" /\ arenas[b] \in ArenaObject
  BY <1>1, <1>2 DEF ArenaInv, ArenaTypes, JobsAreApart, Busy
<1> DEFINE new == [arenas[b] EXCEPT !.closed = TRUE]
<1>4. /\ new \in ArenaObject /\ new.source = arenas[b].source /\ new.handle = arenas[b].handle
      /\ new.closed
  BY <1>3 DEF ArenaObject
<1>5. arenas' = [arenas EXCEPT ![b] = new]
  BY <1>1, <1>2
<1> HIDE DEF new
<1>6. NoArena \notin ArenaObject
  BY ArenaAssumption
<1>7. /\ arenas' \in [Opening -> ArenaObject \cup {NoArena}] /\ arenas'[b].closed
      /\ \A a \in Opening : /\ arenas'[a] = NoArena <=> arenas[a] = NoArena
                            /\ a # b => arenas'[a] = arenas[a]
                            /\ arenas[a] # NoArena => /\ arenas'[a].source = arenas[a].source
                                                      /\ arenas'[a].handle = arenas[a].handle
  BY <1>3, <1>4, <1>5, <1>6 DEF ArenaInv, ArenaTypes
<1>8. /\ jobs' \in [Thread -> Job \cup {NoJob}] /\ jobs'[t] = NoJob
      /\ \A u \in Thread : u # t => jobs'[u] = jobs[u]
  BY <1>1 DEF ArenaInv, ArenaTypes
<1>9. \A u \in Thread : Busy(u)' => Busy(u) /\ u # t /\ jobs'[u] = jobs[u] /\ jobs[u] \in Job
  BY <1>8 DEF Busy, ArenaInv, ArenaTypes
<1>10. Released(b) /\ \A a \in Opening : a # b => (Released(a)' <=> Released(a))
  BY <1>1, <1>2, <1>8 DEF Released, Busy
<1>11. ASSUME NEW h PROVE Holders(h)' = Holders(h)
  <2>1. b \notin Holders(h) /\ b \notin Holders(h)'
    BY <1>7, <1>10 DEF Holders, Released
  <2>2. \A a \in Opening : a # b => (a \in Holders(h)' <=> a \in Holders(h))
    BY <1>7, <1>10 DEF Holders, Released
  <2>3. Holders(h) \subseteq Opening /\ Holders(h)' \subseteq Opening
    BY DEF Holders
  <2> QED
    BY <2>1, <2>2, <2>3
<1>12. RegistryIsExact'
  BY <1>1 DEF ArenaInv, RegistryIsExact
<1>13. ArenasHaveHandles'
  BY <1>1, <1>7, <1>11 DEF ArenaInv, ArenasHaveHandles
<1>14. MappedWhileHeld'
  <2>1. \A h : \A a \in Holders(h) : a \in Opening /\ arenas'[a].source = arenas[a].source
    BY <1>7 DEF Holders
  <2> QED
    BY <1>1, <1>11, <2>1 DEF ArenaInv, GenerationsStayMapped, MappedWhileHeld
<1>15. FilesComeFirst' /\ CurrentIsWhole'
  BY <1>1, <1>9 DEF ArenaInv, FilesComeFirst, GenerationsStayMapped, CurrentIsWhole, Whole
<1>16. JobsAreApart'
  <2>1. \A u \in Thread : Busy(u)' => /\ jobs[u].arena \in Opening
                                      /\ jobs[u].from \in Opening \cup {NoArena}
                                      /\ jobs[u].op = "close" => jobs[u].arena # b
    BY <1>1, <1>2, <1>3, <1>9 DEF Job, ArenaInv, JobsAreApart, IsClose
  <2> QED
    BY <1>7, <1>9, <2>1 DEF ArenaInv, JobsAreApart, IsClose, IsOpening
<1> QED
  BY <1>1, <1>7, <1>8, <1>12, <1>13, <1>14, <1>15, <1>16 DEF ArenaInv, ArenaTypes, GenerationsStayMapped

(* What is left of a process that died is a generation that can be opened. *)
LEMMA ArenaCrashKeeps == ASSUME ArenaInv, ArenaCrash PROVE ArenaInv'
<1>1. /\ arenas' = [a \in Opening |-> NoArena] /\ handles' = << >>
      /\ registry' = [g \in Source |-> NoHandle] /\ jobs' = [t \in Thread |-> NoJob]
      /\ UNCHANGED <<baseFiles, metadata, current>>
  BY DEF ArenaCrash, diskVars
<1>2. ArenaTypes'
  BY <1>1 DEF ArenaInv, ArenaTypes
<1>3. \A t \in Thread : ~Busy(t)'
  BY <1>1 DEF Busy
<1>4. FilesComeFirst' /\ JobsAreApart'
  BY <1>3 DEF FilesComeFirst, JobsAreApart
<1>5. RegistryIsExact' /\ ArenasHaveHandles' /\ MappedWhileHeld'
  BY <1>1 DEF RegistryIsExact, ArenasHaveHandles, MappedWhileHeld
<1>6. CurrentIsWhole'
  BY <1>1 DEF ArenaInv, GenerationsStayMapped, CurrentIsWhole, Whole
<1> QED
  BY <1>2, <1>4, <1>5, <1>6 DEF ArenaInv, GenerationsStayMapped

LEMMA ArenaNextInv == ArenaInv /\ [ArenaNext]_arenaVars => ArenaInv'
<1> SUFFICES ASSUME ArenaInv, [ArenaNext]_arenaVars PROVE ArenaInv'
  OBVIOUS
<1>1. CASE \E t \in Thread : PublishBase(t) \/ PublishMetadata(t) \/ PublishCurrent(t)
  BY <1>1, PublishKeeps
<1>2. CASE \E t \in Thread : Acquire(t) \/ Drain(t)
  BY <1>2, AcquireKeeps, DrainKeeps
<1>3. CASE \E t \in Thread : CloseRelease(t) \/ CloseEnd(t)
  BY <1>3, CloseReleaseKeeps, CloseEndKeeps
<1>4. CASE \E t \in Thread, a \in Opening, g \in Source, from \in Opening \cup {NoArena} :
              PublishBegin(t, a, g, from)
  BY <1>4, PublishBeginKeeps
<1>5. CASE \E t \in Thread, a \in Opening : OpenCurrent(t, a) \/ CloseBegin(t, a)
  BY <1>5, OpenCurrentKeeps, CloseBeginKeeps
<1>6. CASE ArenaCrash
  BY <1>6, ArenaCrashKeeps
<1>7. CASE UNCHANGED arenaVars
  <2>1. UNCHANGED <<baseFiles, metadata, current, arenas, handles, registry, jobs>>
    BY <1>7 DEF arenaVars
  <2>2. \A h : Holders(h)' = Holders(h)
    BY <2>1 DEF Holders, Busy
  <2> QED
    BY <2>1, <2>2 DEF ArenaInv, ArenaTypes, FilesComeFirst, JobsAreApart, RegistryIsExact, ArenasHaveHandles,
       GenerationsStayMapped, CurrentIsWhole, MappedWhileHeld, Busy, Whole, IsClose, IsOpening
<1> QED
  BY <1>1, <1>2, <1>3, <1>4, <1>5, <1>6, <1>7 DEF ArenaNext, ArenaStep

(* The generation that current.hbp names can always be opened, and an arena's mapping is
   its own generation's and open until its own close releases it, with as many references
   as arenas hold it, however threads publish, open, refresh, close and crash in between
   (publish, _acquire_handle, refresh and close of prism_arena.py). *)
THEOREM ArenasStayMapped == ArenaSpec => []GenerationsStayMapped
<1>1. ArenaInv => GenerationsStayMapped
  BY DEF ArenaInv
<1> QED
  BY <1>1, ArenaInitInv, ArenaNextInv, PTL DEF ArenaSpec

----------------------------------------------------------------------------
(* The generation store *)

StoreInv == pins = [k \in DOMAIN pins |-> pins[k]] /\ StoreIsSound

LEMMA PinKeeps ==
    ASSUME StoreInv, NEW g \in Gen, NEW a \in Attempt, NEW f \in Fence, Pin(g, a, f)
    PROVE  StoreInv'
<1> DEFINE key == <<g, a, f>>
<1>1. /\ g \in gens /\ gens' = gens /\ laid' = laid
      /\ pins' = [k \in DOMAIN pins \cup {key} |-> IF k = key THEN "live" ELSE pins[k]]
  BY DEF Pin
<1>2. key[1] = g
  OBVIOUS
<1> HIDE DEF key
<1>3. \A k \in LivePins' : k = key \/ k \in LivePins
  BY <1>1 DEF LivePins
<1>4. PinKeepsGeneration'
  BY <1>1, <1>2, <1>3 DEF StoreInv, StoreIsSound, PinKeepsGeneration
<1> QED
  BY <1>1, <1>4 DEF StoreInv, StoreIsSound, RecreatedIsClean

LEMMA PinExpiresKeeps == ASSUME StoreInv, NEW k \in DOMAIN pins, PinExpires(k) PROVE StoreInv'
<1>1. pins' = [pins EXCEPT ![k] = "expired"] /\ UNCHANGED <<gens, laid>>
  BY DEF PinExpires
<1>2. LivePins' \subseteq LivePins
  BY <1>1 DEF LivePins, StoreInv
<1> QED
  BY <1>1, <1>2 DEF StoreInv, StoreIsSound, PinKeepsGeneration, RecreatedIsClean

LEMMA WriteKeeps ==
    ASSUME StoreInv, NEW g \in Gen, NEW lane \in Lane, NEW f \in Fence, NEW item \in Item,
           NEW datum \in Datum \cup {Tombstone}, Write(g, lane, f, item, datum)
    PROVE  StoreInv'
<1>1. g \in gens /\ UNCHANGED <<gens, pins>>
  BY DEF Write, StoreInv, StoreIsSound, PinKeepsGeneration
<1>2. laid' \subseteq laid \cup {<<g, lane, f, item, datum>>}
  BY DEF Write
<1>3. RecreatedIsClean'
  BY <1>1, <1>2 DEF StoreInv, StoreIsSound, RecreatedIsClean
<1> QED
  BY <1>1, <1>3 DEF StoreInv, StoreIsSound, PinKeepsGeneration, LivePins

LEMMA GcKeeps == ASSUME StoreInv, Gc PROVE StoreInv'
<1> DEFINE kept == {k[1] : k \in LivePins}
<1>1. gens' = gens \cap kept /\ laid' = {w \in laid : w[1] \notin gens \/ w[1] \in kept} /\ pins' = pins
  BY DEF Gc
<1>2. PinKeepsGeneration'
  BY <1>1 DEF StoreInv, StoreIsSound, PinKeepsGeneration, LivePins
<1>3. RecreatedIsClean'
  BY <1>1 DEF StoreInv, StoreIsSound, RecreatedIsClean
<1> QED
  BY <1>1, <1>2, <1>3 DEF StoreInv, StoreIsSound

(* No live pin loses its generation and no write outlives one, although pins and fences
   survive the collection that removed it (pin, write, tombstone and gc of
   generation_store.py). *)
THEOREM StoreSound == StoreSpec => []StoreIsSound
<1>1. StoreInit => StoreInv
  BY DEF StoreInit, StoreInv, StoreIsSound, PinKeepsGeneration, RecreatedIsClean, LivePins
<1>2. StoreInv /\ [StoreNext]_storeVars => StoreInv'
  <2> SUFFICES ASSUME StoreInv, [StoreNext]_storeVars PROVE StoreInv'
    OBVIOUS
  <2>1. CASE \E g \in Gen : Create(g)
    BY <2>1 DEF Create, StoreInv, StoreIsSound, PinKeepsGeneration, RecreatedIsClean, LivePins
  <2>2. CASE \E g \in Gen, a \in Attempt, f \in Fence : Pin(g, a, f)
    BY <2>2, PinKeeps
  <2>3. CASE \E k \in DOMAIN pins : PinExpires(k)
    BY <2>3, PinExpiresKeeps
  <2>4. CASE \E g \in Gen, lane \in Lane, f \in Fence, item \in Item, datum \in Datum \cup {Tombstone} :
                Write(g, lane, f, item, datum)
    BY <2>4, WriteKeeps
  <2>5. CASE UNCHANGED storeVars
    BY <2>5 DEF storeVars, StoreInv, StoreIsSound, PinKeepsGeneration, RecreatedIsClean, LivePins
  <2> QED
    BY <2>1, <2>2, <2>3, <2>4, <2>5, GcKeeps DEF StoreNext
<1>3. StoreInv => StoreIsSound
  BY DEF StoreInv
<1> QED
  BY <1>1, <1>2, <1>3, PTL DEF StoreSpec

----------------------------------------------------------------------------
(* The slot executor *)

(* Min of a set of numbers is one of its elements. *)
LEMMA MinIsElement == ASSUME NEW S \in SUBSET Nat, S # {} PROVE Min(S) \in S
<1> DEFINE R == OpToRel(<, Nat)
<1>1. IsWellFoundedOn(R, Nat)
  BY NatLessThanWellFounded, Zenon
<1>2. ASSUME NEW x \in Nat, NEW y \in Nat, x < y PROVE <<x, y>> \in R
  BY <1>2 DEF OpToRel
<1> HIDE DEF R
<1>3. PICK x \in S : \A y \in S : <<y, x>> \notin R
  BY <1>1, WFMin
<1>4. ASSUME NEW y \in S PROVE x <= y
  <2>1. x \in Nat /\ y \in Nat /\ ~(y < x)
    BY <1>2, <1>3, Zenon
  <2> QED
    BY <2>1
<1> QED
  BY <1>4 DEF Min

SlotTypes ==
    /\ work \in [Worker -> Snapshotting \cup Writing \cup {NoWork}]
    /\ receipts \subseteq Envelope
    /\ written \in [OverlayDirs -> SUBSET (Nat \X Envelope)]

WritesItself(w) == work[w] \in Writing
Has(e, files, disk) == files \X {e} \subseteq disk[OverlayOf[e]]
Empty(e, f, disk) == disk[OverlayOf[e]] \cap ({f} \X Envelope) = {}
NobodyElse(e, w, at) == \A v \in Worker : at[v] \in Writing /\ Shares(at[v].envelope, e) => v = w

(* Unless its envelope clashed, a thread that writes is the only one that writes its files,
   its receipt is not there yet, the files it has done are whole and the one it is at is empty. *)
WritersAreApart ==
    \A w \in Worker : WritesItself(w) =>
        LET e == work[w].envelope IN
        /\ work[w].left \subseteq Writes[e]
        /\ work[w].pc = "fill" => work[w].left # {}
        /\ e \notin clashed => e \notin receipts /\ Has(e, Writes[e] \ work[w].left, written) /\ NobodyElse(e, w, work)
        /\ e \notin clashed /\ work[w].pc = "fill" => Empty(e, Min(work[w].left), written)

(* No thread writes the files of a receipt that did not clash. *)
ReceiptsAreApart ==
    \A e \in receipts \ clashed, w \in Worker : WritesItself(w) => ~Shares(work[w].envelope, e)

ObjectComesFirst == \A w \in Worker : Doing(w, "metadata") => object = "whole"

SlotInv == SlotTypes /\ WritersAreApart /\ ReceiptsAreApart /\ ObjectComesFirst /\ SlotsAreSound

LEMMA KindsOfWork ==
    /\ \A x \in Snapshotting : x.pc \in {"snapshot", "metadata"} /\ x \notin Writing /\ x # NoWork
    /\ \A x \in Writing : /\ x.pc \in {"write", "fill"} /\ x \notin Snapshotting /\ x # NoWork
                          /\ x.envelope \in Envelope /\ x.left \in SUBSET Nat /\ x.done \in Nat
    /\ NoWork \notin Snapshotting /\ NoWork \notin Writing
BY SlotAssumption DEF Snapshotting, Writing

LEMMA SharesBoth ==
    /\ \A d, e : Shares(d, e) => Shares(e, d)
    /\ \A e : Shares(e, e)
BY DEF Shares

(* A step that only gives one thread another task that writes nothing. *)
LEMMA OtherTask ==
    ASSUME SlotInv, NEW w \in Worker, NEW x \in Snapshotting \cup {NoWork},
           work' = [work EXCEPT ![w] = x], UNCHANGED <<receipts, written, clashed>>
    PROVE  SlotTypes' /\ WritersAreApart' /\ ReceiptsAreApart' /\ VerifiedIsWritten'
<1>1. /\ work' \in [Worker -> Snapshotting \cup Writing \cup {NoWork}] /\ work'[w] = x
      /\ \A v \in Worker : v # w => work'[v] = work[v]
  BY DEF SlotInv, SlotTypes
<1>2. SlotTypes' /\ VerifiedIsWritten'
  BY <1>1 DEF SlotInv, SlotTypes, SlotsAreSound, VerifiedIsWritten, IsWritten
<1>3. \A v \in Worker : WritesItself(v)' => v # w /\ WritesItself(v) /\ work'[v] = work[v]
  BY <1>1, KindsOfWork DEF WritesItself
<1>4. \A e, v : NobodyElse(e, v, work) => NobodyElse(e, v, work')
  BY <1>3 DEF NobodyElse, WritesItself, Shares
<1>5. WritersAreApart'
  <2> SUFFICES ASSUME NEW v \in Worker, WritesItself(v)'
               PROVE  LET e == work'[v].envelope IN
                      /\ work'[v].left \subseteq Writes[e]
                      /\ work'[v].pc = "fill" => work'[v].left # {}
                      /\ e \notin clashed => /\ e \notin receipts /\ Has(e, Writes[e] \ work'[v].left, written)
                                           /\ NobodyElse(e, v, work')
                      /\ e \notin clashed /\ work'[v].pc = "fill" => Empty(e, Min(work'[v].left), written)
    BY DEF WritersAreApart
  <2>1. WritesItself(v) /\ work'[v] = work[v]
    BY <1>3
  <2>2. LET e == work[v].envelope IN
        /\ work[v].left \subseteq Writes[e]
        /\ work[v].pc = "fill" => work[v].left # {}
        /\ e \notin clashed => /\ e \notin receipts /\ Has(e, Writes[e] \ work[v].left, written)
                             /\ NobodyElse(e, v, work)
        /\ e \notin clashed /\ work[v].pc = "fill" => Empty(e, Min(work[v].left), written)
    BY <2>1 DEF SlotInv, WritersAreApart
  <2> QED
    BY <1>4, <2>1, <2>2
<1>6. ReceiptsAreApart'
  BY <1>3 DEF SlotInv, ReceiptsAreApart, Shares
<1> QED
  BY <1>2, <1>5, <1>6

LEMMA SnapshotKeeps ==
    ASSUME SlotInv, NEW w \in Worker, SnapshotBegin(w) \/ SnapshotObject(w) \/ SnapshotMetadata(w)
    PROVE  SlotInv'
<1>1. CASE SnapshotBegin(w)
  <2> DEFINE x == [pc |-> "snapshot"]
  <2>1. /\ ~ready /\ UNCHANGED <<ready, receipts, written, clashed>> /\ work' = [work EXCEPT ![w] = x]
        /\ \A v \in Worker : work[v] = NoWork
    BY <1>1 DEF SnapshotBegin
  <2>2. x \in Snapshotting /\ x.pc = "snapshot"
    BY DEF Snapshotting
  <2>3. SlotTypes' /\ WritersAreApart' /\ ReceiptsAreApart' /\ VerifiedIsWritten'
    BY <2>1, <2>2, OtherTask
  <2>4. \A v \in Worker : ~Doing(v, "metadata")'
    BY <2>1, <2>2 DEF Doing, SlotInv, SlotTypes
  <2> QED
    BY <2>1, <2>3, <2>4 DEF SlotInv, ObjectComesFirst, SlotsAreSound, SnapshotIsWhole
<1>2. CASE SnapshotObject(w)
  <2> DEFINE x == [work[w] EXCEPT !.pc = "metadata"]
  <2>1. /\ Doing(w, "snapshot") /\ object' = "whole" /\ meta' = IF meta = "missing" THEN "torn" ELSE meta
        /\ work' = [work EXCEPT ![w] = x] /\ UNCHANGED <<ready, receipts, written, clashed>>
    BY <1>2 DEF SnapshotObject, Proceed
  <2>2. work[w] \in Snapshotting
    BY <2>1, KindsOfWork DEF Doing, SlotInv, SlotTypes
  <2>3. x \in Snapshotting
    BY <2>2 DEF Snapshotting
  <2>4. SlotTypes' /\ WritersAreApart' /\ ReceiptsAreApart' /\ VerifiedIsWritten'
    BY <2>1, <2>3, OtherTask
  <2> QED
    BY <2>1, <2>4 DEF SlotInv, ObjectComesFirst, SlotsAreSound, SnapshotIsWhole
<1>3. CASE SnapshotMetadata(w)
  <2>1. /\ Doing(w, "metadata") /\ meta' = "whole" /\ ready' = TRUE
        /\ work' = [work EXCEPT ![w] = NoWork] /\ UNCHANGED <<object, receipts, written, clashed>>
    BY <1>3 DEF SnapshotMetadata
  <2>2. object = "whole"
    BY <2>1 DEF SlotInv, ObjectComesFirst
  <2>3. SlotTypes' /\ WritersAreApart' /\ ReceiptsAreApart' /\ VerifiedIsWritten'
    BY <2>1, OtherTask
  <2> QED
    BY <2>1, <2>2, <2>3 DEF SlotInv, ObjectComesFirst, SlotsAreSound, SnapshotIsWhole
<1> QED
  BY <1>1, <1>2, <1>3

LEMMA DispatchKeeps ==
    ASSUME SlotInv, NEW w \in Worker, NEW e \in Envelope, Dispatch(w, e)
    PROVE  SlotInv'
<1> DEFINE x == [pc |-> "write", envelope |-> e, left |-> Writes[e], done |-> 0]
<1>1. work[w] = NoWork /\ UNCHANGED <<object, meta, ready, receipts, written>>
  BY DEF Dispatch
<1>2. CASE UNCHANGED <<work, clashed>>
  BY <1>1, <1>2 DEF SlotInv, SlotTypes, WritersAreApart, ReceiptsAreApart, NobodyElse, Has, Empty, WritesItself,
     ObjectComesFirst, Doing, SlotsAreSound, SnapshotIsWhole, VerifiedIsWritten, IsWritten
<1>3. CASE e \notin receipts
  <2>1. /\ work' = [work EXCEPT ![w] = x] /\ clashed \subseteq clashed'
        /\ Rivals(e) \subseteq clashed'
        /\ Rivals(e) # {} => e \in clashed'
        /\ \A d \in receipts : Shares(d, e) => d \in clashed'
    BY <1>3 DEF Dispatch
  <2>2. \A v \in Worker : WritesItself(v) /\ Shares(work[v].envelope, e) =>
            work[v].envelope \in clashed' /\ e \in clashed'
    <3> SUFFICES ASSUME NEW v \in Worker, WritesItself(v), Shares(work[v].envelope, e)
                 PROVE  work[v].envelope \in clashed' /\ e \in clashed'
      OBVIOUS
    <3>1. work[v].envelope \in Envelope /\ v \in Dispatched(work[v].envelope)
      BY KindsOfWork DEF Dispatched, WritesItself
    <3>2. work[v].envelope \in Rivals(e)
      BY <3>1 DEF Rivals
    <3>3. Rivals(e) # {}
      BY <3>2
    <3>4. Rivals(e) \subseteq clashed' /\ e \in clashed'
      BY <2>1, <3>3
    <3> QED
      BY <3>2, <3>4
  <2>3. x \in Writing /\ x.envelope = e /\ x.left = Writes[e] /\ x.pc = "write"
    BY SlotAssumption DEF Writing
  <2> HIDE DEF x
  <2>4. /\ work' \in [Worker -> Snapshotting \cup Writing \cup {NoWork}] /\ work'[w] = x
        /\ \A v \in Worker : v # w => work'[v] = work[v]
    BY <2>1, <2>3 DEF SlotInv, SlotTypes
  <2>5. \A v \in Worker : WritesItself(v)' /\ v # w => WritesItself(v) /\ work'[v] = work[v]
    BY <2>4 DEF WritesItself
  <2>6. WritersAreApart'
    <3>1. ASSUME NEW v \in Worker, WritesItself(v)', v # w PROVE
             LET d == work'[v].envelope IN
             /\ work'[v].left \subseteq Writes[d]
             /\ work'[v].pc = "fill" => work'[v].left # {}
             /\ d \notin clashed' => d \notin receipts' /\ Has(d, Writes[d] \ work'[v].left, written') /\ NobodyElse(d, v, work')
             /\ d \notin clashed' /\ work'[v].pc = "fill" => Empty(d, Min(work'[v].left), written')
      <4>1. WritesItself(v) /\ work'[v] = work[v]
        BY <2>5, <3>1
      <4>2. PICK d : d = work[v].envelope
        OBVIOUS
      <4>3. /\ work[v].left \subseteq Writes[d]
            /\ work[v].pc = "fill" => work[v].left # {}
            /\ d \notin clashed => d \notin receipts /\ Has(d, Writes[d] \ work[v].left, written) /\ NobodyElse(d, v, work)
            /\ d \notin clashed /\ work[v].pc = "fill" => Empty(d, Min(work[v].left), written)
        BY <4>1, <4>2 DEF SlotInv, WritersAreApart
      <4>4. ASSUME d \notin clashed' PROVE d \notin receipts' /\ Has(d, Writes[d] \ work[v].left, written') /\ NobodyElse(d, v, work')
        <5>1. d \notin receipts /\ Has(d, Writes[d] \ work[v].left, written) /\ NobodyElse(d, v, work)
          BY <2>1, <4>3, <4>4
        <5>2. ~Shares(e, d)
          BY <2>2, <4>1, <4>2, <4>4, SharesBoth
        <5> QED
          BY <1>1, <2>3, <2>4, <2>5, <5>1, <5>2 DEF NobodyElse, WritesItself, Has, Shares
      <4> QED
        <5>1. d \notin clashed' => d \notin clashed
          BY <2>1
        <5>2. Empty(d, Min(work[v].left), written) => Empty(d, Min(work'[v].left), written')
          BY <1>1, <4>1 DEF Empty
        <5>3. Has(d, Writes[d] \ work[v].left, written') => Has(d, Writes[d] \ work'[v].left, written')
          BY <4>1
        <5> QED
          BY <4>1, <4>2, <4>3, <4>4, <5>1, <5>2, <5>3
    <3>2. e \notin clashed' => NobodyElse(e, w, work')
      BY <2>2, <2>5 DEF NobodyElse, WritesItself, Shares
    <3>3. Has(e, {}, written)
      BY DEF Has
    <3>4. /\ work'[w].left \subseteq Writes[e] /\ work'[w].pc # "fill" /\ work'[w].envelope = e
          /\ Writes[e] \ work'[w].left = {}
      BY <2>3, <2>4
    <3>5. ASSUME e \notin clashed' PROVE Has(e, Writes[e] \ work'[w].left, written')
      BY <3>3, <3>4, <1>1 DEF Has
    <3> QED
      BY <1>1, <1>3, <3>1, <3>2, <3>4, <3>5 DEF WritersAreApart
  <2>7. ReceiptsAreApart'
    <3> SUFFICES ASSUME NEW d \in receipts, d \notin clashed', NEW v \in Worker, WritesItself(v)',
                        Shares(work'[v].envelope, d)
                 PROVE  FALSE
      BY <1>1 DEF ReceiptsAreApart, Shares
    <3>1. CASE v = w
      BY <2>1, <2>3, <2>4, <3>1, SharesBoth
    <3>2. CASE v # w
      BY <2>1, <2>5, <3>2 DEF SlotInv, ReceiptsAreApart
    <3> QED
      BY <3>1, <3>2
  <2>8. ObjectComesFirst'
    BY <1>1, <2>3, <2>4 DEF SlotInv, ObjectComesFirst, Doing
  <2>9. VerifiedIsWritten'
    BY <1>1, <2>1 DEF SlotInv, SlotsAreSound, VerifiedIsWritten, IsWritten
  <2> QED
    BY <1>1, <2>4, <2>6, <2>7, <2>8, <2>9 DEF SlotInv, SlotTypes, SlotsAreSound, SnapshotIsWhole
<1> QED
  BY <1>2, <1>3 DEF Dispatch

(* Thread w writes file f of envelope e: what its overlay holds then is files. *)
WritesFile(w, x, files, e, f) ==
    /\ WritesItself(w) /\ work[w].envelope = e /\ x.envelope = e
    /\ work' = [work EXCEPT ![w] = x] /\ written' = [written EXCEPT ![OverlayOf[e]] = files]
    /\ f \in Writes[e]
    /\ written[OverlayOf[e]] \ ({f} \X Envelope) \subseteq files
    /\ files \subseteq written[OverlayOf[e]] \cup ({f} \X Envelope)
    /\ x.left \subseteq Writes[e]
    /\ x.pc = "fill" => x.left # {} /\ files \cap ({Min(x.left)} \X Envelope) = {}
    /\ e \notin clashed => (Writes[e] \ x.left) \X {e} \subseteq files
    /\ UNCHANGED <<object, meta, ready, receipts, clashed>>

(* What that changes for the others. *)
LEMMA FileKeeps ==
    ASSUME SlotInv, NEW w \in Worker, NEW x \in Writing, NEW files \in SUBSET (Nat \X Envelope),
           NEW e \in Envelope, NEW f, WritesFile(w, x, files, e, f)
    PROVE  SlotInv'
<1> USE DEF WritesFile
<1>1. /\ work' \in [Worker -> Snapshotting \cup Writing \cup {NoWork}] /\ work'[w] = x
      /\ \A v \in Worker : v # w => work'[v] = work[v]
  BY DEF SlotInv, SlotTypes
<1>2. OverlayOf[e] \in OverlayDirs /\ \A d \in Envelope : OverlayOf[d] \in OverlayDirs
  BY DEF OverlayDirs
<1>3. /\ written' \in [OverlayDirs -> SUBSET (Nat \X Envelope)] /\ written'[OverlayOf[e]] = files
      /\ \A o \in OverlayDirs : o # OverlayOf[e] => written'[o] = written[o]
  BY <1>2 DEF SlotInv, SlotTypes
<1>4. \A v \in Worker : (WritesItself(v)' <=> WritesItself(v)) /\ work'[v].envelope = work[v].envelope
  BY <1>1 DEF WritesItself
<1>5. ASSUME NEW d \in Envelope, ~Shares(e, d), NEW S \in SUBSET Writes[d], Has(d, S, written)
      PROVE  Has(d, S, written')
  <2>1. CASE OverlayOf[d] = OverlayOf[e]
    <3>1. f \notin Writes[d]
      BY <1>5, <2>1 DEF Shares
    <3>2. S \X {d} \subseteq written[OverlayOf[e]] /\ (S \X {d}) \cap ({f} \X Envelope) = {}
      BY <1>5, <2>1, <3>1 DEF Has
    <3> QED
      BY <1>3, <2>1, <3>2 DEF Has
  <2>2. CASE OverlayOf[d] # OverlayOf[e]
    BY <1>2, <1>3, <1>5, <2>2 DEF Has
  <2> QED
    BY <2>1, <2>2
<1>6. VerifiedIsWritten'
  <2> SUFFICES ASSUME NEW d \in receipts \ clashed PROVE Has(d, Writes[d], written')
    BY DEF VerifiedIsWritten, IsWritten, Has
  <2>1. d \in Envelope /\ Has(d, Writes[d], written) /\ ~Shares(e, d)
    BY DEF SlotInv, SlotTypes, SlotsAreSound, VerifiedIsWritten, IsWritten, Has, ReceiptsAreApart
  <2> QED
    BY <1>5, <2>1
<1>7. WritersAreApart'
  <2>1. ASSUME NEW v \in Worker, WritesItself(v)'
        PROVE  LET d == work'[v].envelope IN
               /\ work'[v].left \subseteq Writes[d]
               /\ work'[v].pc = "fill" => work'[v].left # {}
               /\ d \notin clashed => d \notin receipts /\ Has(d, Writes[d] \ work'[v].left, written') /\ NobodyElse(d, v, work')
               /\ d \notin clashed /\ work'[v].pc = "fill" => Empty(d, Min(work'[v].left), written')
    <3>1. PICK d \in Envelope : d = work[v].envelope
      BY <1>4, <2>1, KindsOfWork DEF WritesItself
    <3>2. /\ work[v].left \subseteq Writes[d]
          /\ work[v].pc = "fill" => work[v].left # {}
          /\ d \notin clashed => d \notin receipts /\ Has(d, Writes[d] \ work[v].left, written) /\ NobodyElse(d, v, work)
          /\ d \notin clashed /\ work[v].pc = "fill" => Empty(d, Min(work[v].left), written)
      BY <1>4, <2>1, <3>1 DEF SlotInv, WritersAreApart
    <3>3. NobodyElse(d, v, work) => NobodyElse(d, v, work')
      BY <1>4 DEF NobodyElse, WritesItself, Shares
    <3>4. CASE v = w
      <4>1. d = e /\ work'[v] = x
        BY <1>1, <3>1, <3>4
      <4>2. e \notin clashed => Has(e, Writes[e] \ x.left, written')
        BY <1>3 DEF Has
      <4>3. x.pc = "fill" => Empty(e, Min(x.left), written')
        BY <1>3 DEF Empty
      <4> QED
        BY <1>4, <3>1, <3>2, <3>3, <4>1, <4>2, <4>3
    <3>5. CASE v # w
      <4>1. work'[v] = work[v]
        BY <1>1, <3>5
      <4>2. ASSUME d \notin clashed PROVE Has(d, Writes[d] \ work[v].left, written')
        <5>1. ~Shares(e, d)
          BY <3>2, <3>5, <4>2 DEF NobodyElse, WritesItself
        <5>2. Has(d, Writes[d] \ work[v].left, written)
          BY <3>2, <4>2
        <5> QED
          BY <1>5, <5>1, <5>2
      <4>3. ASSUME d \notin clashed, work[v].pc = "fill" PROVE Empty(d, Min(work[v].left), written')
        <5>1. PICK g : g = Min(work[v].left)
          OBVIOUS
        <5>2. ~Shares(e, d) /\ Empty(d, g, written)
          BY <3>2, <3>5, <4>3, <5>1 DEF NobodyElse, WritesItself
        <5>3. g \in Writes[d]
          BY <1>4, <2>1, <3>2, <4>3, <5>1, KindsOfWork, MinIsElement DEF WritesItself
        <5>4. Empty(d, g, written')
          <6>1. CASE OverlayOf[d] = OverlayOf[e]
            <7>1. g # f
              BY <5>2, <5>3, <6>1 DEF Shares
            <7> QED
              BY <1>3, <5>2, <6>1, <7>1 DEF Empty
          <6>2. CASE OverlayOf[d] # OverlayOf[e]
            BY <1>2, <1>3, <5>2, <6>2 DEF Empty
          <6> QED
            BY <6>1, <6>2
        <5> QED
          BY <4>1, <5>1, <5>4
      <4> QED
        BY <3>1, <3>2, <3>3, <4>1, <4>2, <4>3
    <3> QED
      BY <3>4, <3>5
  <2> QED
    BY <2>1 DEF WritersAreApart
<1>8. ReceiptsAreApart'
  BY <1>4 DEF SlotInv, ReceiptsAreApart, Shares
<1>9. ObjectComesFirst'
  <2>1. x.pc # "metadata"
    BY KindsOfWork
  <2> QED
    BY <1>1, <2>1 DEF SlotInv, ObjectComesFirst, Doing
<1> QED
  BY <1>1, <1>3, <1>6, <1>7, <1>8, <1>9 DEF SlotInv, SlotTypes, SlotsAreSound, SnapshotIsWhole

LEMMA TruncateKeeps == ASSUME SlotInv, NEW w \in Worker, Truncate(w) PROVE SlotInv'
<1>1. Doing(w, "write") /\ work[w].left # {} /\ work[w] \in Writing
  BY KindsOfWork DEF Truncate, Doing, SlotInv, SlotTypes
<1>2. PICK e \in Envelope : e = work[w].envelope
  BY <1>1, KindsOfWork
<1>3. PICK f \in work[w].left : f = Min(work[w].left)
  BY <1>1, KindsOfWork, MinIsElement
<1> DEFINE x == [work[w] EXCEPT !.pc = "fill"]
           files == written[OverlayOf[e]] \ ({f} \X Envelope)
<1>4. /\ written' = [written EXCEPT ![OverlayOf[e]] = files] /\ work' = [work EXCEPT ![w] = x]
      /\ UNCHANGED <<object, meta, ready, receipts, clashed>>
  BY <1>2, <1>3 DEF Truncate, Proceed
<1>5. x \in Writing /\ x.envelope = e /\ x.left = work[w].left
  BY <1>1, <1>2 DEF Writing
<1>6. /\ WritesItself(w) /\ work[w].left \subseteq Writes[e]
      /\ e \notin clashed => (Writes[e] \ work[w].left) \X {e} \subseteq written[OverlayOf[e]]
  BY <1>1, <1>2 DEF SlotInv, WritersAreApart, WritesItself, Has
<1>7. OverlayOf[e] \in OverlayDirs
  BY DEF OverlayDirs
<1>8. files \in SUBSET (Nat \X Envelope)
  BY <1>7 DEF SlotInv, SlotTypes
<1>9. f \in Writes[e] /\ (e \notin clashed => (Writes[e] \ x.left) \X {e} \subseteq files)
  BY <1>3, <1>5, <1>6
<1> HIDE DEF x, files
<1>10. /\ written[OverlayOf[e]] \ ({f} \X Envelope) \subseteq files
       /\ files \subseteq written[OverlayOf[e]] \cup ({f} \X Envelope)
       /\ files \cap ({Min(x.left)} \X Envelope) = {}
  BY <1>3, <1>5 DEF files
<1>11. x.left \subseteq Writes[e] /\ (x.pc = "fill" => x.left # {})
  BY <1>1, <1>5, <1>6
<1>12. WritesItself(w) /\ work[w].envelope = e
  BY <1>2, <1>6
<1>13. WritesFile(w, x, files, e, f)
  BY <1>4, <1>5, <1>9, <1>10, <1>11, <1>12 DEF WritesFile
<1> QED
  BY <1>5, <1>8, <1>13, FileKeeps

LEMMA FillKeeps == ASSUME SlotInv, NEW w \in Worker, Fill(w) PROVE SlotInv'
<1>1. Doing(w, "fill") /\ work[w] \in Writing
  BY KindsOfWork DEF Fill, Doing, SlotInv, SlotTypes
<1>2. PICK e \in Envelope : e = work[w].envelope
  BY <1>1, KindsOfWork
<1>3. /\ WritesItself(w) /\ work[w].left \subseteq Writes[e] /\ work[w].left # {}
      /\ e \notin clashed => (Writes[e] \ work[w].left) \X {e} \subseteq written[OverlayOf[e]]
      /\ e \notin clashed => Empty(e, Min(work[w].left), written)
  BY <1>1, <1>2 DEF SlotInv, WritersAreApart, WritesItself, Doing, Has
<1>4. PICK f \in work[w].left : f = Min(work[w].left)
  BY <1>1, <1>3, KindsOfWork, MinIsElement
<1> DEFINE x == [work[w] EXCEPT !.pc = "write", !.left = @ \ {f}, !.done = @ + 1]
<1>5. PICK own \in SUBSET {<<f, e>>} :
         /\ own = {} => \E d \in Envelope : d # e /\ <<f, d>> \in written[OverlayOf[e]]
         /\ written' = [written EXCEPT ![OverlayOf[e]] = (@ \ ({f} \X Envelope)) \cup own]
  BY <1>2, <1>4 DEF Fill
<1> DEFINE files == (written[OverlayOf[e]] \ ({f} \X Envelope)) \cup own
<1>6. /\ written' = [written EXCEPT ![OverlayOf[e]] = files] /\ work' = [work EXCEPT ![w] = x]
      /\ UNCHANGED <<object, meta, ready, receipts, clashed>>
  BY <1>2, <1>4, <1>5 DEF Fill
<1>7. x \in Writing /\ x.envelope = e /\ x.left = work[w].left \ {f} /\ x.pc = "write"
  <2>0. work[w].left \ {f} \in SUBSET Nat /\ work[w].done + 1 \in Nat
    BY <1>1, KindsOfWork
  <2>1. PICK l \in SUBSET Nat, n \in Nat : l = work[w].left \ {f} /\ n = work[w].done + 1
    BY <2>0, Zenon
  <2>2. PICK r \in Writing : r = work[w]
    BY <1>1
  <2>3. x = [r EXCEPT !.pc = "write", !.left = l, !.done = n]
    BY <2>1, <2>2
  <2> HIDE DEF x
  <2> QED
    BY <1>2, <2>1, <2>2, <2>3 DEF Writing
<1>8. OverlayOf[e] \in OverlayDirs /\ f \in Nat
  BY <1>1, <1>4, KindsOfWork DEF OverlayDirs
<1>9. files \in SUBSET (Nat \X Envelope)
  BY <1>8 DEF SlotInv, SlotTypes
<1>10. ASSUME e \notin clashed PROVE (Writes[e] \ x.left) \X {e} \subseteq files
  <2>1. own = {<<f, e>>}
    <3>1. Empty(e, f, written)
      BY <1>3, <1>4, <1>10
    <3>2. \A d \in Envelope : <<f, d>> \notin written[OverlayOf[e]]
      BY <3>1 DEF Empty
    <3>3. own # {}
      BY <1>5, <3>2
    <3> QED
      BY <3>3
  <2>2. Writes[e] \ x.left \subseteq (Writes[e] \ work[w].left) \cup {f}
    BY <1>7
  <2>3. <<f, e>> \in files
    BY <2>1
  <2>4. ASSUME NEW g \in Writes[e] \ work[w].left PROVE <<g, e>> \in files
    BY <1>3, <1>4, <1>10, <2>4
  <2> HIDE DEF files, x
  <2> QED
    BY <2>2, <2>3, <2>4
<1>11. /\ f \in Writes[e] /\ x.left \subseteq Writes[e]
       /\ written[OverlayOf[e]] \ ({f} \X Envelope) \subseteq files
       /\ files \subseteq written[OverlayOf[e]] \cup ({f} \X Envelope)
  BY <1>3, <1>4, <1>7
<1>12. x.pc # "fill"
  BY <1>7
<1>13. WritesItself(w) /\ work[w].envelope = e
  BY <1>2, <1>3
<1>14. x.pc = "fill" => x.left # {} /\ files \cap ({Min(x.left)} \X Envelope) = {}
  BY <1>12
<1> HIDE DEF x, files
<1>15. WritesFile(w, x, files, e, f)
  BY <1>6, <1>7, <1>10, <1>11, <1>13, <1>14 DEF WritesFile
<1> QED
  BY <1>7, <1>9, <1>15, FileKeeps

LEMMA SaveReceiptKeeps == ASSUME SlotInv, NEW w \in Worker, SaveReceipt(w) PROVE SlotInv'
<1>1. Doing(w, "write") /\ work[w].left = {} /\ work[w] \in Writing
  BY KindsOfWork DEF SaveReceipt, Doing, SlotInv, SlotTypes
<1>2. PICK e \in Envelope : e = work[w].envelope
  BY <1>1, KindsOfWork
<1>3. /\ receipts' = receipts \cup {e} /\ work' = [work EXCEPT ![w] = NoWork]
      /\ UNCHANGED <<object, meta, ready, written, clashed>>
  BY <1>2 DEF SaveReceipt
<1>4. e \notin clashed => Has(e, Writes[e], written) /\ NobodyElse(e, w, work)
  <2>1. e \notin clashed => Has(e, Writes[e] \ {}, written) /\ NobodyElse(e, w, work)
    BY <1>1, <1>2 DEF SlotInv, WritersAreApart, WritesItself
  <2> QED
    BY <2>1
<1>5. /\ work' \in [Worker -> Snapshotting \cup Writing \cup {NoWork}] /\ work'[w] = NoWork
      /\ \A v \in Worker : v # w => work'[v] = work[v]
  BY <1>3 DEF SlotInv, SlotTypes
<1>6. \A v \in Worker : WritesItself(v)' => v # w /\ WritesItself(v) /\ work'[v] = work[v]
  BY <1>5, KindsOfWork DEF WritesItself
<1>7. WritersAreApart'
  <2>1. ASSUME NEW v \in Worker, WritesItself(v)', work[v].envelope \notin clashed
        PROVE  work[v].envelope # e /\ NobodyElse(work[v].envelope, v, work')
    <3>1. NobodyElse(work[v].envelope, v, work)
      BY <1>6, <2>1 DEF SlotInv, WritersAreApart
    <3>2. WritesItself(w) /\ v # w
      BY <1>1, <1>6, <2>1 DEF WritesItself
    <3>3. ~Shares(e, work[v].envelope)
      BY <1>2, <3>1, <3>2 DEF NobodyElse, WritesItself
    <3>4. NobodyElse(work[v].envelope, v, work')
      BY <1>6, <2>1, <3>1 DEF NobodyElse, WritesItself, Shares
    <3> QED
      BY <3>3, <3>4, SharesBoth
  <2> QED
    BY <1>3, <1>6, <2>1 DEF SlotInv, WritersAreApart, Has, Empty, NobodyElse, WritesItself
<1>9. ReceiptsAreApart'
  BY <1>3, <1>4, <1>6 DEF SlotInv, ReceiptsAreApart, NobodyElse, WritesItself, Shares
<1>10. VerifiedIsWritten'
  BY <1>3, <1>4 DEF SlotInv, SlotsAreSound, VerifiedIsWritten, IsWritten, Has
<1>8. ObjectComesFirst'
  BY <1>3, <1>5 DEF SlotInv, ObjectComesFirst, Doing
<1> QED
  BY <1>3, <1>5, <1>7, <1>8, <1>9, <1>10 DEF SlotInv, SlotTypes, SlotsAreSound, SnapshotIsWhole

LEMMA BudgetExhaustedKeeps == ASSUME SlotInv, NEW w \in Worker, BudgetExhausted(w) PROVE SlotInv'
<1>1. work' = [work EXCEPT ![w] = NoWork] /\ UNCHANGED <<object, meta, ready, receipts, written, clashed>>
  BY DEF BudgetExhausted
<1>2. SlotTypes' /\ WritersAreApart' /\ ReceiptsAreApart' /\ VerifiedIsWritten'
  BY <1>1, OtherTask
<1>3. ObjectComesFirst'
  BY <1>1 DEF SlotInv, SlotTypes, ObjectComesFirst, Doing
<1> QED
  BY <1>1, <1>2, <1>3 DEF SlotInv, SlotsAreSound, SnapshotIsWhole

LEMMA KillKeeps == ASSUME SlotInv, Kill PROVE SlotInv'
<1>1. /\ work' = [w \in Worker |-> NoWork] /\ ready' = FALSE
      /\ UNCHANGED <<object, meta, receipts, written, clashed>>
  BY DEF Kill
<1>2. \A w \in Worker : ~WritesItself(w)' /\ ~Doing(w, "metadata")'
  BY <1>1, KindsOfWork DEF WritesItself, Doing
<1> QED
  BY <1>1, <1>2 DEF SlotInv, SlotTypes, WritersAreApart, ReceiptsAreApart, ObjectComesFirst, SlotsAreSound,
     SnapshotIsWhole, VerifiedIsWritten, IsWritten

(* A snapshot that was handed out is whole, and a receipt's files are all in its overlay
   and stay there, wherever a process is killed between truncating and writing a file:
   unless another dispatch that writes one of these files ran beside the one that the
   receipt is for, or came after it (open_snapshot and execute of slot_executor.py). *)
THEOREM SlotsSound == SlotSpec => []SlotsAreSound
<1>1. SlotInit => SlotInv
  <2> SUFFICES ASSUME SlotInit PROVE SlotInv
    OBVIOUS
  <2>1. SlotTypes
    BY DEF SlotInit, SlotTypes
  <2>2. \A w \in Worker : ~WritesItself(w) /\ ~Doing(w, "metadata")
    BY KindsOfWork DEF SlotInit, WritesItself, Doing
  <2> QED
    BY <2>1, <2>2 DEF SlotInit, SlotInv, WritersAreApart, ReceiptsAreApart, ObjectComesFirst, SlotsAreSound,
       SnapshotIsWhole, VerifiedIsWritten
<1>2. SlotInv /\ [SlotNext]_slotVars => SlotInv'
  <2> SUFFICES ASSUME SlotInv, [SlotNext]_slotVars PROVE SlotInv'
    OBVIOUS
  <2>1. CASE \E w \in Worker : SlotStep(w)
    BY <2>1, SnapshotKeeps, TruncateKeeps, FillKeeps, BudgetExhaustedKeeps, SaveReceiptKeeps DEF SlotStep
  <2>2. CASE \E w \in Worker, e \in Envelope : Dispatch(w, e)
    BY <2>2, DispatchKeeps
  <2>3. CASE UNCHANGED slotVars
    BY <2>3 DEF slotVars, SlotInv, SlotTypes, WritersAreApart, ReceiptsAreApart, Has, Empty, NobodyElse, WritesItself,
       WritesItself, ObjectComesFirst, Doing, SlotsAreSound, SnapshotIsWhole, VerifiedIsWritten, IsWritten
  <2> QED
    BY <2>1, <2>2, <2>3, KillKeeps DEF SlotNext
<1>3. SlotInv => SlotsAreSound
  BY DEF SlotInv
<1> QED
  BY <1>1, <1>2, <1>3, PTL DEF SlotSpec

=============================================================================
