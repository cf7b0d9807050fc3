--------------------------- MODULE PrismOverlays ---------------------------
(***************************************************************************)
(* Slots, leases and task overlays of one open arena (prism_arena.py).  An *)
(* overlay keeps records (path -> object digest, or a tombstone) over the  *)
(* immutable base, and its objects in a directory of its own.              *)
(*                                                                         *)
(* open_slot, create_overlay and the second half of apply_delta hold the   *)
(* arena's lock; their checks, release_slot, close_overlay and             *)
(* cleanup_abandoned do not.  A slot and an overlay are used by the task   *)
(* they are opened for, so an overlay has one delta at a time; slots are   *)
(* released and overlays cleaned up by others, one cleanup at a time.  An  *)
(* object's digest is the object.                                          *)
(***************************************************************************)
EXTENDS Integers, FiniteSets, FiniteSetsExt, Functions

CONSTANTS
    Slot, Overlay, Path, Content,
    Absent, NoSlot, NoOverlay, NoTask, NoView,
    Base,           \* the generation's files
    SlotOf,         \* the slot an overlay's identity names
    Delta,          \* the deltas tasks apply: renames, deletes, writes
    Size,           \* the length of each content
    MaxOverlays,    \* MAX_OVERLAYS_PER_SLOT
    MaxFiles, MaxBytes,
    MaxDeltas       \* bound: deltas applied

VARIABLES
    slots,     \* slot -> its lease's state
    overlays,  \* overlay -> its object in _overlays
    objects,   \* overlay -> the objects in its directory
    tasks,     \* overlay -> the call its task is in
    cleaning,  \* what the running cleanup has still to do
    deltas

overlayVars == <<slots, overlays, objects, tasks, cleaning, deltas>>

Stored == Content \cup {Absent}
Records == UNION {[paths -> Stored] : paths \in SUBSET Path}

ASSUME OverlayAssumption ==
    /\ Base \in [Path -> Stored] /\ SlotOf \in [Overlay -> Slot]
    /\ Size \in [Content -> Nat] /\ MaxOverlays \in Nat /\ MaxFiles \in Nat
    /\ MaxBytes \in Nat /\ MaxDeltas \in Nat

(* deltas name finitely many paths, which are ordered; the markers are no values *)
ASSUME DeltaAssumption ==
    /\ Path \subseteq Int
    /\ \A d \in Delta :
          /\ DOMAIN d.renames \subseteq Path /\ IsFiniteSet(DOMAIN d.renames)
          /\ \A p \in DOMAIN d.renames : d.renames[p] \in Path
          /\ d.deletes \subseteq Path
          /\ DOMAIN d.writes \subseteq Path /\ \A p \in DOMAIN d.writes : d.writes[p] \in Content
    /\ Absent \notin Content /\ NoView \notin [Path -> Stored]
    /\ NoOverlay \notin [active : BOOLEAN, records : Records]
    /\ NoTask \notin [op : {"create"}]
    /\ NoTask \notin [op : {"delta", "publish"}, changed : Records, candidate : Records]

NoRecords == [p \in {} |-> Absent]

(* read: the overlay's record, a tombstone included, or the base *)
Seen(records) == [p \in Path |-> IF p \in DOMAIN records THEN records[p] ELSE Base[p]]

(* the part of apply_delta that draws the changes: what every path becomes.  A
   renamed file is read in the old view; a path that an earlier rename filled is
   emptied again when it is itself renamed, and one renamed to itself keeps its
   content; deletes and writes come last. *)
Changed(seen, d) ==
    LET sources == DOMAIN d.renames
        targets == {d.renames[p] : p \in sources}
        from(q) == Max({p \in sources : d.renames[p] = q})
        (* renames are applied in the order of their sources *)
        filled(q) == q \in targets /\ (q \in sources => q <= from(q))
    IN  [q \in sources \cup targets \cup d.deletes \cup DOMAIN d.writes |->
            CASE q \in DOMAIN d.writes -> d.writes[q]
              [] q \notin DOMAIN d.writes /\ q \in d.deletes -> Absent
              [] OTHER -> IF filled(q) THEN seen[from(q)] ELSE Absent]

Merged(records, changed) ==
    [p \in DOMAIN records \cup DOMAIN changed |->
        IF p \in DOMAIN changed THEN changed[p] ELSE records[p]]

RenamesExist(seen, d) == \A p \in DOMAIN d.renames : seen[p] # Absent

WithinBudget(records) ==
    /\ Cardinality(DOMAIN records) <= MaxFiles
    /\ MapThenSumSet(LAMBDA p : IF records[p] = Absent THEN 0 ELSE Size[records[p]], DOMAIN records)
          <= MaxBytes

Live(s) == slots[s] \in {"active", "renewing"}
InTable(o) == overlays[o] # NoOverlay
Active(o) == InTable(o) /\ overlays[o].active
ActiveOf(s) == {o \in Overlay : SlotOf[o] = s /\ Active(o)}

OverlayInit ==
    /\ slots = [s \in Slot |-> NoSlot]
    /\ overlays = [o \in Overlay |-> NoOverlay]
    /\ objects = [o \in Overlay |-> {}]
    /\ tasks = [o \in Overlay |-> NoTask]
    /\ cleaning = {} /\ deltas = 0

(* open_slot with the slot's own fence; a slot that is known is returned as it is,
   also when its lease has ended *)
OpenSlot(s) ==
    /\ slots[s] = NoSlot
    /\ slots' = [slots EXCEPT ![s] = "active"]
    /\ UNCHANGED <<overlays, objects, tasks, cleaning, deltas>>

LeaseExpires(s) ==
    /\ Live(s)
    /\ slots' = [slots EXCEPT ![s] = IF @ = "renewing" THEN "lapsed" ELSE "expired"]
    /\ UNCHANGED <<overlays, objects, tasks, cleaning, deltas>>

(* renew_slot finds the lease live, and then sets the time it ends: one that has ended in
   between, and may have been acted upon, is live again *)
RenewCheck(s) ==
    /\ slots[s] = "active"
    /\ slots' = [slots EXCEPT ![s] = "renewing"]
    /\ UNCHANGED <<overlays, objects, tasks, cleaning, deltas>>

RenewSlot(s) ==
    /\ slots[s] \in {"renewing", "lapsed"}
    /\ slots' = [slots EXCEPT ![s] = "active"]
    /\ UNCHANGED <<overlays, objects, tasks, cleaning, deltas>>

(* release_slot: the lease ends and every active overlay of the slot is abandoned *)
ReleaseSlot(s) ==
    /\ Live(s)
    /\ slots' = [slots EXCEPT ![s] = "released"]
    /\ overlays' = [o \in Overlay |-> IF o \in ActiveOf(s)
                                      THEN [overlays[o] EXCEPT !.active = FALSE] ELSE overlays[o]]
    /\ UNCHANGED <<objects, tasks, cleaning, deltas>>

(* create_overlay validates the slot, then inserts under the lock *)
CreateCheck(o) ==
    /\ tasks[o] = NoTask /\ Live(SlotOf[o])
    /\ tasks' = [tasks EXCEPT ![o] = [op |-> "create"]]
    /\ UNCHANGED <<slots, overlays, objects, cleaning, deltas>>

(* an overlay of this identity is returned as it is, also when it was abandoned *)
CreateInsert(o) ==
    /\ tasks[o] # NoTask /\ tasks[o].op = "create"
    /\ tasks' = [tasks EXCEPT ![o] = NoTask]
    /\ overlays' = IF InTable(o) \/ Cardinality(ActiveOf(SlotOf[o])) >= MaxOverlays THEN overlays
                   ELSE [overlays EXCEPT ![o] = [active |-> TRUE, records |-> NoRecords]]
    /\ UNCHANGED <<slots, objects, cleaning, deltas>>

(* Mutant: the candidate holds what this delta changes and nothing older. *)
DeltaCheckFresh(o, d) ==
    LET changed == Changed(Seen(overlays[o].records), d) IN
    /\ tasks[o] = NoTask /\ deltas < MaxDeltas
    /\ Live(SlotOf[o]) /\ Active(o)
    /\ RenamesExist(Seen(overlays[o].records), d)
    /\ WithinBudget(changed)
    /\ deltas' = deltas + 1
    /\ tasks' = [tasks EXCEPT ![o] = [op |-> "delta", changed |-> changed, candidate |-> changed]]
    /\ UNCHANGED <<slots, overlays, objects, cleaning>>

(* apply_delta up to its lock: validated, drawn and within the budgets *)
DeltaCheck(o, d) ==
    LET records == overlays[o].records
        changed == Changed(Seen(records), d)
    IN  /\ tasks[o] = NoTask /\ deltas < MaxDeltas
        /\ Live(SlotOf[o]) /\ Active(o)
        /\ RenamesExist(Seen(records), d)
        /\ WithinBudget(Merged(records, changed))
        /\ deltas' = deltas + 1
        /\ tasks' = [tasks EXCEPT ![o] = [op |-> "delta", changed |-> changed,
                                          candidate |-> Merged(records, changed)]]
        /\ UNCHANGED <<slots, overlays, objects, cleaning>>

(* the objects are written before the records that name them *)
DeltaObjects(o) ==
    /\ tasks[o] # NoTask /\ tasks[o].op = "delta"
    /\ objects' = [objects EXCEPT ![o] = @ \cup (Range(tasks[o].changed) \ {Absent})]
    /\ tasks' = [tasks EXCEPT ![o].op = "publish"]
    /\ UNCHANGED <<slots, overlays, cleaning, deltas>>

(* the records change hands; an overlay that was cleaned up meanwhile is no longer
   the one in the table *)
DeltaPublish(o) ==
    /\ tasks[o] # NoTask /\ tasks[o].op = "publish"
    /\ overlays' = IF InTable(o) THEN [overlays EXCEPT ![o].records = tasks[o].candidate]
                   ELSE overlays
    /\ tasks' = [tasks EXCEPT ![o] = NoTask]
    /\ UNCHANGED <<slots, objects, cleaning, deltas>>

CloseOverlay(o) ==
    /\ tasks[o] = NoTask
    /\ Live(SlotOf[o]) /\ Active(o)
    /\ overlays' = [overlays EXCEPT ![o].active = FALSE]
    /\ UNCHANGED <<slots, objects, tasks, cleaning, deltas>>

(* Mutant: overlays whose slot is gone count as abandoned. *)
CleanupBeginAll ==
    /\ cleaning = {}
    /\ cleaning' = {<<o, "tree">> : o \in {x \in Overlay : InTable(x) /\ ~(Active(x) /\ Live(SlotOf[x]))}}
    /\ cleaning' # {}
    /\ UNCHANGED <<slots, overlays, objects, tasks, deltas>>

(* cleanup_abandoned decides what to remove and then removes one after the other *)
CleanupBegin ==
    /\ cleaning = {}
    /\ cleaning' = {<<o, "tree">> : o \in {x \in Overlay : InTable(x) /\ ~Active(x)}}
    /\ cleaning' # {}
    /\ UNCHANGED <<slots, overlays, objects, tasks, deltas>>

(* its directory goes first, then its entry in the table *)
CleanupTree(o) ==
    /\ <<o, "tree">> \in cleaning
    /\ objects' = [objects EXCEPT ![o] = {}]
    /\ cleaning' = (cleaning \ {<<o, "tree">>}) \cup {<<o, "forget">>}
    /\ UNCHANGED <<slots, overlays, tasks, deltas>>

CleanupForget(o) ==
    /\ <<o, "forget">> \in cleaning
    /\ overlays' = [overlays EXCEPT ![o] = NoOverlay]
    /\ cleaning' = cleaning \ {<<o, "forget">>}
    /\ UNCHANGED <<slots, objects, tasks, deltas>>

OverlayStep(o) ==
    \/ CreateCheck(o) \/ CreateInsert(o) \/ CloseOverlay(o)
    \/ DeltaObjects(o) \/ DeltaPublish(o)
    \/ CleanupTree(o) \/ CleanupForget(o)

OverlayNext ==
    \/ \E s \in Slot : OpenSlot(s) \/ LeaseExpires(s) \/ RenewCheck(s) \/ RenewSlot(s) \/ ReleaseSlot(s)
    \/ \E o \in Overlay : OverlayStep(o)
    \/ \E o \in Overlay, d \in Delta : DeltaCheck(o, d)
    \/ CleanupBegin

OverlaySpec == OverlayInit /\ [][OverlayNext]_overlayVars

----------------------------------------------------------------------------
(* Properties *)

(* What a task is shown is its private copy of the base: the arena implements
   PrivateViews.  A view exists while the overlay may be read. *)
Shown(o) ==
    IF Active(o) THEN Seen(overlays[o].records) ELSE NoView

Applied(seen, d) ==
    [p \in Path |-> IF p \in DOMAIN Changed(seen, d) THEN Changed(seen, d)[p] ELSE seen[p]]

Views == INSTANCE PrivateViews WITH view <- [o \in Overlay |-> Shown(o)], Change <- Applied

(* The overlays implement private copies: whatever is released, closed, renewed
   or cleaned up beside it, a task's view changes only by its own whole deltas. *)
Isolated == Views!ViewSpec

(* Every object that a readable overlay's records name is in its directory, though
   releases and cleanups run while a delta is being published. *)
RecordsHaveObjects ==
    \A o \in Overlay : Active(o) => Range(overlays[o].records) \ {Absent} \subseteq objects[o]

(* The published records of an overlay keep its budgets, and a slot its number of
   overlays. *)
BudgetsHold ==
    /\ \A o \in Overlay : InTable(o) => WithinBudget(overlays[o].records)
    /\ \A s \in Slot : Cardinality(ActiveOf(s)) <= MaxOverlays

(* What the overlays' records say is on disk and within the budgets. *)
OverlaysAreSound == RecordsHaveObjects /\ BudgetsHold
=============================================================================
