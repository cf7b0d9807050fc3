---------------------------- MODULE SlotExecutor ----------------------------
(***************************************************************************)
(* The resident slot executor (slot_executor.py): envelopes are dispatched *)
(* to threads, which look for a receipt, write the overlay's files and     *)
(* save a receipt.  A dispatch whose receipt exists is answered with it.   *)
(*                                                                         *)
(* The receipts and the snapshots' metadata are read and written under the *)
(* lock, the overlay's files outside it.  write_bytes truncates and then   *)
(* writes: a crash in between leaves a torn file.  A receipt is replaced   *)
(* atomically.  An envelope's key is a digest of its fields.               *)
(***************************************************************************)
EXTENDS Naturals, FiniteSets, FiniteSetsExt

CONSTANTS
    Envelope,        \* the envelopes that are dispatched
    OverlayOf,       \* the overlay directory: run, slot, generation and fence
    Writes,          \* the files each envelope's work writes
    MaxOperations,   \* the budget of each envelope
    Worker,          \* threads
    NoWork,
    MaxDispatches,
    MaxKills

VARIABLES
    object, meta,  \* the snapshot's object and snapshot.json: missing, torn or whole
    ready,         \* a snapshot was returned in this life of the process
    receipts,      \* envelopes whose receipt is on disk
    written,       \* overlay -> the whole files in it, each with the envelope that wrote it
    work,          \* what each thread is doing
    dispatches, kills,
    clashed        \* history: envelopes that another dispatch ran beside, or wrote after, in their files

slotVars == <<object, meta, ready, receipts, written, work, dispatches, kills, clashed>>

(* what a thread is doing: writing the snapshot, or an envelope's files *)
Snapshotting == [pc : {"snapshot", "metadata"}]
Writing == [pc : {"write", "fill"}, envelope : Envelope, left : SUBSET Nat, done : Nat]

ASSUME SlotAssumption ==
    /\ MaxDispatches \in Nat /\ MaxKills \in Nat
    /\ MaxOperations \in [Envelope -> Nat] /\ Writes \in [Envelope -> SUBSET Nat]
    /\ NoWork \notin Snapshotting \cup Writing

OverlayDirs == {OverlayOf[e] : e \in Envelope}
Doing(w, pc) == work[w] # NoWork /\ work[w].pc = pc
Dispatched(e) == {w \in Worker : work[w] # NoWork /\ work[w].pc \in {"write", "fill"} /\ work[w].envelope = e}
Shares(d, e) == OverlayOf[d] = OverlayOf[e] /\ (d = e \/ Writes[d] \cap Writes[e] # {})
Rivals(e) == {d \in Envelope : Shares(d, e) /\ Dispatched(d) # {}}
Proceed(w, pc) == work' = [work EXCEPT ![w].pc = pc]

SlotInit ==
    /\ object = "missing" /\ meta = "missing" /\ ready = FALSE
    /\ receipts = {} /\ dispatches = 0 /\ kills = 0 /\ clashed = {}
    /\ written = [o \in OverlayDirs |-> {}]
    /\ work = [w \in Worker |-> NoWork]

(* open_snapshot holds the lock throughout; an object that is not what its name says
   and metadata that cannot be read refuse, what is missing is written *)
SnapshotBegin(w) ==
    /\ work[w] = NoWork /\ ~ready /\ \A v \in Worker : work[v] = NoWork
    /\ object # "torn" /\ meta # "torn"
    /\ object' = IF object = "missing" THEN "torn" ELSE object
    /\ work' = [work EXCEPT ![w] = [pc |-> "snapshot"]]
    /\ UNCHANGED <<meta, ready, receipts, written, dispatches, kills, clashed>>

SnapshotObject(w) ==
    /\ Doing(w, "snapshot")
    /\ object' = "whole"
    /\ meta' = IF meta = "missing" THEN "torn" ELSE meta
    /\ Proceed(w, "metadata")
    /\ UNCHANGED <<ready, receipts, written, dispatches, kills, clashed>>

SnapshotMetadata(w) ==
    /\ Doing(w, "metadata")
    /\ meta' = "whole" /\ ready' = TRUE
    /\ work' = [work EXCEPT ![w] = NoWork]
    /\ UNCHANGED <<object, receipts, written, dispatches, kills, clashed>>

(* execute: a receipt answers the dispatch, otherwise the overlay is prepared *)
Dispatch(w, e) ==
    /\ ready /\ work[w] = NoWork
    /\ dispatches < MaxDispatches
    /\ dispatches' = dispatches + 1
    /\ \/ e \in receipts /\ UNCHANGED <<work, clashed>>
       \/ /\ e \notin receipts
          /\ work' = [work EXCEPT ![w] = [pc |-> "write", envelope |-> e, left |-> Writes[e], done |-> 0]]
          /\ clashed' = clashed \cup Rivals(e) \cup (IF Rivals(e) = {} THEN {} ELSE {e})
                        \cup {d \in receipts : Shares(d, e)}
    /\ UNCHANGED <<object, meta, ready, receipts, written, kills>>

(* the next file in order is opened for writing, which empties it *)
Truncate(w) ==
    LET f == Min(work[w].left) IN
    /\ Doing(w, "write") /\ work[w].left # {}
    /\ work[w].done < MaxOperations[work[w].envelope]
    /\ written' = [written EXCEPT ![OverlayOf[work[w].envelope]] = @ \ ({f} \X Envelope)]
    /\ Proceed(w, "fill")
    /\ UNCHANGED <<object, meta, ready, receipts, dispatches, kills, clashed>>

(* over what another envelope wrote since, it may leave the end of that behind *)
Fill(w) ==
    LET f == Min(work[w].left)
        e == work[w].envelope IN
    /\ Doing(w, "fill")
    /\ \E files \in SUBSET {<<f, e>>} :
          /\ files = {} => \E d \in Envelope : d # e /\ <<f, d>> \in written[OverlayOf[e]]
          /\ written' = [written EXCEPT ![OverlayOf[e]] = (@ \ ({f} \X Envelope)) \cup files]
    /\ work' = [work EXCEPT ![w].pc = "write", ![w].left = @ \ {f}, ![w].done = @ + 1]
    /\ UNCHANGED <<object, meta, ready, receipts, dispatches, kills, clashed>>

(* one operation more than the budget raises; what was written stays *)
BudgetExhausted(w) ==
    /\ Doing(w, "write") /\ work[w].left # {}
    /\ work[w].done >= MaxOperations[work[w].envelope]
    /\ work' = [work EXCEPT ![w] = NoWork]
    /\ UNCHANGED <<object, meta, ready, receipts, written, dispatches, kills, clashed>>

(* Mutant: the receipt is saved when the budget is used up, too. *)
SaveReceiptEarly(w) ==
    /\ Doing(w, "write")
    /\ work[w].done >= Min({MaxOperations[work[w].envelope], Cardinality(Writes[work[w].envelope])})
    /\ receipts' = receipts \cup {work[w].envelope}
    /\ work' = [work EXCEPT ![w] = NoWork]
    /\ UNCHANGED <<object, meta, ready, written, dispatches, kills, clashed>>

SaveReceipt(w) ==
    /\ Doing(w, "write") /\ work[w].left = {}
    /\ receipts' = receipts \cup {work[w].envelope}
    /\ work' = [work EXCEPT ![w] = NoWork]
    /\ UNCHANGED <<object, meta, ready, written, dispatches, kills, clashed>>

Kill ==
    /\ kills < MaxKills
    /\ kills' = kills + 1
    /\ ready' = FALSE
    /\ work' = [w \in Worker |-> NoWork]
    /\ UNCHANGED <<object, meta, receipts, written, dispatches, clashed>>

SlotStep(w) ==
    \/ SnapshotBegin(w) \/ SnapshotObject(w) \/ SnapshotMetadata(w)
    \/ Truncate(w) \/ Fill(w) \/ BudgetExhausted(w) \/ SaveReceipt(w)

SlotNext ==
    \/ \E w \in Worker : SlotStep(w)
    \/ \E w \in Worker, e \in Envelope : Dispatch(w, e)
    \/ Kill

SlotSpec == SlotInit /\ [][SlotNext]_slotVars

----------------------------------------------------------------------------
(* Properties *)

(* A snapshot that a caller holds is whole, also after a crash while an earlier
   process wrote it. *)
SnapshotIsWhole == ready => object = "whole" /\ meta = "whole"

(* A receipt says VERIFIED: every file of the dispatch is in the overlay as this envelope
   wrote it, and stays there, unless another dispatch that writes one of these files ran
   beside it or came after it. *)
IsWritten(e) == Writes[e] \X {e} \subseteq written[OverlayOf[e]]
VerifiedIsWritten == \A e \in receipts \ clashed : IsWritten(e)

(* Snapshots and receipts only say what is on disk. *)
SlotsAreSound == SnapshotIsWhole /\ VerifiedIsWritten

(* "Thread-safe executor." (slot_executor.py:155): where no other envelope writes the files
   of a VERIFIED one, they are in the overlay, also when two threads are given it. *)
ThreadSafe == \A e \in receipts : (\A d \in Envelope : Shares(d, e) => d = e) => IsWritten(e)
=============================================================================
