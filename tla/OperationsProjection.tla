------------------------ MODULE OperationsProjection ------------------------
(***************************************************************************)
(* The derived view of operation receipts (operations_projection.py).      *)
(* ingest applies a batch receipt by receipt under the lock and stops at   *)
(* the first one it refuses; only a batch that is accepted to its end      *)
(* recomputes which receipts have a causal gap.                            *)
(***************************************************************************)
EXTENDS Integers, Sequences, FiniteSets

CONSTANTS
    Handle,
    MaxSequence,   \* bound on the receipts' sequence numbers
    Batch,         \* sequences of receipts that are ingested together
    NoReceipt, NoParent

VARIABLES
    receipts,      \* handle -> the live receipt, or NoReceipt
    tombstones,    \* handle -> the tombstone receipt, or NoReceipt
    lastSequence,  \* handle -> sequence of the last receipt, -1 when there was none
    gaps,          \* _causal_gaps, as computed last
    forks,
    unsettled      \* handles that refused batches changed after gaps was computed

operationVars == <<receipts, tombstones, lastSequence, gaps, forks, unsettled>>

Receipt == [handle : Handle, sequence : 0..MaxSequence, status : {"open", "complete"},
            parent : Handle \cup {NoParent}, tombstone : BOOLEAN, generation : {"pinned", "other"}]

ASSUME OperationsAssumption ==
    MaxSequence \in Nat /\ Batch \subseteq Seq(Receipt) /\ NoReceipt \notin Receipt /\ NoParent \notin Handle

OperationsInit ==
    /\ receipts = [h \in Handle |-> NoReceipt] /\ tombstones = receipts
    /\ lastSequence = [h \in Handle |-> -1]
    /\ gaps = {} /\ forks = {} /\ unsettled = {}

(* Mutant: only the receipts whose parent is unknown have a gap. *)
GapsOfUnknown(live) ==
    {h \in Handle : live[h] # NoReceipt /\ live[h].parent # NoParent /\ live[live[h].parent] = NoReceipt}

(* _refresh_consistency *)
GapsOf(live) ==
    {h \in Handle :
        /\ live[h] # NoReceipt /\ live[h].parent # NoParent
        /\ live[live[h].parent] = NoReceipt \/ live[live[h].parent].sequence >= live[h].sequence}

View == [receipts |-> receipts, tombstones |-> tombstones, last |-> lastSequence, forks |-> forks, ok |-> TRUE]
Previous(v, h) == IF v.receipts[h] # NoReceipt THEN v.receipts[h] ELSE v.tombstones[h]

(* One receipt of a batch: after one that was refused, no other is looked at. *)
Take(v, r) ==
    LET h == r.handle
        fresh == r.sequence > v.last[h]
        same == r.sequence = v.last[h]
    IN  CASE ~ v.ok -> v
          [] v.ok /\ (r.generation # "pinned" \/ r.sequence < v.last[h]) -> [v EXCEPT !.ok = FALSE]
          [] v.ok /\ r.generation = "pinned" /\ same /\ r = Previous(v, h) -> v
          [] v.ok /\ r.generation = "pinned" /\ same /\ r # Previous(v, h) ->
                [v EXCEPT !.forks = @ \cup {h}, !.ok = FALSE]
          [] v.ok /\ r.generation = "pinned" /\ fresh ->
                [v EXCEPT !.last[h] = r.sequence,
                          !.receipts[h] = IF r.tombstone THEN NoReceipt ELSE r,
                          !.tombstones[h] = IF r.tombstone THEN r ELSE NoReceipt]

Taken(batch) ==
    LET after[n \in 0..Len(batch)] == IF n = 0 THEN View ELSE Take(after[n - 1], batch[n])
    IN  after[Len(batch)]

Ingest(batch) ==
    LET v == Taken(batch)
    IN  /\ receipts' = v.receipts /\ tombstones' = v.tombstones
        /\ lastSequence' = v.last /\ forks' = v.forks
        /\ gaps' = IF v.ok THEN GapsOf(v.receipts) ELSE gaps
        /\ unsettled' = IF v.ok THEN {} ELSE unsettled \cup {h \in Handle : v.receipts[h] # receipts[h]}

OperationsNext == \E batch \in Batch : Ingest(batch)

OperationsSpec == OperationsInit /\ [][OperationsNext]_operationVars

(* query(status="complete") *)
QueryComplete == {h \in Handle : receipts[h] # NoReceipt /\ receipts[h].status = "complete" /\ h \notin gaps}

----------------------------------------------------------------------------
(* Properties *)

AfterParent(h) ==
    receipts[h].parent # NoParent =>
        /\ receipts[receipts[h].parent] # NoReceipt
        /\ receipts[receipts[h].parent].sequence < receipts[h].sequence

(* A receipt is reported complete while the receipt it depends on is missing from the view
   or not older only where a batch that was refused midway had changed one of the two, and
   only until a batch is accepted: over replacements, deletions and refusals (ingest). *)
CompleteIsCausal ==
    \A h \in QueryComplete : AfterParent(h) \/ h \in unsettled \/ receipts[h].parent \in unsettled

(* "the projection never returns that receipt from a status=complete query"
   (docs/operations-projection-v1.md:20): a refused batch leaves ingest before
   _refresh_consistency runs. *)
NeverCompleteInGap == \A h \in QueryComplete : AfterParent(h)
=============================================================================
