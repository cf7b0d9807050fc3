--------------------------- MODULE ValidationCache ---------------------------
(***************************************************************************)
(* Results of validations by content (validation_cache.py): put, leases,   *)
(* garbage collection, save and load.  One action is one call under the    *)
(* lock.  A result is its digest; what a caller may reuse without running  *)
(* the command again is verified, fresh and not known to vary.             *)
(***************************************************************************)
EXTENDS Naturals, Sequences, FiniteSets

LOCAL INSTANCE Functions

CONSTANTS
    ValidationKey,   \* digests of everything a validation depends on
    GenerationOf,    \* the generation of a key
    Outcome,         \* digests of results
    LeaseId,
    NoResult,
    MaxPuts          \* bound: results put for the entries that are held

VARIABLES
    validated,       \* _entries: key -> the result, or NoResult
    leased,          \* _leases
    cacheFile,       \* what save wrote last: entries and their history
    outcomes         \* history: the results put for an entry since it was made

validationVars == <<validated, leased, cacheFile, outcomes>>

ValidationInit ==
    /\ validated = [k \in ValidationKey |-> NoResult]
    /\ leased = [k \in ValidationKey |-> {}]
    /\ outcomes = [k \in ValidationKey |-> <<>>]
    /\ cacheFile = [entries |-> validated, outcomes |-> outcomes]

(* what put writes: a result digest, whether it is verified and fresh, whether it varies *)
ValidationEntry == [result : Outcome, trusted : BOOLEAN, varies : BOOLEAN]

ASSUME ValidationAssumption == MaxPuts \in Nat /\ NoResult \notin ValidationEntry

DiffersFrom(k, result) == validated[k] # NoResult /\ validated[k].result # result

(* Mutant: a result that differs from the one before keeps the caller's flags. *)
EntryAfterTrusting(k, result, trusted) ==
    [result |-> result, trusted |-> trusted, varies |-> FALSE]

(* A result that differs from the one before is neither fresh nor verified. *)
EntryAfter(k, result, trusted) ==
    [result |-> result,
     trusted |-> trusted /\ ~ DiffersFrom(k, result),
     varies |-> DiffersFrom(k, result)]

PutsHeld == FoldFunction(LAMBDA o, n : Len(o) + n, 0, outcomes)

(* put: a verified result needs provenance, except where it contradicts the one before *)
PutResult(k, result, fresh, verified, provenance) ==
    /\ PutsHeld < MaxPuts
    /\ DiffersFrom(k, result) \/ (verified => provenance)
    /\ validated' = [validated EXCEPT ![k] = EntryAfter(k, result, fresh /\ verified)]
    /\ outcomes' = [outcomes EXCEPT ![k] = Append(@, result)]
    /\ UNCHANGED <<leased, cacheFile>>

AcquireLease(k, l) ==
    /\ validated[k] # NoResult
    /\ leased' = [leased EXCEPT ![k] = @ \cup {l}]
    /\ UNCHANGED <<validated, cacheFile, outcomes>>

ReleaseLease(k, l) ==
    /\ l \in leased[k]
    /\ leased' = [leased EXCEPT ![k] = @ \ {l}]
    /\ UNCHANGED <<validated, cacheFile, outcomes>>

(* gc(dry_run=False): at most max entries go, in the order of their digests *)
CollectResults(keep, max) ==
    LET candidates == {k \in ValidationKey :
            validated[k] # NoResult /\ GenerationOf[k] \notin keep /\ leased[k] = {}}
    IN  \E removed \in SUBSET candidates :
        /\ removed # {}
        /\ Cardinality(removed) = max \/ (removed = candidates /\ Cardinality(removed) < max)
        /\ validated' = [k \in ValidationKey |-> IF k \in removed THEN NoResult ELSE validated[k]]
        /\ outcomes' = [k \in ValidationKey |-> IF k \in removed THEN <<>> ELSE outcomes[k]]
        /\ UNCHANGED <<leased, cacheFile>>

SaveResults ==
    /\ cacheFile' = [entries |-> validated, outcomes |-> outcomes]
    /\ UNCHANGED <<validated, leased, outcomes>>

(* load makes a cache of what was saved, without leases *)
LoadResults ==
    /\ validated' = cacheFile.entries /\ outcomes' = cacheFile.outcomes
    /\ leased' = [k \in ValidationKey |-> {}]
    /\ UNCHANGED cacheFile

ValidationNext ==
    \/ \E k \in ValidationKey, r \in Outcome, fresh, verified, provenance \in BOOLEAN :
          PutResult(k, r, fresh, verified, provenance)
    \/ \E k \in ValidationKey, l \in LeaseId : AcquireLease(k, l) \/ ReleaseLease(k, l)
    \/ \E keep \in SUBSET {GenerationOf[k] : k \in ValidationKey}, max \in 1..2 : CollectResults(keep, max)
    \/ SaveResults \/ LoadResults

ValidationSpec == ValidationInit /\ [][ValidationNext]_validationVars

(* get(reusable=True) answers *)
Reusable(k) ==
    validated[k] # NoResult /\ validated[k].trusted /\ ~ validated[k].varies

----------------------------------------------------------------------------
(* Properties *)

(* A result is only ever reused when it was the only one of its entry, or came twice in
   a row: never right after another one, through collection, save and load.  (The third
   of three that was A, B, B is reused, and what came before a collection is forgotten.)
   A leased entry is not collected. *)
ReusedWasRepeated ==
    \A k \in ValidationKey :
        /\ validated[k] \in ValidationEntry \cup {NoResult}
        /\ Reusable(k) => LET o == outcomes[k] IN
              /\ validated[k].result = o[Len(o)]
              /\ Len(o) = 1 \/ o[Len(o) - 1] = o[Len(o)]
        /\ leased[k] # {} => validated[k] # NoResult
=============================================================================
