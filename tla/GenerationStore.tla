--------------------------- MODULE GenerationStore ---------------------------
(***************************************************************************)
(* Immutable generations with pins, fences and overlays                    *)
(* (generation_store.py).  One action is one call; the store is used from  *)
(* one thread.  A pin is live until its time has passed; gc forgets        *)
(* generations and their overlays, never pins or fences.                   *)
(***************************************************************************)
EXTENDS Naturals, FiniteSets

CONSTANTS
    Gen,       \* generation ids
    Attempt, Fence,
    Lane,      \* the slots that write
    Item,      \* the paths
    Datum,     \* the data written
    Tombstone, NoFence,
    MaxStoreCalls

VARIABLES
    gens,      \* generations that exist
    pins,      \* <<generation, attempt, fence>> -> live or expired
    fences,    \* the fence each attempt holds on a generation
    laid,      \* overlays: the writes, as <<generation, lane, fence, item, datum>>
    storeCalls

storeVars == <<gens, pins, fences, laid, storeCalls>>

ASSUME StoreAssumption == MaxStoreCalls \in Nat

StoreInit ==
    /\ gens = {} /\ laid = {} /\ storeCalls = 0
    /\ pins = [k \in {} |-> "live"]
    /\ fences = [k \in Gen \X Attempt |-> NoFence]

Calls == storeCalls < MaxStoreCalls /\ storeCalls' = storeCalls + 1

LivePins == {k \in DOMAIN pins : pins[k] = "live"}

Create(g) ==
    /\ Calls
    /\ gens' = gens \cup {g}
    /\ UNCHANGED <<pins, fences, laid>>

(* pin: an attempt keeps the first fence it ever pinned the generation with *)
Pin(g, a, f) ==
    /\ Calls
    /\ g \in gens
    /\ fences[<<g, a>>] \in {NoFence, f}
    /\ fences' = [fences EXCEPT ![<<g, a>>] = f]
    /\ pins' = [k \in DOMAIN pins \cup {<<g, a, f>>} |-> IF k = <<g, a, f>> THEN "live" ELSE pins[k]]
    /\ UNCHANGED <<gens, laid>>

PinExpires(k) ==
    /\ k \in LivePins
    /\ pins' = [pins EXCEPT ![k] = "expired"]
    /\ UNCHANGED <<gens, fences, laid, storeCalls>>

(* Mutant: an expired pin is as good as a live one. *)
WriteExpired(g, lane, f, item, datum) ==
    /\ Calls
    /\ \E k \in DOMAIN pins : k[1] = g /\ k[3] = f
    /\ laid' = {w \in laid : <<w[1], w[2], w[3], w[4]>> # <<g, lane, f, item>>}
               \cup {<<g, lane, f, item, datum>>}
    /\ UNCHANGED <<gens, pins, fences>>

(* write and tombstone: any live pin of the generation with this fence will do *)
Write(g, lane, f, item, datum) ==
    /\ Calls
    /\ \E k \in LivePins : k[1] = g /\ k[3] = f
    /\ laid' = {w \in laid : <<w[1], w[2], w[3], w[4]>> # <<g, lane, f, item>>}
               \cup {<<g, lane, f, item, datum>>}
    /\ UNCHANGED <<gens, pins, fences>>

(* gc(dry_run=False) *)
Gc ==
    /\ Calls
    /\ LET kept == {k[1] : k \in LivePins} IN
       /\ gens' = gens \cap kept
       /\ laid' = {w \in laid : w[1] \notin gens \/ w[1] \in kept}
    /\ UNCHANGED <<pins, fences>>

StoreNext ==
    \/ \E g \in Gen : Create(g)
    \/ \E g \in Gen, a \in Attempt, f \in Fence : Pin(g, a, f)
    \/ \E k \in DOMAIN pins : PinExpires(k)
    \/ \E g \in Gen, lane \in Lane, f \in Fence, item \in Item, datum \in Datum \cup {Tombstone} :
          Write(g, lane, f, item, datum)
    \/ Gc

StoreSpec == StoreInit /\ [][StoreNext]_storeVars

----------------------------------------------------------------------------
(* Properties *)

(* A live pin keeps its generation, also when the generation was collected before
   and created again under the same id. *)
PinKeepsGeneration == \A k \in LivePins : k[1] \in gens

(* No write outlives its generation: one that is collected and created again starts
   without overlays although its pins and fences are remembered. *)
RecreatedIsClean == \A w \in laid : w[1] \in gens

(* Pins keep their generation, and a generation that is created again is a new one. *)
StoreIsSound == PinKeepsGeneration /\ RecreatedIsClean
=============================================================================
