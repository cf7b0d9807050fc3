------------------------------ MODULE MCSlots ------------------------------
(***************************************************************************)
(* The arena's generations, its overlays, the generation store, the slot   *)
(* executor and the policies share no state: each is explored beside the   *)
(* others, never interleaved with them.                                    *)
(*                                                                         *)
(* Two overlays of one slot, with deltas that write, delete, rename and    *)
(* swap; three arenas of two sources; two generations with one attempt and *)
(* two fences; two envelopes of different slots and a third one that       *)
(* writes a file of the first one's and exceeds its budget.  The policies' *)
(* values are those of MCPolicyEngine.                                     *)
(***************************************************************************)
EXTENDS PrismArena, PrismOverlays, GenerationStore, SlotExecutor, MCPolicyEngine

NoFiles == [p \in {} |-> Absent]
NoRenames == [p \in {} |-> 1]
MCBase == [p \in Path |-> IF p = 3 THEN Absent ELSE 1]
MCSlotOf == [o \in Overlay |-> CHOOSE s \in Slot : TRUE]
MCSize == [c \in Content |-> c]
MCDelta ==
    {[renames |-> NoRenames, deletes |-> {}, writes |-> 1 :> 2],
     [renames |-> NoRenames, deletes |-> {2}, writes |-> NoFiles],
     [renames |-> 1 :> 3 @@ 2 :> 2, deletes |-> {}, writes |-> NoFiles],
     [renames |-> 1 :> 2 @@ 2 :> 1, deletes |-> {}, writes |-> 3 :> 1]}

MCOverlayOf == [e \in Envelope |-> IF e = "big" THEN "one" ELSE e]
MCWrites == [e \in Envelope |-> IF e = "big" THEN {2, 3} ELSE {1, 2}]
MCMaxOperations == [e \in Envelope |-> IF e = "big" THEN 1 ELSE 2]

IdleArena == jobs = [t \in Thread |-> NoJob] /\ current = NoSource /\ crashes = 0 /\ arenas = [a \in Opening |-> NoArena]
IdleOverlays == slots = [s \in Slot |-> NoSlot]
IdleStore == storeCalls = 0
IdleSlots == object = "missing" /\ kills = 0

IdlePolicies == decisions = 0 /\ admin = 0 /\ offered = {} /\ generation = 0

policyVars == <<vars, paretoVars>>

SlotsInit == ArenaInit /\ OverlayInit /\ StoreInit /\ SlotInit /\ MCInit
SlotsNext ==
    \/ /\ IdleOverlays /\ IdleStore /\ IdleSlots /\ IdlePolicies
       /\ ArenaNext
       /\ UNCHANGED <<overlayVars, storeVars, slotVars, policyVars>>
    \/ /\ IdleArena /\ IdleStore /\ IdleSlots /\ IdlePolicies
       /\ OverlayNext
       /\ UNCHANGED <<arenaVars, storeVars, slotVars, policyVars>>
    \/ /\ IdleArena /\ IdleOverlays /\ IdleSlots /\ IdlePolicies
       /\ StoreNext
       /\ UNCHANGED <<arenaVars, overlayVars, slotVars, policyVars>>
    \/ /\ IdleArena /\ IdleOverlays /\ IdleStore /\ IdlePolicies
       /\ SlotNext
       /\ UNCHANGED <<arenaVars, overlayVars, storeVars, policyVars>>
    \/ /\ IdleArena /\ IdleOverlays /\ IdleStore /\ IdleSlots
       /\ MCNext
       /\ UNCHANGED <<arenaVars, overlayVars, storeVars, slotVars>>

SlotsSpec == SlotsInit /\ [][SlotsNext]_<<arenaVars, overlayVars, storeVars, slotVars, policyVars>>

(* Threads, workers and engines are the same two names: no two of them are ever
   in one behaviour. *)
SlotsSymmetry == Permutations(Thread)
=============================================================================
