--------------------------- MODULE MCPolicyEngine ---------------------------
(***************************************************************************)
(* Two engines that share a cache of one entry, over two generations.  The *)
(* requests differ in one thing each: the backend's capabilities, a metric *)
(* that is high, missing or contradictory, a profile that regressed, the   *)
(* placement's pressure, the key's buckets or the key itself.              *)
(*                                                                         *)
(* The choice of a representation shares no state with the engines and is  *)
(* explored beside them, never interleaved with them.  Its candidates have *)
(* missing objectives, one is too large, one too poor, one unavailable.    *)
(***************************************************************************)
EXTENDS PolicyEngine, Pareto

Symmetry == Permutations(Engine)

MCGeneration == {"g1", "g2"}
MCConfiguration == [e \in Engine |-> "auto"]

AllAt(p) == [n \in Metrics |-> Available(p, 100)]
Placed(transfer) ==
    {[name |-> 1, placement |-> "same_gpu", transfer |-> transfer, headroom |-> Unknown],
     [name |-> 2, placement |-> "cpu_draft", transfer |-> transfer, headroom |-> 10]}
InputsOf(metric, transfer) ==
    [metric |-> metric, residency |-> Available(0, 100), candidates |-> Placed(transfer)]
Caps(strategies) == [s \in Strategies |-> IF s \in strategies
                                          THEN [supported |-> TRUE, speedup |-> 130] ELSE Unsupported]
Good == [generation |-> "g1", fallback |-> FALSE, throughput |-> 120, ttft |-> 90, memory |-> 105,
         acceptance |-> 90, length |-> 4]

Calm == [generation |-> "g1", identity |-> "m", inputs |-> InputsOf(AllAt(20), 20),
         acceptance |-> 90, caps |-> Caps({"mtp", "draft"}), profile |-> NoDecision, key |-> NoKey]

MCTelemetry ==
    [calm |-> Calm,
     later |-> [Calm EXCEPT !.generation = "g2"],
     flash |-> [Calm EXCEPT !.caps = [Caps({"dflash"}) EXCEPT !["ngram"] = [supported |-> TRUE, speedup |-> 90]],
                            !.profile = Good],
     busy |-> [Calm EXCEPT !.inputs.metric["bandwidth"] = Available(90, 100)],
     sparse |-> [Calm EXCEPT !.inputs.metric =
                    [n \in Metrics |-> IF n = "kv" THEN Available(20, 100) ELSE Unavailable]],
     torn |-> [Calm EXCEPT !.inputs.metric["cache"] = Contradictory],
     strained |-> [Calm EXCEPT !.inputs.metric = [AllAt(70) EXCEPT !["headroom"] = Available(20, 100)]],
     fuller |-> [Calm EXCEPT !.inputs.metric["kv"] = Available(60, 100)],
     pressed |-> [Calm EXCEPT !.inputs.candidates = Placed(85)],
     regressed |-> [Calm EXCEPT !.profile = [Good EXCEPT !.throughput = 80], !.caps = NoKey],
     foreign |-> [Calm EXCEPT !.profile = [Good EXCEPT !.generation = "g2"]],
     keyed |-> [Calm EXCEPT !.key = KeyOf([Calm EXCEPT !.generation = "g2"])]]

MCBlockable == {KeyOf(Calm)}

MCObjectives == {"quality", "ttft_ms", "transfer_ms", "disk_ms", "resident_bytes"}
MCBudget == [m \in {"resident_bytes"} |-> 1]
Offer(name, quality, ttft, transfer, disk, resident) ==
    [name |-> name, available |-> name # 6, identity |-> IF name = 5 THEN "b" ELSE AnyIdentity,
     value |-> [m \in MCObjectives |->
                   CASE m = "quality" -> quality [] m = "ttft_ms" -> ttft [] m = "transfer_ms" -> transfer
                     [] m = "disk_ms" -> disk [] OTHER -> resident]]
MCOffers == {Offer(1, 1, 0, NotReported, 1, 1), Offer(2, 1, 1, 0, NotReported, 1),
             Offer(3, 1, NotReported, 1, 0, 1), Offer(4, 2, 2, 2, 2, 1),
             Offer(5, 2, 0, 0, 0, 0), Offer(6, 2, 0, 0, 0, 0),
             Offer(7, 0, 0, 0, 0, 0), Offer(8, 2, 0, 0, 0, 2), Offer(9, 1, 0, 1, 2, 0)}

MCInit == Init /\ ParetoInit
MCNext == \/ offered = {} /\ generation = 0 /\ Next /\ UNCHANGED paretoVars
          \/ decisions = 0 /\ admin = 0 /\ ParetoNext /\ UNCHANGED vars
MCSpec == MCInit /\ [][MCNext]_<<vars, paretoVars>>
=============================================================================
