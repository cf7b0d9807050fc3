---------------------------- MODULE PolicyEngine ----------------------------
(***************************************************************************)
(* Policy engines that decide whether to speculate (policy_engine.py), and *)
(* the replay of their receipts (policy_replay.py).  A decision scores the *)
(* pressure, checks the profile against the guardrail, reuses a decision   *)
(* of the cache or computes one and stores it.                             *)
(*                                                                         *)
(* An engine decides under its own lock, but the cache is an object of its *)
(* own that engines may share and callers use directly: every call into it *)
(* is one step, so the calls of two decisions interleave.  A request is a  *)
(* valid telemetry snapshot with its pressure inputs, capabilities and     *)
(* profile; invalid ones raise before anything changes.                    *)
(***************************************************************************)
EXTENDS DecisionCache, PolicyVerdicts

CONSTANTS
    Engine,
    Configuration,   \* the SpeculationPolicy of each engine
    Telemetry,       \* the requests that may arrive, by name
    Blockable,       \* keys a caller may quarantine
    NoKey, NoCall, NoDecision,
    MaxDecisions, MaxAdmin

Requests == DOMAIN Telemetry

VARIABLES
    calls,     \* the decision each engine is working on
    lastKey,   \* _last_key
    decided,   \* what each engine returned last
    decisions, admin

engineVars == <<calls, lastKey, decided, decisions, admin>>
vars == <<cacheVars, engineVars>>

MinMetrics == 2
MinConfidence == 60
DefaultDraftTokens == 4
DefaultThreshold == 75
DefaultBatch == 8
BaselinePlacement == -1
UnspecifiedPlacement == -2

Bucket(p) ==
    IF p = Unknown THEN "unknown" ELSE IF p >= 80 THEN "high" ELSE IF p >= 50 THEN "medium" ELSE "low"

(* a request's telemetry, and the field the contract derives from it *)
IsRequest(r) ==
    /\ r.generation \in Generation
    /\ IsInputs(r.inputs)
    /\ r.caps # NoKey => r.caps \in [Strategies -> Capability]
    /\ r.acceptance \in OptFraction
    /\ r.profile # NoDecision => r.profile \in Profile
    /\ r.key # NoKey => IsKey(r.key)

ASSUME EngineAssumption ==
    /\ MaxDecisions \in Nat /\ MaxAdmin \in Nat
    /\ Configuration \in [Engine -> Configurations]
    /\ \A r \in Requests : IsRequest(Telemetry[r])
    /\ \A k \in Blockable : IsKey(k)

Spec_(r) == Speculative(r.inputs, r.acceptance, MinMetrics, MinConfidence)

(* _build_cache_key; a caller may pass a key of its own *)
KeyOf(r) ==
    IF r.key # NoKey THEN r.key
    ELSE [generation |-> r.generation, identity |-> r.identity,
          placement |-> IF Candidates(r.inputs) = {} THEN "unspecified"
                        ELSE BestPlacement(r.inputs).placement,
          kv |-> Bucket(PressureValue(r.inputs, "kv")),
          concurrency |-> Bucket(PressureValue(r.inputs, "concurrency"))]

(* _profile_state: the guardrail's objection, if the profile has any *)
ProfileObjection(r) ==
    IF r.profile = NoDecision THEN "none"
    ELSE LET p == r.profile IN
         IF p.generation # r.generation THEN "profile_generation_mismatch"
         ELSE IF p.ttft > 100 + MaxTtftRegression THEN "ttft_regression"
         ELSE IF Guardrail(p) # "within_guardrail" THEN Guardrail(p) ELSE "none"

Regressions == {"throughput_regression", "memory_regression", "ttft_regression", "fallback_observed"}

Classify(ratio, worse, better) ==
    IF ratio = NoValue THEN "unknown" ELSE IF worse THEN "regressing"
    ELSE IF better THEN "improving" ELSE "flat"

(* _effective_capabilities: without any, the profile's own speed vouches for a draft *)
EffectiveCaps(r) ==
    LET none == [s \in Strategies |-> Unsupported]
    IN  IF r.caps # NoKey THEN r.caps
        ELSE IF r.profile = NoDecision THEN none
        ELSE [none EXCEPT !["draft"] = [supported |-> r.profile.throughput > 100,
                                        speedup |-> r.profile.throughput]]

(* _telemetry_classifications: what a hit must agree with *)
Observations(r) ==
    LET p == IF r.profile = NoDecision
             THEN [throughput |-> NoValue, ttft |-> NoValue, memory |-> NoValue] ELSE r.profile
    IN  [pressure |-> IF Used(r.inputs) = {} THEN "unknown"
                      ELSE IF ScoreAtLeast(r.inputs, 80) THEN "high"
                      ELSE IF ScoreAtLeast(r.inputs, 50) THEN "medium" ELSE "low",
         confidence |-> IF Denominator(r.inputs) >= 8000 THEN "high"
                        ELSE IF Denominator(r.inputs) >= 6000 THEN "medium" ELSE "low",
         capability |-> [s \in Strategies |-> <<EffectiveCaps(r)[s].supported, IsUsable(EffectiveCaps(r)[s])>>],
         throughput |-> Classify(p.throughput, p.throughput < 100 - MaxTtftRegression, p.throughput > 100),
         ttft |-> Classify(p.ttft, p.ttft > 100 + MaxTtftRegression, p.ttft < 100),
         memory |-> Classify(p.memory, p.memory > 100 + MaxMemoryIncrease, p.memory < 100)]

(* _context_batch_policy *)
Batch(r, enabled) ==
    IF PressureValue(r.inputs, "concurrency") >= HighPressure THEN <<1, "latency">>
    ELSE IF PressureValue(r.inputs, "cache") >= HighPressure THEN <<1, "cache_locality">>
    ELSE IF ~enabled \/ Denominator(r.inputs) < 8000 THEN <<4, "balanced">>
    ELSE <<DefaultBatch, "throughput">>

(* the best placement costs too much transfer or has too little headroom left *)
Pressed(r) == Candidates(r.inputs) # {} /\ PlacementPressed(r.inputs, BestPlacement(r.inputs))

(* _compute_decision: every objection makes it the baseline *)
Selected(e, r) ==
    IF Spec_(r) /\ ProfileObjection(r) = "none" /\ ~Pressed(r)
    THEN Select(Configuration[e], EffectiveCaps(r)) ELSE "baseline"

Plan(e, r) ==
    LET selected == Selected(e, r)
        enabled == selected # "baseline"
        tuned == r.profile # NoDecision /\ r.profile.generation = r.generation
    IN  [selected |-> selected, enabled |-> enabled,
         placement |-> IF ~enabled THEN BaselinePlacement
                       ELSE IF Candidates(r.inputs) = {} THEN UnspecifiedPlacement
                       ELSE BestPlacement(r.inputs).name,
         tokens |-> IF ~enabled THEN 0
                    ELSE IF tuned THEN TunedTokens(r.profile, DefaultDraftTokens) ELSE DefaultDraftTokens,
         threshold |-> IF tuned THEN TunedThreshold(r.profile, DefaultThreshold) ELSE DefaultThreshold,
         batch |-> Batch(r, enabled)]

(* what depends on the request alone, evaluated once for each *)
RequestKey == [r \in Requests |-> KeyOf(Telemetry[r])]
RequestObserved == [r \in Requests |-> Observations(Telemetry[r])]
RequestSpeculative == [r \in Requests |-> Spec_(Telemetry[r])]
RequestObjection == [r \in Requests |-> ProfileObjection(Telemetry[r])]
RequestPlan == [e \in Engine |-> [r \in Requests |-> Plan(e, Telemetry[r])]]

(* _contract_receipt: how the strategy is named on the wire *)
ContractStrategy(plan) ==
    IF ~plan.enabled THEN "disabled" ELSE IF plan.selected = "mtp" THEN "tree" ELSE "draft_verify"

----------------------------------------------------------------------------

Idle(e) == calls[e] = NoCall
At(e, pc) == calls[e] # NoCall /\ calls[e].pc = pc
Goto(e, pc) == calls' = [calls EXCEPT ![e].pc = pc]
R(e) == calls[e].request
Answered(e) == Telemetry[decided[e].request]
K(e) == RequestKey[R(e)]

Finish(e, plan, hit) ==
    /\ decided' = [decided EXCEPT ![e] =
            [request |-> R(e), plan |-> plan, hit |-> hit, strategy |-> ContractStrategy(plan)]]
    /\ calls' = [calls EXCEPT ![e] = NoCall]

Init ==
    /\ CacheInit
    /\ calls = [e \in Engine |-> NoCall]
    /\ lastKey = [e \in Engine |-> NoKey]
    /\ decided = [e \in Engine |-> NoDecision]
    /\ decisions = 0 /\ admin = 0

(* decide: a key of another generation switches the cache off for this decision *)
Decide(e, r) ==
    /\ Idle(e) /\ decisions < MaxDecisions
    /\ decisions' = decisions + 1
    /\ calls' = [calls EXCEPT ![e] =
            [pc |-> IF RequestKey[r].generation = Telemetry[r].generation THEN "activate" ELSE "compute",
             request |-> r]]
    /\ UNCHANGED <<cacheVars, lastKey, decided, admin>>

(* the generation of the telemetry becomes the cache's *)
Activate(e) ==
    /\ At(e, "activate")
    /\ ActivateGeneration(K(e).generation)
    /\ Goto(e, "drift")
    /\ UNCHANGED <<lastKey, decided, decisions, admin>>

(* _invalidate_changed_key: what the engine's previous key drifted in *)
Drift(e) ==
    /\ At(e, "drift")
    /\ lastKey' = [lastKey EXCEPT ![e] = K(e)]
    /\ LET previous == lastKey[e]
           comparable == previous # NoKey /\ previous.generation = K(e).generation
           dims == IF comparable THEN {d \in Dimensions : previous[d] # K(e)[d]} ELSE {}
       IN  IF dims = {} THEN UNCHANGED cacheVars ELSE InvalidateDrift(K(e), dims)
    /\ Goto(e, IF RequestSpeculative[R(e)] THEN "guard" ELSE "baseline")
    /\ UNCHANGED <<decided, decisions, admin>>

(* high pressure revokes the reusable decision *)
Baseline(e) ==
    /\ At(e, "baseline")
    /\ Invalidate(K(e))
    /\ Goto(e, "guard")
    /\ UNCHANGED <<lastKey, decided, decisions, admin>>

(* a profile that regressed disables the key, another objection invalidates it *)
Guard(e) ==
    LET objection == RequestObjection[R(e)] IN
    /\ At(e, "guard")
    /\ CASE objection = "none" -> UNCHANGED cacheVars
         [] objection \in Regressions -> DisableForRegression(K(e))
         [] OTHER -> Invalidate(K(e))
    /\ Goto(e, IF RequestSpeculative[R(e)] /\ objection = "none" THEN "lookup" ELSE "compute")
    /\ UNCHANGED <<lastKey, decided, decisions, admin>>

LookUp(e) ==
    /\ At(e, "lookup")
    /\ Lookup(K(e), RequestObserved[R(e)])
    /\ IF LookupOutcome(K(e), RequestObserved[R(e)]) = "hit"
       THEN Finish(e, EntryOf(K(e)).decision, TRUE)
       ELSE Goto(e, "compute") /\ UNCHANGED decided
    /\ UNCHANGED <<lastKey, decisions, admin>>

(* compute, store an enabled decision if the cache is in use, and return it *)
Compute(e) ==
    /\ At(e, "compute")
    /\ IF RequestPlan[e][R(e)].enabled /\ K(e).generation = Telemetry[R(e)].generation
       THEN Put(K(e), RequestPlan[e][R(e)], RequestObserved[R(e)])
       ELSE UNCHANGED cacheVars
    /\ Finish(e, RequestPlan[e][R(e)], FALSE)
    /\ UNCHANGED <<lastKey, decisions, admin>>

(* PolicyEngine.activate_generation *)
EngineActivate(e, g) ==
    /\ Idle(e) /\ admin < MaxAdmin
    /\ admin' = admin + 1
    /\ lastKey' = [lastKey EXCEPT ![e] = NoKey]
    /\ ActivateGeneration(g)
    /\ UNCHANGED <<calls, decided, decisions>>

(* callers that hold the cache, or invalidate_for_drift, which takes no engine lock *)
CallerQuarantines(k) ==
    /\ admin < MaxAdmin /\ admin' = admin + 1
    /\ Quarantine(k)
    /\ UNCHANGED <<calls, lastKey, decided, decisions>>

CallerReportsDrift(k, d) ==
    /\ admin < MaxAdmin /\ admin' = admin + 1
    /\ InvalidateDrift(k, {d})
    /\ UNCHANGED <<calls, lastKey, decided, decisions>>

(* policy_replay: the telemetry's capability details say what is supported and
   nothing of its speed; the receipt is compared by its contract strategy *)
ReplayCaps(r) ==
    [s \in Strategies |-> [supported |-> r.caps # NoKey /\ r.caps[s].supported, speedup |-> NoValue]]

ReplayStrategy(selected) ==
    CASE selected = "baseline" -> "disabled" [] selected = "draft" -> "draft_verify" [] OTHER -> "tree"

(* _replay_loaded and _make_diff, for the receipt the engine returned last; a
   replay reads and changes nothing *)
ReplayChoice(e) == Select("auto", ReplayCaps(Answered(e)))
ReplayChanged(e) == ReplayStrategy(ReplayChoice(e)) # decided[e].strategy

Step(e) ==
    Activate(e) \/ Drift(e) \/ Baseline(e) \/ Guard(e) \/ LookUp(e) \/ Compute(e)

Next ==
    \/ \E e \in Engine : Step(e)
    \/ \E e \in Engine, r \in Requests : Decide(e, r)
    \/ \E e \in Engine, g \in Generation : EngineActivate(e, g)
    \/ \E k \in Blockable : CallerQuarantines(k)
    \/ \E k \in Blockable, d \in Dimensions : CallerReportsDrift(k, d)

Spec == Init /\ [][Next]_vars

----------------------------------------------------------------------------
(* Properties *)

TypeOK ==
    /\ CacheTypeOK
    /\ \A e \in Engine : ~Idle(e) =>
          /\ R(e) \in Requests
          /\ calls[e].pc \in {"activate", "drift", "baseline", "guard", "lookup", "compute"}
    /\ decisions \in 0..MaxDecisions /\ admin \in 0..MaxAdmin

IsSafe(r, strategy) ==
    LET usable == {n \in Metrics : r.inputs.metric[n].state = "available"
                                   /\ r.inputs.metric[n].confidence > 0 /\ r.inputs.metric[n].enabled}
    IN  /\ Cardinality(usable) >= MinMetrics
        /\ \A n \in usable : r.inputs.metric[n].pressure < 80
        /\ \A n \in Metrics : r.inputs.metric[n].state # "contradictory"
        /\ ProfileObjection(r) = "none"
        /\ EffectiveCaps(r)[strategy].supported
        /\ EffectiveCaps(r)[strategy].speedup \notin 0..100

(* A decision that turns speculation on, computed or reused, has no objection
   of the score, the guardrail or the backend for the telemetry it answers:
   enough metrics were usable and none was high, the profile had no objection,
   and the strategy is one this request's backend can use.  The cache key holds
   none of these.  The objection of a pressed placement is heard when a
   decision is computed, and never again when it is reused: see PressedIsBaseline. *)
EnabledIsSafe ==
    \A e \in Engine : decided[e] # NoDecision /\ decided[e].plan.enabled =>
        /\ IsSafe(Answered(e), decided[e].plan.selected)
        /\ decided[e].hit \/ ~Pressed(Answered(e))

(* "A pressure change can be material without changing the coarse cache key":
   no telemetry whose placement is pressed is answered with speculation. *)
PressedIsBaseline ==
    \A e \in Engine : decided[e] # NoDecision /\ decided[e].plan.enabled => ~Pressed(Answered(e))

(* "the contract currently represents non-draft speculative choices as tree":
   replaying the same choice reports no change *)
SameChoiceReplaysUnchanged ==
    \A e \in Engine : decided[e] # NoDecision /\ decided[e].plan.selected = ReplayChoice(e)
                      => ~ReplayChanged(e)

(* What engines decide through one cache has no objection of the score, the guardrail
   or the backend, and what they revoke or block stays out of it. *)
DecisionsAreSafe ==
    TypeOK /\ EnabledIsSafe /\ EntriesAreAdmissible /\ RevokedIsGone /\ BlockIsRemembered
=============================================================================
