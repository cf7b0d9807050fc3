---------------------------- MODULE PolicyVerdicts ----------------------------
(***************************************************************************)
(* The verdicts a policy decision is built from: the pressure score and the *)
(* speculation strategy.                                                   *)
(***************************************************************************)
EXTENDS Integers, FiniteSets, FiniteSetsExt

----------------------------------------------------------------------------
(***************************************************************************)
(* The pressure score of pressure_inputs.py: metrics with a confidence and *)
(* a capability gate, the weighted score and the fail-closed verdict, and  *)
(* the ranking of the placements the runtime offers.                       *)
(*                                                                         *)
(* Fractions are whole percents.  A metric that is absent from the inputs  *)
(* is one in the state "unavailable": the code treats both alike.          *)
(***************************************************************************)

Fraction == 0..100
Unknown == -1
OptFraction == Fraction \cup {Unknown}

Metrics == {"bandwidth", "cache", "transfer", "headroom", "kv", "concurrency", "throughput"}

Weight == [bandwidth |-> 23, cache |-> 12, transfer |-> 22, headroom |-> 16,
           kv |-> 13, concurrency |-> 8, throughput |-> 6]

HighPressure == 80
HighRisk == 65
AcceptanceFloor == 50

Metric == [state : {"available", "unavailable", "contradictory"},
           pressure : Fraction, confidence : Fraction, enabled : BOOLEAN]

Available(p, c) == [state |-> "available", pressure |-> p, confidence |-> c, enabled |-> TRUE]
Unavailable == [state |-> "unavailable", pressure |-> 0, confidence |-> 0, enabled |-> TRUE]
Contradictory == [Unavailable EXCEPT !.state = "contradictory"]

(* the pool with the least room decides; pools that are not reported are left out *)
HeadroomPressure(pools) == Max({100 - v : v \in {x \in pools : x # Unknown}})

Candidate == [name : Nat, placement : {"same_gpu", "unified", "cpu_draft"},
              transfer : OptFraction, headroom : OptFraction]

(* one telemetry snapshot: the metrics, and the residency metric with its candidates *)
IsInputs(in) ==
    /\ in.metric \in [Metrics -> Metric]
    /\ in.residency \in Metric
    /\ \A c \in in.candidates : c \in Candidate
    /\ \A c, d \in in.candidates : c.name = d.name => c = d
    /\ in.residency.state = "available" => in.candidates # {}

Usable(m) == m.state = "available" /\ m.confidence > 0 /\ m.enabled

Used(in) == {n \in Metrics : Usable(in.metric[n])}
ContradictoryMetrics(in) == {n \in Metrics : in.metric[n].state = "contradictory"}

PressureValue(in, n) == IF Usable(in.metric[n]) THEN in.metric[n].pressure ELSE Unknown

Denominator(in) == MapThenSumSet(LAMBDA n : Weight[n] * in.metric[n].confidence, Used(in))

Numerator(in) ==
    MapThenSumSet(LAMBDA n : Weight[n] * in.metric[n].confidence * in.metric[n].pressure, Used(in))

(* the coverage times the mean confidence: the weights add up to 100 *)
Confidence(in) == Denominator(in) \div 100

(* the score is known to the hundredth of a percent by its two sums *)
ScoreAtLeast(in, x) == Used(in) # {} /\ Numerator(in) >= x * Denominator(in)

(* the reasons that speak against speculation, from each source *)
Verdict(in, acceptance, minMetrics, minConfidence) ==
    LET because(cond, reason) == IF cond THEN {reason} ELSE {}
        direct == because(ContradictoryMetrics(in) # {}, "TELEMETRY_CONTRADICTORY")
                  \cup because(Cardinality(Used(in)) < minMetrics, "TELEMETRY_INSUFFICIENT")
                  \cup because(Denominator(in) < 100 * minConfidence, "TELEMETRY_LOW_CONFIDENCE")
                  \cup {n \in Used(in) : in.metric[n].pressure >= HighPressure}
                  \cup because(acceptance = Unknown, "ACCEPTANCE_UNAVAILABLE")
                  \cup because(acceptance \in 0..(AcceptanceFloor - 1), "ACCEPTANCE_LOW")
    IN  IF direct = {} THEN because(ScoreAtLeast(in, HighRisk), "PRESSURE_RISK_HIGH") ELSE direct

(* score_pressure recommends speculation only if nothing speaks against it *)
Speculative(in, acceptance, minMetrics, minConfidence) ==
    Verdict(in, acceptance, minMetrics, minConfidence) = {}

----------------------------------------------------------------------------
(* Placements; a lower score is better *)

PlacementBase == [same_gpu |-> 10, unified |-> 22, cpu_draft |-> 48]

TransferOf(in, c) == IF c.transfer # Unknown THEN c.transfer ELSE PressureValue(in, "transfer")
HeadroomOf(in, c) == IF c.headroom # Unknown THEN c.headroom ELSE PressureValue(in, "headroom")

PlacementScore(in, c) ==
    LET part(weight, p) == IF p = Unknown THEN 0 ELSE weight * p
    IN  100 * PlacementBase[c.placement] + part(35, TransferOf(in, c))
        + part(25, HeadroomOf(in, c)) + part(10, PressureValue(in, "bandwidth"))

(* the flags that turn an otherwise good decision into the baseline *)
PlacementPressed(in, c) ==
    TransferOf(in, c) >= HighPressure \/ HeadroomOf(in, c) >= HighPressure

Candidates(in) == IF Usable(in.residency) THEN in.candidates ELSE {}

Preferred(in, c, d) ==
    \/ PlacementScore(in, c) < PlacementScore(in, d)
    \/ PlacementScore(in, c) = PlacementScore(in, d) /\ c.name <= d.name

(* rank_placements, its first element *)
BestPlacement(in) == CHOOSE c \in Candidates(in) : \A d \in Candidates(in) : Preferred(in, c, d)

----------------------------------------------------------------------------
(***************************************************************************)
(* Which speculation strategy is chosen (speculation_policy.py) and what a *)
(* measured profile makes of it (speculation_profiler.py): the regression  *)
(* guardrail and the bounded tuning of draft tokens and threshold.         *)
(*                                                                         *)
(* Ratios and thresholds are whole percents; a speedup of 100 is the speed *)
(* of the baseline.                                                        *)
(***************************************************************************)

NoValue == -1

Strategies == {"ngram", "draft", "dflash", "mtp"}
Configurations == {"off", "auto"} \cup Strategies
AutoPreference == [mtp |-> 0, dflash |-> 1, draft |-> 2, ngram |-> 3]

Capability == [supported : BOOLEAN, speedup : Nat \cup {NoValue}]
Unsupported == [supported |-> FALSE, speedup |-> NoValue]

IsUsable(capability) ==
    capability.supported /\ (capability.speedup = NoValue \/ capability.speedup > 100)

(* estimated strategies before the others, faster before slower, then by preference *)
AutoRank(s, caps) ==
    <<IF caps[s].speedup = NoValue THEN 0 ELSE 1,
      IF caps[s].speedup = NoValue THEN 0 ELSE caps[s].speedup,
      0 - AutoPreference[s]>>

Below(x, y) ==
    \E i \in 1..3 : x[i] < y[i] /\ \A j \in 1..(i - 1) : x[j] = y[j]

UsableStrategies(caps) == {s \in Strategies : IsUsable(caps[s])}

(* SpeculationPolicy.decide *)
Select(configuration, caps) ==
    CASE configuration = "off" -> "baseline"
      [] configuration \in Strategies ->
            IF IsUsable(caps[configuration]) THEN configuration ELSE "baseline"
      [] OTHER ->
            IF UsableStrategies(caps) = {} THEN "baseline"
            ELSE CHOOSE s \in UsableStrategies(caps) :
                    \A t \in UsableStrategies(caps) : ~Below(AutoRank(s, caps), AutoRank(t, caps))

----------------------------------------------------------------------------
(* Profiles: one observation of a strategy next to the baseline *)

Profile == [generation : STRING, fallback : BOOLEAN,
            throughput : Nat \cup {NoValue}, ttft : Nat \cup {NoValue}, memory : Nat \cup {NoValue},
            acceptance : (0..100) \cup {NoValue}, length : Nat \cup {NoValue}]

MaxThroughputRegression == 5
MaxMemoryIncrease == 20
MaxTtftRegression == 5

(* regression_guardrail: the first objection, in this order *)
Guardrail(p) ==
    IF p.fallback THEN "fallback_observed"
    ELSE IF p.throughput = NoValue THEN "speculative_tok_s_unavailable"
    ELSE IF p.throughput < 100 - MaxThroughputRegression THEN "throughput_regression"
    ELSE IF p.memory > 100 + MaxMemoryIncrease THEN "memory_regression"
    ELSE "within_guardrail"

MinDraftTokens == 1
MaxDraftTokens == 8
MinThreshold == 50
MaxThreshold == 95
ThresholdStep == 5

Clamp(x, low, high) == IF x < low THEN low ELSE IF x > high THEN high ELSE x

TunedTokens(p, current) ==
    LET tokens == Clamp(current, MinDraftTokens, MaxDraftTokens)
        raises == p.acceptance >= 85 /\ (p.length = NoValue \/ 4 * p.length >= 3 * tokens)
        lowers == \/ p.acceptance <= 60
                  \/ p.length # NoValue /\ (p.length < 1 \/ 2 * p.length < tokens)
    IN  IF Guardrail(p) # "within_guardrail" \/ p.acceptance = NoValue THEN tokens
        ELSE Clamp(IF raises THEN tokens + 1 ELSE IF lowers THEN tokens - 1 ELSE tokens,
                   MinDraftTokens, MaxDraftTokens)

TunedThreshold(p, current) ==
    LET threshold == Clamp(current, MinThreshold, MaxThreshold)
    IN  IF Guardrail(p) # "within_guardrail" \/ p.acceptance = NoValue THEN threshold
        ELSE Clamp(IF p.acceptance >= 85 THEN threshold + ThresholdStep
                   ELSE IF p.acceptance <= 60 THEN threshold - ThresholdStep ELSE threshold,
                   MinThreshold, MaxThreshold)
===============================================================================
