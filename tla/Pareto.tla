------------------------------- MODULE Pareto -------------------------------
(***************************************************************************)
(* The choice of a representation (pareto_policy.py): candidates report    *)
(* some of the objectives, hard filters exclude, the undominated ones form *)
(* the frontier and a profile's weights pick one of it.  A caller keeps    *)
(* the decision and asks its hook whether the generation is still the one  *)
(* it was made for.                                                        *)
(*                                                                         *)
(* Values are small integers so that a benefit, a position between the     *)
(* lowest and the highest value of the frontier, is a whole number of      *)
(* halves; two scores are compared as fractions.  Names are numbers.       *)
(***************************************************************************)
EXTENDS Integers, Sequences, FiniteSets, FiniteSetsExt

CONSTANTS
    Offers,       \* the candidates the runtime may report
    Objectives,   \* the objectives these candidates differ in
    Profiles,     \* the profiles callers use
    Budget,       \* hard budgets: objective -> limit or NotReported
    QualityFloor, \* the quality threshold
    LastGeneration,
    NoSelection

VARIABLES
    offered,     \* the candidates reported so far
    generation,  \* the current generation
    decision     \* the caller's decision

paretoVars == <<offered, generation, decision>>

NotReported == -1
Values == 0..2
AnyIdentity == "unknown"

Maximize == {"quality", "tokens_per_second"}
AllObjectives == {"quality", "tokens_per_second", "ttft_ms", "resident_bytes", "peak_bytes",
                  "bytes_per_token", "kv_bytes_per_token", "transfer_bytes", "transfer_ms",
                  "disk_bytes", "disk_ms", "energy_joules"}
Budgeted == {"resident_bytes", "peak_bytes", "bytes_per_token", "kv_bytes_per_token"}

(* _PROFILE_WEIGHTS, in percent *)
ProfileWeights ==
    [quality  |-> <<<<"quality", 70>>, <<"tokens_per_second", 15>>, <<"ttft_ms", 10>>, <<"energy_joules", 5>>>>,
     balanced |-> <<<<"quality", 35>>, <<"tokens_per_second", 20>>, <<"ttft_ms", 15>>, <<"resident_bytes", 8>>,
                    <<"peak_bytes", 8>>, <<"transfer_ms", 4>>, <<"disk_ms", 4>>, <<"energy_joules", 6>>>>,
     memory   |-> <<<<"resident_bytes", 30>>, <<"peak_bytes", 30>>, <<"bytes_per_token", 12>>,
                    <<"kv_bytes_per_token", 12>>, <<"quality", 10>>, <<"tokens_per_second", 6>>>>,
     minimal  |-> <<<<"resident_bytes", 25>>, <<"peak_bytes", 25>>, <<"bytes_per_token", 15>>,
                    <<"kv_bytes_per_token", 15>>, <<"transfer_bytes", 5>>, <<"disk_bytes", 5>>,
                    <<"energy_joules", 5>>, <<"quality", 5>>>>]

IsCandidate(c) ==
    /\ c.name \in Nat /\ c.available \in BOOLEAN
    /\ c.value \in [Objectives -> Values \cup {NotReported}]
    /\ c.value["quality"] # NotReported

ASSUME ParetoAssumption ==
    /\ "quality" \in Objectives /\ Objectives \subseteq AllObjectives
    /\ \A c \in Offers : IsCandidate(c)
    /\ Budget \in [Budgeted \cap Objectives -> Values \cup {NotReported}]
    /\ QualityFloor \in Values /\ LastGeneration \in Nat
    /\ Profiles \subseteq DOMAIN ProfileWeights /\ NoSelection \notin Offers

Reports(c, m) == c.value[m] # NotReported

(* _hard_filters: a budgeted objective that is not reported does not fit *)
Eligible(c, identity) ==
    /\ c.value["quality"] >= QualityFloor
    /\ c.available
    /\ \A m \in DOMAIN Budget : Budget[m] # NotReported => Reports(c, m) /\ c.value[m] <= Budget[m]
    /\ c.identity = AnyIdentity \/ identity = AnyIdentity \/ c.identity = identity

Better(m, x, y) == IF m \in Maximize THEN x > y ELSE x < y

(* _dominates compares the objectives that both report *)
Dominates(c, d) ==
    LET both == {m \in Objectives : Reports(c, m) /\ Reports(d, m)}
    IN  /\ \A m \in both : ~Better(m, d.value[m], c.value[m])
        /\ \E m \in both : Better(m, c.value[m], d.value[m])

(* Mutant: the frontier is taken of all candidates, not of the eligible ones. *)
FrontierOfAll(cs, identity) ==
    {c \in cs : ~\E d \in cs : d # c /\ Dominates(d, c)}

Frontier(cs, identity) ==
    LET eligible == {c \in cs : Eligible(c, identity)}
    IN  {c \in eligible : ~\E d \in eligible : d # c /\ Dominates(d, c)}

(* _benefits, in halves, among the frontier's candidates that report the objective *)
Benefit(front, m, c) ==
    LET values == {d.value[m] : d \in {x \in front : Reports(x, m)}}
        low == Min(values)
        high == Max(values)
    IN  IF low = high THEN 2
        ELSE (2 * (IF m \in Maximize THEN c.value[m] - low ELSE high - c.value[m])) \div (high - low)

Total(parts) ==
    LET after[n \in 0..Len(parts)] == IF n = 0 THEN 0 ELSE after[n - 1] + parts[n]
    IN  after[Len(parts)]

(* the weighted mean over the objectives the candidate reports, as a fraction *)
Weighed(c, m) == m \in Objectives /\ Reports(c, m)
ScoreTop(front, profile, c) ==
    LET ws == ProfileWeights[profile]
    IN  Total([n \in 1..Len(ws) |-> IF Weighed(c, ws[n][1]) THEN ws[n][2] * Benefit(front, ws[n][1], c) ELSE 0])
ScoreBottom(profile, c) ==
    LET ws == ProfileWeights[profile]
    IN  Total([n \in 1..Len(ws) |-> IF Weighed(c, ws[n][1]) THEN ws[n][2] ELSE 0])

Higher(front, profile, c, d) ==
    ScoreTop(front, profile, c) * Max({1, ScoreBottom(profile, d)})
        > ScoreTop(front, profile, d) * Max({1, ScoreBottom(profile, c)})

(* tie_key: the better quality, speed, first token and memory, then the name *)
TieKey(c) ==
    LET or(m, default) == IF m \in Objectives /\ Reports(c, m) THEN c.value[m] ELSE default
    IN  <<0 - c.value["quality"], 0 - or("tokens_per_second", 0), or("ttft_ms", 3),
          or("resident_bytes", 3), or("peak_bytes", 3), c.name>>

Before(x, y) == \E i \in 1..6 : x[i] < y[i] /\ \A j \in 1..(i - 1) : x[j] = y[j]

Precedes(front, profile, c, d) ==
    \/ Higher(front, profile, c, d)
    \/ ~Higher(front, profile, d, c) /\ Before(TieKey(c), TieKey(d))

Choose(cs, profile, identity) ==
    LET front == Frontier(cs, identity)
    IN  IF front = {} THEN NoSelection
        ELSE CHOOSE c \in front : \A d \in front \ {c} : Precedes(front, profile, c, d)

----------------------------------------------------------------------------

ParetoInit == offered = {} /\ generation = 0 /\ decision = NoSelection

(* the runtime reports a candidate for the next request; names are unique in it *)
Report(c) ==
    /\ decision = NoSelection
    /\ c \notin offered /\ \A d \in offered : d.name # c.name
    /\ offered' = offered \cup {c}
    /\ UNCHANGED <<generation, decision>>

DecideRepresentation(profile, identity) ==
    /\ offered # {} /\ decision = NoSelection
    /\ decision' = [selected |-> Choose(offered, profile, identity), among |-> offered,
                    identity |-> identity, generation |-> generation]
    /\ UNCHANGED <<offered, generation>>

(* GenerationInvalidationHook.check: a decision of an older generation is dropped *)
UseDecision ==
    /\ decision # NoSelection
    /\ decision.generation # generation
    /\ decision' = NoSelection
    /\ UNCHANGED <<offered, generation>>

AdvanceGeneration ==
    /\ generation < LastGeneration
    /\ generation' = generation + 1
    /\ offered' = {}
    /\ UNCHANGED decision

ParetoNext ==
    \/ \E c \in Offers : Report(c)
    \/ \E profile \in Profiles, identity \in {"a", AnyIdentity} : DecideRepresentation(profile, identity)
    \/ UseDecision
    \/ AdvanceGeneration

ParetoSpec == ParetoInit /\ [][ParetoNext]_paretoVars

----------------------------------------------------------------------------
(* Properties *)

Fitting == {c \in decision.among : Eligible(c, decision.identity)}

(* The representation that is selected fits every budget, and no candidate that
   fits is at least as good in all that both report and better in something. *)
SelectedIsUndominated ==
    decision # NoSelection /\ decision.selected # NoSelection =>
        /\ decision.selected \in Fitting
        /\ \A c \in Fitting : \A m \in Objectives :
              Reports(c, m) /\ Reports(decision.selected, m)
              /\ Better(m, c.value[m], decision.selected.value[m]) =>
                 \E n \in Objectives : Reports(c, n) /\ Reports(decision.selected, n)
                                       /\ Better(n, decision.selected.value[n], c.value[n])

(* When the candidates that fit report the same objectives one of them is selected. *)
CompleteReportsAreSelected ==
    decision # NoSelection /\ Fitting # {}
    /\ (\A c, d \in Fitting : \A m \in Objectives : Reports(c, m) = Reports(d, m))
        => decision.selected # NoSelection

(* "no_candidate_fits_constraints" is only said when no candidate fits. *)
CannotFitIsTrue ==
    decision # NoSelection /\ decision.selected = NoSelection => Fitting = {}

(* A selection is one of the best that fit, and there is one when the candidates can
   be compared. *)
SelectionIsSound == SelectedIsUndominated /\ CompleteReportsAreSelected
=============================================================================
