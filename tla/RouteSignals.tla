---------------------------- MODULE RouteSignals ----------------------------
(***************************************************************************)
(* The evidence for routing (plugin_route_signals.py): what is measured or *)
(* unknown about the targets of a task, and the promotion rank, which a    *)
(* caller hands back with the next request.                                *)
(***************************************************************************)
EXTENDS Naturals, FiniteSets, FiniteSetsExt

CONSTANTS
    Target,          \* targets
    Vague, Sensitive,\* the targets that are patterns, and those on a sensitive surface
    Degree,          \* hub degrees of a target in the graph
    HubDegree,
    Amount,          \* sizes of a diff and of a packet
    Unknown

VARIABLES
    promoted,        \* the rank the caller holds, 0 before the first answer
    evidence         \* history: the ranks that the requests so far called for by themselves

routeVars == <<promoted, evidence>>

ASSUME RouteAssumption ==
    IsFiniteSet(Target) /\ Vague \subseteq Target /\ Sensitive \subseteq Target /\ Degree \subseteq Nat /\ Amount \subseteq Nat

(* PROMOTION_RANKS; blocked_signal is never given *)
FastPath == 1
Review == 2
FullPath == 3

RouteRequest == [targets : SUBSET Target, hub : Degree \cup {Unknown}, diff : Amount \cup {Unknown},
                 packet : Amount \cup {Unknown}, phase : {"pre_route", "post_diff"}]

RouteInit == promoted = 0 /\ evidence = {}

IsVague(r) == r.targets = {} \/ r.targets \cap Vague # {}

(* _sensitive_signal: vague targets are not measured *)
IsSensitive(r) == ~ IsVague(r) /\ r.targets \cap Sensitive # {}

IsHub(r) == r.hub # Unknown /\ r.hub >= HubDegree

IsUnmapped(r) == r.hub = Unknown /\ Cardinality(r.targets) > 1

(* after the diff: it is missing, or larger than the packet that was made for the task *)
DiffRank(r) ==
    IF r.phase = "pre_route" THEN FastPath
    ELSE IF r.diff = Unknown THEN Review
    ELSE IF r.packet # Unknown /\ r.diff > r.packet THEN FullPath ELSE FastPath

(* Mutant: a hub that is found later takes the place of what was found before it. *)
OwnRankOfLast(r) ==
    IF IsHub(r) \/ IsUnmapped(r) THEN Review ELSE IF IsSensitive(r) THEN FullPath ELSE DiffRank(r)

(* _promotion without the previous rank *)
OwnRank(r) ==
    Max({FastPath, DiffRank(r)}
        \cup (IF IsVague(r) \/ IsHub(r) \/ IsUnmapped(r) THEN {Review} ELSE {})
        \cup (IF IsSensitive(r) THEN {FullPath} ELSE {}))

(* compile_route_signals, with the rank of the answer before as previous_promotion *)
CompileSignals(r) ==
    /\ promoted' = IF OwnRank(r) < promoted THEN promoted ELSE OwnRank(r)
    /\ evidence' = evidence \cup {OwnRank(r)}

RouteNext == \E r \in RouteRequest : CompileSignals(r)

RouteSpec == RouteInit /\ [][RouteNext]_routeVars

----------------------------------------------------------------------------
(* Properties *)

(* The rank is the highest any request called for, in whatever order pre-route and
   post-diff requests come; and naming one more concrete target never lowers what a
   request calls for.  (A vague one may: it hides that others are sensitive.) *)
RanksOnlyRise ==
    evidence # {} =>
        /\ promoted = Max(evidence)
        /\ \A r \in RouteRequest : r.targets # {} =>
              \A t \in Target \ Vague : OwnRank(r) <= OwnRank([r EXCEPT !.targets = @ \cup {t}])
=============================================================================
