------------------------------ MODULE Temporal ------------------------------
(***************************************************************************)
(* Bitemporal facts (temporal.py, BitemporalOverlay).  The overlay keeps   *)
(* for every canonical id the sequence of its versions; a version is valid *)
(* from one world sequence to another, the last one is open.  Used from    *)
(* one thread, one action per call.                                        *)
(***************************************************************************)
EXTENDS Integers, Sequences, FiniteSets

CONSTANTS
    Id,         \* canonical ids, a set of naturals (facts are invalidated in their order)
    Artifact,
    MaxWorld,   \* bound on the world sequence
    MaxObserved \* bound on the observed sequence

VARIABLES
    facts,      \* the versions of each id
    world,      \* _world_sequence
    observed    \* _observed_sequence

temporalVars == <<facts, world, observed>>

Open == 0       \* valid_to is None

ASSUME TemporalAssumption == Id \subseteq Nat /\ IsFiniteSet(Id) /\ MaxWorld \in Nat /\ MaxObserved \in Nat

TemporalInit == facts = [i \in Id |-> <<>>] /\ world = 0 /\ observed = 0

(* digest: what tells two versions of one overlay apart *)
Digest(v) == <<v.from, v.to, v.artifact, v.state, v.observed>>
NoDigest == <<>>

(* _current: the last version, when it is still open *)
HasCurrent(versions) == versions # <<>> /\ versions[Len(versions)].to = Open
Current(versions) == versions[Len(versions)]
ActiveNow(i) == HasCurrent(facts[i]) /\ Current(facts[i]).state = "active"

(* The version append closes.  Only an append of an active version marks it superseded. *)
Closed(v, at, state) ==
    [v EXCEPT !.to = at, !.state = IF state = "active" THEN "superseded" ELSE v.state]

(* Mutant: the version that is replaced is dropped. *)
AppendedOver(versions, at, obs, artifact, state, dependencies, predecessor) ==
    <<[from |-> at, to |-> Open, artifact |-> artifact, state |-> state, observed |-> obs,
       dependencies |-> dependencies, predecessor |-> predecessor]>>

(* append, on the versions of one id *)
Appended(versions, at, obs, artifact, state, dependencies, predecessor) ==
    LET closing == HasCurrent(versions)
        closed == Closed(Current(versions), at, state)
        kept == IF closing THEN [versions EXCEPT ![Len(versions)] = closed] ELSE versions
    IN  Append(kept, [from |-> at, to |-> Open, artifact |-> artifact, state |-> state,
                      observed |-> obs, dependencies |-> dependencies,
                      predecessor |-> IF closing THEN Digest(closed) ELSE predecessor])

(* Mutant: a version may start in the world the last one started in. *)
InOrderLoose(at) == at >= world

(* A caller's valid_from must be later than every earlier one. *)
InOrder(at) == at > world

AppendFact(i, artifact, dependencies, at) ==
    /\ at \in 1..MaxWorld /\ observed < MaxObserved
    /\ InOrder(at)
    /\ world' = at
    /\ observed' = observed + 1
    /\ facts' = [facts EXCEPT ![i] = Appended(@, at, observed + 1, artifact, "active", dependencies, NoDigest)]

TombstoneFact(i) ==
    /\ ActiveNow(i)
    /\ world < MaxWorld /\ observed < MaxObserved
    /\ world' = world + 1
    /\ observed' = observed + 1
    /\ facts' = [facts EXCEPT ![i] =
                    Appended(@, world + 1, observed + 1, Current(@).artifact, "tombstoned", {}, NoDigest)]

(* invalidate_dependencies: the affected facts are held one after the other, in the
   order of their ids, each in a world of its own *)
Affected(changed) == {i \in Id : ActiveNow(i) /\ Current(facts[i]).dependencies \cap changed # {}}

InvalidateDependencies(changed) ==
    LET affected == Affected(changed)
        rank(i) == Cardinality({j \in affected : j <= i})
    IN  /\ affected # {}
        /\ world + Cardinality(affected) <= MaxWorld /\ observed + Cardinality(affected) <= MaxObserved
        /\ world' = world + Cardinality(affected)
        /\ observed' = observed + Cardinality(affected)
        /\ facts' = [i \in Id |->
                        IF i \in affected
                        THEN Appended(facts[i], world + rank(i), observed + rank(i),
                                      Current(facts[i]).artifact, "held", {}, NoDigest)
                        ELSE facts[i]]

(* rename: the new fact first, then the tombstone of the old one in the same world.  A
   rename of a fact to itself is left out: nothing refuses it and load refuses its result. *)
RenameFact(old, new, artifact) ==
    /\ old # new
    /\ ActiveNow(old)
    /\ world < MaxWorld /\ observed + 1 < MaxObserved
    /\ world' = world + 1
    /\ observed' = observed + 2
    /\ facts' = [facts EXCEPT
          ![new] = Appended(@, world + 1, observed + 1, artifact, "active", {}, Digest(Current(facts[old]))),
          ![old] = Appended(@, world + 1, observed + 2, Current(@).artifact, "tombstoned", {}, NoDigest)]

TemporalNext ==
    \/ \E i \in Id, a \in Artifact, at \in {world, world + 1, world + 2} :
          \E d \in {{}} \cup {{j} : j \in Id \ {i}} : AppendFact(i, a, d, at)
    \/ \E i \in Id : TombstoneFact(i)
    \/ \E changed \in SUBSET Id : InvalidateDependencies(changed)
    \/ \E i, j \in Id, a \in Artifact : RenameFact(i, j, a)

TemporalSpec == TemporalInit /\ [][TemporalNext]_temporalVars

(* as_of: per id the last version that is valid in world w *)
ValidAt(v, w) == v.from <= w /\ (v.to = Open \/ w < v.to)
AsOf(fs, w, tombstones) ==
    {i \in Id : \E n \in 1..Len(fs[i]) :
        ValidAt(fs[i][n], w) /\ (tombstones \/ fs[i][n].state # "tombstoned")}
ArtifactAsOf(fs, w, i) ==
    LET valid == {n \in 1..Len(fs[i]) : ValidAt(fs[i][n], w)}
    IN  fs[i][CHOOSE n \in valid : \A k \in valid : k <= n].artifact

(* verify *)
Verified(fs) ==
    \A i \in Id : \A n \in 1..Len(fs[i]) :
        /\ fs[i][n].to = Open \/ fs[i][n].to > fs[i][n].from
        /\ n > 1 => /\ fs[i][n - 1].to \in {Open, fs[i][n].from}
                    /\ fs[i][n].predecessor = Digest(fs[i][n - 1])

(* from_bytes, on what to_bytes wrote: the sequences must be the latest of the facts *)
Latest(S) == IF S = {} THEN 0 ELSE CHOOSE x \in S : \A y \in S : y <= x
Versions(fs) == UNION {{fs[i][n] : n \in 1..Len(fs[i])} : i \in Id}
Loads(fs, w, o) ==
    /\ w = Latest({v.from : v \in Versions(fs)})
    /\ o = Latest({v.observed : v \in Versions(fs)})
    /\ Verified(fs)

----------------------------------------------------------------------------
(* Properties *)

(* Whatever sequence of appends, deletions, invalidations and renames made the overlay,
   it can be read back once it is saved: load refuses one whose versions do not follow
   each other in the world and in the chain of digests. *)
AlwaysLoads == Loads(facts, world, observed)

(* No call erases evidence: with the tombstones included, what was known of a world in
   the past, and which artifact, stays known. *)
EvidenceStays ==
    [][\A w \in 1..world :
          /\ AsOf(facts, w, TRUE) \subseteq AsOf(facts', w, TRUE)
          /\ \A i \in AsOf(facts, w, TRUE) : ArtifactAsOf(facts', w, i) = ArtifactAsOf(facts, w, i)]_temporalVars

(* The overlay stays readable, whatever append, tombstone, invalidate and rename_identity
   make of it: load accepts it, and as_of still shows the past. *)
TemporalIsKept == []AlwaysLoads /\ EvidenceStays

(* as_of reconstructs the past: the view of a world does not depend on what was appended
   in later worlds.  It does: a fact that is created again marks the tombstone before it
   as superseded, and the view of the worlds in which it was deleted shows it. *)
PastIsFixed == [][\A w \in 1..world : AsOf(facts', w, FALSE) = AsOf(facts, w, FALSE)]_temporalVars
=============================================================================
