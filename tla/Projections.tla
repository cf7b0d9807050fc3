------------------------------ MODULE Projections -----------------------------
(***************************************************************************)
(* Two derived projections: the store of projection envelopes, and the     *)
(* index of knowledge facts.                                               *)
(***************************************************************************)
EXTENDS Naturals, FiniteSets

----------------------------------------------------------------------------
(***************************************************************************)
(* The derived store of projection envelopes (projection.py): the latest   *)
(* envelope of every handle, for one repository, and the generation they   *)
(* are of.  One action is one call under the lock.                         *)
(***************************************************************************)

CONSTANTS
    Stable,        \* stable handles
    Era,           \* generations
    Payload, NoEnvelope, NoEra

VARIABLES
    envelopes,     \* handle -> [era, payload], or NoEnvelope
    era,           \* _generation
    storeFile,     \* what save wrote last
    unnamed,       \* history: handles a swap of the generation did not name, nor a call since
    savedUnnamed   \* history: the same when the store was saved

projectionVars == <<envelopes, era, storeFile, unnamed, savedUnnamed>>

Envelope == [era : Era, payload : Payload]

ASSUME ProjectionAssumption == NoEnvelope \notin Envelope /\ NoEra \notin Era

ProjectionInit ==
    /\ envelopes = [s \in Stable |-> NoEnvelope] /\ era = NoEra
    /\ storeFile = [envelopes |-> envelopes, era |-> era]
    /\ unnamed = {} /\ savedUnnamed = {}

Held == {s \in Stable : envelopes[s] # NoEnvelope}
Clashes(s, e) == envelopes[s] # NoEnvelope /\ envelopes[s].payload # e.payload

(* Mutant: an envelope of another generation is accepted. *)
PublishEnvelopeOfAny(s, e) ==
    /\ ~ Clashes(s, e)
    /\ era' = e.era
    /\ envelopes' = [envelopes EXCEPT ![s] = e]
    /\ unnamed' = unnamed \ {s}
    /\ UNCHANGED <<storeFile, savedUnnamed>>

PublishEnvelope(s, e) ==
    /\ era \in {NoEra, e.era}
    /\ ~ Clashes(s, e)
    /\ era' = e.era
    /\ envelopes' = [envelopes EXCEPT ![s] = e]
    /\ unnamed' = unnamed \ {s}
    /\ UNCHANGED <<storeFile, savedUnnamed>>

(* apply_delta: another generation needs the present one as its base, and may change
   what a handle says; the envelopes it does not name stay as they are *)
ApplyChanges(next, base, changed, deleted) ==
    LET swap == era # NoEra /\ next # era
    IN  /\ swap => base = era
        /\ ~ swap /\ base # NoEra => base = era
        /\ DOMAIN changed \cap deleted = {}
        /\ \A s \in DOMAIN changed : ~ swap => ~ Clashes(s, [era |-> next, payload |-> changed[s]])
        /\ era' = next
        /\ envelopes' = [s \in Stable |->
              IF s \in deleted THEN NoEnvelope
              ELSE IF s \in DOMAIN changed THEN [era |-> next, payload |-> changed[s]] ELSE envelopes[s]]
        /\ unnamed' = (unnamed \cup IF swap THEN Held ELSE {}) \ (DOMAIN changed \cup deleted)
        /\ UNCHANGED <<storeFile, savedUnnamed>>

SaveStore ==
    /\ storeFile' = [envelopes |-> envelopes, era |-> era] /\ savedUnnamed' = unnamed
    /\ UNCHANGED <<envelopes, era, unnamed>>

(* load publishes every envelope into a new store, which must end up with the generation
   that was saved: one with nothing in it has none *)
StoreLoads(stored) ==
    LET eras == {stored.envelopes[s].era : s \in {t \in Stable : stored.envelopes[t] # NoEnvelope}}
    IN  eras = IF stored.era = NoEra THEN {} ELSE {stored.era}

LoadStore ==
    /\ StoreLoads(storeFile)
    /\ envelopes' = storeFile.envelopes /\ era' = storeFile.era /\ unnamed' = {}
    /\ UNCHANGED <<storeFile, savedUnnamed>>

ProjectionNext ==
    \/ SaveStore \/ LoadStore
    \/ \E s \in Stable, e \in Envelope : PublishEnvelope(s, e)
    \/ \E next \in Era, base \in Era \cup {NoEra}, names \in SUBSET Stable, deleted \in SUBSET Stable :
          \E changed \in [names -> Payload] : ApplyChanges(next, base, changed, deleted)

ProjectionSpec == ProjectionInit /\ [][ProjectionNext]_projectionVars

----------------------------------------------------------------------------
(* Properties *)

(* An envelope of another generation than the store's is one that a swap of the
   generation did not name, through publications, deltas back and forth, saves and
   loads: no other call mixes two generations, and no load does.  And what was saved
   with an envelope in it, none of them left behind by a swap, can be loaded. *)
NeverMixed ==
    /\ \A s \in Held \ unnamed : envelopes[s].era = era
    /\ savedUnnamed = {} /\ (\E s \in Stable : storeFile.envelopes[s] # NoEnvelope) => StoreLoads(storeFile)

(* "projection_generation_swap_never_exposes_mixed_records": the envelopes a snapshot
   shows are of one generation, whichever of them the swap names. *)
SwapsNeverMix == \A s, t \in Held : envelopes[s].era = envelopes[t].era

----------------------------------------------------------------------------
(***************************************************************************)
(* The derived index of knowledge facts (knowledge_projection.py).  A      *)
(* delta brings facts and tombstones; the tombstones are applied last.  A  *)
(* fact is the value a producer stands for (its digest and version) and a  *)
(* state; another value for a known handle is a conflict.                  *)
(***************************************************************************)

CONSTANTS
    Subject,       \* stable handles
    Value,         \* what a digest and a version stand for
    Producer, Authorized,
    MaxFacts,      \* MAX_FACTS
    NoFact

VARIABLES
    known,         \* handle -> the fact, or NoFact
    conflicts, buried

knowledgeVars == <<known, conflicts, buried>>

States == {"active", "revoked"}
FactOf == [value : Value, state : States]

ASSUME KnowledgeAssumption == MaxFacts \in Nat /\ Authorized \subseteq Producer

KnowledgeInit == known = [s \in Subject |-> NoFact] /\ conflicts = {} /\ buried = {}

Known(k) == {s \in Subject : k[s] # NoFact}

(* Mutant: deleting a fact keeps the conflict that was recorded for it. *)
BuryKeeping(k, c, b, deleted) ==
    /\ known' = [s \in Subject |-> IF s \in deleted THEN NoFact ELSE k[s]]
    /\ conflicts' = c
    /\ buried' = b \cup deleted

(* the end of apply_delta: the tombstones *)
Bury(k, c, b, deleted) ==
    /\ known' = [s \in Subject |-> IF s \in deleted THEN NoFact ELSE k[s]]
    /\ conflicts' = c \ deleted
    /\ buried' = b \cup deleted

(* apply_delta with one fact for s *)
Repeats(s, fact) == known[s] # NoFact /\ known[s].value = fact.value
Contradicts(s, fact) == known[s] # NoFact /\ known[s].value # fact.value

ApplyDelta(s, fact, deleted) ==
    /\ Cardinality((Known(known) \cup {s}) \ deleted) <= MaxFacts
    /\ \/ /\ known[s] = NoFact
          /\ Bury([known EXCEPT ![s] = fact], conflicts, buried \ {s}, deleted)
       \/ /\ Repeats(s, fact) /\ known[s].state # fact.state
          /\ Bury([known EXCEPT ![s] = fact], conflicts \ {s}, buried, deleted)
       \/ /\ Repeats(s, fact) /\ known[s].state = fact.state
          /\ Bury(known, conflicts, buried \ {s}, deleted)
       \/ /\ Contradicts(s, fact)
          /\ Bury(known, conflicts \cup {s}, buried, deleted)

(* apply_delta with tombstones only *)
Tombstones(deleted) == Bury(known, conflicts, buried, deleted)

(* apply_handoff: the producers of the envelope and of its facts are the same one *)
ApplyHandoff(envelope, producer, s, fact, deleted) ==
    /\ envelope \in Authorized
    /\ producer = envelope
    /\ ApplyDelta(s, fact, deleted)

KnowledgeNext ==
    \/ \E s \in Subject, fact \in FactOf, deleted \in SUBSET Subject : ApplyDelta(s, fact, deleted)
    \/ \E deleted \in SUBSET Subject \ {{}} : Tombstones(deleted)
    \/ \E e, p \in Producer, s \in Subject, fact \in FactOf, deleted \in SUBSET Subject :
          ApplyHandoff(e, p, s, fact, deleted)

KnowledgeSpec == KnowledgeInit /\ [][KnowledgeNext]_knowledgeVars

(* the handles query may return *)
Served == {s \in Known(known) : s \notin conflicts /\ s \notin buried /\ known[s].state = "active"}

----------------------------------------------------------------------------
(* Properties *)

(* A handle that is deleted and created again starts without the conflict or the
   tombstone of its earlier life: what hides a fact is about the fact in the index. *)
HiddenForItself ==
    /\ conflicts \subseteq Known(known)
    /\ buried \cap Known(known) = {}
    /\ Cardinality(Known(known)) <= MaxFacts
===============================================================================
