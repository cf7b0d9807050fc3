--------------------------- MODULE DecisionCache ---------------------------
(***************************************************************************)
(* The bounded cache of policy decisions (decision_cache.py).  Its entries *)
(* belong to one active generation, are kept least recently used first and *)
(* carry the observation classes they were decided under; keys can be      *)
(* invalidated, and quarantined or disabled for the rest of a generation.  *)
(*                                                                         *)
(* One action is one call under the cache's lock.  The remembered reasons  *)
(* of invalidations only word the receipt of a later miss, and receipts    *)
(* and counters are left out.  A key's digest is the key.                  *)
(***************************************************************************)
EXTENDS Naturals, Sequences, FiniteSets, SequencesExt

CONSTANTS Generation, NoGeneration, MaxEntries

VARIABLES
    active,       \* _active_generation
    entries,      \* _entries, least recently used first
    quarantined,  \* _quarantined, oldest first
    disabled,     \* _disabled, oldest first
    banned,       \* history: keys quarantined or disabled since the generation changed
    revoked       \* history: keys revoked since a decision was last stored for them

cacheVars == <<active, entries, quarantined, disabled, banned, revoked>>

ASSUME CacheAssumption ==
    MaxEntries \in Nat \ {0} /\ NoGeneration \notin Generation

(* the dimensions other than the generation; all of them may drift *)
Dimensions == {"identity", "placement", "kv", "concurrency"}

(* DecisionCacheKey *)
IsKey(k) == k = [d \in {"generation"} \cup Dimensions |-> k[d]] /\ k.generation \in Generation

(* an OrderedDict of which only the elements at these positions are left *)
Picked(s, positions) ==
    LET n == Cardinality(positions)
        at == CHOOSE f \in [1..n -> positions] : \A i, j \in 1..n : i < j => f[i] < f[j]
    IN  [i \in 1..n |-> s[at[i]]]

EntryKeys == {entries[i].key : i \in DOMAIN entries}
EntryOf(k) == entries[CHOOSE i \in DOMAIN entries : entries[i].key = k]
WithoutKeys(ks) == Picked(entries, {i \in DOMAIN entries : entries[i].key \notin ks})

CacheInit ==
    /\ active = NoGeneration /\ entries = << >>
    /\ quarantined = << >> /\ disabled = << >>
    /\ banned = {} /\ revoked = {}

(* _remember: the newest MaxEntries keys, the oldest is forgotten *)
Remember(store, k) ==
    LET s == Append(Picked(store, {i \in DOMAIN store : store[i] # k}), k)
    IN  IF Len(s) > MaxEntries THEN Tail(s) ELSE s

(* _clear_generation_locked *)
ClearGeneration(g) ==
    /\ active' = g
    /\ entries' = << >> /\ quarantined' = << >> /\ disabled' = << >>
    /\ banned' = {} /\ revoked' = {}

ActivateGeneration(g) ==
    IF active = g THEN UNCHANGED cacheVars ELSE ClearGeneration(g)

(* put: another generation is made the active one first, then a blocked key is refused *)
Put(k, decision, expected) ==
    LET same == active \in {k.generation, NoGeneration}
        blocked == same /\ k \in ToSet(disabled) \cup ToSet(quarantined)
        kept == IF same THEN WithoutKeys({k}) ELSE << >>
        all == Append(kept, [key |-> k, decision |-> decision, expected |-> expected])
    IN  /\ active' = k.generation
        /\ entries' = IF blocked THEN entries ELSE IF Len(all) > MaxEntries THEN Tail(all) ELSE all
        /\ quarantined' = IF same THEN quarantined ELSE << >>
        /\ disabled' = IF same THEN disabled ELSE << >>
        /\ banned' = IF same THEN banned ELSE {}
        /\ revoked' = IF blocked THEN revoked ELSE IF same THEN revoked \ {k} ELSE {}

Contradicts(expected, observed) ==
    \E f \in DOMAIN expected \cap DOMAIN observed : expected[f] # observed[f]

(* Mutant: what is observed now is not compared with what was expected. *)
LookupOutcomeBlind(k, observed) ==
    IF active # k.generation THEN "miss"
    ELSE IF k \in ToSet(disabled) \cup ToSet(quarantined) THEN "blocked"
    ELSE IF k \notin EntryKeys THEN "miss" ELSE "hit"

LookupOutcome(k, observed) ==
    IF active # k.generation THEN "miss"
    ELSE IF k \in ToSet(disabled) \cup ToSet(quarantined) THEN "blocked"
    ELSE IF k \notin EntryKeys THEN "miss"
    ELSE IF Contradicts(EntryOf(k).expected, observed) THEN "contradiction" ELSE "hit"

(* lookup: a hit becomes the most recent entry, a contradiction is quarantined *)
Lookup(k, observed) ==
    LET outcome == LookupOutcome(k, observed) IN
    /\ entries' = CASE outcome = "hit" -> Append(WithoutKeys({k}), EntryOf(k))
                    [] outcome = "contradiction" -> WithoutKeys({k})
                    [] OTHER -> entries
    /\ quarantined' = IF outcome = "contradiction" THEN Remember(quarantined, k) ELSE quarantined
    /\ banned' = IF outcome = "contradiction" THEN banned \cup {k} ELSE banned
    /\ revoked' = IF outcome = "contradiction" THEN revoked \cup {k} ELSE revoked
    /\ UNCHANGED <<active, disabled>>

Invalidate(k) ==
    /\ entries' = WithoutKeys({k})
    /\ revoked' = revoked \cup {k}
    /\ UNCHANGED <<active, quarantined, disabled, banned>>

(* an entry goes if it agrees on the stable dimensions and differs on a drifted one *)
Drifted(k, dims, key) ==
    /\ key.generation = k.generation
    /\ \A d \in Dimensions \ dims : key[d] = k[d]
    /\ \E d \in dims : key[d] # k[d]

InvalidateDrift(k, dims) ==
    /\ entries' = WithoutKeys({key \in EntryKeys : Drifted(k, dims, key)})
    /\ revoked' = revoked \cup {key \in EntryKeys \ {k} : key.generation = k.generation
                                    /\ \A d \in Dimensions : key[d] # k[d] => d \in dims}
    /\ UNCHANGED <<active, quarantined, disabled, banned>>

Quarantine(k) ==
    /\ entries' = WithoutKeys({k})
    /\ quarantined' = Remember(quarantined, k)
    /\ banned' = banned \cup {k}
    /\ revoked' = revoked \cup {k}
    /\ UNCHANGED <<active, disabled>>

DisableForRegression(k) ==
    /\ entries' = WithoutKeys({k})
    /\ disabled' = Remember(disabled, k)
    /\ banned' = banned \cup {k}
    /\ revoked' = revoked \cup {k}
    /\ UNCHANGED <<active, quarantined>>

----------------------------------------------------------------------------
(* Properties *)

CacheTypeOK ==
    /\ active \in Generation \cup {NoGeneration}
    /\ Len(entries) <= MaxEntries /\ Len(quarantined) <= MaxEntries /\ Len(disabled) <= MaxEntries
    /\ Cardinality(EntryKeys) = Len(entries)

(* What the cache may answer with belongs to the active generation and is
   neither quarantined nor disabled, in whatever order two engines that share
   it activate generations, store and block. *)
EntriesAreAdmissible ==
    \A k \in EntryKeys : k.generation = active /\ k \notin ToSet(quarantined) \cup ToSet(disabled)

(* No entry outlives the invalidation, quarantine, regression or drift of its key. *)
RevokedIsGone == EntryKeys \cap revoked = {}

(* What blocks a key is forgotten before the generation changes only once more
   keys were blocked in it than the cache has entries. *)
BlockIsRemembered ==
    Cardinality(banned) <= MaxEntries => banned \subseteq ToSet(quarantined) \cup ToSet(disabled)
=============================================================================
