---------------------------- MODULE ContextViews ----------------------------
(***************************************************************************)
(* Context views for stage agents (context_view.py): items that were       *)
(* verified are selected under a budget, and the selection is cached under *)
(* a key that names what it depends on.  The cache is bounded, expires,    *)
(* and is loaded again when the process is.  A digest is what it is a      *)
(* digest of; bytes are counted like tokens.  The legacy envelope around a *)
(* view is prism_context_views.py.                                         *)
(***************************************************************************)
EXTENDS Naturals, Sequences, FiniteSets, SequencesExt

CONSTANTS
    ContextItem,     \* [rank, kind, tokens, visibility, scope, generation, path]
    Offer,           \* the sets of items that callers offer
    ContextRequest,  \* [task, stage, scope, generation, fence, tokens, nodes]
    Authority,       \* [fence, roots]
    BaseScope,       \* no overlay
    MaxViews,        \* max_entries
    TimeToLive, MaxClock

VARIABLES
    cachedViews,     \* the entries, least recently used first
    clock,
    view             \* the view materialize returned last, or <<>>

viewVars == <<cachedViews, clock, view>>

ASSUME ViewAssumption ==
    /\ MaxViews \in Nat \ {0} /\ TimeToLive \in Nat \ {0} /\ MaxClock \in Nat
    /\ \A item \in ContextItem : item.rank \in Nat /\ item.tokens \in Nat
    /\ \A offered \in Offer :
          /\ offered \subseteq ContextItem /\ IsFiniteSet(offered)
          /\ \A i, j \in offered : i.rank = j.rank => i = j      \* handles differ
    /\ \A request \in ContextRequest :
          /\ DOMAIN request = {"task", "stage", "scope", "generation", "fence", "tokens", "nodes"}
          /\ request.tokens \in Nat /\ request.nodes \in Nat

ViewInit == cachedViews = <<>> /\ clock = 0 /\ view = <<>>

(* _authorize *)
AuthorizedFor(request, authority) == request.fence = authority.fence

(* _validate_item; one item that does not pass refuses the request *)
ItemAllowed(request, authority, item) ==
    /\ item.generation = request.generation
    /\ item.scope \in {BaseScope, request.scope}
    /\ item.path \in authority.roots

(* _visible *)
VisibleTo(stage, item) ==
    IF stage = "reviewer"
    THEN item.kind # "implementer_prompt" /\ item.visibility # "implementer"
    ELSE item.visibility # "reviewer"

EvidenceKinds == {"evidence", "diff", "test", "receipt"}

(* in the order of their rank: kind, relevance and handle *)
ByRank(items) ==
    LET n == Cardinality(items)
    IN  CHOOSE s \in [1..n -> items] : \A i, j \in 1..n : i < j => s[i].rank < s[j].rank

(* one item, which is taken if it still fits *)
Consider(s, item, nodes, tokens) ==
    IF s.nodes + 1 > nodes \/ s.tokens + item.tokens > tokens
    THEN [s EXCEPT !.rejected = @ + 1]
    ELSE [s EXCEPT !.selected = Append(@, item), !.nodes = @ + 1, !.tokens = @ + item.tokens]

(* _select, as far as it looks at the request *)
SelectFor(stage, nodes, tokens, items) ==
    LET eligible == {i \in items : VisibleTo(stage, i)}
        ordered == ByRank(eligible)
        after[n \in 0..Cardinality(eligible)] ==
            IF n = 0 THEN [selected |-> <<>>, nodes |-> 0, tokens |-> 0, rejected |-> 0]
            ELSE Consider(after[n - 1], ordered[n], nodes, tokens)
        s == after[Cardinality(eligible)]
        evidence == {n \in 1..Len(s.selected) : s.selected[n].kind \in EvidenceKinds}
        abstained == s.selected = <<>> \/ (stage = "reviewer" /\ evidence = {})
    IN  [selected |-> s.selected, tokens |-> s.tokens, rejected |-> s.rejected,
         fidelity |-> IF abstained THEN "abstained" ELSE IF s.rejected = 0 THEN "complete" ELSE "bounded"]

Select(request, items) == SelectFor(request.stage, request.nodes, request.tokens, items)

(* Mutant: one key for every stage. *)
CacheKeyStageless(request, items) ==
    [request |-> [r \in DOMAIN request \ {"task", "stage"} |-> request[r]], items |-> items, task |-> "any"]

(* _cache_key: the task is part of it when an item is of an overlay *)
CacheKey(request, items) ==
    [request |-> [r \in DOMAIN request \ {"task"} |-> request[r]], items |-> items,
     task |-> IF \E i \in items : i.scope # BaseScope THEN request.task ELSE "any"]

(* where the entry of a key is, the dictionary having one of each *)
Places(key) == {n \in DOMAIN cachedViews : cachedViews[n].key = key}
Without(key) == IF Places(key) = {} THEN cachedViews ELSE RemoveAt(cachedViews, CHOOSE n \in Places(key) : TRUE)

(* put: the least recently used entries go *)
Bounded(entries) == IF Len(entries) > MaxViews THEN SubSeq(entries, Len(entries) - MaxViews + 1, Len(entries)) ELSE entries

Serve(request, items, selection, outcome) ==
    view' = [request |-> request, items |-> items, selection |-> selection, outcome |-> outcome]

(* materialize: an entry whose time is up is a miss *)
Materialize(request, authority, items) ==
    LET key == CacheKey(request, items)
        hits == {n \in Places(key) : cachedViews[n].expires > clock}
    IN  /\ AuthorizedFor(request, authority)
        /\ \A i \in items : ItemAllowed(request, authority, i)
        /\ \/ \E n \in hits :
                 /\ cachedViews' = Append(Without(key), cachedViews[n])
                 /\ Serve(request, items, cachedViews[n].selection, "hit")
           \/ /\ hits = {}
              /\ LET selection == Select(request, items) IN
                 /\ cachedViews' = Bounded(Append(Without(key),
                       [key |-> key, selection |-> selection, expires |-> clock + TimeToLive]))
                 /\ Serve(request, items, selection, "miss")
        /\ UNCHANGED clock

ViewTick == clock < MaxClock /\ clock' = clock + 1 /\ UNCHANGED <<cachedViews, view>>

ClearViews == cachedViews # <<>> /\ cachedViews' = <<>> /\ UNCHANGED <<clock, view>>

(* A cache with a path loads what it persisted, one without is empty. *)
RestartViews ==
    /\ view # <<>> /\ view' = <<>>
    /\ cachedViews' \in {cachedViews, <<>>}
    /\ UNCHANGED clock

ViewNext ==
    \/ \E request \in ContextRequest, authority \in Authority, items \in Offer : Materialize(request, authority, items)
    \/ ViewTick \/ ClearViews \/ RestartViews

ViewSpec == ViewInit /\ [][ViewNext]_viewVars

(* verify_context_view *)
VerifyView(v, request, authority) == v.request = request /\ request.fence = authority.fence

(* build_context_view and validate_context_view: spans are a sequence, a span that is
   there twice is one item *)
LegacyTruncated(spans, selection) == Len(selection.selected) < Len(spans)
LegacyAccepted(spans, selection) == LegacyTruncated(spans, selection) <=> selection.rejected > 0

----------------------------------------------------------------------------
(* Properties *)

(* materialize: a view says what selecting afresh for its request would say, also when it
   comes from the cache, after evictions, expiry and a reload. *)
ViewIsFresh == view # <<>> => view.selection = Select(view.request, view.items)

(* Such a view has nothing of another stage, overlay or task, is within the budget, and is
   complete only with all there is to see.  The legacy envelope around it is then accepted
   by its validator, unless a span was given twice. *)
ViewIsItsOwn ==
    ViewIsFresh /\ (view # <<>> =>
        LET request == view.request
            s == view.selection
            shown == ToSet(s.selected)
        IN  /\ Len(s.selected) <= request.nodes /\ s.tokens <= request.tokens
            /\ \A i \in shown : VisibleTo(request.stage, i) /\ i.scope \in {BaseScope, request.scope}
            /\ s.fidelity = "complete" => shown = {i \in view.items : VisibleTo(request.stage, i)}
            /\ (\A i \in view.items : VisibleTo(request.stage, i)) => LegacyAccepted(SetToSeq(view.items), s))
=============================================================================
