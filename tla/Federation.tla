----------------------------- MODULE Federation -----------------------------
(***************************************************************************)
(* A federation of repositories (federation.py): members, edges between    *)
(* their handles, deltas that build the next generation, and the bounded   *)
(* breadth-first traversal.                                                *)
(***************************************************************************)
EXTENDS Naturals, Sequences, FiniteSets

CONSTANTS
    Member,        \* repositories
    Place,         \* handles, naturals
    MemberOf,      \* the repository of a handle
    MaxDepth, MaxNodes

VARIABLES
    members, edges   \* edges are <<source, target>>

federationVars == <<members, edges>>

ASSUME FederationAssumption ==
    /\ Place \subseteq Nat /\ IsFiniteSet(Place) /\ MemberOf \in [Place -> Member]
    /\ MaxDepth \in Nat /\ MaxNodes \in Nat \ {0}

Edge == Place \X Place
Within(es, ms) == \A e \in es : MemberOf[e[1]] \in ms /\ MemberOf[e[2]] \in ms

FederationInit == members = Member /\ edges = {}

(* apply_delta: the edges of a repository that is removed go with it; the result must
   be a federation *)
FederationDelta(changed, tombstoned, added, removed) ==
    LET ms == (members \ tombstoned) \cup changed
        es == {e \in edges \ removed : MemberOf[e[1]] \notin tombstoned /\ MemberOf[e[2]] \notin tombstoned}
    IN  /\ changed \cap tombstoned = {}
        /\ ms # {} /\ added \cap es = {} /\ Within(es \cup added, ms)
        /\ members' = ms
        /\ edges' = es \cup added

FederationNext ==
    \E changed, tombstoned \in SUBSET Member, added, removed \in {{}} \cup {{e} : e \in Edge} :
        FederationDelta(changed, tombstoned, added, removed)

FederationSpec == FederationInit /\ [][FederationNext]_federationVars

Outgoing(p) == {e[2] : e \in {x \in edges : x[1] = p}}

(* traverse: the outgoing edges are followed in the order of their targets *)
InTurn(targets) ==
    LET n == Cardinality(targets)
    IN  CHOOSE s \in [1..n -> targets] : \A i, j \in 1..n : i < j => s[i] < s[j]

Visit(t, max_depth) ==
    LET p == t.queue[1][1]
        depth == t.queue[1][2]
        new == IF depth < max_depth THEN Outgoing(p) \ t.found ELSE {}
    IN  [visited |-> t.visited \cup {p},
         found |-> t.found \cup new,
         queue |-> Tail(t.queue) \o [n \in 1..Cardinality(new) |-> <<InTurn(new)[n], depth + 1>>],
         reasons |-> t.reasons \cup (IF depth = max_depth /\ Outgoing(p) # {} THEN {"max_depth"} ELSE {})]

(* Mutant: what is left in the queue when the nodes are used up is forgotten. *)
ReasonsForgotten(t) == t.reasons

Reasons(t) == t.reasons \cup (IF t.queue # <<>> THEN {"max_nodes"} ELSE {})

(* every handle enters the queue once *)
Traverse(start, max_depth, max_nodes) ==
    LET after[n \in 0..Cardinality(Place)] ==
            IF n = 0 THEN [visited |-> {}, found |-> {start}, queue |-> <<<<start, 0>>>>, reasons |-> {}]
            ELSE LET t == after[n - 1]
                 IN  IF t.queue # <<>> /\ Cardinality(t.visited) < max_nodes THEN Visit(t, max_depth) ELSE t
    IN  after[Cardinality(Place)]

----------------------------------------------------------------------------
(* Properties *)

(* What start reaches: the least set with start that the edges stay in. *)
Reachable(start) ==
    LET closed == {S \in SUBSET Place : start \in S /\ \A e \in edges : e[1] \in S => e[2] \in S}
    IN  {p \in Place : \A S \in closed : p \in S}

(* A traversal that calls itself complete has visited everything that can be reached, and
   none visits more, or leaves the members; whatever deltas built the federation. *)
CompleteIsReachable ==
    edges # {} => \A p \in Place, depth \in 0..MaxDepth, nodes \in 1..MaxNodes :
        LET t == Traverse(p, depth, nodes) IN
        /\ t.visited \subseteq Reachable(p)
        /\ Reasons(t) = {} => t.visited = Reachable(p)
        /\ MemberOf[p] \in members => \A q \in t.visited : MemberOf[q] \in members
=============================================================================
