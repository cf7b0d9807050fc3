-------------------------------- MODULE Packets -------------------------------
(***************************************************************************)
(* Context packets: the plugin's store of them, and the universal compiler. *)
(***************************************************************************)
EXTENDS Naturals, Sequences, FiniteSets, SequencesExt

----------------------------------------------------------------------------
(***************************************************************************)
(* The store behind the plugin's context packets                           *)
(* (plugin_context_packet.py): generations, which sessions pin, overlays   *)
(* that change what a generation shows, packets compiled for a session,    *)
(* and a cache of them under the digests of everything they were compiled  *)
(* from.  One action is one call under the lock.                           *)
(***************************************************************************)

CONSTANTS
    Session, Edition, Patch,     \* sessions, generations, overlays
    PathName, Text,              \* files and their contents
    Layout,                      \* path -> range of the span in the file
    Asked,                       \* the lists of files whose spans are requested
    Lost,                        \* no generation, no file, no overlay
    MaxItems, MaxPackets

VARIABLES
    editions,      \* generation -> [files, ranges], or Lost; one span per file
    patches,       \* <<generation, overlay>> -> path -> content, Lost, or "same"; or Lost
    sessionPins,
    packets,       \* the cache: [key, packet]
    packet,        \* what compile returned last, or <<>>
    aged           \* history: hashes of packets cached when their generation got other ranges

packetVars == <<editions, patches, sessionPins, packets, packet, aged>>

ASSUME PacketAssumption ==
    /\ MaxItems \in Nat \ {0} /\ MaxPackets \in Nat /\ Asked \subseteq Seq(PathName)
    /\ Lost \notin Edition \cup [files : [PathName -> Text], ranges : Layout]

PacketInit ==
    /\ editions = [g \in Edition |-> Lost]
    /\ patches = [x \in Edition \X Patch |-> Lost]
    /\ sessionPins = [s \in Session |-> Lost]
    /\ packets = {} /\ packet = <<>> /\ aged = {}

(* load_generation: the digest names the files and the handles, not the ranges *)
LoadEdition(g, files, ranges) ==
    /\ editions[g] # Lost => editions[g].files = files
    /\ editions' = [editions EXCEPT ![g] = [files |-> files, ranges |-> ranges]]
    /\ aged' = aged \cup {e.packet.hash : e \in {e \in packets : e.key.edition = g /\ editions[g].ranges # ranges}}
    /\ UNCHANGED <<patches, sessionPins, packets, packet>>

PinEdition(s, g) ==
    /\ editions[g] # Lost
    /\ sessionPins[s] \in {Lost, g}
    /\ sessionPins' = [sessionPins EXCEPT ![s] = g]
    /\ UNCHANGED <<editions, patches, packets, packet, aged>>

ApplyPatch(g, o, path, content) ==
    /\ editions[g] # Lost
    /\ LET before == IF patches[<<g, o>>] = Lost THEN [p \in PathName |-> "same"] ELSE patches[<<g, o>>]
       IN  patches' = [patches EXCEPT ![<<g, o>>] = [before EXCEPT ![path] = content]]
    /\ UNCHANGED <<editions, sessionPins, packets, packet, aged>>

(* _materialize_view; o is an overlay, or Lost for none *)
ViewFiles(g, o) ==
    [p \in PathName |-> IF o = Lost \/ patches[<<g, o>>][p] = "same" THEN editions[g].files[p] ELSE patches[<<g, o>>][p]]

(* Mutant: the key has the generation and not what the overlay makes of it. *)
PacketKeyOfBase(s, g, o, asked, items) ==
    [session |-> s, edition |-> g, patch |-> o, asked |-> asked, items |-> items, files |-> editions[g].files]

PacketKey(s, g, o, asked, items) ==
    [session |-> s, edition |-> g, patch |-> o, asked |-> asked, items |-> items, files |-> ViewFiles(g, o)]

(* _bound_spans, for one budget *)
Spans(g, o, asked, items) ==
    LET files == ViewFiles(g, o)
    IN  [n \in 1..(IF Len(asked) < items THEN Len(asked) ELSE items) |->
            [path |-> asked[n], text |-> files[asked[n]], range |-> editions[g].ranges[asked[n]]]]

Packet(s, g, o, asked, items) ==
    [session |-> s, edition |-> g, patch |-> o, asked |-> asked, items |-> items,
     spans |-> Spans(g, o, asked, items), truncated |-> items < Len(asked), status |-> "cold"]

(* compile: the hash is of the packet with the status it has when it is new *)
CompilePacket(s, g, o, asked, items) ==
    LET key == PacketKey(s, g, o, asked, items)
        warm == {e \in packets : e.key = key}
        fresh == Packet(s, g, o, asked, items)
        sealed == [body |-> fresh, hash |-> fresh]
    IN  /\ sessionPins[s] = g
        /\ o # Lost => patches[<<g, o>>] # Lost
        /\ \/ /\ warm # {}
              /\ packet' = LET e == CHOOSE e \in warm : TRUE
                           IN  [e.packet EXCEPT !.body.status = "warm"]
              /\ UNCHANGED packets
           \/ /\ warm = {} /\ Cardinality(packets) < MaxPackets
              /\ \A n \in 1..Len(fresh.spans) : fresh.spans[n].text # Lost
              /\ packet' = sealed
              /\ packets' = packets \cup {[key |-> key, packet |-> sealed]}
        /\ UNCHANGED <<editions, patches, sessionPins, aged>>

InvalidatePaths(changed) ==
    /\ packets' = {e \in packets : \A n \in 1..Len(e.packet.body.spans) : e.packet.body.spans[n].path \notin changed}
    /\ packets' # packets
    /\ aged' = {h \in aged : \E e \in packets' : e.packet.hash = h}
    /\ UNCHANGED <<editions, patches, sessionPins, packet>>

PacketNext ==
    \/ \E g \in Edition, files \in [PathName -> Text], ranges \in Layout : LoadEdition(g, files, ranges)
    \/ \E s \in Session, g \in Edition : PinEdition(s, g)
    \/ \E g \in Edition, o \in Patch, p \in PathName, content \in Text \cup {Lost} : ApplyPatch(g, o, p, content)
    \/ \E s \in Session, g \in Edition, o \in Patch \cup {Lost}, asked \in Asked, items \in 1..MaxItems :
          CompilePacket(s, g, o, asked, items)
    \/ \E p \in PathName : InvalidatePaths({p})

PacketSpec == PacketInit /\ [][PacketNext]_packetVars

(* verify_packet, which slice and encode_hbp call first *)
VerifyPacket(p) == p.hash = p.body

----------------------------------------------------------------------------
(* Properties *)

TextsOf(spans) == [n \in DOMAIN spans |-> <<spans[n].path, spans[n].text>>]

(* At the moment a packet is returned, cold or warm, it shows the text of its session's
   pinned generation under its overlay, and all that was asked for unless it says that it
   is truncated.  Its ranges are those of the generation too, unless that was loaded again
   with other ranges while the packet was in the cache: the digest has no ranges in it. *)
PacketIsCurrent ==
    [][packet' # packet =>
          LET p == packet'.body
              now == Spans(p.edition, p.patch, p.asked, p.items)
          IN
          /\ sessionPins[p.session] = p.edition
          /\ TextsOf(p.spans) = TextsOf(now)
          /\ p.spans = now \/ packet'.hash \in aged
          /\ ~ p.truncated => Len(p.spans) = Len(p.asked)]_packetVars

(* A packet that compile returns passes verify_packet.  One from the cache does not: its
   status changed after its hash was taken. *)
PacketVerifies == packet # <<>> => VerifyPacket(packet)

----------------------------------------------------------------------------
(***************************************************************************)
(* The universal context compiler (universal_context.py) and the adapters  *)
(* that feed it (context_adapters.py): code envelopes, results of the      *)
(* knowledge projection and receipts of the operations projection become   *)
(* envelopes, and those are compiled into one bounded packet for one       *)
(* repository.  The tenant is checked as the repository is and tokens are  *)
(* counted as bytes are: one of each is enough here.                       *)
(***************************************************************************)

CONSTANTS
    FactId,          \* stable handles, naturals
    Fact,            \* payloads
    Domain,
    Home, Abroad,    \* the repository that is asked for, and another one
    AnyScope,        \* "*" in an envelope, None in a payload
    Origin,          \* what an envelope says beside its payload: generations, producer
    CodeClaim,       \* [domain, scope, payloadScope, origin] of the code envelopes
    SizeOf,          \* encoded size of an item
    TrustOf,         \* trust of a payload
    MaxSources, MaxBytes

VARIABLE sources     \* the envelopes, in the order they were adapted

contextVars == <<sources>>

ProjectionType == {1, 2, 3}      \* code, knowledge, operations, as they sort
Scope == {Home, Abroad, AnyScope}
Claim == [domain : Domain \cup {AnyScope}, scope : Scope, payloadScope : Scope, origin : Origin]
Item == [type : ProjectionType, id : FactId, fact : Fact, payloadScope : Scope, origin : Origin]

ASSUME ContextAssumption ==
    /\ FactId \subseteq Nat /\ CodeClaim \subseteq Claim /\ SizeOf \in [Item -> Nat] /\ TrustOf \in [Fact -> Nat]
    /\ Home \notin Domain \cup {1, 2, 3}          \* no domain, which are named or a projection's
    /\ MaxSources \in Nat /\ MaxBytes \in Nat

ContextInit == sources = <<>>

AddEnvelope(type, id, fact, c) ==
    /\ Len(sources) < MaxSources
    /\ sources' = Append(sources, [type |-> type, id |-> id, fact |-> fact, domain |-> c.domain, scope |-> c.scope,
                                   payloadScope |-> c.payloadScope, origin |-> c.origin])

Bound(origin) == [domain |-> AnyScope, scope |-> Home, payloadScope |-> Home, origin |-> origin]

AdaptCode(id, fact, c) == AddEnvelope(1, id, fact, c)

(* of the repository or refused; the envelope and its payload are bound to it *)
AdaptKnowledge(id, fact, repository, origin) ==
    repository = Home /\ AddEnvelope(2, id, fact, Bound(origin))

AdaptOperations(id, fact, payloadScope, origin) ==
    payloadScope \in {AnyScope, Home} /\ AddEnvelope(3, id, fact, Bound(origin))

ContextNext ==
    \E id \in FactId, fact \in Fact :
        \/ \E c \in CodeClaim : AdaptCode(id, fact, c)
        \/ \E repository \in {Home, Abroad}, origin \in Origin : AdaptKnowledge(id, fact, repository, origin)
        \/ \E payloadScope \in Scope, origin \in Origin : AdaptOperations(id, fact, payloadScope, origin)

ContextSpec == ContextInit /\ [][ContextNext]_contextVars

(* compile_context: an envelope that says nothing about the repository is refused too *)
BoundToHome(e) ==
    /\ e.scope \in {AnyScope, Home} /\ e.payloadScope \in {AnyScope, Home}
    /\ e.scope = Home \/ e.payloadScope = Home

DomainOf(e) == IF e.domain = AnyScope THEN e.type ELSE e.domain

(* payload_sha256: the repository that a payload states is in the payload *)
Same(d, e) == d.fact = e.fact /\ d.payloadScope = e.payloadScope

(* encoded_size: all of the item is measured, and not just its payload *)
ItemSize(e) ==
    SizeOf[[type |-> e.type, id |-> e.id, fact |-> e.fact, payloadScope |-> e.payloadScope, origin |-> e.origin]]

Start == [selected |-> <<>>, seen |-> {}, bytes |-> 0, reasons |-> {}, stopped |-> FALSE, error |-> "none"]

(* Mutant: what does not fit any more is left out without a reason. *)
EndedSilently(s) == [s EXCEPT !.stopped = TRUE]

Ended(s) == [s EXCEPT !.reasons = @ \cup {"byte_budget"}, !.stopped = TRUE]

(* one envelope: its scope, the handle seen before, the cap of its domain, the trust
   floor, and the budgets, of which the first that is exceeded ends the packet *)
CompileStep(s, e, budget) ==
    LET before == {x \in s.seen : x.id = e.id}
        found == [s EXCEPT !.seen = @ \cup {e}]
        ofDomain == {n \in 1..Len(s.selected) : DomainOf(s.selected[n]) = DomainOf(e)}
    IN  IF s.stopped \/ s.error # "none" THEN s
        ELSE IF ~ BoundToHome(e) THEN [s EXCEPT !.error = "context_scope_mismatch"]
        ELSE IF before # {}
             THEN IF \E x \in before : ~ Same(x, e) THEN [s EXCEPT !.error = "context_conflict"] ELSE s
        ELSE IF DomainOf(e) = budget.capped /\ Cardinality(ofDomain) >= 1
             THEN [found EXCEPT !.reasons = @ \cup {"domain_budget"}]
        ELSE IF TrustOf[e.fact] < budget.floor THEN [found EXCEPT !.reasons = @ \cup {"trust_floor"}]
        ELSE IF s.bytes + ItemSize(e) > budget.bytes THEN Ended(found)
        ELSE [found EXCEPT !.selected = Append(@, e), !.bytes = @ + ItemSize(e)]

(* sorted by type and handle; the sort is stable *)
SortsBefore(list, m, n) ==
    \/ list[m].type < list[n].type
    \/ list[m].type = list[n].type /\ list[m].id < list[n].id
    \/ list[m].type = list[n].type /\ list[m].id = list[n].id /\ m < n

(* Mutant: the envelopes are taken as they come. *)
AsTheyCome(list) == list

InOrderOf(list) ==
    LET places == 1..Len(list)
        rank == [m \in places |-> Cardinality({k \in places : SortsBefore(list, k, m)})]
    IN  [n \in places |-> list[CHOOSE m \in places : rank[m] = n - 1]]

CompileContext(list, budget) ==
    LET ordered == InOrderOf(list)
        after[n \in 0..Len(list)] == IF n = 0 THEN Start ELSE CompileStep(after[n - 1], ordered[n], budget)
    IN  after[Len(list)]

----------------------------------------------------------------------------
(* Properties *)

(* the domain that is capped at one item, or none, the trust floor and the bytes *)
PacketBudget == [capped : Domain \cup {1, Home}, floor : {0, 1}, bytes : 0..MaxBytes]

FactsOf(s) == {<<s.selected[n].id, s.selected[n].fact>> : n \in 1..Len(s.selected)}

(* A packet is within its budget, has a handle once and only what is of the repository,
   and when it gives no reason it has every fact of its sources. *)
PacketIsComplete ==
    sources # <<>> => \A budget \in PacketBudget :
        LET s == CompileContext(sources, budget)
        IN  s.error = "none" =>
            /\ s.bytes <= budget.bytes
            /\ Cardinality({f[1] : f \in FactsOf(s)}) = Len(s.selected)
            /\ \A n \in 1..Len(s.selected) : BoundToHome(s.selected[n])
            /\ s.reasons = {} => FactsOf(s) = {<<sources[n].id, sources[n].fact>> : n \in 1..Len(sources)}

(* Envelopes of one handle have one payload, and those of them that sort alike make items
   of one size: of two generations, for instance, whose names are equally long. *)
SourcesAgree(list) ==
    \A m, n \in 1..Len(list) : list[m].id = list[n].id =>
        /\ Same(list[m], list[n])
        /\ list[m].type = list[n].type => ItemSize(list[m]) = ItemSize(list[n])

(* The facts of a packet do not depend on the order in which its sources came, unless a
   domain is capped or the sources disagree: the one of two items of a handle that came
   first is measured, and it may be the longer or the shorter one. *)
PacketIsOrderFree ==
    sources # <<>> /\ SourcesAgree(sources) =>
        \A budget \in {b \in PacketBudget : b.capped = Home} :
            LET s == CompileContext(sources, budget)
            IN  s.error = "none" => FactsOf(CompileContext(Reverse(sources), budget)) = FactsOf(s)

(* compile_context keeps its budget, names what it leaves out, and sorts so that the order
   of sources that agree does not show in its facts. *)
PacketIsSound == PacketIsComplete /\ PacketIsOrderFree
===============================================================================
