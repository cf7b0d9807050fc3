------------------------------ MODULE MCRecords ------------------------------
(***************************************************************************)
(* The records the library keeps and the contexts it compiles share no     *)
(* state: each kind is explored beside the others, never interleaved with  *)
(* them.                                                                   *)
(***************************************************************************)
EXTENDS Temporal, OperationsProjection, Projections, DeliveryLedger, ChangeJournal, Segments,
        Federation, MapperPrepare, ContextViews, Packets, RouteSignals, ValidationCache,
        SharedFlights, PageCache, AddressCatalog, RustSession, TLC

CONSTANT f1

VARIABLE component

recordVars == <<temporalVars, operationVars, knowledgeVars, ledgerVars, storedVars, journalVars, streamVars, projectionVars, federationVars, mapperVars, viewVars, packetVars, contextVars, routeVars, validationVars, contentVars, pageVars, segmentVars, catalogVars, flightVars, sessionVars>>

MCInit ==
    /\ TemporalInit
    /\ OperationsInit
    /\ KnowledgeInit
    /\ LedgerInit
    /\ LedgerStoreInit
    /\ JournalInit
    /\ StreamInit
    /\ ProjectionInit
    /\ FederationInit
    /\ MapperInit
    /\ ViewInit
    /\ PacketInit
    /\ ContextInit
    /\ RouteInit
    /\ ValidationInit
    /\ ContentInit
    /\ PageInit
    /\ SegmentInit
    /\ CatalogInit
    /\ FlightInit
    /\ SessionInit
    /\ component \in {"temporal", "operations", "knowledge", "ledger", "store", "journal", "stream", "projection", "federation", "mapper", "views", "packets", "context", "route", "validation", "content", "pages", "segments", "catalog", "flights", "session"}
    /\ component # "mapper" => tree = 1

MCNext ==
    /\ UNCHANGED component
    /\ \/ component = "temporal" /\ TemporalNext
          /\ UNCHANGED <<operationVars, knowledgeVars, ledgerVars, storedVars, journalVars, streamVars, projectionVars, federationVars, mapperVars, viewVars, packetVars, contextVars, routeVars, validationVars, contentVars, pageVars, segmentVars, catalogVars, flightVars, sessionVars>>
       \/ component = "operations" /\ OperationsNext
          /\ UNCHANGED <<temporalVars, knowledgeVars, ledgerVars, storedVars, journalVars, streamVars, projectionVars, federationVars, mapperVars, viewVars, packetVars, contextVars, routeVars, validationVars, contentVars, pageVars, segmentVars, catalogVars, flightVars, sessionVars>>
       \/ component = "knowledge" /\ KnowledgeNext
          /\ UNCHANGED <<temporalVars, operationVars, ledgerVars, storedVars, journalVars, streamVars, projectionVars, federationVars, mapperVars, viewVars, packetVars, contextVars, routeVars, validationVars, contentVars, pageVars, segmentVars, catalogVars, flightVars, sessionVars>>
       \/ component = "ledger" /\ LedgerNext
          /\ UNCHANGED <<temporalVars, operationVars, knowledgeVars, storedVars, journalVars, streamVars, projectionVars, federationVars, mapperVars, viewVars, packetVars, contextVars, routeVars, validationVars, contentVars, pageVars, segmentVars, catalogVars, flightVars, sessionVars>>
       \/ component = "store" /\ LedgerStoreNext
          /\ UNCHANGED <<temporalVars, operationVars, knowledgeVars, ledgerVars, journalVars, streamVars, projectionVars, federationVars, mapperVars, viewVars, packetVars, contextVars, routeVars, validationVars, contentVars, pageVars, segmentVars, catalogVars, flightVars, sessionVars>>
       \/ component = "journal" /\ JournalNext
          /\ UNCHANGED <<temporalVars, operationVars, knowledgeVars, ledgerVars, storedVars, streamVars, projectionVars, federationVars, mapperVars, viewVars, packetVars, contextVars, routeVars, validationVars, contentVars, pageVars, segmentVars, catalogVars, flightVars, sessionVars>>
       \/ component = "stream" /\ StreamNext
          /\ UNCHANGED <<temporalVars, operationVars, knowledgeVars, ledgerVars, storedVars, journalVars, projectionVars, federationVars, mapperVars, viewVars, packetVars, contextVars, routeVars, validationVars, contentVars, pageVars, segmentVars, catalogVars, flightVars, sessionVars>>
       \/ component = "projection" /\ ProjectionNext
          /\ UNCHANGED <<temporalVars, operationVars, knowledgeVars, ledgerVars, storedVars, journalVars, streamVars, federationVars, mapperVars, viewVars, packetVars, contextVars, routeVars, validationVars, contentVars, pageVars, segmentVars, catalogVars, flightVars, sessionVars>>
       \/ component = "federation" /\ FederationNext
          /\ UNCHANGED <<temporalVars, operationVars, knowledgeVars, ledgerVars, storedVars, journalVars, streamVars, projectionVars, mapperVars, viewVars, packetVars, contextVars, routeVars, validationVars, contentVars, pageVars, segmentVars, catalogVars, flightVars, sessionVars>>
       \/ component = "mapper" /\ MapperNext
          /\ UNCHANGED <<temporalVars, operationVars, knowledgeVars, ledgerVars, storedVars, journalVars, streamVars, projectionVars, federationVars, viewVars, packetVars, contextVars, routeVars, validationVars, contentVars, pageVars, segmentVars, catalogVars, flightVars, sessionVars>>
       \/ component = "views" /\ ViewNext
          /\ UNCHANGED <<temporalVars, operationVars, knowledgeVars, ledgerVars, storedVars, journalVars, streamVars, projectionVars, federationVars, mapperVars, packetVars, contextVars, routeVars, validationVars, contentVars, pageVars, segmentVars, catalogVars, flightVars, sessionVars>>
       \/ component = "packets" /\ PacketNext
          /\ UNCHANGED <<temporalVars, operationVars, knowledgeVars, ledgerVars, storedVars, journalVars, streamVars, projectionVars, federationVars, mapperVars, viewVars, contextVars, routeVars, validationVars, contentVars, pageVars, segmentVars, catalogVars, flightVars, sessionVars>>
       \/ component = "context" /\ ContextNext
          /\ UNCHANGED <<temporalVars, operationVars, knowledgeVars, ledgerVars, storedVars, journalVars, streamVars, projectionVars, federationVars, mapperVars, viewVars, packetVars, routeVars, validationVars, contentVars, pageVars, segmentVars, catalogVars, flightVars, sessionVars>>
       \/ component = "route" /\ RouteNext
          /\ UNCHANGED <<temporalVars, operationVars, knowledgeVars, ledgerVars, storedVars, journalVars, streamVars, projectionVars, federationVars, mapperVars, viewVars, packetVars, contextVars, validationVars, contentVars, pageVars, segmentVars, catalogVars, flightVars, sessionVars>>
       \/ component = "validation" /\ ValidationNext
          /\ UNCHANGED <<temporalVars, operationVars, knowledgeVars, ledgerVars, storedVars, journalVars, streamVars, projectionVars, federationVars, mapperVars, viewVars, packetVars, contextVars, routeVars, contentVars, pageVars, segmentVars, catalogVars, flightVars, sessionVars>>
       \/ component = "content" /\ ContentNext
          /\ UNCHANGED <<temporalVars, operationVars, knowledgeVars, ledgerVars, storedVars, journalVars, streamVars, projectionVars, federationVars, mapperVars, viewVars, packetVars, contextVars, routeVars, validationVars, pageVars, segmentVars, catalogVars, flightVars, sessionVars>>
       \/ component = "pages" /\ PageNext
          /\ UNCHANGED <<temporalVars, operationVars, knowledgeVars, ledgerVars, storedVars, journalVars, streamVars, projectionVars, federationVars, mapperVars, viewVars, packetVars, contextVars, routeVars, validationVars, contentVars, segmentVars, catalogVars, flightVars, sessionVars>>
       \/ component = "segments" /\ SegmentNext
          /\ UNCHANGED <<temporalVars, operationVars, knowledgeVars, ledgerVars, storedVars, journalVars, streamVars, projectionVars, federationVars, mapperVars, viewVars, packetVars, contextVars, routeVars, validationVars, contentVars, pageVars, catalogVars, flightVars, sessionVars>>
       \/ component = "catalog" /\ CatalogNext
          /\ UNCHANGED <<temporalVars, operationVars, knowledgeVars, ledgerVars, storedVars, journalVars, streamVars, projectionVars, federationVars, mapperVars, viewVars, packetVars, contextVars, routeVars, validationVars, contentVars, pageVars, segmentVars, flightVars, sessionVars>>
       \/ component = "flights" /\ FlightNext
          /\ UNCHANGED <<temporalVars, operationVars, knowledgeVars, ledgerVars, storedVars, journalVars, streamVars, projectionVars, federationVars, mapperVars, viewVars, packetVars, contextVars, routeVars, validationVars, contentVars, pageVars, segmentVars, catalogVars, sessionVars>>
       \/ component = "session" /\ SessionNext
          /\ UNCHANGED <<temporalVars, operationVars, knowledgeVars, ledgerVars, storedVars, journalVars, streamVars, projectionVars, federationVars, mapperVars, viewVars, packetVars, contextVars, routeVars, validationVars, contentVars, pageVars, segmentVars, catalogVars, flightVars>>

MCSpec == MCInit /\ [][MCNext]_<<component, recordVars>>

(* The actors of a component, or what it stores where it has none, are the same two
   names in all of them: no two components are ever in one behaviour. *)
Symmetry == Permutations(Publisher)

(* the repositories and handles of a small federation, and the sources of a stream *)
MCMemberOf == [p \in 1..3 |-> IF p < 3 THEN "one" ELSE "two"]
MCInput == {<<1, 2>>, <<1, 3>>}

(* batches: one receipt, or two of those that say complete; the second may be refused *)
MCReceipt == {r \in Receipt : r.generation = "pinned" /\ r.parent # r.handle
                              /\ (r.tombstone => r.parent = NoParent /\ r.status = "complete")}
MCEarly == {r \in MCReceipt : r.status = "complete" /\ r.sequence < 2}
MCForeign == {CHOOSE r \in Receipt : r.generation = "other"}
MCBatch == {<<r>> : r \in MCReceipt \cup MCForeign} \cup (MCEarly \X (MCEarly \cup MCForeign))

(* items: evidence, a diff of an overlay, the prompt of the implementer *)
ViewItem(rank, kind, tokens, visibility, scope) ==
    [rank |-> rank, kind |-> kind, tokens |-> tokens, visibility |-> visibility,
     scope |-> scope, generation |-> 1, path |-> "src"]
MCContextItem == {ViewItem(1, "evidence", 2, "shared", "base"), ViewItem(2, "diff", 1, "shared", "o1"),
                  ViewItem(3, "span", 1, "reviewer", "base"), ViewItem(4, "implementer_prompt", 1, "shared", "base")}
MCOffer == {MCContextItem, {i \in MCContextItem : i.scope = "base"}, {i \in MCContextItem : i.kind = "span"}}
MCContextRequest ==
    [task : {"t1", "t2"}, stage : {"reviewer", "implementer"}, scope : {"base", "o1"},
     generation : {1}, fence : {1}, tokens : {3}, nodes : {2}]
MCAuthority == {[fence |-> 1, roots |-> {"src"}]}
MCLayout == {[p \in PathName |-> part] : part \in {"head", "tail"}}
MCSizeOf == [i \in Item |-> (IF i.fact = f1 THEN 1 ELSE 2) + (IF i.origin = "long" THEN 1 ELSE 0)]
MCTrustOf == [f \in Fact |-> IF f = f1 THEN 1 ELSE 0]
MCGenerationOf == [k \in ValidationKey |-> k]
MCSourcesOf == [k \in ContentKey |-> IF k = 1 THEN SourceFile ELSE {1}]
MCBytesOf == [k \in PageKey |-> IF k < 3 THEN k ELSE 1]
MCSectionOf == [r \in Release |-> [s \in Section |-> IF s = 1 THEN 0 ELSE r]]
MCHandleOf == [i \in Identity |-> IF i = 3 THEN 2 ELSE i]
MCAsked == {SetToSeq(PathName), <<CHOOSE p \in PathName : TRUE>>}
MCCodeClaim ==
    LET Of(domain, scope, payloadScope, origin) ==
            [domain |-> domain, scope |-> scope, payloadScope |-> payloadScope, origin |-> origin]
    IN  {Of(d, Home, AnyScope, "short") : d \in Domain \cup {AnyScope}}
            \cup {Of(AnyScope, Home, AnyScope, "long")} \cup {Of(AnyScope, AnyScope, s, "short") : s \in {AnyScope, Abroad}}
=============================================================================
