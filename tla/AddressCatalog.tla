--------------------------- MODULE AddressCatalog ---------------------------
(***************************************************************************)
(* Short handles for the identities of one repository and generation       *)
(* (catalog.py): register, tombstone, resolve, save and load.  A handle is *)
(* a prefix of a digest, so two identities may share one; the handles of   *)
(* one identifier in two namespaces are taken to differ.                   *)
(***************************************************************************)
EXTENDS Naturals, FiniteSets

CONSTANTS
    Identity,        \* namespace and canonical id
    HandleOf,        \* _make_handle
    Content,         \* payload and source digest
    NoEntry

VARIABLES
    byHandle, byIdentity,
    catalogFile,     \* what save wrote last, with its history
    withdrawn        \* history: identities that were given another state than active

catalogVars == <<byHandle, byIdentity, catalogFile, withdrawn>>

ShortHandle == {HandleOf[i] : i \in Identity}
CatalogState == {"active", "superseded", "tombstoned", "held"}
CatalogEntry == [identity : Identity, content : Content, state : CatalogState]

ASSUME CatalogAssumption == DOMAIN HandleOf = Identity /\ NoEntry \notin CatalogEntry

CatalogInit ==
    /\ byHandle = [h \in ShortHandle |-> NoEntry] /\ byIdentity = [i \in Identity |-> NoEntry]
    /\ withdrawn = {}
    /\ catalogFile = [entries |-> byIdentity, withdrawn |-> {}]

NewEntry(i, content, state) == [identity |-> i, content |-> content, state |-> state]

(* Mutant: what is registered again is made anew. *)
EnteredAnew(i, content, state) == NewEntry(i, content, state)

(* an identity that is there already stays as it is, whatever state is asked for *)
Entered(i, content, state) ==
    IF byIdentity[i] # NoEntry THEN byIdentity[i] ELSE NewEntry(i, content, state)

Register(i, content, state) ==
    LET h == HandleOf[i]
        entry == Entered(i, content, state)
    IN  /\ byIdentity[i] # NoEntry => byIdentity[i].content = content
        /\ byIdentity[i] = NoEntry /\ byHandle[h] # NoEntry => byHandle[h].identity = i
        /\ byHandle' = [byHandle EXCEPT ![h] = entry]
        /\ byIdentity' = [byIdentity EXCEPT ![i] = entry]
        /\ withdrawn' = IF entry.state = "active" THEN withdrawn ELSE withdrawn \cup {i}
        /\ UNCHANGED catalogFile

Tombstone(h, state) ==
    /\ byHandle[h] # NoEntry /\ state # "active"
    /\ LET entry == [byHandle[h] EXCEPT !.state = state]
       IN  /\ byHandle' = [byHandle EXCEPT ![h] = entry]
           /\ byIdentity' = [byIdentity EXCEPT ![entry.identity] = entry]
           /\ withdrawn' = withdrawn \cup {entry.identity}
    /\ UNCHANGED catalogFile

(* to_bytes writes the entries of the handles *)
SaveCatalog ==
    /\ catalogFile' = [entries |-> [i \in Identity |->
                          IF byHandle[HandleOf[i]] # NoEntry /\ byHandle[HandleOf[i]].identity = i
                          THEN byHandle[HandleOf[i]] ELSE NoEntry],
                       withdrawn |-> withdrawn]
    /\ UNCHANGED <<byHandle, byIdentity, withdrawn>>

(* from_bytes registers what was saved, of the same scope, into an empty catalog *)
LoadCatalog ==
    /\ byIdentity' = catalogFile.entries
    /\ byHandle' = [h \in ShortHandle |->
          IF \E i \in Identity : HandleOf[i] = h /\ catalogFile.entries[i] # NoEntry
          THEN LET i == CHOOSE i \in Identity : HandleOf[i] = h /\ catalogFile.entries[i] # NoEntry
               IN  catalogFile.entries[i]
          ELSE NoEntry]
    /\ withdrawn' = catalogFile.withdrawn
    /\ UNCHANGED catalogFile

CatalogNext ==
    \/ \E i \in Identity, c \in Content, state \in CatalogState : Register(i, c, state)
    \/ \E h \in ShortHandle, state \in CatalogState : Tombstone(h, state)
    \/ SaveCatalog \/ LoadCatalog

CatalogSpec == CatalogInit /\ [][CatalogNext]_catalogVars

(* resolve answers *)
Resolves(h) == byHandle[h] # NoEntry /\ byHandle[h].state = "active"

----------------------------------------------------------------------------
(* Properties *)

(* A handle resolves to the identity it was made for, the two tables never disagree, not
   even about two identities with one handle, and what was withdrawn is not resolved again
   by registering it once more, saving and loading. *)
ResolvesItsOwn ==
    /\ \A h \in ShortHandle : byHandle[h] # NoEntry =>
          HandleOf[byHandle[h].identity] = h /\ byIdentity[byHandle[h].identity] = byHandle[h]
    /\ \A i \in Identity : byIdentity[i] # NoEntry => byHandle[HandleOf[i]] = byIdentity[i]
    /\ \A h \in ShortHandle : Resolves(h) => byHandle[h].identity \notin withdrawn
=============================================================================
