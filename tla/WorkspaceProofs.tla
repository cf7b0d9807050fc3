--------------------------- MODULE WorkspaceProofs ---------------------------
(***************************************************************************)
(* Proofs about the shared store of generations: what is published is      *)
(* whole, exact and kept for the leases on it, and what is served is what  *)
(* was parsed, for every number of processes, files, contents, edits,      *)
(* crashes and collections.                                                *)
(***************************************************************************)
EXTENDS Workspace, TLAPS

Call == [pc : PC, gen : Tree, view : Tree, built : Snapshot \cup {None}, art : Drawing \cup {None},
         todo : SUBSET Tree, entries : SUBSET Entry, scope : SUBSET Path, raced : BOOLEAN]

Typed ==
    /\ files \in Tree /\ dirs \subseteq Tree
    /\ snap \in [Tree -> Snapshot \cup {None}] /\ man \in [Tree -> Snapshot \cup {None}]
    /\ current \in Tree \cup {None}
    /\ drawn \subseteq Drawing /\ leases \subseteq Lease
    /\ calls \in [Process -> Call]
    /\ raced \subseteq Tree /\ collected \subseteq Tree /\ served \subseteq Span

(* A drawing that no edit raced has the symbols of the bytes whose hashes it names. *)
DrawingIsExact(d) == ~d.raced => \A x \in Path : d.changed[x] # None => d.changed[x].sym = d.changed[x].sha

Protects(l) == l.sound /\ ~l.expired

(* What a process knows is still so, or the history says what came in between: an edit of
   the sources while it built or drew, or a gc of its generation. *)
BuildIsDue(c) ==
    /\ c.pc \in {"publish", "manifest", "view"} => c.built # None
    /\ c.pc = "manifest" /\ c.gen \notin collected => snap[c.gen] # None
    /\ c.pc = "current" /\ c.gen \notin collected => man[c.gen] # None
    /\ c.pc \in {"probe", "digest", "parse", "publish", "seal", "manifest"} /\ c.gen \notin raced => files = c.gen
    /\ c.pc = "parse" /\ c.gen \notin raced => c.view = c.gen /\ c.built \in {None, Exact(c.gen)}
    /\ c.pc \in {"publish", "manifest", "view"} /\ c.gen \notin raced => c.built = Exact(c.gen)

DrawIsDue(c) ==
    /\ c.pc = "draw" /\ ~c.raced => c.view = files
    /\ c.art # None => c.art \in drawn

(* A gc that runs knows every lease that protects a generation. *)
CollectIsDue(c) ==
    /\ c.pc = "unlink" => c.gen \in collected
    /\ \A l \in leases : Protects(l) =>
          /\ c.pc = "list" => l.gen \in c.todo
          /\ c.pc \in {"remove", "unlink"} => l.gen \notin c.todo
          /\ c.pc = "unlink" => l.gen # c.gen

GoodCall(c) == BuildIsDue(c) /\ DrawIsDue(c) /\ CollectIsDue(c)

WorkspaceInv ==
    /\ Typed
    /\ \A p \in Process : GoodCall(calls[p])
    /\ PublishedIsWhole
    /\ ManifestBindsSnapshot
    /\ LeaseKeepsGeneration
    /\ ServedIsFaithful
    /\ \A d \in drawn : DrawingIsExact(d)

----------------------------------------------------------------------------
(* Calls *)

LEMMA CallFields ==
    \A c \in Call : /\ c.pc \in PC /\ c.gen \in Tree /\ c.view \in Tree /\ c.built \in Snapshot \cup {None}
                    /\ c.art \in Drawing \cup {None} /\ c.todo \in SUBSET Tree /\ c.entries \in SUBSET Entry
                    /\ c.scope \in SUBSET Path /\ c.raced \in BOOLEAN
BY DEF Call

LEMMA IdleIsCall ==
    /\ IdleCall \in Call /\ IdleCall.pc = "idle" /\ IdleCall.art = None /\ IdleCall.built = None
    /\ IdleCall.raced = FALSE
<1>1. "idle" \in PC /\ InitialFiles \in Tree
  BY ConstantsAssumption DEF PC
<1> QED
  BY <1>1 DEF IdleCall, Call

LEMMA ExactIsSnapshot ==
    \A g \in Tree : Exact(g) \in Snapshot /\ Exact(g) # None /\ \A x \in Path : Exact(g)[x].sym = g[x] /\ Exact(g)[x].sha = g[x]
BY ConstantsAssumption DEF Exact, Snapshot, Tree

(* Nothing that a call knows is lost by a step that only adds to the history, removes no
   snapshot or manifest but of a generation that a gc is removing, adds no lease that
   protects and leaves the sources alone. *)
LEMMA CallStays ==
    ASSUME NEW c, GoodCall(c), files' = files, collected \subseteq collected', raced \subseteq raced',
           drawn \subseteq drawn', \A l \in leases' : Protects(l) => l \in leases,
           \A g \in Tree : g \notin collected' /\ snap[g] # None => snap'[g] # None,
           \A g \in Tree : g \notin collected' /\ man[g] # None => man'[g] # None,
           c \in Call
    PROVE  GoodCall(c)'
<1>1. c.gen \in Tree
  BY CallFields
<1>2. BuildIsDue(c)'
  BY <1>1 DEF GoodCall, BuildIsDue
<1>3. DrawIsDue(c)'
  BY DEF GoodCall, DrawIsDue
<1>4. CollectIsDue(c)'
  BY DEF GoodCall, CollectIsDue
<1> QED
  BY <1>2, <1>3, <1>4 DEF GoodCall

LEMMA CallsStay ==
    ASSUME WorkspaceInv, NEW p \in Process, NEW c \in Call, calls' = [calls EXCEPT ![p] = c], GoodCall(c)',
           files' = files, collected \subseteq collected', raced \subseteq raced',
           drawn \subseteq drawn', \A l \in leases' : Protects(l) => l \in leases,
           \A g \in Tree : g \notin collected' /\ snap[g] # None => snap'[g] # None,
           \A g \in Tree : g \notin collected' /\ man[g] # None => man'[g] # None
    PROVE  calls' \in [Process -> Call] /\ \A q \in Process : GoodCall(calls[q])'
<1>1. calls \in [Process -> Call]
  BY DEF WorkspaceInv, Typed
<1>2. ASSUME NEW q \in Process PROVE GoodCall(calls[q])'
  <2>1. PICK m : m = calls'[q]
    OBVIOUS
  <2>2. m \in Call /\ GoodCall(m)'
    <3>1. CASE q = p
      BY <1>1, <2>1, <3>1
    <3>2. CASE q # p
      <4>1. m = calls[q] /\ GoodCall(calls[q])
        BY <1>1, <2>1, <3>2 DEF WorkspaceInv
      <4>2. m \in Call /\ GoodCall(m)
        BY <1>1, <4>1
      <4> QED
        BY <4>2, CallStays
    <3> QED
      BY <3>1, <3>2
  <2> QED
    BY <2>1, <2>2
<1> QED
  BY <1>1, <1>2

(* A step that changes one call and nothing else that the invariant is about. *)
LEMMA OnlyCall ==
    ASSUME WorkspaceInv, NEW p \in Process, NEW c \in Call, Become(p, c), GoodCall(c),
           UNCHANGED <<files, dirs, snap, man, current, drawn, leases, raced, collected, served>>
    PROVE  WorkspaceInv'
<1>1. GoodCall(c)'
  BY CallStays
<1>2. calls' \in [Process -> Call] /\ \A q \in Process : GoodCall(calls[q])'
  BY <1>1, CallsStay DEF Become
<1>3. Typed'
  BY <1>2 DEF WorkspaceInv, Typed
<1>4. PublishedIsWhole' /\ ManifestBindsSnapshot' /\ LeaseKeepsGeneration' /\ ServedIsFaithful'
      /\ (\A d \in drawn : DrawingIsExact(d))'
  BY DEF WorkspaceInv, PublishedIsWhole, ManifestBindsSnapshot, LeaseKeepsGeneration, ServedIsFaithful
<1> QED
  BY <1>2, <1>3, <1>4 DEF WorkspaceInv

LEMMA IdleIsGood == GoodCall(IdleCall) /\ GoodCall(IdleCall)'
BY IdleIsCall DEF GoodCall, BuildIsDue, DrawIsDue, CollectIsDue

LEMMA ReturnKeeps ==
    ASSUME WorkspaceInv, NEW p \in Process, Return(p),
           UNCHANGED <<files, dirs, snap, man, current, drawn, leases, raced, collected, served>>
    PROVE  WorkspaceInv'
BY IdleIsCall, IdleIsGood, OnlyCall DEF Return

LEMMA StartKeeps ==
    ASSUME WorkspaceInv, NEW p \in Process, NEW c \in Call, Start(p, c), GoodCall(c)
    PROVE  WorkspaceInv'
BY OnlyCall DEF Start, KeepStore, KeepFiles, store

----------------------------------------------------------------------------
(* build_base *)

LEMMA CallOf == ASSUME WorkspaceInv, NEW p \in Process PROVE calls[p] \in Call /\ GoodCall(calls[p])
BY DEF WorkspaceInv, Typed

LEMMA BuildHashKeeps == ASSUME WorkspaceInv, NEW p \in Process, BuildHash(p) PROVE WorkspaceInv'
<1>1. PICK c : c = [IdleCall EXCEPT !.pc = "probe", !.gen = files]
  OBVIOUS
<1>2. c \in Call /\ c.pc = "probe" /\ c.gen = files /\ c.art = None
  BY <1>1, IdleIsCall DEF Call, PC, WorkspaceInv, Typed
<1>3. GoodCall(c)
  BY <1>2 DEF GoodCall, BuildIsDue, DrawIsDue, CollectIsDue
<1>4. Start(p, c)
  BY <1>1 DEF BuildHash
<1> QED
  BY <1>2, <1>3, <1>4, StartKeeps

LEMMA BuildProbeKeeps == ASSUME WorkspaceInv, NEW p \in Process, BuildProbe(p) PROVE WorkspaceInv'
<1>1. PICK b : b = calls[p]
  OBVIOUS
<1>2. b \in Call /\ GoodCall(b) /\ b.pc = "probe"
  BY <1>1, CallOf DEF BuildProbe, At
<1>3. PICK c : c = IF snap[b.gen] # None /\ man[b.gen] # None THEN [b EXCEPT !.pc = "current"] ELSE [b EXCEPT !.pc = "digest"]
  OBVIOUS
<1>4. calls' = [calls EXCEPT ![p] = c]
  BY <1>1, <1>3 DEF BuildProbe, Become, Goto, Gen
<1>5. /\ c \in Call /\ c.gen = b.gen /\ c.art = b.art
      /\ \/ c.pc = "current" /\ snap[b.gen] # None /\ man[b.gen] # None
         \/ c.pc = "digest"
  <2>1. "current" \in PC /\ "digest" \in PC
    BY DEF PC
  <2> QED
    BY <1>2, <1>3, <2>1 DEF Call
<1>6. GoodCall(c)
  BY <1>2, <1>5 DEF GoodCall, BuildIsDue, DrawIsDue, CollectIsDue
<1>7. UNCHANGED <<files, snap, man, current, drawn, leases, raced, collected, served>> /\ dirs' = dirs \cup {b.gen}
  BY <1>1 DEF BuildProbe, KeepFiles, KeepHistory, Gen
<1>8. GoodCall(c)'
  BY <1>5, <1>6, <1>7, CallStays
<1>9. calls' \in [Process -> Call] /\ \A q \in Process : GoodCall(calls[q])'
  BY <1>4, <1>5, <1>7, <1>8, CallsStay
<1>10. Typed'
  BY <1>2, <1>7, <1>9, CallFields DEF WorkspaceInv, Typed
<1>11. PublishedIsWhole' /\ ManifestBindsSnapshot' /\ LeaseKeepsGeneration' /\ ServedIsFaithful'
       /\ (\A d \in drawn : DrawingIsExact(d))'
  BY <1>7 DEF WorkspaceInv, PublishedIsWhole, ManifestBindsSnapshot, LeaseKeepsGeneration, ServedIsFaithful
<1> QED
  BY <1>9, <1>10, <1>11 DEF WorkspaceInv

LEMMA BuildDigestKeeps == ASSUME WorkspaceInv, NEW p \in Process, BuildDigest(p) PROVE WorkspaceInv'
<1>1. PICK b : b = calls[p]
  OBVIOUS
<1>2. b \in Call /\ GoodCall(b) /\ b.pc = "digest"
  BY <1>1, CallOf DEF BuildDigest, At
<1>3. PICK c : c = [b EXCEPT !.pc = "parse", !.view = files, !.built = snap[b.gen]]
  OBVIOUS
<1>4. Become(p, c)
  BY <1>1, <1>3 DEF BuildDigest, Goto, Gen
<1>5. b.gen \in Tree /\ files \in Tree /\ snap[b.gen] \in Snapshot \cup {None}
  BY <1>2, CallFields DEF WorkspaceInv, Typed
<1>6. c \in Call /\ c.pc = "parse" /\ c.view = files /\ c.built = snap[b.gen] /\ c.gen = b.gen /\ c.art = b.art
  BY <1>2, <1>3, <1>5 DEF Call, PC
<1>7. c.gen \notin raced => c.view = c.gen /\ c.built \in {None, Exact(c.gen)}
  BY <1>2, <1>5, <1>6 DEF GoodCall, BuildIsDue, WorkspaceInv, ManifestBindsSnapshot
<1>8. GoodCall(c)
  BY <1>2, <1>6, <1>7 DEF GoodCall, BuildIsDue, DrawIsDue, CollectIsDue
<1> QED
  BY <1>4, <1>6, <1>8, OnlyCall DEF BuildDigest, KeepStore, KeepFiles, KeepHistory, store

(* What is parsed of sources that nobody edited is exact. *)
KeptOf(view, previous) == {x \in Path : previous # None /\ previous[x].sha = view[x]}
ParsedOf(view, previous) ==
    LET kept == KeptOf(view, previous)
        fresh == {x \in Path \ kept : view[x] # Gone}
    IN  [x \in Path |-> [sha |-> view[x],
                        sym |-> IF x \in kept THEN previous[x].sym ELSE IF x \in fresh THEN files[x] ELSE Gone]]

LEMMA ParsedIsExact ==
    ASSUME NEW view \in Tree, NEW previous \in {None, Exact(view)}, files = view, KeptOf(view, previous) # Path
    PROVE  ParsedOf(view, previous) = Exact(view)
<1>1. previous = None
  <2>1. previous = Exact(view) => KeptOf(view, previous) = Path
    BY ExactIsSnapshot DEF KeptOf
  <2> QED
    BY <2>1
<1>2. KeptOf(view, previous) = {}
  BY <1>1 DEF KeptOf
<1> QED
  BY <1>2 DEF Exact, ParsedOf

LEMMA BuildParseKeeps == ASSUME WorkspaceInv, NEW p \in Process, BuildParse(p) PROVE WorkspaceInv'
<1>1. PICK b : b = calls[p]
  OBVIOUS
<1>2. b \in Call /\ GoodCall(b) /\ b.pc = "parse"
  BY <1>1, CallOf DEF BuildParse, At
<1> DEFINE kept == KeptOf(b.view, b.built)
           parsed == ParsedOf(b.view, b.built)
<1>3. UNCHANGED <<files, dirs, snap, man, current, drawn, leases, raced, collected, served>>
  BY DEF BuildParse, KeepStore, KeepFiles, KeepHistory, store
<1>4. \/ Return(p)
      \/ kept = Path /\ Become(p, [b EXCEPT !.pc = "seal"])
      \/ kept # Path /\ Become(p, [b EXCEPT !.pc = "publish", !.built = parsed])
  BY <1>1 DEF BuildParse, Goto, KeptOf, ParsedOf
<1>5. parsed \in Snapshot
  <2>1. b.view \in Tree /\ b.built \in Snapshot \cup {None} /\ files \in Tree
    BY <1>2, CallFields DEF WorkspaceInv, Typed
  <2>2. \A x \in Path : b.view[x] \in File /\ files[x] \in File /\ Gone \in File
    BY <2>1 DEF Tree, File
  <2>3. \A x \in kept : b.built[x].sym \in File
    BY <2>1 DEF Snapshot, KeptOf
  <2> QED
    BY <2>2, <2>3 DEF Snapshot, ParsedOf
<1>6. b.gen \notin raced /\ kept # Path => parsed = Exact(b.gen)
  <2> SUFFICES ASSUME b.gen \notin raced, kept # Path PROVE parsed = Exact(b.gen)
    OBVIOUS
  <2>1. b.view = b.gen /\ b.built \in {None, Exact(b.gen)} /\ files = b.gen /\ b.gen \in Tree
    BY <1>2, CallFields DEF GoodCall, BuildIsDue
  <2> QED
    BY <2>1, ParsedIsExact
<1>7. CASE kept = Path /\ Become(p, [b EXCEPT !.pc = "seal"])
  <2>1. PICK c : c = [b EXCEPT !.pc = "seal"]
    OBVIOUS
  <2>2. c \in Call /\ c.pc = "seal" /\ c.gen = b.gen /\ c.art = b.art
    BY <1>2, <2>1 DEF Call, PC
  <2>3. GoodCall(c)
    BY <1>2, <2>2 DEF GoodCall, BuildIsDue, DrawIsDue, CollectIsDue
  <2> QED
    BY <1>3, <1>7, <2>1, <2>2, <2>3, OnlyCall
<1>8. CASE kept # Path /\ Become(p, [b EXCEPT !.pc = "publish", !.built = parsed])
  <2> HIDE DEF parsed, kept
  <2>1. PICK c : c = [b EXCEPT !.pc = "publish", !.built = parsed]
    OBVIOUS
  <2>2. c \in Call /\ c.pc = "publish" /\ c.gen = b.gen /\ c.art = b.art /\ c.built = parsed
    BY <1>2, <1>5, <2>1 DEF Call, PC
  <2>3. GoodCall(c)
    BY <1>2, <1>5, <1>6, <1>8, <2>2, ConstantsAssumption DEF GoodCall, BuildIsDue, DrawIsDue, CollectIsDue
  <2> QED
    BY <1>3, <1>8, <2>1, <2>2, <2>3, OnlyCall
<1> QED
  BY <1>3, <1>4, <1>7, <1>8, ReturnKeeps

LEMMA BuildPublishKeeps == ASSUME WorkspaceInv, NEW p \in Process, BuildPublish(p) PROVE WorkspaceInv'
<1>1. PICK b : b = calls[p]
  OBVIOUS
<1>2. b \in Call /\ GoodCall(b) /\ b.pc = "publish"
  BY <1>1, CallOf DEF BuildPublish, At
<1>3. PICK c : c = [b EXCEPT !.pc = "seal"]
  OBVIOUS
<1>4. /\ calls' = [calls EXCEPT ![p] = c]
      /\ snap' = [snap EXCEPT ![b.gen] = b.built] /\ dirs' = dirs \cup {b.gen}
      /\ UNCHANGED <<files, man, current, drawn, leases, raced, collected, served>>
  BY <1>1, <1>3 DEF BuildPublish, Become, Goto, Gen, KeepFiles, KeepHistory
<1>5. c \in Call /\ c.pc = "seal" /\ c.gen = b.gen /\ c.art = b.art
  BY <1>2, <1>3 DEF Call, PC
<1>6. /\ b.gen \in Tree /\ b.built \in Snapshot /\ b.built # None
      /\ b.gen \notin raced => b.built = Exact(b.gen)
  BY <1>2, CallFields DEF GoodCall, BuildIsDue
<1>7. snap'[b.gen] = b.built /\ \A g \in Tree : g # b.gen => snap'[g] = snap[g]
  BY <1>4, <1>6 DEF WorkspaceInv, Typed
<1>8. GoodCall(c)'
  BY <1>2, <1>4, <1>5 DEF GoodCall, BuildIsDue, DrawIsDue, CollectIsDue
<1>9. \A g \in Tree : snap[g] # None => snap'[g] # None
  BY <1>6, <1>7
<1>10. calls' \in [Process -> Call] /\ \A q \in Process : GoodCall(calls[q])'
  BY <1>4, <1>5, <1>8, <1>9, CallsStay
<1>11. Typed'
  BY <1>4, <1>6, <1>10 DEF WorkspaceInv, Typed
<1>12. PublishedIsWhole'
  BY <1>4, <1>9 DEF WorkspaceInv, PublishedIsWhole
<1>13. ManifestBindsSnapshot'
  BY <1>4, <1>6, <1>7 DEF WorkspaceInv, ManifestBindsSnapshot
<1>14. LeaseKeepsGeneration'
  <2>1. \A l \in leases : l.gen \in Tree
    BY DEF WorkspaceInv, Typed, Lease
  <2> QED
    BY <1>4, <1>9, <2>1 DEF WorkspaceInv, LeaseKeepsGeneration
<1>15. ServedIsFaithful' /\ (\A d \in drawn : DrawingIsExact(d))'
  BY <1>4 DEF WorkspaceInv, ServedIsFaithful
<1> QED
  BY <1>10, <1>11, <1>12, <1>13, <1>14, <1>15 DEF WorkspaceInv

LEMMA BuildSealKeeps == ASSUME WorkspaceInv, NEW p \in Process, BuildSeal(p) PROVE WorkspaceInv'
<1>1. PICK b : b = calls[p]
  OBVIOUS
<1>2. b \in Call /\ GoodCall(b) /\ b.pc = "seal" /\ b.gen \in Tree
  BY <1>1, CallOf, CallFields DEF BuildSeal, At
<1>3. UNCHANGED <<files, dirs, snap, man, current, drawn, leases, raced, collected, served>>
  BY DEF BuildSeal, KeepStore, KeepFiles, KeepHistory, store
<1>4. CASE snap[b.gen] = None
  BY <1>1, <1>3, <1>4, ReturnKeeps DEF BuildSeal, Gen
<1>5. CASE snap[b.gen] # None
  <2>1. PICK c : c = [b EXCEPT !.pc = "manifest", !.built = snap[b.gen]]
    OBVIOUS
  <2>2. Become(p, c)
    BY <1>1, <1>5, <2>1 DEF BuildSeal, Goto, Gen
  <2>3. snap[b.gen] \in Snapshot
    BY <1>2, <1>5 DEF WorkspaceInv, Typed
  <2>4. c \in Call /\ c.pc = "manifest" /\ c.built = snap[b.gen] /\ c.gen = b.gen /\ c.art = b.art
    BY <1>2, <2>1, <2>3 DEF Call, PC
  <2>5. c.gen \notin raced => c.built = Exact(c.gen)
    BY <1>2, <1>5, <2>4 DEF WorkspaceInv, ManifestBindsSnapshot
  <2>6. GoodCall(c)
    BY <1>2, <1>5, <2>4, <2>5 DEF GoodCall, BuildIsDue, DrawIsDue, CollectIsDue
  <2> QED
    BY <1>3, <2>2, <2>4, <2>6, OnlyCall
<1> QED
  BY <1>4, <1>5

LEMMA BuildManifestKeeps == ASSUME WorkspaceInv, NEW p \in Process, BuildManifest(p) PROVE WorkspaceInv'
<1>1. PICK b : b = calls[p]
  OBVIOUS
<1>2. b \in Call /\ GoodCall(b) /\ b.pc = "manifest"
  BY <1>1, CallOf DEF BuildManifest, At
<1>3. PICK c : c = [b EXCEPT !.pc = "current"]
  OBVIOUS
<1>4. /\ calls' = [calls EXCEPT ![p] = c]
      /\ man' = [man EXCEPT ![b.gen] = b.built] /\ dirs' = dirs \cup {b.gen}
      /\ UNCHANGED <<files, snap, current, drawn, leases, raced, collected, served>>
  BY <1>1, <1>3 DEF BuildManifest, Become, Goto, Gen, KeepFiles, KeepHistory
<1>5. c \in Call /\ c.pc = "current" /\ c.gen = b.gen /\ c.art = b.art
  BY <1>2, <1>3 DEF Call, PC
<1>6. /\ b.gen \in Tree /\ b.built \in Snapshot /\ b.built # None
      /\ b.gen \notin raced => b.built = Exact(b.gen)
      /\ b.gen \notin collected => snap[b.gen] # None
  BY <1>2, CallFields DEF GoodCall, BuildIsDue
<1>7. man'[b.gen] = b.built /\ \A g \in Tree : g # b.gen => man'[g] = man[g]
  BY <1>4, <1>6 DEF WorkspaceInv, Typed
<1>8. GoodCall(c)'
  BY <1>2, <1>4, <1>5, <1>6, <1>7 DEF GoodCall, BuildIsDue, DrawIsDue, CollectIsDue
<1>9. \A g \in Tree : man[g] # None => man'[g] # None
  BY <1>6, <1>7
<1>10. calls' \in [Process -> Call] /\ \A q \in Process : GoodCall(calls[q])'
  BY <1>4, <1>5, <1>8, <1>9, CallsStay
<1>11. Typed'
  BY <1>4, <1>6, <1>10 DEF WorkspaceInv, Typed
<1>12. PublishedIsWhole'
  <2>1. \A g \in Tree \ collected : man'[g] # None => snap[g] # None
    BY <1>6, <1>7 DEF WorkspaceInv, PublishedIsWhole
  <2>2. current # None => current \in Tree
    BY DEF WorkspaceInv, Typed
  <2> QED
    BY <1>4, <1>9, <2>1, <2>2 DEF WorkspaceInv, PublishedIsWhole
<1>13. ManifestBindsSnapshot'
  BY <1>4, <1>6, <1>7 DEF WorkspaceInv, ManifestBindsSnapshot
<1>14. LeaseKeepsGeneration'
  <2>1. \A l \in leases : l.gen \in Tree
    BY DEF WorkspaceInv, Typed, Lease
  <2> QED
    BY <1>4, <1>9, <2>1 DEF WorkspaceInv, LeaseKeepsGeneration
<1>15. ServedIsFaithful' /\ (\A d \in drawn : DrawingIsExact(d))'
  BY <1>4 DEF WorkspaceInv, ServedIsFaithful
<1> QED
  BY <1>10, <1>11, <1>12, <1>13, <1>14, <1>15 DEF WorkspaceInv

LEMMA BuildCurrentKeeps == ASSUME WorkspaceInv, NEW p \in Process, BuildCurrent(p) PROVE WorkspaceInv'
<1>1. PICK b : b = calls[p]
  OBVIOUS
<1>2. b \in Call /\ GoodCall(b) /\ b.pc = "current" /\ b.gen \in Tree
  BY <1>1, CallOf, CallFields DEF BuildCurrent, At
<1>3. /\ calls' = [calls EXCEPT ![p] = IdleCall] /\ current' = b.gen
      /\ UNCHANGED <<files, dirs, snap, man, drawn, leases, raced, collected, served>>
  BY <1>1 DEF BuildCurrent, Return, Become, Gen, KeepFiles, KeepHistory
<1>4. calls' \in [Process -> Call] /\ \A q \in Process : GoodCall(calls[q])'
  BY <1>3, IdleIsCall, IdleIsGood, CallsStay
<1>5. Typed'
  BY <1>2, <1>3, <1>4 DEF WorkspaceInv, Typed
<1>6. b.gen \notin collected => man[b.gen] # None
  BY <1>2 DEF GoodCall, BuildIsDue
<1>7. PublishedIsWhole'
  BY <1>3, <1>6 DEF WorkspaceInv, PublishedIsWhole
<1>8. ManifestBindsSnapshot' /\ LeaseKeepsGeneration' /\ ServedIsFaithful' /\ (\A d \in drawn : DrawingIsExact(d))'
  BY <1>3 DEF WorkspaceInv, ManifestBindsSnapshot, LeaseKeepsGeneration, ServedIsFaithful
<1> QED
  BY <1>4, <1>5, <1>7, <1>8 DEF WorkspaceInv

----------------------------------------------------------------------------
(* Overlays and deltas, composed views *)

LEMMA BeginKeeps ==
    ASSUME WorkspaceInv, NEW p \in Process, NEW c \in Call, Start(p, c), c.pc \in {"scan", "map", "lease"},
           c.art # None => c.art \in drawn
    PROVE  WorkspaceInv'
<1>1. GoodCall(c)
  BY DEF GoodCall, BuildIsDue, DrawIsDue, CollectIsDue
<1> QED
  BY <1>1, StartKeeps

LEMMA OverlayBeginKeeps ==
    ASSUME WorkspaceInv, NEW p \in Process, NEW g \in dirs, OverlayBegin(p, g) PROVE WorkspaceInv'
<1>1. PICK c : c = [IdleCall EXCEPT !.pc = "scan", !.gen = g, !.scope = Path]
  OBVIOUS
<1>2. c \in Call /\ c.pc = "scan" /\ c.art = None
  BY <1>1, IdleIsCall DEF Call, PC, WorkspaceInv, Typed
<1> QED
  BY <1>1, <1>2, BeginKeeps DEF OverlayBegin

LEMMA DeltaBeginKeeps ==
    ASSUME WorkspaceInv, NEW p \in Process, NEW g \in dirs, NEW scope \in Requested, DeltaBegin(p, g, scope)
    PROVE  WorkspaceInv'
<1>1. PICK c : c = [IdleCall EXCEPT !.pc = "scan", !.gen = g, !.scope = scope, !.built = snap[g]]
  OBVIOUS
<1>2. g \in Tree /\ snap[g] \in Snapshot \cup {None} /\ scope \in SUBSET Path
  BY DEF WorkspaceInv, Typed, Requested
<1>3. c \in Call /\ c.pc = "scan" /\ c.art = None
  BY <1>1, <1>2, IdleIsCall DEF Call, PC
<1> QED
  BY <1>1, <1>3, BeginKeeps DEF DeltaBegin

LEMMA OpenBeginKeeps ==
    ASSUME WorkspaceInv, NEW p \in Process, NEW g \in dirs, OpenBegin(p, g) PROVE WorkspaceInv'
<1>1. PICK c : c = [IdleCall EXCEPT !.pc = "map", !.gen = g]
  OBVIOUS
<1>2. c \in Call /\ c.pc = "map" /\ c.art = None
  BY <1>1, IdleIsCall DEF Call, PC, WorkspaceInv, Typed
<1> QED
  BY <1>1, <1>2, BeginKeeps DEF OpenBegin

LEMMA OpenDrawnKeeps ==
    ASSUME WorkspaceInv, NEW p \in Process, NEW g \in dirs, NEW d \in drawn,
           OpenOverlay(p, g, d) \/ ComposeDelta(p, g, d)
    PROVE  WorkspaceInv'
<1>1. PICK c : c = [IdleCall EXCEPT !.pc = "map", !.gen = g, !.art = d]
  OBVIOUS
<1>2. g \in Tree /\ d \in Drawing
  BY DEF WorkspaceInv, Typed
<1>3. c \in Call /\ c.pc = "map" /\ c.art = d
  BY <1>1, <1>2, IdleIsCall DEF Call, PC
<1> QED
  BY <1>1, <1>3, BeginKeeps DEF OpenOverlay, ComposeDelta

LEMMA LeaseBeginKeeps ==
    ASSUME WorkspaceInv, NEW p \in Process, NEW g \in dirs, LeaseBegin(p, g) PROVE WorkspaceInv'
<1>1. PICK c : c = [IdleCall EXCEPT !.pc = "lease", !.gen = g]
  OBVIOUS
<1>2. c \in Call /\ c.pc = "lease" /\ c.art = None
  BY <1>1, IdleIsCall DEF Call, PC, WorkspaceInv, Typed
<1> QED
  BY <1>1, <1>2, BeginKeeps DEF LeaseBegin

LEMMA DrawScanKeeps == ASSUME WorkspaceInv, NEW p \in Process, DrawScan(p) PROVE WorkspaceInv'
<1>1. PICK b : b = calls[p]
  OBVIOUS
<1>2. b \in Call /\ GoodCall(b) /\ b.pc = "scan"
  BY <1>1, CallOf DEF DrawScan, At
<1>3. UNCHANGED <<files, dirs, snap, man, current, drawn, leases, raced, collected, served>>
  BY DEF DrawScan, KeepStore, KeepFiles, KeepHistory, store
<1>4. PICK c : c = [b EXCEPT !.pc = "draw", !.view = files]
  OBVIOUS
<1>5. Return(p) \/ Become(p, c)
  BY <1>1, <1>4 DEF DrawScan, Goto
<1>6. c \in Call /\ c.pc = "draw" /\ c.view = files /\ c.art = b.art
  BY <1>2, <1>4 DEF Call, PC, WorkspaceInv, Typed
<1>7. GoodCall(c)
  BY <1>2, <1>6 DEF GoodCall, BuildIsDue, DrawIsDue, CollectIsDue
<1> QED
  BY <1>3, <1>5, <1>6, <1>7, OnlyCall, ReturnKeeps

(* The drawing that a process publishes, and that it is exact. *)
ChangesOf(b) ==
    [x \in Path |-> IF x \in {y \in b.scope : b.view[y] # b.gen[y]}
                    THEN [sha |-> b.view[x], sym |-> IF b.view[x] = Gone THEN Gone ELSE files[x]] ELSE None]
DrawingOf(b) ==
    [kind |-> IF b.built = None THEN "overlay" ELSE "delta", base |-> b.gen, digest |-> b.built,
     raced |-> b.raced, changed |-> ChangesOf(b)]

LEMMA DrawingOfIsExact ==
    ASSUME NEW b \in Call, b.raced \in BOOLEAN, files \in Tree, ~b.raced => b.view = files
    PROVE  DrawingOf(b) \in Drawing /\ DrawingIsExact(DrawingOf(b))
<1>1. b.view \in Tree /\ b.gen \in Tree /\ b.built \in Snapshot \cup {None}
  BY CallFields
<1>2. \A x \in Path : b.view[x] \in File /\ files[x] \in File /\ Gone \in File
  BY <1>1 DEF Tree, File
<1>3. ChangesOf(b) \in [Path -> Change \cup {None}]
  BY <1>2 DEF ChangesOf, Change
<1>4. DrawingOf(b) \in Drawing
  BY <1>1, <1>3 DEF DrawingOf, Drawing
<1>5. ASSUME ~b.raced, NEW x \in Path, ChangesOf(b)[x] # None PROVE ChangesOf(b)[x].sym = ChangesOf(b)[x].sha
  <2>1. ChangesOf(b)[x] = [sha |-> b.view[x], sym |-> IF b.view[x] = Gone THEN Gone ELSE files[x]]
    BY <1>5 DEF ChangesOf
  <2>2. files[x] = b.view[x]
    BY <1>5
  <2> QED
    BY <2>1, <2>2
<1>6. DrawingOf(b).changed = ChangesOf(b) /\ DrawingOf(b).raced = b.raced
  BY DEF DrawingOf
<1> QED
  BY <1>4, <1>5, <1>6 DEF DrawingIsExact

LEMMA DrawPublishKeeps == ASSUME WorkspaceInv, NEW p \in Process, DrawPublish(p) PROVE WorkspaceInv'
<1>1. PICK b : b = calls[p]
  OBVIOUS
<1>2. b \in Call /\ GoodCall(b) /\ b.pc = "draw" /\ b.raced \in BOOLEAN
  BY <1>1, CallOf, CallFields DEF DrawPublish, At
<1>3. /\ calls' = [calls EXCEPT ![p] = IdleCall]
      /\ UNCHANGED <<files, dirs, snap, man, current, leases, raced, collected, served>>
  BY DEF DrawPublish, Return, Become, KeepFiles, KeepHistory
<1>4. drawn' = drawn \/ drawn' = drawn \cup {DrawingOf(b)}
  BY <1>1 DEF DrawPublish, DrawingOf, ChangesOf, ChangeRecord, Differs, Gen
<1>5. DrawingOf(b) \in Drawing /\ DrawingIsExact(DrawingOf(b))
  <2>1. ~b.raced => b.view = files
    BY <1>2 DEF GoodCall, DrawIsDue
  <2>2. files \in Tree
    BY DEF WorkspaceInv, Typed
  <2> QED
    BY <1>2, <2>1, <2>2, DrawingOfIsExact
<1>6. PICK d : d = DrawingOf(b)
  OBVIOUS
<1>7. drawn \subseteq drawn' /\ drawn' \subseteq drawn \cup {d} /\ d \in Drawing /\ DrawingIsExact(d)
  BY <1>4, <1>5, <1>6
<1>8. calls' \in [Process -> Call] /\ \A q \in Process : GoodCall(calls[q])'
  BY <1>3, <1>7, IdleIsCall, IdleIsGood, CallsStay
<1>9. Typed'
  BY <1>3, <1>7, <1>8 DEF WorkspaceInv, Typed
<1>10. (\A e \in drawn : DrawingIsExact(e))'
  <2>1. \A e \in drawn' : DrawingIsExact(e)
    BY <1>7 DEF WorkspaceInv
  <2> QED
    BY <2>1 DEF DrawingIsExact
<1>11. PublishedIsWhole' /\ ManifestBindsSnapshot' /\ LeaseKeepsGeneration' /\ ServedIsFaithful'
  BY <1>3 DEF WorkspaceInv, PublishedIsWhole, ManifestBindsSnapshot, LeaseKeepsGeneration, ServedIsFaithful
<1> QED
  BY <1>8, <1>9, <1>10, <1>11 DEF WorkspaceInv

LEMMA OpenMapKeeps == ASSUME WorkspaceInv, NEW p \in Process, OpenMap(p) PROVE WorkspaceInv'
<1>1. PICK b : b = calls[p]
  OBVIOUS
<1>2. b \in Call /\ GoodCall(b) /\ b.pc = "map" /\ b.gen \in Tree
  BY <1>1, CallOf, CallFields DEF OpenMap, At
<1>3. UNCHANGED <<files, dirs, snap, man, current, drawn, leases, raced, collected, served>>
  BY DEF OpenMap, KeepStore, KeepFiles, KeepHistory, store
<1>4. CASE snap[b.gen] = None
  BY <1>1, <1>3, <1>4, ReturnKeeps DEF OpenMap, Gen
<1>5. CASE snap[b.gen] # None
  <2>1. PICK c : c = [b EXCEPT !.pc = "view", !.built = snap[b.gen]]
    OBVIOUS
  <2>2. Become(p, c)
    BY <1>1, <1>5, <2>1 DEF OpenMap, Goto, Gen
  <2>3. snap[b.gen] \in Snapshot
    BY <1>2, <1>5 DEF WorkspaceInv, Typed
  <2>4. c \in Call /\ c.pc = "view" /\ c.built = snap[b.gen] /\ c.gen = b.gen /\ c.art = b.art
    BY <1>2, <2>1, <2>3 DEF Call, PC
  <2>5. c.gen \notin raced => c.built = Exact(c.gen)
    BY <1>2, <1>5, <2>4 DEF WorkspaceInv, ManifestBindsSnapshot
  <2>6. GoodCall(c)
    BY <1>2, <1>5, <2>4, <2>5 DEF GoodCall, BuildIsDue, DrawIsDue, CollectIsDue
  <2> QED
    BY <1>3, <2>2, <2>4, <2>6, OnlyCall
<1> QED
  BY <1>4, <1>5

(* The symbols of a view that nobody raced are those of the bytes it expects to read. *)
LEMMA SymbolsAreExpected ==
    ASSUME WorkspaceInv, NEW p \in Process, NEW x \in Path, At(p, "view"), NEW sym \in Symbols(p, x),
           Gen(p) \notin raced, calls[p].art # None => ~calls[p].art.raced
    PROVE  sym = Expected(p, x)
<1>1. PICK b : b = calls[p]
  OBVIOUS
<1>2. b \in Call /\ GoodCall(b) /\ b.pc = "view" /\ b.gen \in Tree
  BY <1>1, CallOf, CallFields DEF At
<1>3. b.built = Exact(b.gen)
  BY <1>1, <1>2 DEF GoodCall, BuildIsDue, Gen
<1>4. CASE Listed(p, x)
  <2>1. b.art \in drawn /\ ~b.art.raced /\ b.art.changed[x] # None
    BY <1>1, <1>2, <1>4 DEF Listed, GoodCall, DrawIsDue
  <2>2. b.art.changed[x].sym = b.art.changed[x].sha
    BY <2>1 DEF WorkspaceInv, DrawingIsExact
  <2> QED
    BY <1>1, <1>4, <2>2 DEF Symbols, Expected
<1>5. CASE ~Listed(p, x)
  <2>1. b.built[x].sym = b.gen[x]
    BY <1>2, <1>3, ExactIsSnapshot
  <2> QED
    BY <1>1, <1>5, <2>1 DEF Symbols, Expected, Gen
<1> QED
  BY <1>4, <1>5

LEMMA SymbolsAreFiles ==
    ASSUME WorkspaceInv, NEW p \in Process, NEW x \in Path, At(p, "view"), NEW sym \in Symbols(p, x)
    PROVE  sym \in File
<1>1. PICK b : b = calls[p]
  OBVIOUS
<1>2. b \in Call /\ b.built \in Snapshot /\ b.art \in Drawing \cup {None}
  <2>1. b \in Call /\ GoodCall(b) /\ b.pc = "view"
    BY <1>1, CallOf DEF At
  <2>2. b.built # None
    BY <2>1 DEF GoodCall, BuildIsDue
  <2> QED
    BY <2>1, <2>2, CallFields
<1>3. CASE Listed(p, x)
  <2>1. b.art \in Drawing /\ b.art.changed[x] # None
    BY <1>1, <1>2, <1>3 DEF Listed
  <2>2. b.art.changed[x] \in Change
    BY <2>1 DEF Drawing
  <2>3. b.art.changed[x].sym \in File
    BY <2>2 DEF Change
  <2> QED
    BY <1>1, <1>3, <2>3 DEF Symbols
<1>4. CASE ~Listed(p, x)
  <2>1. b.built[x].sym \in File
    BY <1>2 DEF Snapshot
  <2> QED
    BY <1>1, <1>4, <2>1 DEF Symbols
<1> QED
  BY <1>3, <1>4

LEMMA ServeKeeps == ASSUME WorkspaceInv, NEW p \in Process, NEW x \in Path, Serve(p, x) PROVE WorkspaceInv'
<1>1. PICK sym \in Symbols(p, x) :
         IF files[x] = Gone \/ files[x] # Expected(p, x)
         THEN Return(p) /\ UNCHANGED served
         ELSE /\ served' = served \cup
                   {[path |-> x, bytes |-> files[x], sym |-> sym,
                     raced |-> \/ Gen(p) \in raced
                               \/ calls[p].art # None /\ calls[p].art.raced]}
              /\ UNCHANGED calls
  BY DEF Serve
<1>2. UNCHANGED <<files, dirs, snap, man, current, drawn, leases, raced, collected>> /\ At(p, "view")
  BY DEF Serve, KeepStore, KeepFiles, store
<1>3. CASE Return(p) /\ UNCHANGED served
  BY <1>2, <1>3, ReturnKeeps
<1>4. CASE ~(files[x] = Gone \/ files[x] # Expected(p, x))
  <2>1. PICK r : r = (Gen(p) \in raced \/ (calls[p].art # None /\ calls[p].art.raced))
    OBVIOUS
  <2>2. PICK s : s = [path |-> x, bytes |-> files[x], sym |-> sym, raced |-> r]
    OBVIOUS
  <2>3. served' = served \cup {s} /\ UNCHANGED calls
    BY <1>1, <1>4, <2>1, <2>2
  <2>4. r \in BOOLEAN
    BY <2>1
  <2>5. files[x] \in File /\ sym \in File
    <3>1. files \in Tree
      BY DEF WorkspaceInv, Typed
    <3> QED
      BY <1>2, <3>1, SymbolsAreFiles DEF Tree
  <2>6. s \in Span /\ s.raced = r /\ s.sym = sym /\ s.bytes = files[x]
    BY <2>2, <2>4, <2>5 DEF Span
  <2>7. ~r => sym = files[x]
    <3> SUFFICES ASSUME ~r PROVE sym = files[x]
      OBVIOUS
    <3>1. Gen(p) \notin raced /\ (calls[p].art # None => ~calls[p].art.raced)
      BY <2>1
    <3>2. sym = Expected(p, x)
      BY <1>2, <3>1, SymbolsAreExpected
    <3> QED
      BY <1>4, <3>2
  <2>8. Typed'
    BY <1>2, <2>3, <2>6 DEF WorkspaceInv, Typed
  <2>9. ServedIsFaithful'
    BY <2>3, <2>6, <2>7 DEF WorkspaceInv, ServedIsFaithful
  <2>10. (\A q \in Process : GoodCall(calls[q]))'
    BY <1>2, <2>3 DEF WorkspaceInv, GoodCall, BuildIsDue, DrawIsDue, CollectIsDue
  <2>11. PublishedIsWhole' /\ ManifestBindsSnapshot' /\ LeaseKeepsGeneration' /\ (\A d \in drawn : DrawingIsExact(d))'
    BY <1>2 DEF WorkspaceInv, PublishedIsWhole, ManifestBindsSnapshot, LeaseKeepsGeneration
  <2> QED
    BY <2>8, <2>9, <2>10, <2>11 DEF WorkspaceInv
<1> QED
  BY <1>1, <1>3, <1>4

LEMMA CloseKeeps == ASSUME WorkspaceInv, NEW p \in Process, Close(p) PROVE WorkspaceInv'
<1>1. UNCHANGED <<files, dirs, snap, man, current, drawn, leases, raced, collected, served>>
  BY DEF Close, KeepStore, KeepFiles, KeepHistory, store
<1> QED
  BY <1>1, ReturnKeeps DEF Close

----------------------------------------------------------------------------
(* Leases and collections *)

(* A sound lease is written when no gc runs, so none has missed it. *)
LEMMA LeaseWriteKeeps == ASSUME WorkspaceInv, NEW p \in Process, LeaseWrite(p) PROVE WorkspaceInv'
<1>1. PICK b : b = calls[p]
  OBVIOUS
<1>2. b \in Call /\ b.gen \in Tree
  BY <1>1, CallOf, CallFields
<1>3. PICK sound : sound = (/\ snap[b.gen] # None /\ man[b.gen] # None
                            /\ \A q \in Process : ~Collecting(q))
  OBVIOUS
<1>4. PICK id \in LeaseId : leases' = leases \cup {[id |-> id, gen |-> b.gen, expired |-> FALSE, sound |-> sound]}
  BY <1>1, <1>3 DEF LeaseWrite, Gen
<1>5. PICK n : n = [id |-> id, gen |-> b.gen, expired |-> FALSE, sound |-> sound]
  OBVIOUS
<1>6. n \in Lease /\ n.gen = b.gen /\ n.sound = sound
  <2>1. sound \in BOOLEAN
    BY <1>3
  <2> QED
    BY <1>2, <1>5, <2>1 DEF Lease
<1>7. /\ calls' = [calls EXCEPT ![p] = IdleCall] /\ leases' = leases \cup {n}
      /\ UNCHANGED <<files, dirs, snap, man, current, drawn, raced, collected, served>>
  BY <1>4, <1>5 DEF LeaseWrite, Return, Become, KeepFiles, KeepHistory
<1>8. ASSUME NEW q \in Process PROVE GoodCall(calls[q])'
  <2>1. PICK m : m = calls'[q]
    OBVIOUS
  <2>2. m = IdleCall \/ (m = calls[q] /\ GoodCall(m))
    BY <1>7, <2>1 DEF WorkspaceInv, Typed
  <2>3. CASE m = IdleCall
    BY <2>1, <2>3, IdleIsGood
  <2>4. CASE m = calls[q] /\ GoodCall(m)
    <3>1. BuildIsDue(m)' /\ DrawIsDue(m)'
      BY <1>7, <2>4 DEF GoodCall, BuildIsDue, DrawIsDue
    <3>2. n.sound => m.pc \notin {"list", "remove", "unlink"}
      BY <1>3, <1>6, <2>4 DEF Collecting
    <3>3. CollectIsDue(m)'
      BY <1>7, <2>4, <3>2 DEF GoodCall, CollectIsDue, Protects
    <3> QED
      BY <2>1, <3>1, <3>3 DEF GoodCall
  <2> QED
    BY <2>2, <2>3, <2>4
<1>9. Typed'
  <2>1. calls' \in [Process -> Call]
    BY <1>7, IdleIsCall DEF WorkspaceInv, Typed
  <2> QED
    BY <1>6, <1>7, <2>1 DEF WorkspaceInv, Typed
<1>10. LeaseKeepsGeneration'
  BY <1>3, <1>6, <1>7 DEF WorkspaceInv, LeaseKeepsGeneration
<1>11. PublishedIsWhole' /\ ManifestBindsSnapshot' /\ ServedIsFaithful' /\ (\A d \in drawn : DrawingIsExact(d))'
  BY <1>7 DEF WorkspaceInv, PublishedIsWhole, ManifestBindsSnapshot, ServedIsFaithful
<1> QED
  BY <1>8, <1>9, <1>10, <1>11 DEF WorkspaceInv

(* Leases that are released or that expire protect nothing any more. *)
LEMMA FewerLeases ==
    ASSUME WorkspaceInv, leases' \subseteq Lease, \A l \in leases' : Protects(l) => l \in leases,
           UNCHANGED <<files, dirs, snap, man, current, drawn, calls, raced, collected, served>>
    PROVE  WorkspaceInv'
<1>1. ASSUME NEW q \in Process PROVE GoodCall(calls[q])'
  <2>1. PICK m : m = calls[q]
    OBVIOUS
  <2>2. m \in Call /\ GoodCall(m) /\ calls'[q] = m
    BY <2>1, CallOf
  <2>3. GoodCall(m)'
    BY <2>2, CallStays
  <2> QED
    BY <2>2, <2>3
<1>2. Typed'
  BY DEF WorkspaceInv, Typed
<1>3. PublishedIsWhole' /\ ManifestBindsSnapshot' /\ ServedIsFaithful' /\ (\A d \in drawn : DrawingIsExact(d))'
  BY DEF WorkspaceInv, PublishedIsWhole, ManifestBindsSnapshot, ServedIsFaithful
<1>4. LeaseKeepsGeneration'
  BY DEF WorkspaceInv, LeaseKeepsGeneration, Protects
<1> QED
  BY <1>1, <1>2, <1>3, <1>4 DEF WorkspaceInv

LEMMA ReleaseKeeps == ASSUME WorkspaceInv, Release PROVE WorkspaceInv'
<1>1. leases' \subseteq leases /\ UNCHANGED <<files, dirs, snap, man, current, drawn, calls, raced, collected, served>>
  BY DEF Release, KeepFiles, KeepHistory
<1>2. leases' \subseteq Lease
  BY <1>1 DEF WorkspaceInv, Typed
<1> QED
  BY <1>1, <1>2, FewerLeases

LEMMA ExpireKeeps == ASSUME WorkspaceInv, Expire PROVE WorkspaceInv'
<1>1. PICK l \in leases : leases' = (leases \ {l}) \cup {[l EXCEPT !.expired = TRUE]}
  BY DEF Expire
<1>2. PICK m : m = [l EXCEPT !.expired = TRUE]
  OBVIOUS
<1>3. m \in Lease /\ ~Protects(m)
  BY <1>2 DEF WorkspaceInv, Typed, Lease, Protects
<1>4. leases' = (leases \ {l}) \cup {m}
  BY <1>1, <1>2
<1>5. UNCHANGED <<files, dirs, snap, man, current, drawn, calls, raced, collected, served>>
  BY DEF Expire, KeepFiles, KeepHistory
<1>6. leases' \subseteq Lease
  BY <1>3, <1>4 DEF WorkspaceInv, Typed
<1> QED
  BY <1>3, <1>4, <1>5, <1>6, FewerLeases

LEMMA GcScanKeeps == ASSUME WorkspaceInv, NEW p \in Process, GcScan(p) PROVE WorkspaceInv'
<1>1. PICK kept : kept = {l.gen : l \in leases'}
  OBVIOUS
<1>2. PICK c : c = [IdleCall EXCEPT !.pc = "list", !.todo = kept]
  OBVIOUS
<1>3. /\ calls' = [calls EXCEPT ![p] = c] /\ leases' \subseteq leases
      /\ UNCHANGED <<files, dirs, snap, man, current, drawn, raced, collected, served>>
  BY <1>1, <1>2 DEF GcScan, Become, KeepFiles
<1>4. leases' \subseteq Lease
  BY <1>3 DEF WorkspaceInv, Typed
<1>5. kept \in SUBSET Tree
  BY <1>1, <1>4 DEF Lease
<1>6. c \in Call /\ c.pc = "list" /\ c.todo = kept /\ c.art = None
  BY <1>2, <1>5, IdleIsCall DEF Call, PC
<1>7. \A l \in leases' : l.gen \in kept
  BY <1>1
<1>8. GoodCall(c)'
  BY <1>6, <1>7 DEF GoodCall, BuildIsDue, DrawIsDue, CollectIsDue
<1>9. calls' \in [Process -> Call] /\ \A q \in Process : GoodCall(calls[q])'
  BY <1>3, <1>6, <1>8, CallsStay
<1>10. Typed'
  BY <1>3, <1>4, <1>9 DEF WorkspaceInv, Typed
<1>11. PublishedIsWhole' /\ ManifestBindsSnapshot' /\ LeaseKeepsGeneration' /\ ServedIsFaithful'
       /\ (\A d \in drawn : DrawingIsExact(d))'
  BY <1>3 DEF WorkspaceInv, PublishedIsWhole, ManifestBindsSnapshot, LeaseKeepsGeneration, ServedIsFaithful
<1> QED
  BY <1>9, <1>10, <1>11 DEF WorkspaceInv

LEMMA GcListKeeps == ASSUME WorkspaceInv, NEW p \in Process, GcList(p) PROVE WorkspaceInv'
<1>1. PICK b : b = calls[p]
  OBVIOUS
<1>2. b \in Call /\ GoodCall(b) /\ b.pc = "list"
  BY <1>1, CallOf DEF GcList, At
<1>3. UNCHANGED <<files, dirs, snap, man, current, drawn, leases, raced, collected, served>>
  BY DEF GcList, KeepStore, KeepFiles, KeepHistory, store
<1>4. PICK c : c = [b EXCEPT !.pc = "remove", !.todo = dirs \ b.todo]
  OBVIOUS
<1>5. Become(p, c)
  BY <1>1, <1>4 DEF GcList, Goto
<1>6. c \in Call /\ c.pc = "remove" /\ c.todo = dirs \ b.todo /\ c.art = b.art
  BY <1>2, <1>4 DEF Call, PC, WorkspaceInv, Typed
<1>7. GoodCall(c)
  BY <1>2, <1>6 DEF GoodCall, BuildIsDue, DrawIsDue, CollectIsDue
<1> QED
  BY <1>3, <1>5, <1>6, <1>7, OnlyCall

LEMMA GcEnterKeeps == ASSUME WorkspaceInv, NEW p \in Process, GcEnter(p) PROVE WorkspaceInv'
<1>1. PICK b : b = calls[p]
  OBVIOUS
<1>2. b \in Call /\ GoodCall(b) /\ b.pc = "remove" /\ b.todo \in SUBSET Tree
  BY <1>1, CallOf, CallFields DEF GcEnter, At
<1>3. UNCHANGED <<files, dirs, snap, man, current, drawn, leases, raced, served>>
  BY DEF GcEnter, KeepStore, KeepFiles, KeepHistory, store
<1>4. PICK g \in b.todo :
         IF g \notin dirs THEN Return(p) /\ UNCHANGED collected
         ELSE /\ Become(p, [Goto(p, "unlink") EXCEPT !.gen = g,
                   !.entries = {e \in Entry : (IF e = "snapshot" THEN snap ELSE man)[g] # None}])
              /\ collected' = collected \cup {g}
  BY <1>1 DEF GcEnter
<1>5. CASE Return(p) /\ UNCHANGED collected
  BY <1>3, <1>5, ReturnKeeps
<1>6. CASE g \in dirs
  <2>1. PICK found : found = {e \in Entry : (IF e = "snapshot" THEN snap ELSE man)[g] # None}
    OBVIOUS
  <2>2. PICK c : c = [b EXCEPT !.pc = "unlink", !.gen = g, !.entries = found]
    OBVIOUS
  <2>3. calls' = [calls EXCEPT ![p] = c] /\ collected' = collected \cup {g}
    BY <1>1, <1>4, <1>6, <2>1, <2>2 DEF Become, Goto
  <2>4. found \in SUBSET Entry /\ g \in Tree
    BY <1>2, <2>1
  <2>5. c \in Call /\ c.pc = "unlink" /\ c.gen = g /\ c.todo = b.todo /\ c.art = b.art
    BY <1>2, <2>2, <2>4 DEF Call, PC
  <2>6. GoodCall(c)'
    BY <1>2, <1>3, <2>3, <2>5 DEF GoodCall, BuildIsDue, DrawIsDue, CollectIsDue
  <2>7. calls' \in [Process -> Call] /\ \A q \in Process : GoodCall(calls[q])'
    BY <1>3, <2>3, <2>5, <2>6, CallsStay
  <2>8. Typed'
    BY <1>3, <2>3, <2>4, <2>7 DEF WorkspaceInv, Typed
  <2>9. PublishedIsWhole' /\ ManifestBindsSnapshot' /\ LeaseKeepsGeneration' /\ ServedIsFaithful'
        /\ (\A d \in drawn : DrawingIsExact(d))'
    BY <1>3, <2>3 DEF WorkspaceInv, PublishedIsWhole, ManifestBindsSnapshot, LeaseKeepsGeneration, ServedIsFaithful
  <2> QED
    BY <2>7, <2>8, <2>9 DEF WorkspaceInv
<1> QED
  BY <1>4, <1>5, <1>6

(* What a gc unlinks belongs to a generation that it started to remove and that no lease
   protects. *)
LEMMA GcUnlinkKeeps == ASSUME WorkspaceInv, NEW p \in Process, GcUnlink(p) PROVE WorkspaceInv'
<1>1. PICK b : b = calls[p]
  OBVIOUS
<1>2. b \in Call /\ GoodCall(b) /\ b.pc = "unlink" /\ b.gen \in Tree /\ b.entries \in SUBSET Entry
  BY <1>1, CallOf, CallFields DEF GcUnlink, At
<1>3. UNCHANGED <<files, dirs, current, drawn, leases, raced, collected, served>>
  BY DEF GcUnlink, KeepFiles, KeepHistory
<1>4. PICK e \in b.entries :
         /\ snap' = IF e = "snapshot" THEN [snap EXCEPT ![b.gen] = None] ELSE snap
         /\ man' = IF e = "manifest" THEN [man EXCEPT ![b.gen] = None] ELSE man
         /\ Become(p, [b EXCEPT !.entries = b.entries \ {e}]) \/ Return(p)
  BY <1>1 DEF GcUnlink, Gen
<1>5. b.gen \in collected /\ \A l \in leases : Protects(l) => l.gen # b.gen
  BY <1>2 DEF GoodCall, CollectIsDue
<1>6. /\ \A g \in Tree : g # b.gen => snap'[g] = snap[g] /\ man'[g] = man[g]
      /\ snap'[b.gen] \in {snap[b.gen], None} /\ man'[b.gen] \in {man[b.gen], None}
      /\ snap' \in [Tree -> Snapshot \cup {None}] /\ man' \in [Tree -> Snapshot \cup {None}]
  BY <1>2, <1>4 DEF WorkspaceInv, Typed
<1>7. PICK c \in Call : calls' = [calls EXCEPT ![p] = c] /\ GoodCall(c)
  <2>1. CASE Return(p)
    BY <2>1, IdleIsCall, IdleIsGood DEF Return, Become
  <2>2. CASE Become(p, [b EXCEPT !.entries = b.entries \ {e}])
    <3>1. PICK c : c = [b EXCEPT !.entries = b.entries \ {e}]
      OBVIOUS
    <3>2. b.entries \ {e} \in SUBSET Entry
      BY <1>2
    <3>3. c \in Call /\ c.pc = b.pc /\ c.gen = b.gen /\ c.todo = b.todo /\ c.art = b.art
      BY <1>2, <3>1, <3>2 DEF Call
    <3>4. GoodCall(c)
      BY <1>2, <3>3 DEF GoodCall, BuildIsDue, DrawIsDue, CollectIsDue
    <3> QED
      BY <2>2, <3>1, <3>3, <3>4 DEF Become
  <2> QED
    BY <1>4, <2>1, <2>2
<1>8. \A g \in Tree : /\ g \notin collected' /\ snap[g] # None => snap'[g] # None
                      /\ g \notin collected' /\ man[g] # None => man'[g] # None
  BY <1>3, <1>5, <1>6
<1>9. GoodCall(c)'
  BY <1>3, <1>7, <1>8, CallStays
<1>10. calls' \in [Process -> Call] /\ \A q \in Process : GoodCall(calls[q])'
  BY <1>3, <1>7, <1>8, <1>9, CallsStay
<1>11. Typed'
  BY <1>3, <1>6, <1>10 DEF WorkspaceInv, Typed
<1>12. PublishedIsWhole'
  <2>1. \A g \in Tree \ collected : man'[g] # None => snap'[g] # None
    BY <1>5, <1>6 DEF WorkspaceInv, PublishedIsWhole
  <2>2. current # None => current \in Tree
    BY DEF WorkspaceInv, Typed
  <2>3. current # None /\ current \notin collected => man'[current] # None
    BY <1>5, <1>6, <2>2 DEF WorkspaceInv, PublishedIsWhole
  <2> QED
    BY <1>3, <2>1, <2>3 DEF PublishedIsWhole
<1>13. ManifestBindsSnapshot'
  BY <1>2, <1>3, <1>6 DEF WorkspaceInv, ManifestBindsSnapshot
<1>14. LeaseKeepsGeneration'
  <2>1. \A l \in leases : l.gen \in Tree
    BY DEF WorkspaceInv, Typed, Lease
  <2> QED
    BY <1>3, <1>5, <1>6, <2>1 DEF WorkspaceInv, LeaseKeepsGeneration, Protects
<1>15. ServedIsFaithful' /\ (\A d \in drawn : DrawingIsExact(d))'
  BY <1>3 DEF WorkspaceInv, ServedIsFaithful
<1> QED
  BY <1>10, <1>11, <1>12, <1>13, <1>14, <1>15 DEF WorkspaceInv

LEMMA GcRmdirKeeps == ASSUME WorkspaceInv, NEW p \in Process, GcRmdir(p) PROVE WorkspaceInv'
<1>1. PICK b : b = calls[p]
  OBVIOUS
<1>2. b \in Call /\ GoodCall(b) /\ b.pc = "unlink" /\ b.todo \in SUBSET Tree
  BY <1>1, CallOf, CallFields DEF GcRmdir, At
<1>3. UNCHANGED <<files, snap, man, current, drawn, leases, raced, collected, served>> /\ dirs' \subseteq dirs
  BY DEF GcRmdir, KeepFiles, KeepHistory
<1>4. PICK c \in Call : calls' = [calls EXCEPT ![p] = c] /\ GoodCall(c)
  <2>1. CASE Return(p)
    BY <2>1, IdleIsCall, IdleIsGood DEF Return, Become
  <2>2. CASE Become(p, [b EXCEPT !.pc = "remove", !.todo = b.todo \ {b.gen}])
    <3>1. PICK c : c = [b EXCEPT !.pc = "remove", !.todo = b.todo \ {b.gen}]
      OBVIOUS
    <3>2. b.todo \ {b.gen} \in SUBSET Tree
      BY <1>2
    <3>3. c \in Call /\ c.pc = "remove" /\ c.todo = b.todo \ {b.gen} /\ c.art = b.art
      BY <1>2, <3>1, <3>2 DEF Call, PC
    <3>4. GoodCall(c)
      BY <1>2, <3>3 DEF GoodCall, BuildIsDue, DrawIsDue, CollectIsDue
    <3> QED
      BY <2>2, <3>1, <3>3, <3>4 DEF Become
  <2> QED
    BY <1>1, <2>1, <2>2 DEF GcRmdir, Goto, Gen
<1>5. GoodCall(c)'
  BY <1>3, <1>4, CallStays
<1>6. calls' \in [Process -> Call] /\ \A q \in Process : GoodCall(calls[q])'
  BY <1>3, <1>4, <1>5, CallsStay
<1>7. Typed'
  BY <1>3, <1>6 DEF WorkspaceInv, Typed
<1>8. PublishedIsWhole' /\ ManifestBindsSnapshot' /\ LeaseKeepsGeneration' /\ ServedIsFaithful'
      /\ (\A d \in drawn : DrawingIsExact(d))'
  BY <1>3 DEF WorkspaceInv, PublishedIsWhole, ManifestBindsSnapshot, LeaseKeepsGeneration, ServedIsFaithful
<1> QED
  BY <1>6, <1>7, <1>8 DEF WorkspaceInv

LEMMA GcEndKeeps == ASSUME WorkspaceInv, NEW p \in Process, GcEnd(p) PROVE WorkspaceInv'
<1>1. UNCHANGED <<files, dirs, snap, man, current, drawn, leases, raced, collected, served>>
  BY DEF GcEnd, KeepStore, KeepFiles, KeepHistory, store
<1> QED
  BY <1>1, ReturnKeeps DEF GcEnd

----------------------------------------------------------------------------
(* The environment *)

LEMMA CrashKeeps == ASSUME WorkspaceInv, NEW p \in Process, Crash(p) PROVE WorkspaceInv'
<1>1. UNCHANGED <<files, dirs, snap, man, current, drawn, leases, raced, collected, served>>
  BY DEF Crash, KeepStore, KeepFiles, store
<1> QED
  BY <1>1, ReturnKeeps DEF Crash

(* Whoever is building or drawing when a developer edits is recorded as raced. *)
LEMMA DeveloperEditKeeps == ASSUME WorkspaceInv, DeveloperEdit PROVE WorkspaceInv'
<1>1. UNCHANGED <<dirs, snap, man, current, drawn, leases, collected, served>>
  BY DEF DeveloperEdit, KeepStore, store
<1>2. files' \in Tree
  <2>1. PICK e \in Edits : files' = [files EXCEPT ![e[1]] = e[2]]
    BY DEF DeveloperEdit
  <2>2. e \in Path \X File
    BY ConstantsAssumption
  <2>3. e[2] \in File
    BY <2>2
  <2> QED
    BY <2>1, <2>3 DEF WorkspaceInv, Typed, Tree
<1>3. raced' = raced \cup {Gen(p) : p \in {q \in Process : Building(q)}}
  BY DEF DeveloperEdit
<1>4. raced' \subseteq Tree /\ raced \subseteq raced'
  BY <1>3, CallOf, CallFields DEF WorkspaceInv, Typed, Gen
<1>5. ASSUME NEW q \in Process PROVE calls'[q] \in Call /\ GoodCall(calls[q])'
  <2>1. PICK b : b = calls[q]
    OBVIOUS
  <2>2. b \in Call /\ GoodCall(b)
    BY <2>1, CallOf
  <2>3. PICK c : c = calls'[q]
    OBVIOUS
  <2>4. c = IF b.pc = "draw" THEN [b EXCEPT !.raced = TRUE] ELSE b
    BY <2>1, <2>3 DEF DeveloperEdit, At
  <2>5. c \in Call /\ c.pc = b.pc /\ c.gen = b.gen /\ c.art = b.art /\ c.todo = b.todo
        /\ c.built = b.built /\ c.view = b.view /\ (c.pc = "draw" => c.raced)
    BY <2>2, <2>4 DEF Call
  <2>6. b.pc \in {"probe", "digest", "parse", "publish", "seal", "manifest"} => b.gen \in raced'
    BY <1>3, <2>1 DEF Building, Gen
  <2>7. BuildIsDue(c)'
    BY <1>1, <1>4, <2>2, <2>5, <2>6 DEF GoodCall, BuildIsDue
  <2>8. DrawIsDue(c)' /\ CollectIsDue(c)'
    BY <1>1, <2>2, <2>5 DEF GoodCall, DrawIsDue, CollectIsDue
  <2> QED
    BY <2>3, <2>5, <2>7, <2>8 DEF GoodCall
<1>6. calls' \in [Process -> Call]
  <2>1. calls' = [p \in Process |-> IF At(p, "draw") THEN [calls[p] EXCEPT !.raced = TRUE] ELSE calls[p]]
    BY DEF DeveloperEdit
  <2> QED
    BY <1>5, <2>1
<1>7. Typed'
  BY <1>1, <1>2, <1>4, <1>6 DEF WorkspaceInv, Typed
<1>8. PublishedIsWhole' /\ ManifestBindsSnapshot' /\ LeaseKeepsGeneration' /\ ServedIsFaithful'
      /\ (\A d \in drawn : DrawingIsExact(d))'
  BY <1>1, <1>4 DEF WorkspaceInv, PublishedIsWhole, ManifestBindsSnapshot, LeaseKeepsGeneration, ServedIsFaithful
<1> QED
  BY <1>5, <1>7, <1>8 DEF WorkspaceInv

----------------------------------------------------------------------------
(* The theorems *)

LEMMA WorkspaceInit == Init => WorkspaceInv
<1> SUFFICES ASSUME Init PROVE WorkspaceInv
  OBVIOUS
<1>1. calls \in [Process -> Call] /\ \A p \in Process : calls[p] = IdleCall
  BY IdleIsCall DEF Init
<1>2. Typed
  BY <1>1, ConstantsAssumption DEF Init, Typed
<1>3. \A p \in Process : GoodCall(calls[p])
  BY <1>1, IdleIsGood
<1> QED
  BY <1>2, <1>3 DEF Init, WorkspaceInv, PublishedIsWhole, ManifestBindsSnapshot, LeaseKeepsGeneration, ServedIsFaithful

LEMMA WorkspaceNext == WorkspaceInv /\ [Next]_vars => WorkspaceInv'
<1> SUFFICES ASSUME WorkspaceInv, [Next]_vars PROVE WorkspaceInv'
  OBVIOUS
<1>1. CASE Release \/ Expire \/ DeveloperEdit
  BY <1>1, ReleaseKeeps, ExpireKeeps, DeveloperEditKeeps
<1>2. ASSUME NEW p \in Process, Begin(p) PROVE WorkspaceInv'
  BY <1>2, BuildHashKeeps, GcScanKeeps, OverlayBeginKeeps, OpenBeginKeeps, LeaseBeginKeeps, DeltaBeginKeeps,
     OpenDrawnKeeps DEF Begin
<1>3. ASSUME NEW p \in Process, Build(p) PROVE WorkspaceInv'
  BY <1>3, BuildProbeKeeps, BuildDigestKeeps, BuildParseKeeps, BuildPublishKeeps, BuildSealKeeps,
     BuildManifestKeeps, BuildCurrentKeeps DEF Build
<1>4. ASSUME NEW p \in Process, Gc(p) PROVE WorkspaceInv'
  BY <1>4, GcListKeeps, GcEnterKeeps, GcUnlinkKeeps, GcRmdirKeeps, GcEndKeeps DEF Gc
<1>5. ASSUME NEW p \in Process,
             DrawScan(p) \/ DrawPublish(p) \/ OpenMap(p) \/ Close(p) \/ LeaseWrite(p) \/ Crash(p)
             \/ \E x \in Path : Serve(p, x)
      PROVE  WorkspaceInv'
  BY <1>5, DrawScanKeeps, DrawPublishKeeps, OpenMapKeeps, CloseKeeps, LeaseWriteKeeps, CrashKeeps, ServeKeeps
<1>6. CASE UNCHANGED vars
  <2>1. UNCHANGED <<files, dirs, snap, man, current, drawn, leases, calls, raced, collected, served>>
    BY <1>6 DEF vars, store
  <2> QED
    BY <2>1, FewerLeases DEF WorkspaceInv, Typed
<1> QED
  BY <1>1, <1>2, <1>3, <1>4, <1>5, <1>6 DEF Next

LEMMA WorkspaceStays == Spec => []WorkspaceInv
BY WorkspaceInit, WorkspaceNext, PTL DEF Spec

(* What a manifest or current.json names is whole but for what a gc took, binds the exact
   parse of its sources unless an edit overlapped its builds, and stays for as long as a
   sound lease holds it. *)
THEOREM PublicationSound == Spec => []PublicationIsSound
<1>1. WorkspaceInv => PublicationIsSound
  <2> SUFFICES ASSUME WorkspaceInv PROVE TypeOK
    BY DEF WorkspaceInv, PublicationIsSound
  <2>1. \A p \in Process : /\ calls[p].pc \in PC
                           /\ Gen(p) \in Tree /\ calls[p].view \in Tree
                           /\ calls[p].built \in Snapshot \cup {None}
                           /\ calls[p].art # None => calls[p].art \in Drawing
                           /\ calls[p].todo \subseteq Tree /\ calls[p].entries \subseteq Entry
    BY CallOf, CallFields DEF Gen
  <2> QED
    BY <2>1 DEF WorkspaceInv, Typed, TypeOK
<1> QED
  BY <1>1, WorkspaceStays, PTL

(* The bytes handed out are those the symbol was parsed from, whatever was built, drawn,
   collected or edited since, for every view that no edit raced while it was drawn. *)
THEOREM ServedFaithful == Spec => []ServedIsFaithful
<1>1. WorkspaceInv => ServedIsFaithful
  BY DEF WorkspaceInv
<1> QED
  BY <1>1, WorkspaceStays, PTL

=============================================================================
