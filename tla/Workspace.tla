------------------------------ MODULE Workspace ------------------------------
(***************************************************************************)
(* The shared store of canonical generations (workspace.py, delta.py and   *)
(* build_snapshot of snapshot.py).  Independent processes build base       *)
(* generations, draw overlays and deltas against them, open composed       *)
(* views and serve context from them, pin generations with leases and      *)
(* collect the unpinned ones, all on one directory tree without a lock,    *)
(* while developers edit the sources and any process may crash.            *)
(*                                                                         *)
(* A file's bytes are a member of Content and a SHA-256 is the bytes it    *)
(* digests; the symbols parsed from bytes are named by those bytes.  The   *)
(* commit, configuration and parser versions are fixed, so a generation id *)
(* is the map of source hashes it was computed from, and the digest of a   *)
(* snapshot is the snapshot.  The stat-keyed caches of a process are taken *)
(* to be exact.  Scanning the source tree is one step; every check that is *)
(* used by a later write, and every write, is a step of its own.           *)
(***************************************************************************)
EXTENDS Naturals, FiniteSets

CONSTANTS
    Path, Content,
    Gone,           \* no source file at the path
    None,           \* no artifact
    Process, InitialFiles,
    Edits,          \* what developers write: a set of <<path, file>> pairs
    LeaseId,
    MaxCalls, MaxEdits, MaxCrashes

VARIABLES
    files,      \* the source tree
    dirs,       \* generations that have a directory under base/
    snap,       \* project.sfast of each generation
    man,        \* manifest.json of each generation: the snapshot digest it binds
    current,    \* the generation current.json names
    drawn,      \* published overlays and deltas
    leases,     \* lease files
    calls,      \* what each process is doing
    calling, edits, crashes,   \* environment counters
    raced,      \* history: generations with a build that overlapped an edit
    collected,  \* history: generations a gc started to remove
    served      \* history: spans handed out

envVars == <<calling, edits, crashes>>
store == <<dirs, snap, man, current, drawn, leases>>
vars == <<files, store, calls, envVars, raced, collected, served>>

----------------------------------------------------------------------------

File == Content \cup {Gone}
Tree == [Path -> File]
Snapshot == [Path -> [sha : File, sym : File]]
Entry == {"snapshot", "manifest"}

(* An overlay or delta: for each changed path its hash and symbols, Gone for a
   tombstone, None for an unlisted path. *)
Change == [sha : File, sym : File]
Drawing == [kind : {"overlay", "delta"}, base : Tree, digest : Snapshot \cup {None},
            changed : [Path -> Change \cup {None}], raced : BOOLEAN]
Lease == [id : LeaseId, gen : Tree, expired : BOOLEAN, sound : BOOLEAN]
Span == [path : Path, bytes : File, sym : File, raced : BOOLEAN]

PC == {"idle", "probe", "digest", "parse", "publish", "seal", "manifest", "current",
       "scan", "draw", "map", "view", "lease", "list", "remove", "unlink"}

IdleCall ==
    [pc |-> "idle", gen |-> InitialFiles, view |-> InitialFiles, built |-> None,
     art |-> None, todo |-> {}, entries |-> {}, scope |-> {}, raced |-> FALSE]

ASSUME ConstantsAssumption ==
    /\ Gone \notin Content
    /\ InitialFiles \in Tree
    /\ Edits \subseteq Path \X File
    /\ None \notin Snapshot /\ None \notin Change /\ None \notin Drawing
    /\ None \notin Tree
    /\ MaxCalls \in Nat /\ MaxEdits \in Nat /\ MaxCrashes \in Nat

At(p, pc) == calls[p].pc = pc
Gen(p) == calls[p].gen
Goto(p, pc) == [calls[p] EXCEPT !.pc = pc]
Become(p, call) == calls' = [calls EXCEPT ![p] = call]
Return(p) == Become(p, IdleCall)

KeepFiles == UNCHANGED <<files, raced>>
KeepStore == UNCHANGED store
KeepHistory == UNCHANGED <<envVars, collected, served>>

(* An idle process starts a command. *)
Start(p, call) ==
    /\ At(p, "idle")
    /\ calling < MaxCalls
    /\ calling' = calling + 1
    /\ Become(p, call)
    /\ KeepStore /\ KeepFiles /\ UNCHANGED <<edits, crashes, collected, served>>

Init ==
    /\ files = InitialFiles
    /\ dirs = {} /\ snap = [g \in Tree |-> None] /\ man = [g \in Tree |-> None]
    /\ current = None /\ drawn = {} /\ leases = {}
    /\ calls = [p \in Process |-> IdleCall]
    /\ calling = 0 /\ edits = 0 /\ crashes = 0
    /\ raced = {} /\ collected = {} /\ served = {}

----------------------------------------------------------------------------
(* build_base *)

(* Mutant: the hashes of the current manifest are taken over. *)
BuildHashCached(p) ==
    Start(p, [IdleCall EXCEPT !.pc = "probe", !.gen = IF current = None THEN files ELSE current])

(* The source hashes fix the generation id. *)
BuildHash(p) == Start(p, [IdleCall EXCEPT !.pc = "probe", !.gen = files])

(* mkdir; a generation with both artifacts is reused after its structure is
   validated, which asks only for a readable snapshot *)
BuildProbe(p) ==
    /\ At(p, "probe")
    /\ dirs' = dirs \cup {Gen(p)}
    /\ IF snap[Gen(p)] # None /\ man[Gen(p)] # None
       THEN Become(p, Goto(p, "current"))
       ELSE Become(p, Goto(p, "digest"))
    /\ UNCHANGED <<snap, man, current, drawn, leases>>
    /\ KeepFiles /\ KeepHistory

(* build_snapshot loads the previous snapshot of the directory and reads the
   digest of every file *)
BuildDigest(p) ==
    /\ At(p, "digest")
    /\ Become(p, [Goto(p, "parse") EXCEPT !.view = files, !.built = snap[Gen(p)]])
    /\ KeepStore /\ KeepFiles /\ KeepHistory

(* A file with the digest of the previous snapshot keeps the symbols parsed
   then, every other file is opened again and parsed; one that vanished raises.
   When nothing changed the published bytes stay. *)
BuildParse(p) ==
    /\ At(p, "parse")
    /\ LET view == calls[p].view
           previous == calls[p].built
           kept == {x \in Path : previous # None /\ previous[x].sha = view[x]}
           fresh == {x \in Path \ kept : view[x] # Gone}
       IN  IF \E x \in fresh : files[x] = Gone THEN Return(p)
           ELSE IF kept = Path THEN Become(p, Goto(p, "seal"))
           ELSE Become(p, [Goto(p, "publish") EXCEPT !.built = [x \in Path |->
                  [sha |-> view[x],
                   sym |-> IF x \in kept THEN previous[x].sym
                           ELSE IF x \in fresh THEN files[x] ELSE Gone]]])
    /\ KeepStore /\ KeepFiles /\ KeepHistory

(* _build_v2 replaces the snapshot; it makes the directory anew if it is gone *)
BuildPublish(p) ==
    /\ At(p, "publish")
    /\ dirs' = dirs \cup {Gen(p)}
    /\ snap' = [snap EXCEPT ![Gen(p)] = calls[p].built]
    /\ Become(p, Goto(p, "seal"))
    /\ UNCHANGED <<man, current, drawn, leases>>
    /\ KeepFiles /\ KeepHistory

(* snapshot_sha256 is read back from the file, which may be gone again *)
BuildSeal(p) ==
    /\ At(p, "seal")
    /\ IF snap[Gen(p)] = None THEN Return(p)
       ELSE Become(p, [Goto(p, "manifest") EXCEPT !.built = snap[Gen(p)]])
    /\ KeepStore /\ KeepFiles /\ KeepHistory

BuildManifest(p) ==
    /\ At(p, "manifest")
    /\ dirs' = dirs \cup {Gen(p)}
    /\ man' = [man EXCEPT ![Gen(p)] = calls[p].built]
    /\ Become(p, Goto(p, "current"))
    /\ UNCHANGED <<snap, current, drawn, leases>>
    /\ KeepFiles /\ KeepHistory

(* current.json is replaced; the validation and the receipt after it change
   nothing the store is made of *)
BuildCurrent(p) ==
    /\ At(p, "current")
    /\ current' = Gen(p)
    /\ Return(p)
    /\ UNCHANGED <<dirs, snap, man, drawn, leases>>
    /\ KeepFiles /\ KeepHistory

----------------------------------------------------------------------------
(* create_overlay (also behind refresh and watch_once) and create_delta *)

Requested == SUBSET Path \ {{}}

(* create_overlay reads the manifest only. *)
OverlayBegin(p, g) ==
    /\ man[g] # None
    /\ Start(p, [IdleCall EXCEPT !.pc = "scan", !.gen = g, !.scope = Path])

(* _base_snapshot: the snapshot must be there with the digest the manifest
   binds; a delta may be limited to requested paths, Path stands for no limit *)
BaseSnapshot(g) == man[g] # None /\ snap[g] # None /\ snap[g] = man[g]

DeltaBegin(p, g, scope) ==
    /\ BaseSnapshot(g)
    /\ Start(p, [IdleCall EXCEPT !.pc = "scan", !.gen = g, !.scope = scope,
                                 !.built = snap[g]])

(* A requested path that neither the tree nor the base knows raises. *)
RequestMissing(p) ==
    calls[p].scope # Path /\ \E x \in calls[p].scope : files[x] = Gone /\ Gen(p)[x] = Gone

DrawScan(p) ==
    /\ At(p, "scan")
    /\ IF RequestMissing(p) THEN Return(p)
       ELSE Become(p, [Goto(p, "draw") EXCEPT !.view = files])
    /\ KeepStore /\ KeepFiles /\ KeepHistory

Differs(p) == {x \in calls[p].scope : calls[p].view[x] # Gen(p)[x]}

(* A changed file is opened again and parsed, a vanished one is a tombstone. *)
ChangeRecord(p, x) ==
    [sha |-> calls[p].view[x], sym |-> IF calls[p].view[x] = Gone THEN Gone ELSE files[x]]

(* The record is published under its own digest; a changed file that vanished
   before it could be parsed raises. *)
DrawPublish(p) ==
    /\ At(p, "draw")
    /\ IF \E x \in Differs(p) : calls[p].view[x] # Gone /\ files[x] = Gone
       THEN UNCHANGED drawn
       ELSE drawn' = drawn \cup
              {[kind |-> IF calls[p].built = None THEN "overlay" ELSE "delta",
                base |-> Gen(p), digest |-> calls[p].built, raced |-> calls[p].raced,
                changed |-> [x \in Path |->
                   IF x \in Differs(p) THEN ChangeRecord(p, x) ELSE None]]}
    /\ Return(p)
    /\ UNCHANGED <<dirs, snap, man, current, leases>>
    /\ KeepFiles /\ KeepHistory

----------------------------------------------------------------------------
(* WorkspaceStore.open, compose_delta and EffectiveSnapshot *)

(* _composed_source_hashes *)
ComposedHashes(g, d) ==
    [x \in Path |-> IF d.changed[x] = None THEN g[x] ELSE d.changed[x].sha]

(* open accepts an overlay of the requested base; compose_delta also checks
   the artifact digest and that the composed hashes are those of the tree *)
OpenBegin(p, g) ==
    /\ man[g] # None
    /\ Start(p, [IdleCall EXCEPT !.pc = "map", !.gen = g])

OpenOverlay(p, g, d) ==
    /\ man[g] # None
    /\ d.kind = "overlay" /\ d.base = g
    /\ Start(p, [IdleCall EXCEPT !.pc = "map", !.gen = g, !.art = d])

ComposeDelta(p, g, d) ==
    /\ BaseSnapshot(g)
    /\ d.kind = "delta" /\ d.base = g
    /\ d.digest = snap[g]
    /\ ComposedHashes(g, d) = files
    /\ Start(p, [IdleCall EXCEPT !.pc = "map", !.gen = g, !.art = d])

(* The snapshot is mapped; unlinking or replacing the file later does not
   change the mapping. *)
OpenMap(p) ==
    /\ At(p, "map")
    /\ IF snap[Gen(p)] = None THEN Return(p)
       ELSE Become(p, [Goto(p, "view") EXCEPT !.built = snap[Gen(p)]])
    /\ KeepStore /\ KeepFiles /\ KeepHistory

Listed(p, x) == calls[p].art # None /\ calls[p].art.changed[x] # None

(* Mutant: symbols of replaced files are not left out. *)
SymbolsAll(p, x) ==
    ({calls[p].built[x].sym} \cup (IF Listed(p, x) THEN {calls[p].art.changed[x].sym} ELSE {}))
        \ {Gone}

(* symbols: those of a changed file come from the overlay, the rest from the
   base; a file without symbols is never read *)
Symbols(p, x) ==
    (IF Listed(p, x) THEN {calls[p].art.changed[x].sym} ELSE {calls[p].built[x].sym}) \ {Gone}

(* context_many: the bytes are read once and must have the hash that the
   overlay, or else the manifest, recorded *)
Expected(p, x) == IF Listed(p, x) THEN calls[p].art.changed[x].sha ELSE Gen(p)[x]

Serve(p, x) ==
    /\ At(p, "view")
    /\ \E sym \in Symbols(p, x) :
         IF files[x] = Gone \/ files[x] # Expected(p, x)
         THEN Return(p) /\ UNCHANGED served
         ELSE /\ served' = served \cup
                   {[path |-> x, bytes |-> files[x], sym |-> sym,
                     raced |-> \/ Gen(p) \in raced
                               \/ calls[p].art # None /\ calls[p].art.raced]}
              /\ UNCHANGED calls
    /\ KeepStore /\ KeepFiles /\ UNCHANGED <<envVars, collected>>

Close(p) ==
    /\ At(p, "view")
    /\ Return(p)
    /\ KeepStore /\ KeepFiles /\ KeepHistory

----------------------------------------------------------------------------
(* Leases and gc *)

(* acquire_lease reads the manifest, *)
LeaseBegin(p, g) ==
    /\ man[g] # None
    /\ Start(p, [IdleCall EXCEPT !.pc = "lease", !.gen = g])

(* and then writes the lease.  It is sound when the generation is still whole
   and no gc is under way that may have missed it. *)
Collecting(p) == calls[p].pc \in {"list", "remove", "unlink"}

LeaseWrite(p) ==
    /\ At(p, "lease")
    /\ \E id \in LeaseId :
         /\ \A l \in leases : l.id # id
         /\ leases' = leases \cup
              {[id |-> id, gen |-> Gen(p), expired |-> FALSE,
                sound |-> /\ snap[Gen(p)] # None /\ man[Gen(p)] # None
                          /\ \A q \in Process : ~Collecting(q)]}
    /\ Return(p)
    /\ UNCHANGED <<dirs, snap, man, current, drawn>>
    /\ KeepFiles /\ KeepHistory

(* release_lease, at any time by its owner *)
Release ==
    /\ \E l \in leases : leases' = leases \ {l}
    /\ UNCHANGED <<dirs, snap, man, current, drawn, calls>>
    /\ KeepFiles /\ KeepHistory

Expire ==
    /\ \E l \in leases : ~l.expired /\ leases' = (leases \ {l}) \cup {[l EXCEPT !.expired = TRUE]}
    /\ UNCHANGED <<dirs, snap, man, current, drawn, calls>>
    /\ KeepFiles /\ KeepHistory

(* expires_at > now *)
Live(l) == ~l.expired

(* gc(apply=True): live leases protect their generation, expired ones are
   deleted; *)
GcScan(p) ==
    /\ At(p, "idle")
    /\ calling < MaxCalls
    /\ calling' = calling + 1
    /\ leases' = {l \in leases : Live(l)}
    /\ Become(p, [IdleCall EXCEPT !.pc = "list", !.todo = {l.gen : l \in leases'}])
    /\ UNCHANGED <<dirs, snap, man, current, drawn, edits, crashes, collected, served>>
    /\ KeepFiles

(* every other directory is a candidate; *)
GcList(p) ==
    /\ At(p, "list")
    /\ Become(p, [Goto(p, "remove") EXCEPT !.todo = dirs \ calls[p].todo])
    /\ KeepStore /\ KeepFiles /\ KeepHistory

(* rmtree lists a candidate, *)
GcEnter(p) ==
    /\ At(p, "remove")
    /\ \E g \in calls[p].todo :
         IF g \notin dirs THEN Return(p) /\ UNCHANGED collected
         ELSE /\ Become(p, [Goto(p, "unlink") EXCEPT !.gen = g,
                   !.entries = {e \in Entry : (IF e = "snapshot" THEN snap ELSE man)[g] # None}])
              /\ collected' = collected \cup {g}
    /\ KeepStore /\ KeepFiles /\ UNCHANGED <<envVars, served>>

(* unlinks what it listed (an entry that vanished raises, or is passed over
   from Python 3.13 on), *)
GcUnlink(p) ==
    /\ At(p, "unlink")
    /\ \E e \in calls[p].entries :
         LET found == (IF e = "snapshot" THEN snap ELSE man)[Gen(p)] # None IN
         /\ snap' = IF e = "snapshot" THEN [snap EXCEPT ![Gen(p)] = None] ELSE snap
         /\ man' = IF e = "manifest" THEN [man EXCEPT ![Gen(p)] = None] ELSE man
         /\ \/ Become(p, [calls[p] EXCEPT !.entries = @ \ {e}])
            \/ ~found /\ Return(p)
    /\ UNCHANGED <<dirs, current, drawn, leases>>
    /\ KeepFiles /\ KeepHistory

(* and removes the directory, unless somebody filled it again *)
GcRmdir(p) ==
    /\ At(p, "unlink")
    /\ calls[p].entries = {}
    /\ IF Gen(p) \in dirs /\ snap[Gen(p)] = None /\ man[Gen(p)] = None
       THEN /\ dirs' = dirs \ {Gen(p)}
            /\ Become(p, [Goto(p, "remove") EXCEPT !.todo = @ \ {Gen(p)}])
       ELSE Return(p) /\ UNCHANGED dirs
    /\ UNCHANGED <<snap, man, current, drawn, leases>>
    /\ KeepFiles /\ KeepHistory

GcEnd(p) ==
    /\ At(p, "remove")
    /\ calls[p].todo = {}
    /\ Return(p)
    /\ KeepStore /\ KeepFiles /\ KeepHistory

----------------------------------------------------------------------------
(* The environment *)

Crash(p) ==
    /\ ~At(p, "idle")
    /\ crashes < MaxCrashes
    /\ crashes' = crashes + 1
    /\ Return(p)
    /\ KeepStore /\ KeepFiles /\ UNCHANGED <<calling, edits, collected, served>>

Building(p) == calls[p].pc \in {"probe", "digest", "parse", "publish", "seal", "manifest"}

DeveloperEdit ==
    /\ edits < MaxEdits
    /\ edits' = edits + 1
    /\ \E e \in Edits : files[e[1]] # e[2] /\ files' = [files EXCEPT ![e[1]] = e[2]]
    /\ calls' = [p \in Process |-> IF At(p, "draw") THEN [calls[p] EXCEPT !.raced = TRUE]
                                   ELSE calls[p]]
    /\ raced' = raced \cup {Gen(p) : p \in {q \in Process : Building(q)}}
    /\ KeepStore /\ UNCHANGED <<calling, crashes, collected, served>>

Build(p) ==
    \/ BuildProbe(p) \/ BuildDigest(p) \/ BuildParse(p) \/ BuildPublish(p)
    \/ BuildSeal(p) \/ BuildManifest(p) \/ BuildCurrent(p)
Gc(p) == GcList(p) \/ GcEnter(p) \/ GcUnlink(p) \/ GcRmdir(p) \/ GcEnd(p)
Begin(p) ==
    \/ BuildHash(p) \/ GcScan(p)
    \/ \E g \in dirs : \/ OverlayBegin(p, g) \/ OpenBegin(p, g) \/ LeaseBegin(p, g)
                       \/ \E scope \in Requested : DeltaBegin(p, g, scope)
                       \/ \E d \in drawn : OpenOverlay(p, g, d) \/ ComposeDelta(p, g, d)

Next ==
    \/ \E p \in Process :
         \/ Begin(p) \/ Build(p) \/ DrawScan(p) \/ DrawPublish(p)
         \/ OpenMap(p) \/ Close(p) \/ LeaseWrite(p) \/ Gc(p) \/ Crash(p)
         \/ \E x \in Path : Serve(p, x)
    \/ Release \/ Expire \/ DeveloperEdit

Spec == Init /\ [][Next]_vars

----------------------------------------------------------------------------
(* Properties *)

TypeOK ==
    /\ files \in Tree
    /\ dirs \subseteq Tree
    /\ snap \in [Tree -> Snapshot \cup {None}]
    /\ man \in [Tree -> Snapshot \cup {None}]
    /\ current \in Tree \cup {None}
    /\ \A d \in drawn : d \in Drawing
    /\ \A l \in leases : l \in Lease
    /\ \A p \in Process :
         /\ calls[p].pc \in PC
         /\ Gen(p) \in Tree /\ calls[p].view \in Tree
         /\ calls[p].built \in Snapshot \cup {None}
         /\ calls[p].art # None => calls[p].art \in Drawing
         /\ calls[p].todo \subseteq Tree /\ calls[p].entries \subseteq Entry
    /\ raced \subseteq Tree /\ collected \subseteq Tree
    /\ \A s \in served : s \in Span

(* What a manifest or current.json names is whole: crashes and concurrent
   builds never leave a manifest without its snapshot, or a current generation
   without both, unless a gc took parts of it. *)
PublishedIsWhole ==
    /\ \A g \in Tree \ collected : man[g] # None => snap[g] # None
    /\ current # None /\ current \notin collected => man[current] # None

(* A manifest binds the exact snapshot of its source hashes: in a generation
   whose builds overlapped no edit, the snapshot is the parse of those hashes
   and the recorded digest is its digest, whoever built, crashed or collected. *)
Exact(g) == [x \in Path |-> [sha |-> g[x], sym |-> g[x]]]

ManifestBindsSnapshot ==
    \A g \in Tree \ raced : snap[g] \in {None, Exact(g)} /\ man[g] \in {None, Exact(g)}

(* A sound lease keeps its generation whole until it expires or is released,
   however many collectors run. *)
LeaseKeepsGeneration ==
    \A l \in leases : l.sound /\ ~l.expired => snap[l.gen] # None /\ man[l.gen] # None

(* Served context is faithful: the bytes handed out are the bytes the symbol
   was parsed from, for every view that no edit raced while it was drawn. *)
ServedIsFaithful == \A s \in served : ~s.raced => s.sym = s.bytes

(* gc never removes a generation protected by an unexpired lease. *)
LeaseHolds ==
    [][\A l \in leases \cap leases' : ~l.expired /\ snap[l.gen] # None => snap'[l.gen] # None]_vars

(* The store is well formed and what it publishes can be relied on: whole after
   crashes and overlapping builds, bound to the sources it was made from, and kept
   for as long as a sound lease holds it. *)
PublicationIsSound == TypeOK /\ PublishedIsWhole /\ ManifestBindsSnapshot /\ LeaseKeepsGeneration
=============================================================================
