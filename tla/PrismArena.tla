----------------------------- MODULE PrismArena -----------------------------
(***************************************************************************)
(* Publication and opening of PRISM generations (prism_arena.py).  A base  *)
(* and its sealed metadata are written, then current.hbp names them; the   *)
(* arenas of one process share a reference-counted mapping per generation  *)
(* through a registry under one lock.                                      *)
(*                                                                         *)
(* A generation's id is a digest of repository, source and base, so it is  *)
(* the source here.  A file is replaced atomically and no generation is    *)
(* ever removed.  An arena is closed by one thread.                        *)
(***************************************************************************)
EXTENDS Naturals, Sequences, FiniteSets

CONSTANTS
    Source,     \* the versions of the repository that are published
    Opening,    \* the arena objects of the process
    Thread,
    NoSource, NoArena, NoHandle, NoJob,
    MaxCrashes,
    MaxHandles  \* bound: mappings made in one life of the process

VARIABLES
    baseFiles,   \* generations whose base.sfa is on disk
    metadata,    \* generations whose metadata.hbp is on disk
    current,     \* what current.hbp names
    arenas,      \* the arena objects
    handles,     \* every mapping made, in order
    registry,    \* _HANDLE_REGISTRY
    jobs,        \* what each thread is doing
    crashes

arenaVars == <<baseFiles, metadata, current, arenas, handles, registry, jobs, crashes>>
diskVars == <<baseFiles, metadata, current>>

ArenaObject == [source : Source, handle : Nat \ {0}, closed : BOOLEAN, draining : BOOLEAN]
Job == [op : {"publish", "open", "close"},
        pc : {"base", "metadata", "current", "open", "drain", "release", "closed"},
        arena : Opening, source : Source, from : Opening \cup {NoArena}]

ASSUME ArenaAssumption ==
    /\ MaxCrashes \in Nat /\ MaxHandles \in Nat
    /\ NoSource \notin Source /\ NoHandle \notin Nat
    /\ NoArena \notin ArenaObject /\ NoArena \notin Opening /\ NoJob \notin Job

Busy(t) == jobs[t] # NoJob
Open(a) == arenas[a] # NoArena /\ ~arenas[a].closed
Closing(a) == \E t \in Thread : Busy(t) /\ jobs[t].op = "close" /\ jobs[t].arena = a
Claimed(a) == \E t \in Thread : Busy(t) /\ jobs[t].arena = a
Goes(t, pc) == jobs' = [jobs EXCEPT ![t].pc = pc]
Ends(t) == jobs' = [jobs EXCEPT ![t] = NoJob]

ArenaInit ==
    /\ baseFiles = {} /\ metadata = {} /\ current = NoSource
    /\ arenas = [a \in Opening |-> NoArena]
    /\ handles = << >>
    /\ registry = [g \in Source |-> NoHandle]
    /\ jobs = [t \in Thread |-> NoJob]
    /\ crashes = 0

(* publish, or refresh of an open arena *)
PublishBegin(t, a, g, from) ==
    /\ ~Busy(t) /\ arenas[a] = NoArena /\ ~Claimed(a)
    /\ from # NoArena => Open(from)
    /\ jobs' = [jobs EXCEPT ![t] = [op |-> "publish", pc |-> "base", arena |-> a,
                                    source |-> g, from |-> from]]
    /\ UNCHANGED <<diskVars, arenas, handles, registry, crashes>>

PublishBase(t) ==
    /\ Busy(t) /\ jobs[t].pc = "base"
    /\ baseFiles' = baseFiles \cup {jobs[t].source}
    /\ Goes(t, "metadata")
    /\ UNCHANGED <<metadata, current, arenas, handles, registry, crashes>>

PublishMetadata(t) ==
    /\ Busy(t) /\ jobs[t].pc = "metadata"
    /\ metadata' = metadata \cup {jobs[t].source}
    /\ Goes(t, "current")
    /\ UNCHANGED <<baseFiles, current, arenas, handles, registry, crashes>>

PublishCurrent(t) ==
    /\ Busy(t) /\ jobs[t].pc = "current"
    /\ current' = jobs[t].source
    /\ Goes(t, "open")
    /\ UNCHANGED <<baseFiles, metadata, arenas, handles, registry, crashes>>

(* open_current reads the name first; another generation may be published before it opens *)
OpenCurrent(t, a) ==
    /\ ~Busy(t) /\ arenas[a] = NoArena /\ ~Claimed(a)
    /\ current # NoSource
    /\ jobs' = [jobs EXCEPT ![t] = [op |-> "open", pc |-> "open", arena |-> a,
                                    source |-> current, from |-> NoArena]]
    /\ UNCHANGED <<diskVars, arenas, handles, registry, crashes>>

Whole(g) == g \in baseFiles \cap metadata

(* __init__ with _acquire_handle: the registered mapping gains a reference, or one is made *)
Acquire(t) ==
    LET g == jobs[t].source
        h == IF registry[g] = NoHandle THEN Len(handles) + 1 ELSE registry[g]
    IN  /\ Busy(t) /\ jobs[t].pc = "open"
        /\ Whole(g)
        /\ h <= MaxHandles
        /\ handles' = IF registry[g] = NoHandle
                      THEN Append(handles, [source |-> g, refcount |-> 1, mapped |-> TRUE])
                      ELSE [handles EXCEPT ![h].refcount = @ + 1]
        /\ registry' = [registry EXCEPT ![g] = h]
        /\ arenas' = [arenas EXCEPT ![jobs[t].arena] =
                         [source |-> g, handle |-> h, closed |-> FALSE, draining |-> FALSE]]
        /\ IF jobs[t].from = NoArena THEN Ends(t) ELSE Goes(t, "drain")
        /\ UNCHANGED <<diskVars, crashes>>

(* the end of refresh: the older arena stays open for its readers *)
Drain(t) ==
    /\ Busy(t) /\ jobs[t].pc = "drain"
    /\ arenas' = [arenas EXCEPT ![jobs[t].from].draining = TRUE]
    /\ Ends(t)
    /\ UNCHANGED <<diskVars, handles, registry, crashes>>

CloseBegin(t, a) ==
    /\ ~Busy(t) /\ Open(a) /\ ~Closing(a)
    /\ \A u \in Thread : Busy(u) => jobs[u].from # a
    /\ jobs' = [jobs EXCEPT ![t] = [op |-> "close", pc |-> "release", arena |-> a,
                                    source |-> arenas[a].source, from |-> NoArena]]
    /\ UNCHANGED <<diskVars, arenas, handles, registry, crashes>>

(* Mutant: a close unmaps the base whoever else reads it. *)
CloseReleaseOutright(t) ==
    LET h == arenas[jobs[t].arena].handle
    IN  /\ Busy(t) /\ jobs[t].pc = "release"
        /\ handles' = [handles EXCEPT ![h].refcount = @ - 1, ![h].mapped = FALSE]
        /\ registry' = [registry EXCEPT ![jobs[t].source] = NoHandle]
        /\ Goes(t, "closed")
        /\ UNCHANGED <<diskVars, arenas, crashes>>

(* the last reference unmaps the base and unregisters it *)
CloseRelease(t) ==
    LET h == arenas[jobs[t].arena].handle
        last == handles[h].refcount = 1
    IN  /\ Busy(t) /\ jobs[t].pc = "release"
        /\ handles' = [handles EXCEPT ![h].refcount = @ - 1, ![h].mapped = ~last]
        /\ registry' = IF last THEN [registry EXCEPT ![jobs[t].source] = NoHandle] ELSE registry
        /\ Goes(t, "closed")
        /\ UNCHANGED <<diskVars, arenas, crashes>>

CloseEnd(t) ==
    /\ Busy(t) /\ jobs[t].pc = "closed"
    /\ arenas' = [arenas EXCEPT ![jobs[t].arena].closed = TRUE]
    /\ Ends(t)
    /\ UNCHANGED <<diskVars, handles, registry, crashes>>

(* the process dies and is started again; the files stay *)
ArenaCrash ==
    /\ crashes < MaxCrashes
    /\ crashes' = crashes + 1
    /\ arenas' = [a \in Opening |-> NoArena]
    /\ handles' = << >>
    /\ registry' = [g \in Source |-> NoHandle]
    /\ jobs' = [t \in Thread |-> NoJob]
    /\ UNCHANGED diskVars

ArenaStep(t) ==
    PublishBase(t) \/ PublishMetadata(t) \/ PublishCurrent(t) \/ Acquire(t) \/ Drain(t)
    \/ CloseRelease(t) \/ CloseEnd(t)

ArenaNext ==
    \/ \E t \in Thread : ArenaStep(t)
    \/ \E t \in Thread, a \in Opening, g \in Source, from \in Opening \cup {NoArena} :
          PublishBegin(t, a, g, from)
    \/ \E t \in Thread, a \in Opening : OpenCurrent(t, a)
    \/ \E t \in Thread, a \in Opening : CloseBegin(t, a)
    \/ ArenaCrash

ArenaSpec == ArenaInit /\ [][ArenaNext]_arenaVars

----------------------------------------------------------------------------
(* Properties *)

(* The generation that current.hbp names can be opened, wherever a publication
   stopped. *)
CurrentIsWhole == current # NoSource => Whole(current)

(* An arena reads its own generation from a mapping that is open until its own
   close has released it, whatever the other arenas of the generation do; the
   mapping's references are exactly the arenas that hold it. *)
Holders(h) ==
    {a \in Opening : arenas[a] # NoArena /\ arenas[a].handle = h /\ ~arenas[a].closed
        /\ ~\E t \in Thread : Busy(t) /\ jobs[t].arena = a /\ jobs[t].pc = "closed"}
MappedWhileHeld ==
    \A h \in DOMAIN handles :
        /\ handles[h].refcount = Cardinality(Holders(h))
        /\ handles[h].mapped = (Holders(h) # {})
        /\ \A a \in Holders(h) : arenas[a].source = handles[h].source

(* Generations can be opened once they are named and stay mapped while they are read. *)
GenerationsStayMapped == CurrentIsWhole /\ MappedWhileHeld
=============================================================================
