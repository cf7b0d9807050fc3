----------------------------- MODULE SharedFlights ----------------------------
(***************************************************************************)
(* Work that is shared by those who ask for it while it runs: threads that *)
(* ask a pager, and the callers of a cache of one event loop.              *)
(***************************************************************************)
EXTENDS Naturals, FiniteSets

----------------------------------------------------------------------------
(***************************************************************************)
(* SingleFlightCoordinator.run (pager.py): the first thread that asks for  *)
(* a request does the work, the others wait for it, with a deadline and a  *)
(* way to cancel, within a limit of flights and of waiters.                *)
(***************************************************************************)

CONSTANTS
    FlightKey, Runner,
    MaxFlights, MaxWaiters,
    NoRun

VARIABLES
    flightOf,        \* _flights: key -> its owner, or NoRun
    waitersOf,       \* flight.waiters of the flight in the table
    runs             \* thread -> [key, owner, outcome], or NoRun

flightVars == <<flightOf, waitersOf, runs>>

Run == [key : FlightKey, owner : Runner, outcome : {"pending", "result", "error"}]

ASSUME FlightAssumption ==
    /\ MaxFlights \in Nat \ {0} /\ MaxWaiters \in Nat \ {0}
    /\ IsFiniteSet(FlightKey) /\ IsFiniteSet(Runner)
    /\ NoRun \notin Runner /\ NoRun \notin Run

FlightInit ==
    /\ flightOf = [k \in FlightKey |-> NoRun] /\ waitersOf = [k \in FlightKey |-> 0]
    /\ runs = [t \in Runner |-> NoRun]

(* waiters carry the owner of the flight they wait for; their outcome is set with its event *)
Own(t, k) == [key |-> k, owner |-> t, outcome |-> "pending"]
WaitingFor(t, k) == runs[t] # NoRun /\ runs[t].key = k /\ runs[t].owner # t /\ runs[t].outcome = "pending"

(* run, for the first: refused at the limit of flights *)
RunAsOwner(t, k) ==
    /\ runs[t] = NoRun /\ flightOf[k] = NoRun
    /\ Cardinality({j \in FlightKey : flightOf[j] # NoRun}) < MaxFlights
    /\ flightOf' = [flightOf EXCEPT ![k] = t]
    /\ waitersOf' = [waitersOf EXCEPT ![k] = 0]
    /\ runs' = [runs EXCEPT ![t] = Own(t, k)]

(* run, for the others: refused at the limit of waiters *)
RunAsWaiter(t, k) ==
    /\ runs[t] = NoRun /\ flightOf[k] # NoRun
    /\ waitersOf[k] < MaxWaiters
    /\ waitersOf' = [waitersOf EXCEPT ![k] = @ + 1]
    /\ runs' = [runs EXCEPT ![t] = Own(flightOf[k], k)]
    /\ UNCHANGED flightOf

(* operation ends: the outcome is put into the flight, which is still in the table *)
OperationEnds(t, outcome) ==
    /\ runs[t] # NoRun /\ runs[t].owner = t /\ runs[t].outcome = "pending"
    /\ runs' = [runs EXCEPT ![t].outcome = outcome]
    /\ UNCHANGED <<flightOf, waitersOf>>

(* Mutant: only a flight that succeeded wakes its waiters. *)
LandsOnSuccess(t) ==
    /\ runs[t] # NoRun /\ runs[t].owner = t /\ runs[t].outcome # "pending"
    /\ flightOf' = [flightOf EXCEPT ![runs[t].key] = NoRun]
    /\ runs' = [u \in Runner |->
          IF u = t THEN NoRun
          ELSE IF WaitingFor(u, runs[t].key) /\ runs[u].owner = t /\ runs[t].outcome = "result"
          THEN [runs[u] EXCEPT !.outcome = runs[t].outcome] ELSE runs[u]]
    /\ UNCHANGED waitersOf

(* finally: the flight leaves the table and its event is set *)
Lands(t) ==
    /\ runs[t] # NoRun /\ runs[t].owner = t /\ runs[t].outcome # "pending"
    /\ flightOf' = [flightOf EXCEPT ![runs[t].key] = NoRun]
    /\ runs' = [u \in Runner |->
          IF u = t THEN NoRun
          ELSE IF WaitingFor(u, runs[t].key) /\ runs[u].owner = t
          THEN [runs[u] EXCEPT !.outcome = runs[t].outcome] ELSE runs[u]]
    /\ UNCHANGED waitersOf

(* a waiter gives up before the event, which leaves the owner alone *)
GivesUp(t, k) ==
    /\ WaitingFor(t, k)
    /\ runs' = [runs EXCEPT ![t] = NoRun]
    /\ waitersOf' = [waitersOf EXCEPT ![k] = @ - 1]
    /\ UNCHANGED flightOf

(* or returns what the owner got, an error too; its flight is no longer in the table *)
WaiterReturns(t) ==
    /\ runs[t] # NoRun /\ runs[t].owner # t /\ runs[t].outcome # "pending"
    /\ runs' = [runs EXCEPT ![t] = NoRun]
    /\ UNCHANGED <<flightOf, waitersOf>>

FlightNext ==
    \E t \in Runner :
        \/ \E k \in FlightKey : RunAsOwner(t, k) \/ RunAsWaiter(t, k) \/ GivesUp(t, k)
        \/ \E outcome \in {"result", "error"} : OperationEnds(t, outcome)
        \/ Lands(t) \/ WaiterReturns(t)

FlightSpec == FlightInit /\ [][FlightNext]_flightVars

----------------------------------------------------------------------------
(* Properties *)

(* Work on a request is never done twice at a time, whoever waits waits for a flight that
   is in the table and is counted there, and both limits hold: also when the owner fails,
   waiters give up, and the next flight of the request has already begun. *)
FlightsAreShared ==
    /\ \A t \in Runner : runs[t] # NoRun /\ runs[t].owner = t => flightOf[runs[t].key] = t
    /\ \A k \in FlightKey : LET waiting == {t \in Runner : WaitingFor(t, k)} IN
          /\ \A t \in waiting : flightOf[k] = runs[t].owner
          /\ flightOf[k] # NoRun => waitersOf[k] = Cardinality(waiting) /\ waitersOf[k] <= MaxWaiters
    /\ Cardinality({k \in FlightKey : flightOf[k] # NoRun}) <= MaxFlights

----------------------------------------------------------------------------
(***************************************************************************)
(* The content-addressed cache of one event loop (content_cache.py): a     *)
(* caller finds a value, awaits the task that computes it, or starts one.  *)
(* A task reads its sources at some point and stores its value later; its  *)
(* owner removes it from the table of flights when it resumes.  Cancelling *)
(* a caller that awaits a task cancels the task.                           *)
(***************************************************************************)

CONSTANTS
    ContentKey,
    SourceFile,
    SourcesOf,       \* the deps of a key
    Reader,          \* coroutines
    NoContent,
    MaxVersion       \* bound on the edits of a file

VARIABLES
    versions,        \* file -> version
    told,            \* history: the version of a file when it was last invalidated
    values,          \* values and deps: key -> [read, overtaken], or NoContent
    flying,          \* key -> the task: [state, owner, read, overtaken], or NoContent
    readers          \* reader -> [key, woken] while it awaits a task, or NoContent

contentVars == <<versions, told, values, flying, readers>>

ContentValue == [read : [SourceFile -> Nat], overtaken : BOOLEAN]
Flying == [state : {"started", "read", "ended"}, owner : Reader, read : [SourceFile -> Nat], overtaken : BOOLEAN]
Await == [key : ContentKey, woken : BOOLEAN]

ASSUME ContentAssumption ==
    /\ SourcesOf \in [ContentKey -> SUBSET SourceFile] /\ MaxVersion \in Nat
    /\ NoContent \notin ContentValue \cup Flying \cup Await

ContentInit ==
    /\ versions = [f \in SourceFile |-> 0] /\ told = versions
    /\ values = [k \in ContentKey |-> NoContent] /\ flying = values
    /\ readers = [r \in Reader |-> NoContent]

Awaiting(k) == {r \in Reader : readers[r] # NoContent /\ readers[r].key = k /\ ~ readers[r].woken}
Going(k) == flying[k] # NoContent /\ flying[k].state \in {"started", "read"}

(* the task of k ends: whoever awaits it is woken *)
Ends(k) ==
    /\ flying' = [flying EXCEPT ![k].state = "ended"]
    /\ readers' = [r \in Reader |-> IF r \in Awaiting(k) THEN [readers[r] EXCEPT !.woken = TRUE] ELSE readers[r]]

(* get, on a miss: the task of the key is awaited, or started; one that has ended
   answers at once *)
GetContent(r, k) ==
    /\ readers[r] = NoContent /\ values[k] = NoContent
    /\ flying[k] = NoContent \/ Going(k)
    /\ readers' = [readers EXCEPT ![r] = [key |-> k, woken |-> FALSE]]
    /\ flying' = IF flying[k] # NoContent THEN flying
                 ELSE [flying EXCEPT ![k] = [state |-> "started", owner |-> r,
                                             read |-> versions, overtaken |-> FALSE]]
    /\ UNCHANGED <<versions, told, values>>

(* compute reads its sources *)
ComputeReads(k) ==
    /\ flying[k] # NoContent /\ flying[k].state = "started"
    /\ flying' = [flying EXCEPT ![k].state = "read", ![k].read = versions, ![k].overtaken = FALSE]
    /\ UNCHANGED <<versions, told, values, readers>>

ComputeEnds(k) ==
    /\ flying[k] # NoContent /\ flying[k].state = "read"
    /\ values' = [values EXCEPT ![k] = [read |-> flying[k].read, overtaken |-> flying[k].overtaken]]
    /\ Ends(k)
    /\ UNCHANGED <<versions, told>>

ComputeFails(k) == Going(k) /\ Ends(k) /\ UNCHANGED <<versions, told, values>>

CancelReader(r) ==
    /\ readers[r] # NoContent /\ ~ readers[r].woken
    /\ Ends(readers[r].key)
    /\ UNCHANGED <<versions, told, values>>

(* Mutant: whoever resumes removes the flight. *)
ResumeRemoving(r) ==
    /\ readers[r] # NoContent /\ readers[r].woken
    /\ readers' = [readers EXCEPT ![r] = NoContent]
    /\ flying' = [flying EXCEPT ![readers[r].key] = NoContent]
    /\ UNCHANGED <<versions, told, values>>

(* a caller resumes; only the owner removes the flight *)
Resume(r) ==
    /\ readers[r] # NoContent /\ readers[r].woken
    /\ readers' = [readers EXCEPT ![r] = NoContent]
    /\ LET k == readers[r].key IN
       flying' = IF flying[k] # NoContent /\ flying[k].owner = r THEN [flying EXCEPT ![k] = NoContent] ELSE flying
    /\ UNCHANGED <<versions, told, values>>

EditSource(f) ==
    /\ versions[f] < MaxVersion
    /\ versions' = [versions EXCEPT ![f] = @ + 1]
    /\ UNCHANGED <<told, values, flying, readers>>

Doomed(changed) == {k \in ContentKey : SourcesOf[k] \cap changed # {}}

(* invalidate knows the deps of the values, not of the tasks *)
InvalidateContent(changed) ==
    /\ told' = [f \in SourceFile |-> IF f \in changed THEN versions[f] ELSE told[f]]
    /\ values' = [k \in ContentKey |-> IF k \in Doomed(changed) THEN NoContent ELSE values[k]]
    /\ flying' = [k \in ContentKey |->
          IF flying[k] # NoContent /\ SourcesOf[k] \cap changed # {}
          THEN [flying[k] EXCEPT !.overtaken = TRUE] ELSE flying[k]]
    /\ UNCHANGED <<versions, readers>>

ContentNext ==
    \/ \E r \in Reader : \/ \E k \in ContentKey : GetContent(r, k)
                         \/ CancelReader(r) \/ Resume(r)
    \/ \E k \in ContentKey : ComputeReads(k) \/ ComputeEnds(k) \/ ComputeFails(k)
    \/ \E f \in SourceFile : EditSource(f)
    \/ \E changed \in SUBSET SourceFile \ {{}} : InvalidateContent(changed)

ContentSpec == ContentInit /\ [][ContentNext]_contentVars

----------------------------------------------------------------------------
(* Properties *)

(* A value that is a hit was computed from sources as new as the last invalidation of any
   of them, unless that invalidation overtook its task; whoever awaits a key awaits a task
   that runs, and the table never loses a task that runs. *)
ContentIsFresh ==
    /\ \A k \in ContentKey : values[k] # NoContent /\ ~ values[k].overtaken =>
          \A f \in SourcesOf[k] : values[k].read[f] >= told[f]
    /\ \A k \in ContentKey : Going(k) <=> Awaiting(k) # {}
===============================================================================
