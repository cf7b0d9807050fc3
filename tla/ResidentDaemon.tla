--------------------------- MODULE ResidentDaemon ---------------------------
(***************************************************************************)
(* ResidentFastDaemon (resident_daemon.py): clients submit requests to a   *)
(* bounded queue, max_inflight worker tasks take them, pin the generation  *)
(* they ask for with a shared opening task, run the handler and settle the *)
(* caller's future; calls are cut by their deadline or cancelled, and a    *)
(* supervisor starts, drains, stops and crashes the daemon.                *)
(*                                                                         *)
(* Everything runs on one asyncio loop, so the code between two awaits is  *)
(* one step.  A cancelled task sees CancelledError when it is resumed: it  *)
(* is doomed until then and does nothing else.  Cancelling a worker that   *)
(* awaits an opening task cancels that task, and with it everybody who     *)
(* awaits it.  The waiters of an opening task are resumed back to back; a  *)
(* task is named by the worker that created it, who waits for it too.      *)
(* The lifecycle calls come from one supervisor that awaits each of them.  *)
(* A submission that is refused changes nothing and is not a step.         *)
(***************************************************************************)
EXTENDS Naturals, Sequences, FiniteSets

CONSTANTS
    Worker,         \* the worker tasks: max_inflight is their number
    Request,        \* request ids
    Generation,     \* the generation each request asks for
    QueueCapacity,
    None,           \* no task, no request
    MaxSubmits, MaxStarts,
    MaxFaults       \* bound on explicit cancels and crashes

VARIABLES
    state,       \* _state
    epoch,       \* _epoch
    ctl,         \* where the supervisor's lifecycle call is
    queue,       \* _queue: submissions not taken yet
    unfinished,  \* what _queue.join waits for: items without task_done
    subs,        \* submissions in order of acceptance: request and future
    tasks,       \* worker tasks
    active,      \* _active: the worker of each request
    terminal,    \* _terminal: the recorded response of each request
    opener,      \* a generation_opener was given
    opening,     \* _opening: the opening task to join for each generation
    flights,     \* the opening task each worker created, while it is awaited
    pins,        \* _pins
    closed,      \* pins whose generation_closer ran
    faults       \* explicit cancels and crashes so far

serving == <<queue, unfinished, subs, tasks, active, terminal, opening, flights, pins>>
lifecycle == <<state, epoch, ctl, closed>>
vars == <<serving, lifecycle, opener, faults>>

----------------------------------------------------------------------------

Generations == {Generation[r] : r \in Request}
Submission == 1..MaxSubmits
Future == {"pending", "result", "error", "failed", "cancelled"}
State == {"STOPPED", "READY", "DRAINING", "CRASHED"}
Control == {"none", "join", "gather", "close", "crashing"}
Flight == {"none", "running", "opened", "failed", "cancelled"}
NoTask == [pc |-> "none", job |-> 0, on |-> None, doomed |-> FALSE, epoch |-> 0]

ASSUME ConstantsAssumption ==
    /\ DOMAIN Generation = Request
    /\ QueueCapacity \in Nat \ {0}
    /\ IsFiniteSet(Worker) /\ None \notin Worker
    /\ MaxSubmits \in Nat /\ MaxStarts \in Nat /\ MaxFaults \in Nat

Alive == {w \in Worker : tasks[w].pc # "none"}
Req(n) == subs[n].req
Job(w) == tasks[w].job
Gen(w) == Generation[Req(Job(w))]
Waiting(v) == {w \in Worker : tasks[w].pc = "pin" /\ tasks[w].on = v}

(* if not future.done(): ... *)
Settle(futures, ns, outcome) ==
    [n \in DOMAIN futures |->
        IF n \in ns /\ futures[n].fut = "pending" THEN [futures[n] EXCEPT !.fut = outcome]
        ELSE futures[n]]

Idle(w) == [NoTask EXCEPT !.pc = "idle", !.epoch = tasks[w].epoch]
At(w, pc, n, v) == [tasks[w] EXCEPT !.pc = pc, !.job = n, !.on = v]

Init ==
    /\ state = "STOPPED" /\ epoch = 0 /\ ctl = "none"
    /\ queue = << >> /\ unfinished = 0 /\ subs = << >>
    /\ tasks = [w \in Worker |-> NoTask]
    /\ active = [r \in Request |-> None]
    /\ terminal = [r \in Request |-> None]
    /\ opener \in BOOLEAN
    /\ opening = [g \in Generations |-> None]
    /\ flights = [w \in Worker |-> "none"]
    /\ pins = {} /\ closed = {}
    /\ faults = 0

----------------------------------------------------------------------------
(* Clients *)

(* submit: refused unless READY; a recorded response is replayed, an active
   request and a full queue are refused *)
Submit(r) ==
    /\ Len(subs) < MaxSubmits
    /\ state = "READY"
    /\ terminal[r] = None
    /\ active[r] = None
    /\ Len(queue) < QueueCapacity
    /\ subs' = Append(subs, [req |-> r, fut |-> "pending"])
    /\ queue' = Append(queue, Len(subs) + 1)
    /\ unfinished' = unfinished + 1
    /\ UNCHANGED <<tasks, active, terminal, opening, flights, pins, lifecycle, opener, faults>>

(* task.cancel() on each task of ws: the opening a task awaits is cancelled
   with it, unless it has ended already *)
Doom(ws) ==
    /\ tasks' = [w \in Worker |->
         IF tasks[w].pc = "none" THEN tasks[w] ELSE [tasks[w] EXCEPT !.doomed = @ \/ w \in ws]]
    /\ flights' = [v \in Worker |->
         IF flights[v] = "running" /\ Waiting(v) \cap ws # {} THEN "cancelled" ELSE flights[v]]

(* cancel(request_id) with the futures as they are: an active request's worker
   is cancelled; otherwise the first queued submission of the request that is
   not settled gets DaemonError("request_cancelled") and stays in the queue *)
Cancel(r, futures) ==
    LET queued == {i \in DOMAIN queue : futures[queue[i]].req = r /\ futures[queue[i]].fut = "pending"}
        first == queue[CHOOSE i \in queued : \A j \in queued : i <= j]
    IN  IF active[r] # None
        THEN /\ Doom({active[r]})
             /\ subs' = futures
        ELSE /\ UNCHANGED <<tasks, flights>>
             /\ subs' = Settle(futures, IF queued = {} THEN {} ELSE {first}, "failed")

ClientCancel(r) ==
    /\ faults < MaxFaults
    /\ faults' = faults + 1
    /\ Cancel(r, subs)
    /\ UNCHANGED <<queue, unfinished, active, terminal, opening, pins, lifecycle, opener>>

(* the deadline passes: the future is cancelled and so is the request *)
Expire(n) ==
    /\ subs[n].fut = "pending"
    /\ Cancel(Req(n), [subs EXCEPT ![n].fut = "cancelled"])
    /\ UNCHANGED <<queue, unfinished, active, terminal, opening, pins, lifecycle, opener, faults>>

----------------------------------------------------------------------------
(* Workers *)

Taken == Head(queue)

(* queue.get() returns an item whose caller has given up *)
TakeSkipped(w) ==
    /\ tasks[w].pc = "idle" /\ ~tasks[w].doomed
    /\ queue # << >>
    /\ subs[Taken].fut = "cancelled"
    /\ queue' = Tail(queue)
    /\ unfinished' = unfinished - 1
    /\ UNCHANGED <<subs, tasks, active, terminal, opening, flights, pins, lifecycle, opener, faults>>

(* queue.get() and _pin up to the first await: a pinned generation, or one the
   opening task has just opened, goes straight to the handler; an opening task
   is joined or created; one that has just failed or been cancelled raises *)
Take(w) ==
    LET n == Taken
        g == Generation[Req(n)]
        v == IF opening[g] = None THEN w ELSE opening[g]
        found == IF g \in pins \/ ~opener THEN "opened" ELSE flights[v]
    IN  /\ tasks[w].pc = "idle" /\ ~tasks[w].doomed
        /\ queue # << >>
        /\ subs[n].fut # "cancelled"
        /\ queue' = Tail(queue)
        /\ CASE found = "opened" ->
                  /\ pins' = pins \cup {g}
                  /\ opening' = [opening EXCEPT ![g] = IF g \in pins THEN @ ELSE None]
                  /\ tasks' = [tasks EXCEPT ![w] = At(w, "run", n, None)]
                  /\ active' = [active EXCEPT ![Req(n)] = w]
                  /\ UNCHANGED <<unfinished, subs, flights>>
             [] found \in {"none", "running"} ->
                  /\ opening' = [opening EXCEPT ![g] = v]
                  /\ flights' = [flights EXCEPT ![v] = "running"]
                  /\ tasks' = [tasks EXCEPT ![w] = At(w, "pin", n, v)]
                  /\ active' = [active EXCEPT ![Req(n)] = w]
                  /\ UNCHANGED <<unfinished, subs, pins>>
             [] found \in {"failed", "cancelled"} ->
                  /\ opening' = [opening EXCEPT ![g] = None]
                  /\ tasks' = [tasks EXCEPT ![w] = IF found = "failed" THEN Idle(w) ELSE NoTask]
                  /\ subs' = Settle(subs, {n}, IF found = "failed" THEN "error" ELSE "failed")
                  /\ active' = [active EXCEPT ![Req(n)] = None]
                  /\ unfinished' = unfinished - 1
                  /\ UNCHANGED <<pins, flights>>
        /\ UNCHANGED <<terminal, lifecycle, opener, faults>>

(* the generation_opener (external) returns or raises *)
OpenEnd(v) ==
    /\ flights[v] = "running"
    /\ \E outcome \in {"opened", "failed"} : flights' = [flights EXCEPT ![v] = outcome]
    /\ UNCHANGED <<queue, unfinished, subs, tasks, active, terminal, opening, pins, lifecycle, opener, faults>>

(* the waiters of an opening task are resumed: each one that is not cancelled
   itself gets the task's outcome, and a cancelled opening ends the workers.
   Whatever opening is in the table by now is dropped from it. *)
Deliver(v) ==
    LET woken == Waiting(v)
        dead == {w \in woken : tasks[w].doomed \/ flights[v] = "cancelled"}
        failed == {w \in woken \ dead : flights[v] = "failed"}
        going == woken \ (dead \cup failed)
    IN  /\ flights[v] \in {"opened", "failed", "cancelled"}
        /\ tasks' = [w \in Worker |->
             CASE w \in dead -> NoTask [] w \in failed -> Idle(w)
               [] w \in going -> At(w, "run", Job(w), None) [] OTHER -> tasks[w]]
        /\ subs' = Settle(Settle(subs, {Job(w) : w \in dead}, "failed"),
                          {Job(w) : w \in failed}, "error")
        /\ active' = [r \in Request |-> IF \E w \in dead \cup failed : Req(Job(w)) = r
                                        THEN None ELSE active[r]]
        /\ unfinished' = unfinished - Cardinality(dead \cup failed)
        /\ pins' = pins \cup {Gen(w) : w \in going}
        /\ flights' = [flights EXCEPT ![v] = "none"]
        /\ opening' = [opening EXCEPT ![Gen(v)] = None]
        /\ UNCHANGED <<queue, terminal, lifecycle, opener, faults>>

(* the handler (external) returns a result or raises; the response is recorded
   even when the caller is gone *)
Finish(w) ==
    /\ tasks[w].pc = "run" /\ ~tasks[w].doomed
    /\ \/ /\ terminal' = [terminal EXCEPT ![Req(Job(w))] =
                            [epoch |-> epoch, began |-> tasks[w].epoch]]
          /\ subs' = Settle(subs, {Job(w)}, "result")
       \/ /\ subs' = Settle(subs, {Job(w)}, "error")
          /\ UNCHANGED terminal
    /\ tasks' = [tasks EXCEPT ![w] = Idle(w)]
    /\ active' = [active EXCEPT ![Req(Job(w))] = None]
    /\ unfinished' = unfinished - 1
    /\ UNCHANGED <<queue, opening, flights, pins, lifecycle, opener, faults>>

(* Mutant: a cancelled worker does not report its item done. *)
DieSilent(w) ==
    /\ tasks[w].doomed
    /\ tasks[w].pc \in {"idle", "run"}
    /\ tasks' = [tasks EXCEPT ![w] = NoTask]
    /\ IF tasks[w].pc = "idle" THEN UNCHANGED <<subs, active>>
       ELSE /\ subs' = Settle(subs, {Job(w)}, "failed")
            /\ active' = [active EXCEPT ![Req(Job(w))] = None]
    /\ UNCHANGED <<queue, unfinished, terminal, opening, flights, pins, lifecycle, opener, faults>>

(* CancelledError is raised at the worker's await: the task ends *)
Die(w) ==
    /\ tasks[w].doomed
    /\ tasks[w].pc \in {"idle", "run"}
    /\ tasks' = [tasks EXCEPT ![w] = NoTask]
    /\ IF tasks[w].pc = "idle" THEN UNCHANGED <<subs, active, unfinished>>
       ELSE /\ subs' = Settle(subs, {Job(w)}, "failed")
            /\ active' = [active EXCEPT ![Req(Job(w))] = None]
            /\ unfinished' = unfinished - 1
    /\ UNCHANGED <<queue, terminal, opening, flights, pins, lifecycle, opener, faults>>

----------------------------------------------------------------------------
(* The supervisor *)

(* start(): a new set of workers; none of an earlier one is left by then *)
Start ==
    /\ ctl = "none"
    /\ state \in {"STOPPED", "CRASHED"}
    /\ epoch < MaxStarts
    /\ epoch' = epoch + 1
    /\ state' = "READY"
    /\ tasks' = [w \in Worker |-> IF w \in Alive THEN tasks[w]
                                  ELSE [NoTask EXCEPT !.pc = "idle", !.epoch = epoch']]
    /\ UNCHANGED <<ctl, closed, queue, unfinished, subs, active, terminal, opening, flights, pins, opener, faults>>

(* shutdown(drain=True) waits for the queue, shutdown(drain=False) does not *)
ShutdownDrain ==
    /\ ctl = "none"
    /\ state # "STOPPED"
    /\ state' = "DRAINING"
    /\ ctl' = "join"
    /\ UNCHANGED <<epoch, closed, serving, opener, faults>>

StopWorkers ==
    /\ ctl' = "gather"
    /\ Doom(Worker)
    /\ UNCHANGED <<epoch, closed, queue, unfinished, subs, active, terminal, opening, pins, opener, faults>>

ShutdownNow ==
    /\ ctl = "none"
    /\ state # "STOPPED"
    /\ state' = "DRAINING"
    /\ StopWorkers

(* _queue.join() returns *)
Joined ==
    /\ ctl = "join"
    /\ unfinished = 0
    /\ UNCHANGED state
    /\ StopWorkers

(* Mutant: the pins are closed without waiting for the workers. *)
GatheredEarly ==
    /\ ctl = "gather"
    /\ ctl' = "close"
    /\ UNCHANGED <<state, epoch, closed, serving, opener, faults>>

(* asyncio.gather returns: every worker has ended *)
Gathered ==
    /\ ctl = "gather"
    /\ Alive = {}
    /\ ctl' = "close"
    /\ UNCHANGED <<state, epoch, closed, serving, opener, faults>>

ClosePin(g) ==
    /\ ctl = "close"
    /\ g \in pins \ closed
    /\ closed' = closed \cup {g}
    /\ UNCHANGED <<state, epoch, ctl, serving, opener, faults>>

Stopped ==
    /\ ctl = "close"
    /\ pins \subseteq closed
    /\ pins' = {} /\ closed' = {}
    /\ state' = "STOPPED"
    /\ ctl' = "none"
    /\ UNCHANGED <<epoch, queue, unfinished, subs, tasks, active, terminal, opening, flights, opener, faults>>

(* crash(): the workers are cancelled and awaited; queue and pins stay *)
Crash ==
    /\ ctl = "none"
    /\ faults < MaxFaults
    /\ faults' = faults + 1
    /\ state' = "CRASHED"
    /\ ctl' = "crashing"
    /\ Doom(Worker)
    /\ UNCHANGED <<epoch, closed, queue, unfinished, subs, active, terminal, opening, pins, opener>>

CrashEnd ==
    /\ ctl = "crashing"
    /\ Alive = {}
    /\ ctl' = "none"
    /\ active' = [r \in Request |-> None]
    /\ UNCHANGED <<state, epoch, closed, queue, unfinished, subs, tasks, terminal, opening, flights, pins, opener, faults>>

----------------------------------------------------------------------------

WorkerStep == \E w \in Worker : TakeSkipped(w) \/ Take(w) \/ Finish(w) \/ Die(w)
OpeningStep == \E v \in Worker : OpenEnd(v) \/ Deliver(v)
Deadline == \E n \in DOMAIN subs : Expire(n)
Closing == Joined \/ Gathered \/ (\E g \in Generations : ClosePin(g)) \/ Stopped \/ CrashEnd
Client == \E r \in Request : Submit(r) \/ ClientCancel(r)
Supervisor == Start \/ ShutdownDrain \/ ShutdownNow \/ Crash

Loop == WorkerStep \/ OpeningStep \/ Deadline \/ Closing
Next == Loop \/ Client \/ Supervisor

Spec == Init /\ [][Next]_vars

(* The loop runs what is ready, deadlines pass, handlers and openers return. *)
FairSpec == Spec /\ WF_vars(Loop)

----------------------------------------------------------------------------
(* Properties *)

TypeOK ==
    /\ state \in State /\ epoch \in 0..MaxStarts /\ ctl \in Control
    /\ queue \in Seq(Submission)
    /\ unfinished \in Nat
    /\ subs \in Seq([req : Request, fut : Future])
    /\ tasks \in [Worker -> [pc : {"none", "idle", "pin", "run"}, job : 0..MaxSubmits,
                              on : Worker \cup {None}, doomed : BOOLEAN, epoch : 0..MaxStarts]]
    /\ active \in [Request -> Worker \cup {None}]
    /\ terminal \in [Request -> {None} \cup [epoch : 1..MaxStarts, began : 1..MaxStarts]]
    /\ opener \in BOOLEAN
    /\ opening \in [Generations -> Worker \cup {None}] /\ flights \in [Worker -> Flight]
    /\ pins \subseteq Generations /\ closed \subseteq Generations
    /\ faults \in 0..MaxFaults

(* A handler only runs on a generation that is pinned and not yet closed,
   whoever opened it, and whatever cancel, crash or shutdown is under way. *)
HandlersHavePin ==
    \A w \in Worker : tasks[w].pc = "run" => Gen(w) \in pins \ closed

(* What _queue.join waits for is what is left to do: the queued items and the
   ones a worker holds.  A drain neither returns early nor counts lost work. *)
JoinIsExact ==
    unfinished = Len(queue) + Cardinality({w \in Worker : Job(w) # 0})

(* A drained shutdown settles every accepted request: when join returns no
   caller is left with a pending future. *)
DrainSettles ==
    [][ctl = "join" /\ ctl' = "gather" => \A n \in DOMAIN subs : subs[n].fut # "pending"]_vars

(* A response belongs to the daemon epoch in which its handler started: work a
   crash interrupted is never reported as completed after the restart. *)
ResponseKeepsEpoch ==
    \A r \in Request : terminal[r] # None => terminal[r].epoch = terminal[r].began

(* A drain ends as long as a worker is left. *)
ServedDrainEnds == ctl = "join" ~> state = "STOPPED" \/ Alive = {}

(* A drain settles every accepted request before it goes on, and ends. *)
DrainIsSound == DrainSettles /\ ServedDrainEnds

(* shutdown(drain=True) ends with the daemon stopped. *)
DrainEnds == ctl = "join" ~> state = "STOPPED"

(* A request cancelled while it is queued never reaches the handler. *)
CancelledIsSkipped ==
    \A w \in Worker : tasks[w].pc = "run" => subs[Job(w)].fut # "failed"

(* The daemon keeps account of its work through cancels, deadlines, a crash and a
   restart: handlers run on open pins, join counts what is left, and no response
   crosses a crash. *)
WorkIsAccounted == TypeOK /\ HandlersHavePin /\ JoinIsExact /\ ResponseKeepsEpoch
=============================================================================
