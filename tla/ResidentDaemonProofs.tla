------------------------- MODULE ResidentDaemonProofs -------------------------
(***************************************************************************)
(* Proofs about the resident daemon: the account it keeps of its work, for *)
(* every number of workers and requests, every capacity of the queue and   *)
(* every number of cancels, crashes and restarts.                          *)
(***************************************************************************)
EXTENDS ResidentDaemon, FiniteSetTheorems, TLAPS

Sub == [req : Request, fut : Future]
Task == [pc : {"none", "idle", "pin", "run"}, job : 0..MaxSubmits,
         on : Worker \cup {None}, doomed : BOOLEAN, epoch : 0..MaxStarts]

Held == {"pin", "run"}
Busy == {w \in Worker : Job(w) # 0}

(* Every submission whose caller still waits is queued or held by a worker, and what a
   worker holds is a submission of the present start. *)
QueuedAreSubmitted == \A i \in 1..Len(queue) : queue[i] \in 1..Len(subs)
WorkersHoldTheirJobs ==
    \A w \in Worker :
        /\ Job(w) \in 0..Len(subs)
        /\ Job(w) # 0 <=> tasks[w].pc \in Held
        /\ tasks[w].pc # "none" => tasks[w].epoch = epoch /\ epoch # 0
PendingAreHeld ==
    \A n \in 1..Len(subs) : subs[n].fut = "pending" =>
        (\E i \in 1..Len(queue) : queue[i] = n) \/ (\E w \in Worker : Job(w) = n)

WorkInv ==
    /\ QueuedAreSubmitted
    /\ WorkersHoldTheirJobs
    /\ JoinIsExact
    /\ PendingAreHeld

(* Nothing runs while the pins are closed, nor while the daemon is down. *)
DownIsQuiet ==
    /\ ctl = "close" \/ (ctl = "none" /\ state \in {"STOPPED", "CRASHED"}) => Alive = {}
    /\ closed # {} => ctl = "close"

DaemonInv == TypeOK /\ WorkInv /\ DownIsQuiet /\ HandlersHavePin /\ ResponseKeepsEpoch

----------------------------------------------------------------------------
(* The operators of the model *)

LEMMA Typed ==
    ASSUME TypeOK
    PROVE  /\ tasks \in [Worker -> Task] /\ subs \in Seq(Sub) /\ queue \in Seq(Submission)
           /\ Len(subs) \in Nat /\ Len(queue) \in Nat /\ DOMAIN subs = 1..Len(subs)
           /\ \A n \in 1..Len(subs) : subs[n] \in Sub /\ Req(n) \in Request /\ subs[n].fut \in Future
<1>1. tasks \in [Worker -> Task] /\ subs \in Seq(Sub) /\ queue \in Seq(Submission)
  BY DEF TypeOK, Task, Sub
<1>2. /\ Len(subs) \in Nat /\ Len(queue) \in Nat /\ DOMAIN subs = 1..Len(subs)
      /\ \A n \in 1..Len(subs) : subs[n] \in Sub
  BY <1>1
<1>3. \A s \in Sub : s.req \in Request /\ s.fut \in Future
  BY DEF Sub
<1> QED
  BY <1>1, <1>2, <1>3 DEF Req

(* Settling changes no request and brings no future back to pending. *)
LEMMA Settled ==
    ASSUME NEW futures \in Seq(Sub), NEW ns, NEW outcome \in Future \ {"pending"}
    PROVE  LET after == Settle(futures, ns, outcome) IN
           /\ after \in Seq(Sub) /\ Len(after) = Len(futures)
           /\ \A n \in 1..Len(futures) :
                 /\ after[n].req = futures[n].req
                 /\ after[n].fut = "pending" => futures[n].fut = "pending" /\ n \notin ns
<1> DEFINE after == Settle(futures, ns, outcome)
<1>1. Len(futures) \in Nat /\ DOMAIN futures = 1..Len(futures)
  OBVIOUS
<1>2. \A n \in 1..Len(futures) :
         after[n] = IF n \in ns /\ futures[n].fut = "pending" THEN [futures[n] EXCEPT !.fut = outcome]
                    ELSE futures[n]
  BY <1>1 DEF Settle
<1>3. ASSUME NEW n \in 1..Len(futures)
      PROVE  /\ after[n] \in Sub /\ after[n].req = futures[n].req
             /\ after[n].fut = "pending" => futures[n].fut = "pending" /\ n \notin ns
  <2>1. futures[n] \in Sub
    BY <1>1
  <2>2. /\ [futures[n] EXCEPT !.fut = outcome] \in Sub
        /\ [futures[n] EXCEPT !.fut = outcome].req = futures[n].req
        /\ [futures[n] EXCEPT !.fut = outcome].fut = outcome
    BY <2>1 DEF Sub
  <2> QED
    BY <1>2, <2>1, <2>2
<1>4. after = [n \in 1..Len(futures) |-> after[n]]
  BY <1>1 DEF Settle
<1>5. after \in Seq(Sub) /\ Len(after) = Len(futures)
  <2> HIDE DEF after
  <2> QED
    BY <1>1, <1>3, <1>4
<1> QED
  BY <1>3, <1>5

LEMMA TasksAreTyped ==
    ASSUME TypeOK, NEW w \in Worker
    PROVE  /\ tasks[w] \in Task
           /\ Idle(w) \in Task /\ Idle(w).pc = "idle" /\ Idle(w).job = 0 /\ Idle(w).epoch = tasks[w].epoch
           /\ NoTask \in Task /\ NoTask.pc = "none" /\ NoTask.job = 0
           /\ \A pc \in {"pin", "run"}, n \in Submission, v \in Worker \cup {None} :
                 /\ At(w, pc, n, v) \in Task /\ At(w, pc, n, v).pc = pc /\ At(w, pc, n, v).job = n
                 /\ At(w, pc, n, v).epoch = tasks[w].epoch
<1>1. tasks[w] \in Task
  BY Typed
<1>2. tasks[w].epoch \in 0..MaxStarts
  BY <1>1 DEF Task
<1>3. NoTask \in Task
  BY ConstantsAssumption DEF NoTask, Task
<1>4. /\ Idle(w) \in Task /\ Idle(w).pc = "idle" /\ Idle(w).job = NoTask.job
      /\ Idle(w).epoch = tasks[w].epoch
  BY <1>2, <1>3 DEF Idle, Task
<1>5. ASSUME NEW pc \in {"pin", "run"}, NEW n \in Submission, NEW v \in Worker \cup {None}
      PROVE  /\ At(w, pc, n, v) \in Task /\ At(w, pc, n, v).pc = pc /\ At(w, pc, n, v).job = n
             /\ At(w, pc, n, v).epoch = tasks[w].epoch
  <2>1. pc \in {"none", "idle", "pin", "run"} /\ n \in 0..MaxSubmits
    BY <1>5, ConstantsAssumption DEF Submission
  <2> QED
    BY <1>1, <2>1 DEF At, Task
<1> QED
  BY <1>1, <1>3, <1>4, <1>5 DEF NoTask

LEMMA BusyIsFinite ==
    ASSUME TypeOK
    PROVE  /\ IsFiniteSet(Busy) /\ Cardinality(Busy) \in Nat
           /\ JoinIsExact <=> unfinished = Len(queue) + Cardinality(Busy)
<1>1. IsFiniteSet(Busy)
  BY ConstantsAssumption, FS_Subset DEF Busy
<1> QED
  BY <1>1, FS_CardinalityType DEF JoinIsExact, Busy

(* A step at which the workers of D are done with what they held: their callers are
   settled and the queue is told.  With D empty it is a step that leaves the work alone. *)
WorkEndsAt(D) ==
    /\ UNCHANGED <<queue, epoch>> /\ unfinished' = unfinished - Cardinality(D)
    /\ tasks' \in [Worker -> Task]
    /\ \A w \in D : tasks'[w].job = 0 /\ tasks'[w].pc \notin Held
    /\ \A w \in Worker \ D : tasks'[w].job = tasks[w].job /\ (tasks'[w].pc \in Held <=> tasks[w].pc \in Held)
    /\ \A w \in Worker : tasks'[w].pc # "none" => tasks[w].pc # "none" /\ tasks'[w].epoch = tasks[w].epoch
    /\ subs' \in Seq(Sub) /\ Len(subs') = Len(subs)
    /\ \A n \in 1..Len(subs) : subs'[n].fut = "pending" => subs[n].fut = "pending" /\ \A w \in D : Job(w) # n

LEMMA WorkEnds ==
    ASSUME TypeOK, WorkInv, NEW D \in SUBSET Busy, WorkEndsAt(D)
    PROVE  WorkInv' /\ unfinished' \in Nat /\ Alive' \subseteq Alive
<1> USE DEF WorkEndsAt
<1>1. Len(subs) \in Nat /\ Len(queue) \in Nat /\ D \subseteq Worker
  BY Typed DEF Busy
<1>2. Busy' = Busy \ D
  BY <1>1 DEF Busy, Job
<1>3. /\ IsFiniteSet(D) /\ Cardinality(D) \in Nat /\ Cardinality(D) <= Cardinality(Busy)
      /\ Cardinality(Busy') = Cardinality(Busy) - Cardinality(D)
  <2>1. IsFiniteSet(D) /\ Cardinality(D) <= Cardinality(Busy)
    BY BusyIsFinite, FS_Subset
  <2>2. Busy \cap D = D
    OBVIOUS
  <2>3. Cardinality(D) \in Nat
    BY <2>1, FS_CardinalityType
  <2>4. Cardinality(Busy \ D) = Cardinality(Busy) - Cardinality(Busy \cap D)
    BY BusyIsFinite, FS_Difference
  <2> QED
    BY <1>2, <2>1, <2>2, <2>3, <2>4
<1>4. unfinished' = Len(queue') + Cardinality(Busy')
  BY <1>1, <1>3, BusyIsFinite DEF WorkInv
<1>5. unfinished' \in Nat /\ JoinIsExact'
  BY <1>1, <1>3, <1>4, BusyIsFinite DEF JoinIsExact, Busy
<1>6. QueuedAreSubmitted'
  BY <1>1 DEF WorkInv, QueuedAreSubmitted
<1>7. WorkersHoldTheirJobs'
  BY <1>1 DEF WorkInv, WorkersHoldTheirJobs, Job
<1>8. PendingAreHeld'
  BY <1>1 DEF WorkInv, PendingAreHeld, Job
<1>9. Alive' \subseteq Alive
  BY DEF Alive
<1> QED
  BY <1>5, <1>6, <1>7, <1>8, <1>9 DEF WorkInv

(* A step that leaves the work alone. *)
LEMMA WorkStays ==
    ASSUME TypeOK, WorkInv, UNCHANGED <<queue, epoch, unfinished>>,
           tasks' \in [Worker -> Task],
           \A w \in Worker : /\ tasks'[w].job = tasks[w].job /\ tasks'[w].pc = tasks[w].pc
                             /\ tasks'[w].epoch = tasks[w].epoch,
           subs' \in Seq(Sub), Len(subs') = Len(subs),
           \A n \in 1..Len(subs) : subs'[n].fut = "pending" => subs[n].fut = "pending"
    PROVE  WorkInv' /\ unfinished' \in Nat /\ Alive' = Alive
<1>1. WorkEndsAt({})
  <2>1. unfinished \in Nat /\ Cardinality({}) = 0
    BY FS_EmptySet DEF TypeOK
  <2> QED
    BY <2>1 DEF WorkEndsAt
<1>2. Alive' = Alive
  BY DEF Alive
<1> QED
  BY <1>1, <1>2, WorkEnds


----------------------------------------------------------------------------
(* Clients *)

LEMMA SubmitKeeps == ASSUME DaemonInv, NEW r \in Request, Submit(r) PROVE DaemonInv'
<1> DEFINE s == [req |-> r, fut |-> "pending"]
<1>0. /\ Len(subs) < MaxSubmits /\ subs' = Append(subs, s) /\ queue' = Append(queue, Len(subs) + 1)
      /\ unfinished' = unfinished + 1
      /\ UNCHANGED <<tasks, active, terminal, opening, flights, pins, lifecycle, opener, faults>>
  BY DEF Submit
<1>1. s \in Sub /\ Len(subs) + 1 \in Submission
  BY <1>0, Typed, ConstantsAssumption DEF DaemonInv, Sub, Future, Submission
<1> HIDE DEF s
<1>2. /\ subs' \in Seq(Sub) /\ Len(subs') = Len(subs) + 1
      /\ \A n \in 1..Len(subs) : subs'[n] = subs[n]
  BY <1>0, <1>1, Typed DEF DaemonInv
<1>3. /\ queue' \in Seq(Submission) /\ Len(queue') = Len(queue) + 1 /\ queue'[Len(queue) + 1] = Len(subs) + 1
      /\ \A i \in 1..Len(queue) : queue'[i] = queue[i]
  BY <1>0, <1>1, Typed DEF DaemonInv
<1>4. Len(subs) \in Nat /\ Len(queue) \in Nat
  BY Typed DEF DaemonInv
<1>5. TypeOK'
  BY <1>0, <1>2, <1>3 DEF DaemonInv, TypeOK, lifecycle, Sub
<1>6. QueuedAreSubmitted' /\ WorkersHoldTheirJobs'
  BY <1>0, <1>2, <1>3, <1>4 DEF DaemonInv, WorkInv, QueuedAreSubmitted, WorkersHoldTheirJobs, Job, lifecycle
<1>7. Busy' = Busy
  BY <1>0 DEF Busy, Job
<1>8. JoinIsExact'
  <2>1. unfinished' = Len(queue') + Cardinality(Busy')
    BY <1>0, <1>3, <1>4, <1>7, BusyIsFinite DEF DaemonInv, WorkInv
  <2> QED
    BY <2>1 DEF JoinIsExact, Busy
<1>9. PendingAreHeld'
  <2> SUFFICES ASSUME NEW n \in 1..Len(subs'), subs'[n].fut = "pending"
               PROVE  (\E i \in 1..Len(queue') : queue'[i] = n) \/ \E w \in Worker : Job(w)' = n
    BY DEF PendingAreHeld
  <2>1. CASE n = Len(subs) + 1
    <3>1. Len(queue) + 1 \in 1..Len(queue')
      BY <1>3, <1>4
    <3> QED
      BY <1>3, <2>1, <3>1
  <2>2. CASE n # Len(subs) + 1
    <3>1. n \in 1..Len(subs) /\ subs[n].fut = "pending"
      BY <1>2, <1>4, <2>2
    <3>2. \A w \in Worker : Job(w)' = Job(w)
      BY <1>0 DEF Job
    <3>3. (\E i \in 1..Len(queue) : queue[i] = n) \/ \E w \in Worker : Job(w) = n
      BY <3>1 DEF DaemonInv, WorkInv, PendingAreHeld
    <3>4. \A i \in 1..Len(queue) : i \in 1..Len(queue')
      BY <1>3, <1>4
    <3> QED
      BY <1>3, <3>2, <3>3, <3>4
  <2> QED
    BY <2>1, <2>2
<1>10. DownIsQuiet' /\ ResponseKeepsEpoch'
  BY <1>0 DEF DaemonInv, DownIsQuiet, ResponseKeepsEpoch, Alive, lifecycle
<1>11. HandlersHavePin'
  <2> SUFFICES ASSUME NEW w \in Worker, tasks[w].pc = "run" PROVE Gen(w)' \in pins' \ closed'
    BY <1>0 DEF HandlersHavePin
  <2>1. Job(w) \in 1..Len(subs)
    BY <1>4 DEF DaemonInv, WorkInv, WorkersHoldTheirJobs, Held
  <2>2. Gen(w)' = Gen(w)
    BY <1>0, <1>2, <2>1 DEF Gen, Req, Job
  <2> QED
    BY <1>0, <2>2 DEF DaemonInv, HandlersHavePin, lifecycle
<1> QED
  BY <1>5, <1>6, <1>8, <1>9, <1>10, <1>11 DEF DaemonInv, WorkInv

(* Doom marks tasks and leaves what they hold. *)
LEMMA Doomed ==
    ASSUME TypeOK, NEW ws, Doom(ws)
    PROVE  /\ tasks' \in [Worker -> Task] /\ flights' \in [Worker -> Flight]
           /\ \A w \in Worker : tasks'[w].job = tasks[w].job /\ tasks'[w].pc = tasks[w].pc
                                /\ tasks'[w].epoch = tasks[w].epoch
<1>1. ASSUME NEW t \in Task, NEW b
      PROVE  /\ [t EXCEPT !.doomed = t.doomed \/ b] \in Task
             /\ [t EXCEPT !.doomed = t.doomed \/ b].job = t.job
             /\ [t EXCEPT !.doomed = t.doomed \/ b].pc = t.pc
             /\ [t EXCEPT !.doomed = t.doomed \/ b].epoch = t.epoch
  <2>1. PICK c \in BOOLEAN : c = (t.doomed \/ b)
    OBVIOUS
  <2>2. /\ [t EXCEPT !.doomed = c] \in Task /\ [t EXCEPT !.doomed = c].job = t.job
        /\ [t EXCEPT !.doomed = c].pc = t.pc /\ [t EXCEPT !.doomed = c].epoch = t.epoch
    BY <2>1 DEF Task
  <2> QED
    BY <2>1, <2>2
<1>2. \A w \in Worker : tasks'[w] = IF tasks[w].pc = "none" THEN tasks[w]
                                    ELSE [tasks[w] EXCEPT !.doomed = tasks[w].doomed \/ w \in ws]
  BY DEF Doom
<1>3. ASSUME NEW w \in Worker
      PROVE  /\ tasks'[w] \in Task /\ tasks'[w].job = tasks[w].job /\ tasks'[w].pc = tasks[w].pc
             /\ tasks'[w].epoch = tasks[w].epoch
  <2>1. tasks[w] \in Task
    BY Typed
  <2> QED
    BY <1>1, <1>2, <2>1
<1>4. tasks' = [w \in Worker |-> tasks'[w]]
  BY DEF Doom
<1>5. flights' \in [Worker -> Flight]
  BY DEF Doom, TypeOK, Flight
<1> QED
  BY <1>3, <1>4, <1>5


(* A cancel settles at most one future, and no worker ends before it is resumed. *)
LEMMA CancelLeavesWork ==
    ASSUME DaemonInv, NEW r \in Request, NEW futures \in Seq(Sub), Len(futures) = Len(subs),
           \A n \in 1..Len(subs) : /\ futures[n].req = subs[n].req
                                   /\ futures[n].fut = "pending" => subs[n].fut = "pending",
           Cancel(r, futures)
    PROVE  /\ tasks' \in [Worker -> Task] /\ flights' \in [Worker -> Flight]
           /\ \A w \in Worker : tasks'[w].job = tasks[w].job /\ tasks'[w].pc = tasks[w].pc
                                /\ tasks'[w].epoch = tasks[w].epoch
           /\ subs' \in Seq(Sub) /\ Len(subs') = Len(subs)
           /\ \A n \in 1..Len(subs) : /\ subs'[n].req = subs[n].req
                                      /\ subs'[n].fut = "pending" => subs[n].fut = "pending"
<1>1. CASE active[r] # None
  <2>1. Doom({active[r]}) /\ subs' = futures
    BY <1>1 DEF Cancel
  <2> QED
    BY <2>1, Doomed DEF DaemonInv
<1>2. CASE active[r] = None
  <2>1. UNCHANGED <<tasks, flights>> /\ \E ns : subs' = Settle(futures, ns, "failed")
    BY <1>2 DEF Cancel
  <2>2. "failed" \in Future \ {"pending"}
    BY DEF Future
  <2>3. tasks \in [Worker -> Task] /\ flights \in [Worker -> Flight]
    BY Typed DEF DaemonInv, TypeOK
  <2> QED
    BY <2>1, <2>2, <2>3, Settled
<1> QED
  BY <1>1, <1>2

(* What the handlers have stays theirs where the pins stay. *)
LEMMA HandlersKeepPin ==
    ASSUME DaemonInv, UNCHANGED <<pins, closed>>, tasks' \in [Worker -> Task],
           \A w \in Worker : tasks'[w].pc = "run" => tasks[w].pc = "run" /\ tasks'[w].job = tasks[w].job,
           \A n \in 1..Len(subs) : subs'[n].req = subs[n].req
    PROVE  HandlersHavePin'
<1> SUFFICES ASSUME NEW w \in Worker, tasks'[w].pc = "run" PROVE Gen(w)' \in pins' \ closed'
  BY DEF HandlersHavePin
<1>1. tasks[w].pc = "run" /\ Job(w) \in 1..Len(subs)
  BY Typed DEF DaemonInv, WorkInv, WorkersHoldTheirJobs, Held
<1>2. Gen(w)' = Gen(w)
  BY <1>1 DEF Gen, Req, Job
<1> QED
  BY <1>1, <1>2 DEF DaemonInv, HandlersHavePin

LEMMA CancelKeeps ==
    ASSUME DaemonInv, NEW r \in Request, NEW futures \in Seq(Sub), Len(futures) = Len(subs),
           \A n \in 1..Len(subs) : /\ futures[n].req = subs[n].req
                                   /\ futures[n].fut = "pending" => subs[n].fut = "pending",
           Cancel(r, futures), faults' \in 0..MaxFaults,
           UNCHANGED <<queue, unfinished, active, terminal, opening, pins, lifecycle, opener>>
    PROVE  DaemonInv'
<1>1. /\ tasks' \in [Worker -> Task] /\ flights' \in [Worker -> Flight]
      /\ \A w \in Worker : tasks'[w].job = tasks[w].job /\ tasks'[w].pc = tasks[w].pc
                           /\ tasks'[w].epoch = tasks[w].epoch
      /\ subs' \in Seq(Sub) /\ Len(subs') = Len(subs)
      /\ \A n \in 1..Len(subs) : /\ subs'[n].req = subs[n].req
                                 /\ subs'[n].fut = "pending" => subs[n].fut = "pending"
  BY CancelLeavesWork
<1>2. TypeOK'
  BY <1>1 DEF DaemonInv, TypeOK, lifecycle, Sub, Task
<1>3. WorkInv' /\ Alive' = Alive
  BY <1>1, WorkStays DEF DaemonInv, lifecycle
<1>4. HandlersHavePin'
  BY <1>1, HandlersKeepPin DEF lifecycle
<1>5. DownIsQuiet' /\ ResponseKeepsEpoch'
  BY <1>3 DEF DaemonInv, DownIsQuiet, ResponseKeepsEpoch, lifecycle
<1> QED
  BY <1>2, <1>3, <1>4, <1>5 DEF DaemonInv

LEMMA ClientsKeep ==
    ASSUME DaemonInv, Client \/ Deadline
    PROVE  DaemonInv'
<1>1. ASSUME NEW r \in Request, ClientCancel(r) PROVE DaemonInv'
  <2>1. faults' \in 0..MaxFaults
    BY <1>1, ConstantsAssumption DEF ClientCancel, DaemonInv, TypeOK
  <2> QED
    BY <1>1, <2>1, CancelKeeps, Typed DEF ClientCancel, DaemonInv
<1>2. ASSUME NEW n \in DOMAIN subs, Expire(n) PROVE DaemonInv'
  <2>1. n \in 1..Len(subs) /\ subs \in Seq(Sub) /\ Len(subs) \in Nat /\ Req(n) \in Request
    BY Typed DEF DaemonInv
  <2> DEFINE s == [subs[n] EXCEPT !.fut = "cancelled"]
             futures == [subs EXCEPT ![n] = s]
  <2>2. s \in Sub /\ s.req = subs[n].req /\ s.fut = "cancelled"
    BY <2>1, Typed DEF DaemonInv, Sub, Future
  <2>3. Cancel(Req(n), futures)
    BY <1>2 DEF Expire
  <2>4. faults' \in 0..MaxFaults /\ UNCHANGED <<queue, unfinished, active, terminal, opening, pins, lifecycle, opener>>
    BY <1>2 DEF Expire, DaemonInv, TypeOK
  <2> HIDE DEF s
  <2>5. /\ futures \in Seq(Sub) /\ Len(futures) = Len(subs)
        /\ \A m \in 1..Len(subs) : /\ futures[m].req = subs[m].req
                                   /\ futures[m].fut = "pending" => subs[m].fut = "pending"
    BY <2>1, <2>2
  <2> HIDE DEF futures
  <2> QED
    BY <2>1, <2>3, <2>4, <2>5, CancelKeeps
<1> QED
  BY <1>1, <1>2, SubmitKeeps DEF Client, Deadline


----------------------------------------------------------------------------
(* Workers *)

LEMMA Queued ==
    ASSUME TypeOK, WorkInv, queue # << >>
    PROVE  /\ Taken = queue[1] /\ Taken \in 1..Len(subs) /\ Taken \in Submission /\ Len(queue) \in Nat \ {0}
           /\ Tail(queue) \in Seq(Submission) /\ Len(Tail(queue)) = Len(queue) - 1
           /\ \A i \in 1..(Len(queue) - 1) : Tail(queue)[i] = queue[i + 1]
<1>1. queue \in Seq(Submission)
  BY Typed
<1>2. /\ Taken = queue[1] /\ Taken \in Submission /\ Len(queue) \in Nat \ {0}
      /\ Tail(queue) \in Seq(Submission) /\ Len(Tail(queue)) = Len(queue) - 1
      /\ \A i \in 1..(Len(queue) - 1) : Tail(queue)[i] = queue[i + 1]
  BY <1>1 DEF Taken
<1> QED
  BY <1>2 DEF WorkInv, QueuedAreSubmitted

(* An idle worker takes the first item: it holds it from now on, or the item is done with. *)
LEMMA TakingKeepsWork ==
    ASSUME DaemonInv, queue # << >>, NEW w \in Worker, tasks[w].pc = "idle", NEW t \in Task,
           queue' = Tail(queue), UNCHANGED epoch, tasks' = [tasks EXCEPT ![w] = t],
           subs' \in Seq(Sub), Len(subs') = Len(subs),
           \A n \in 1..Len(subs) : subs'[n].fut = "pending" => subs[n].fut = "pending",
           t.pc # "none" => t.epoch = tasks[w].epoch,
           \/ t.pc \in Held /\ t.job = Taken /\ UNCHANGED unfinished
           \/ t.pc \notin Held /\ t.job = 0 /\ unfinished' = unfinished - 1 /\ subs'[Taken].fut # "pending"
    PROVE  WorkInv' /\ unfinished' \in Nat /\ Alive' \subseteq Alive /\ queue' \in Seq(Submission)
           /\ tasks' \in [Worker -> Task]
<1>1. /\ tasks' \in [Worker -> Task] /\ tasks'[w] = t
      /\ \A v \in Worker : v # w => tasks'[v] = tasks[v]
  BY Typed DEF DaemonInv
<1>2. /\ Len(subs) \in Nat /\ Job(w) = 0 /\ unfinished \in Nat
      /\ Taken = queue[1] /\ Taken \in 1..Len(subs) /\ Len(queue) \in Nat \ {0} /\ queue' \in Seq(Submission)
      /\ Len(queue') = Len(queue) - 1 /\ \A i \in 1..(Len(queue) - 1) : queue'[i] = queue[i + 1]
  BY Typed, Queued DEF DaemonInv, WorkInv, WorkersHoldTheirJobs, Held, TypeOK
<1>3. QueuedAreSubmitted'
  BY <1>2 DEF DaemonInv, WorkInv, QueuedAreSubmitted
<1>4. WorkersHoldTheirJobs'
  BY <1>1, <1>2 DEF DaemonInv, WorkInv, WorkersHoldTheirJobs, Job, Held
<1>5. unfinished' = Len(queue') + Cardinality(Busy')
  <2>1. IsFiniteSet(Busy) /\ Cardinality(Busy) \in Nat /\ unfinished = Len(queue) + Cardinality(Busy)
    BY BusyIsFinite DEF DaemonInv, WorkInv
  <2>2. CASE t.job = 0
    <3>1. Busy' = Busy
      BY <1>1, <1>2, <2>2 DEF Busy, Job
    <3> QED
      BY <1>2, <2>1, <2>2, <3>1
  <2>3. CASE t.job # 0
    <3>1. Busy' = Busy \cup {w} /\ w \notin Busy
      BY <1>1, <1>2, <2>3 DEF Busy, Job
    <3>2. Cardinality(Busy') = Cardinality(Busy) + 1
      BY <2>1, <3>1, FS_AddElement
    <3> QED
      BY <1>2, <2>1, <2>3, <3>2
  <2> QED
    BY <2>2, <2>3
<1>6. JoinIsExact'
  BY <1>5 DEF JoinIsExact, Busy
<1>7. unfinished' \in Nat
  <2>1. IsFiniteSet(Busy') /\ Cardinality(Busy') \in Nat
    <3>1. IsFiniteSet(Busy')
      BY ConstantsAssumption, FS_Subset DEF Busy
    <3> QED
      BY <3>1, FS_CardinalityType
  <2> QED
    BY <1>2, <1>5, <2>1
<1>8. PendingAreHeld'
  <2> SUFFICES ASSUME NEW n \in 1..Len(subs), subs[n].fut = "pending", subs'[n].fut = "pending"
               PROVE  (\E i \in 1..Len(queue') : queue'[i] = n) \/ (\E v \in Worker : Job(v)' = n)
    BY DEF PendingAreHeld
  <2>1. CASE \E v \in Worker : Job(v) = n
    BY <1>1, <1>2, <2>1 DEF Job
  <2>2. CASE \E i \in 1..Len(queue) : queue[i] = n
    <3>1. PICK i \in 1..Len(queue) : queue[i] = n
      BY <2>2
    <3>2. CASE i = 1
      BY <1>1, <1>2, <3>1, <3>2 DEF Job
    <3>3. CASE i # 1
      <4>1. i - 1 \in 1..Len(queue') /\ queue'[i - 1] = n
        BY <1>2, <3>1, <3>3
      <4> QED
        BY <4>1
    <3> QED
      BY <3>2, <3>3
  <2> QED
    BY <2>1, <2>2 DEF DaemonInv, WorkInv, PendingAreHeld
<1>9. Alive' \subseteq Alive
  BY <1>1 DEF Alive
<1> QED
  BY <1>1, <1>2, <1>3, <1>4, <1>6, <1>7, <1>8, <1>9 DEF WorkInv

(* A living worker: the daemon is not closing its pins. *)
LEMMA AliveMeansOpen ==
    ASSUME DaemonInv, NEW w \in Worker, tasks[w].pc # "none"
    PROVE  closed = {} /\ \A v \in Worker : tasks[v].pc = "run" => Gen(v) \in pins
BY DEF DaemonInv, DownIsQuiet, HandlersHavePin, Alive

LEMMA TakeSkippedKeeps == ASSUME DaemonInv, NEW w \in Worker, TakeSkipped(w) PROVE DaemonInv'
<1>1. /\ tasks[w].pc = "idle" /\ queue # << >> /\ subs[Taken].fut = "cancelled" /\ queue' = Tail(queue)
      /\ unfinished' = unfinished - 1
      /\ UNCHANGED <<subs, tasks, active, terminal, opening, flights, pins, lifecycle, opener, faults>>
  BY DEF TakeSkipped
<1>2. /\ tasks[w] \in Task /\ tasks' = [tasks EXCEPT ![w] = tasks[w]] /\ subs' \in Seq(Sub)
      /\ tasks[w].pc \notin Held /\ tasks[w].job = 0
  BY <1>1, Typed DEF DaemonInv, WorkInv, WorkersHoldTheirJobs, Job, Held
<1>3. WorkInv' /\ unfinished' \in Nat /\ Alive' \subseteq Alive /\ queue' \in Seq(Submission)
  BY <1>1, <1>2, TakingKeepsWork DEF lifecycle
<1>4. HandlersHavePin'
  BY <1>1, <1>2, HandlersKeepPin, Typed DEF lifecycle, DaemonInv
<1>5. TypeOK'
  BY <1>1, <1>3 DEF DaemonInv, TypeOK, lifecycle
<1> QED
  BY <1>1, <1>3, <1>4, <1>5 DEF DaemonInv, DownIsQuiet, ResponseKeepsEpoch, lifecycle


(* Taking an item: the generation is there already, is awaited, or could not be opened. *)
LEMMA TakeKeeps == ASSUME DaemonInv, NEW w \in Worker, Take(w) PROVE DaemonInv'
<1> DEFINE n == Taken
           g == Generation[Req(n)]
           v == IF opening[g] = None THEN w ELSE opening[g]
           found == IF g \in pins \/ ~opener THEN "opened" ELSE flights[v]
<1>1. /\ tasks[w].pc = "idle" /\ queue # << >> /\ queue' = Tail(queue)
      /\ UNCHANGED <<terminal, lifecycle, opener, faults>>
  BY DEF Take
<1>2. /\ n \in 1..Len(subs) /\ n \in Submission /\ Req(n) \in Request /\ g \in Generations
  BY <1>1, Queued, Typed DEF DaemonInv, Generations
<1>3. v \in Worker
  BY <1>2 DEF DaemonInv, TypeOK
<1>4. closed = {} /\ \A u \in Worker : tasks[u].pc = "run" => Gen(u) \in pins
  BY <1>1, AliveMeansOpen
<1>5. subs \in Seq(Sub) /\ tasks \in [Worker -> Task]
  BY Typed DEF DaemonInv
<1>6. CASE found = "opened"
  <2> DEFINE t == At(w, "run", n, None)
  <2>1. /\ pins' = pins \cup {g} /\ opening' = [opening EXCEPT ![g] = IF g \in pins THEN @ ELSE None]
        /\ tasks' = [tasks EXCEPT ![w] = t] /\ active' = [active EXCEPT ![Req(n)] = w]
        /\ UNCHANGED <<unfinished, subs, flights>>
    BY <1>6 DEF Take
  <2>2. t \in Task /\ t.pc = "run" /\ t.job = n /\ t.epoch = tasks[w].epoch
    BY <1>2, TasksAreTyped DEF DaemonInv
  <2> HIDE DEF t, n, g, v, found
  <2>3. WorkInv' /\ queue' \in Seq(Submission) /\ tasks' \in [Worker -> Task] /\ Alive' \subseteq Alive
    BY <1>1, <1>5, <2>1, <2>2, TakingKeepsWork DEF lifecycle, Held, n
  <2>4. TypeOK'
    <3>1. /\ pins' \subseteq Generations /\ opening' \in [Generations -> Worker \cup {None}]
          /\ active' \in [Request -> Worker \cup {None}]
      BY <1>2, <2>1 DEF DaemonInv, TypeOK
    <3> QED
      BY <1>1, <2>1, <2>3, <3>1 DEF DaemonInv, TypeOK, lifecycle, Task
  <2>5. HandlersHavePin'
    <3> SUFFICES ASSUME NEW u \in Worker, tasks'[u].pc = "run" PROVE Gen(u)' \in pins'
      BY <1>1, <1>4 DEF HandlersHavePin, lifecycle
    <3>1. CASE u = w
      BY <1>5, <2>1, <2>2, <3>1 DEF Gen, Req, Job, g
    <3>2. CASE u # w
      BY <1>4, <1>5, <2>1, <3>2 DEF Gen, Req, Job
    <3> QED
      BY <3>1, <3>2
  <2> QED
    BY <1>1, <2>3, <2>4, <2>5 DEF DaemonInv, DownIsQuiet, ResponseKeepsEpoch, lifecycle
<1>7. CASE found \in {"none", "running"}
  <2> DEFINE t == At(w, "pin", n, v)
  <2>1. /\ opening' = [opening EXCEPT ![g] = v] /\ flights' = [flights EXCEPT ![v] = "running"]
        /\ tasks' = [tasks EXCEPT ![w] = t] /\ active' = [active EXCEPT ![Req(n)] = w]
        /\ UNCHANGED <<unfinished, subs, pins>>
    BY <1>7 DEF Take
  <2>2. t \in Task /\ t.pc = "pin" /\ t.job = n /\ t.epoch = tasks[w].epoch
    BY <1>2, <1>3, TasksAreTyped DEF DaemonInv
  <2> HIDE DEF t, n, g, v, found
  <2>3. WorkInv' /\ queue' \in Seq(Submission) /\ tasks' \in [Worker -> Task] /\ Alive' \subseteq Alive
    BY <1>1, <1>5, <2>1, <2>2, TakingKeepsWork DEF lifecycle, Held, n
  <2>4. TypeOK'
    <3>1. /\ flights' \in [Worker -> Flight] /\ opening' \in [Generations -> Worker \cup {None}]
          /\ active' \in [Request -> Worker \cup {None}]
      BY <1>2, <1>3, <2>1 DEF DaemonInv, TypeOK, Flight
    <3> QED
      BY <1>1, <2>1, <2>3, <3>1 DEF DaemonInv, TypeOK, lifecycle, Task
  <2>5. HandlersHavePin'
    BY <1>1, <1>5, <2>1, <2>2, <2>3, HandlersKeepPin DEF lifecycle
  <2> QED
    BY <1>1, <2>3, <2>4, <2>5 DEF DaemonInv, DownIsQuiet, ResponseKeepsEpoch, lifecycle
<1>8. CASE found \in {"failed", "cancelled"}
  <2> DEFINE t == IF found = "failed" THEN Idle(w) ELSE NoTask
             outcome == IF found = "failed" THEN "error" ELSE "failed"
  <2>1. /\ opening' = [opening EXCEPT ![g] = None] /\ tasks' = [tasks EXCEPT ![w] = t]
        /\ subs' = Settle(subs, {n}, outcome) /\ active' = [active EXCEPT ![Req(n)] = None]
        /\ unfinished' = unfinished - 1 /\ UNCHANGED <<pins, flights>>
    BY <1>8 DEF Take
  <2>2. t \in Task /\ t.pc \in {"idle", "none"} /\ t.job = 0 /\ (t.pc # "none" => t.epoch = tasks[w].epoch)
    BY TasksAreTyped DEF DaemonInv
  <2>3. outcome \in Future \ {"pending"}
    BY DEF Future
  <2> HIDE DEF t, outcome, n, g, v, found
  <2>4. /\ subs' \in Seq(Sub) /\ Len(subs') = Len(subs) /\ subs'[n].fut # "pending"
        /\ \A m \in 1..Len(subs) : /\ subs'[m].req = subs[m].req
                                   /\ subs'[m].fut = "pending" => subs[m].fut = "pending"
    BY <1>2, <1>5, <2>1, <2>3, Settled
  <2>5. WorkInv' /\ unfinished' \in Nat /\ queue' \in Seq(Submission) /\ tasks' \in [Worker -> Task] /\ Alive' \subseteq Alive
    BY <1>1, <2>1, <2>2, <2>4, TakingKeepsWork DEF lifecycle, Held, n
  <2>6. TypeOK'
    <3>1. opening' \in [Generations -> Worker \cup {None}] /\ active' \in [Request -> Worker \cup {None}]
      BY <1>2, <2>1 DEF DaemonInv, TypeOK
    <3> QED
      BY <1>1, <2>1, <2>4, <2>5, <3>1 DEF DaemonInv, TypeOK, lifecycle, Task, Sub
  <2>7. HandlersHavePin'
    <3>1. \A u \in Worker : tasks'[u].pc = "run" => tasks[u].pc = "run" /\ tasks'[u].job = tasks[u].job
      BY <1>5, <2>1, <2>2
    <3> QED
      BY <1>1, <2>1, <2>4, <2>5, <3>1, HandlersKeepPin DEF lifecycle
  <2> QED
    BY <1>1, <2>5, <2>6, <2>7 DEF DaemonInv, DownIsQuiet, ResponseKeepsEpoch, lifecycle
<1>9. found \in {"opened", "none", "running", "failed", "cancelled"}
  BY <1>3 DEF DaemonInv, TypeOK, Flight
<1> QED
  BY <1>6, <1>7, <1>8, <1>9


(* A worker that holds an item is done with it: its caller is settled. *)
LEMMA HandledKeeps ==
    ASSUME DaemonInv, NEW w \in Worker, tasks[w].pc \in Held, NEW t \in Task, tasks' = [tasks EXCEPT ![w] = t],
           t.job = 0, t.pc \in {"idle", "none"}, t.pc # "none" => t.epoch = tasks[w].epoch,
           NEW outcome \in Future \ {"pending"}, subs' = Settle(subs, {Job(w)}, outcome),
           unfinished' = unfinished - 1, active' = [active EXCEPT ![Req(Job(w))] = None],
           terminal' \in [Request -> {None} \cup [epoch : 1..MaxStarts, began : 1..MaxStarts]],
           \A r \in Request : terminal'[r] = terminal[r] \/ terminal'[r].epoch = terminal'[r].began,
           UNCHANGED <<queue, opening, flights, pins, lifecycle, opener, faults>>
    PROVE  DaemonInv'
<1>1. w \in Busy /\ Job(w) \in 1..Len(subs) /\ Req(Job(w)) \in Request
  BY Typed DEF DaemonInv, WorkInv, WorkersHoldTheirJobs, Busy
<1>2. /\ tasks' \in [Worker -> Task] /\ tasks'[w] = t /\ \A u \in Worker : u # w => tasks'[u] = tasks[u]
  BY Typed DEF DaemonInv
<1>3. /\ subs' \in Seq(Sub) /\ Len(subs') = Len(subs)
      /\ \A m \in 1..Len(subs) : /\ subs'[m].req = subs[m].req
                                 /\ subs'[m].fut = "pending" => subs[m].fut = "pending" /\ m # Job(w)
  BY Settled, Typed DEF DaemonInv
<1>4. Cardinality({w}) = 1
  BY FS_Singleton
<1>5. WorkEndsAt({w})
  BY <1>2, <1>3, <1>4 DEF WorkEndsAt, Held, lifecycle
<1>6. WorkInv' /\ unfinished' \in Nat /\ Alive' \subseteq Alive
  BY <1>1, <1>5, WorkEnds DEF DaemonInv
<1>7. TypeOK'
  <2>1. active' \in [Request -> Worker \cup {None}]
    BY DEF DaemonInv, TypeOK
  <2> QED
    BY <1>2, <1>3, <1>6, <2>1 DEF DaemonInv, TypeOK, lifecycle, Task, Sub
<1>8. HandlersHavePin'
  <2>1. \A u \in Worker : tasks'[u].pc = "run" => tasks[u].pc = "run" /\ tasks'[u].job = tasks[u].job
    BY <1>2
  <2> QED
    BY <1>2, <1>3, <2>1, HandlersKeepPin DEF lifecycle
<1>9. ResponseKeepsEpoch'
  BY DEF DaemonInv, ResponseKeepsEpoch
<1> QED
  BY <1>6, <1>7, <1>8, <1>9 DEF DaemonInv, DownIsQuiet, lifecycle

LEMMA FinishKeeps == ASSUME DaemonInv, NEW w \in Worker, Finish(w) PROVE DaemonInv'
<1>1. /\ tasks[w].pc = "run" /\ tasks' = [tasks EXCEPT ![w] = Idle(w)]
      /\ active' = [active EXCEPT ![Req(Job(w))] = None] /\ unfinished' = unfinished - 1
      /\ UNCHANGED <<queue, opening, flights, pins, lifecycle, opener, faults>>
  BY DEF Finish
<1>2. Idle(w) \in Task /\ Idle(w).job = 0 /\ Idle(w).pc = "idle" /\ Idle(w).epoch = tasks[w].epoch
  BY TasksAreTyped DEF DaemonInv
<1>3. PICK outcome \in {"result", "error"} :
         /\ subs' = Settle(subs, {Job(w)}, outcome)
         /\ \/ terminal' = [terminal EXCEPT ![Req(Job(w))] = [epoch |-> epoch, began |-> tasks[w].epoch]]
            \/ UNCHANGED terminal
  BY DEF Finish
<1> DEFINE response == [epoch |-> epoch, began |-> tasks[w].epoch]
<1>4. response \in [epoch : 1..MaxStarts, began : 1..MaxStarts] /\ response.epoch = response.began
  <2>1. tasks[w].epoch = epoch /\ epoch \in 1..MaxStarts
    BY <1>1, ConstantsAssumption DEF DaemonInv, TypeOK, WorkInv, WorkersHoldTheirJobs
  <2> QED
    BY <2>1
<1>5. \/ terminal' = [terminal EXCEPT ![Req(Job(w))] = response]
      \/ UNCHANGED terminal
  BY <1>3
<1> HIDE DEF response
<1>6. /\ terminal' \in [Request -> {None} \cup [epoch : 1..MaxStarts, began : 1..MaxStarts]]
      /\ \A r \in Request : terminal'[r] = terminal[r] \/ terminal'[r].epoch = terminal'[r].began
  BY <1>4, <1>5 DEF DaemonInv, TypeOK
<1>7. outcome \in Future \ {"pending"}
  BY DEF Future
<1> QED
  BY <1>1, <1>2, <1>3, <1>6, <1>7, HandledKeeps DEF Held

LEMMA DieKeeps == ASSUME DaemonInv, NEW w \in Worker, Die(w) PROVE DaemonInv'
<1>1. /\ tasks' = [tasks EXCEPT ![w] = NoTask] /\ tasks[w].pc \in {"idle", "run"}
      /\ UNCHANGED <<queue, terminal, opening, flights, pins, lifecycle, opener, faults>>
  BY DEF Die
<1>2. NoTask \in Task /\ NoTask.job = 0 /\ NoTask.pc = "none"
  BY TasksAreTyped DEF DaemonInv
<1>3. CASE tasks[w].pc = "run"
  <2>1. /\ subs' = Settle(subs, {Job(w)}, "failed") /\ active' = [active EXCEPT ![Req(Job(w))] = None]
        /\ unfinished' = unfinished - 1
    BY <1>3 DEF Die
  <2>2. "failed" \in Future \ {"pending"} /\ tasks[w].pc \in Held
    BY <1>3 DEF Future, Held
  <2>3. terminal \in [Request -> {None} \cup [epoch : 1..MaxStarts, began : 1..MaxStarts]]
    BY DEF DaemonInv, TypeOK
  <2> QED
    BY <1>1, <1>2, <2>1, <2>2, <2>3, HandledKeeps
<1>4. CASE tasks[w].pc = "idle"
  <2>1. UNCHANGED <<subs, active, unfinished>>
    BY <1>4 DEF Die
  <2> HIDE DEF NoTask
  <2>2. /\ tasks' \in [Worker -> Task] /\ tasks'[w] = NoTask /\ \A u \in Worker : u # w => tasks'[u] = tasks[u]
        /\ subs \in Seq(Sub) /\ Job(w) = 0
    BY <1>1, <1>2, <1>4, Typed DEF DaemonInv, WorkInv, WorkersHoldTheirJobs, Held
  <2>3. WorkEndsAt({})
    <3>1. unfinished \in Nat /\ Cardinality({}) = 0
      BY FS_EmptySet DEF DaemonInv, TypeOK
    <3> QED
      BY <1>1, <1>2, <1>4, <2>1, <2>2, <3>1 DEF WorkEndsAt, Held, Job, lifecycle
  <2>4. WorkInv' /\ unfinished' \in Nat /\ Alive' \subseteq Alive
    BY <2>3, WorkEnds DEF DaemonInv
  <2>5. TypeOK'
    BY <1>1, <2>1, <2>2 DEF DaemonInv, TypeOK, lifecycle, Task
  <2>6. HandlersHavePin'
    <3>1. \A u \in Worker : tasks'[u].pc = "run" => tasks[u].pc = "run" /\ tasks'[u].job = tasks[u].job
      BY <1>2, <2>2
    <3> QED
      BY <1>1, <2>1, <2>2, <3>1, HandlersKeepPin DEF lifecycle
  <2> QED
    BY <1>1, <2>4, <2>5, <2>6 DEF DaemonInv, DownIsQuiet, ResponseKeepsEpoch, lifecycle
<1> QED
  BY <1>1, <1>3, <1>4

LEMMA OpenEndKeeps == ASSUME DaemonInv, NEW v \in Worker, OpenEnd(v) PROVE DaemonInv'
<1>1. UNCHANGED <<queue, unfinished, subs, tasks, active, terminal, opening, pins, lifecycle, opener, faults>>
  BY DEF OpenEnd
<1>2. flights' \in [Worker -> Flight]
  BY DEF OpenEnd, DaemonInv, TypeOK, Flight
<1>3. WorkInv' /\ Alive' = Alive
  BY <1>1, WorkStays, Typed DEF DaemonInv, lifecycle
<1>4. HandlersHavePin'
  BY <1>1, HandlersKeepPin, Typed DEF DaemonInv, lifecycle
<1>5. TypeOK'
  BY <1>1, <1>2 DEF DaemonInv, TypeOK, lifecycle
<1> QED
  BY <1>1, <1>3, <1>4, <1>5 DEF DaemonInv, DownIsQuiet, ResponseKeepsEpoch, lifecycle


(* The waiters of an opening are resumed: some end, some go on to their handlers on the
   generation that is pinned for them. *)
LEMMA DeliverKeeps == ASSUME DaemonInv, NEW v \in Worker, Deliver(v) PROVE DaemonInv'
<1> DEFINE woken == Waiting(v)
           dead == {w \in woken : tasks[w].doomed \/ flights[v] = "cancelled"}
           failed == {w \in woken \ dead : flights[v] = "failed"}
           going == woken \ (dead \cup failed)
           ended == dead \cup failed
           first == Settle(subs, {Job(w) : w \in dead}, "failed")
<1>1. /\ tasks' = [w \in Worker |->
             CASE w \in dead -> NoTask [] w \in failed -> Idle(w)
               [] w \in going -> At(w, "run", Job(w), None) [] OTHER -> tasks[w]]
      /\ subs' = Settle(first, {Job(w) : w \in failed}, "error")
      /\ active' = [r \in Request |-> IF \E w \in ended : Req(Job(w)) = r THEN None ELSE active[r]]
      /\ unfinished' = unfinished - Cardinality(ended)
      /\ pins' = pins \cup {Gen(w) : w \in going}
      /\ flights' = [flights EXCEPT ![v] = "none"]
      /\ opening' = [opening EXCEPT ![Gen(v)] = None]
      /\ UNCHANGED <<queue, terminal, lifecycle, opener, faults>>
  BY DEF Deliver
<1>2. \A w \in woken : w \in Worker /\ tasks[w].pc = "pin" /\ Job(w) # 0 /\ Job(w) \in 1..Len(subs) /\ Job(w) \in Submission
  <2>1. \A w \in woken : w \in Worker /\ tasks[w].pc = "pin"
    BY DEF Waiting
  <2>2. \A w \in Worker : tasks[w] \in Task /\ tasks[w].job \in 0..MaxSubmits
    BY Typed DEF DaemonInv, Task
  <2> QED
    BY <2>1, <2>2, Typed, ConstantsAssumption DEF DaemonInv, WorkInv, WorkersHoldTheirJobs, Job, Held, Submission
<1>3. dead \subseteq woken /\ failed \subseteq woken /\ going \subseteq woken /\ ended \subseteq woken
      /\ dead \cap failed = {} /\ going \cap ended = {} /\ woken = ended \cup going
  OBVIOUS
<1>4. "failed" \in Future \ {"pending"} /\ "error" \in Future \ {"pending"}
  BY DEF Future
<1>5. /\ first \in Seq(Sub) /\ Len(first) = Len(subs)
      /\ \A m \in 1..Len(subs) : /\ first[m].req = subs[m].req
                                 /\ first[m].fut = "pending" => subs[m].fut = "pending" /\ m \notin {Job(w) : w \in dead}
  BY <1>4, Settled, Typed DEF DaemonInv
<1> HIDE DEF woken, dead, failed, going, ended, first
<1>6. /\ subs' \in Seq(Sub) /\ Len(subs') = Len(subs)
      /\ \A m \in 1..Len(subs) : /\ subs'[m].req = subs[m].req
                                 /\ subs'[m].fut = "pending" => first[m].fut = "pending" /\ m \notin {Job(w) : w \in failed}
  BY <1>1, <1>4, <1>5, Settled
<1>7. \A m \in 1..Len(subs) : subs'[m].fut = "pending" => subs[m].fut = "pending" /\ \A w \in ended : Job(w) # m
  BY <1>5, <1>6 DEF ended
<1>8. ASSUME NEW w \in Worker
      PROVE  /\ tasks'[w] \in Task
             /\ w \in ended => tasks'[w].job = 0 /\ tasks'[w].pc \in {"idle", "none"}
             /\ w \in going => tasks'[w].job = tasks[w].job /\ tasks'[w].pc = "run"
             /\ w \notin ended \cup going => tasks'[w] = tasks[w]
             /\ tasks'[w].pc # "none" => tasks[w].pc # "none" /\ tasks'[w].epoch = tasks[w].epoch
  <2>1. CASE w \in dead
    BY <1>1, <1>3, <2>1, TasksAreTyped DEF DaemonInv, ended
  <2>2. CASE w \in failed
    <3>1. w \notin dead /\ w \notin going /\ tasks[w].pc = "pin"
      BY <1>2, <1>3, <2>2 DEF ended
    <3>2. tasks'[w] = Idle(w)
      BY <1>1, <2>2, <3>1
    <3> QED
      BY <1>3, <2>2, <3>1, <3>2, TasksAreTyped DEF DaemonInv, ended
  <2>3. CASE w \in going
    <3>1. tasks'[w] = At(w, "run", Job(w), None) /\ tasks[w].pc = "pin" /\ Job(w) \in Submission
      BY <1>1, <1>2, <1>3, <2>3 DEF ended
    <3> QED
      BY <1>3, <2>3, <3>1, TasksAreTyped DEF DaemonInv, Job
  <2>4. CASE w \notin ended \cup going
    <3>1. tasks'[w] = tasks[w]
      BY <1>1, <2>4 DEF ended
    <3> QED
      BY <2>4, <3>1, Typed DEF DaemonInv
  <2> QED
    BY <2>1, <2>2, <2>3, <2>4 DEF ended
<1>9. tasks' \in [Worker -> Task]
  <2>1. tasks' = [w \in Worker |-> tasks'[w]]
    BY <1>1
  <2> QED
    BY <1>8, <2>1
<1>10. WorkEndsAt(ended)
  <2>1. \A w \in going : tasks[w].pc \in Held
    BY <1>2, <1>3 DEF Held
  <2> QED
    BY <1>1, <1>2, <1>3, <1>6, <1>7, <1>8, <1>9, <2>1 DEF WorkEndsAt, Held, lifecycle
<1>11. WorkInv' /\ unfinished' \in Nat /\ Alive' \subseteq Alive
  <2>1. ended \in SUBSET Busy
    BY <1>2, <1>3 DEF Busy
  <2> QED
    BY <1>10, <2>1, WorkEnds DEF DaemonInv
<1>12. TypeOK'
  <2>1. active' \in [Request -> Worker \cup {None}] /\ opening' \in [Generations -> Worker \cup {None}]
        /\ flights' \in [Worker -> Flight]
    BY <1>1 DEF DaemonInv, TypeOK, Flight
  <2>2. pins' \subseteq Generations
    <3>1. \A w \in going : Gen(w) \in Generations
      BY <1>2, <1>3, Typed DEF DaemonInv, Gen, Generations
    <3> QED
      BY <1>1, <3>1 DEF DaemonInv, TypeOK
  <2> QED
    BY <1>1, <1>6, <1>9, <1>11, <2>1, <2>2 DEF DaemonInv, TypeOK, lifecycle, Task, Sub
<1>13. HandlersHavePin'
  <2> SUFFICES ASSUME NEW u \in Worker, tasks'[u].pc = "run" PROVE Gen(u)' \in pins' \ closed'
    BY DEF HandlersHavePin
  <2>1. tasks[u].pc # "none" /\ u \notin ended /\ tasks'[u].job = tasks[u].job
        /\ (u \in going \/ tasks[u].pc = "run")
    BY <1>8
  <2>2. closed' = {} /\ (tasks[u].pc = "run" => Gen(u) \in pins)
    BY <1>1, <2>1, AliveMeansOpen DEF lifecycle
  <2>3. Job(u) \in 1..Len(subs)
    BY <1>2, <1>3, <2>1, Typed DEF DaemonInv, WorkInv, WorkersHoldTheirJobs, Held
  <2>4. Gen(u)' = Gen(u)
    BY <1>6, <2>1, <2>3 DEF Gen, Req, Job
  <2> QED
    BY <1>1, <2>1, <2>2, <2>4
<1> QED
  BY <1>1, <1>11, <1>12, <1>13 DEF DaemonInv, DownIsQuiet, ResponseKeepsEpoch, lifecycle

----------------------------------------------------------------------------
(* The supervisor *)

(* A lifecycle call that cancels workers or moves on, and leaves queue and pins. *)
LEMMA LifecycleKeeps ==
    ASSUME DaemonInv, UNCHANGED <<epoch, closed, queue, unfinished, subs, terminal, opening, pins, opener>>,
           \/ UNCHANGED <<tasks, flights>>
           \/ Doom(Worker),
           state' \in State, ctl' \in Control, faults' \in 0..MaxFaults, active' \in [Request -> Worker \cup {None}],
           closed # {} => ctl' = "close",
           ctl' = "close" \/ (ctl' = "none" /\ state' \in {"STOPPED", "CRASHED"}) => Alive = {}
    PROVE  DaemonInv'
<1>1. /\ tasks' \in [Worker -> Task] /\ flights' \in [Worker -> Flight]
      /\ \A w \in Worker : tasks'[w].job = tasks[w].job /\ tasks'[w].pc = tasks[w].pc
                           /\ tasks'[w].epoch = tasks[w].epoch
  <2>1. tasks \in [Worker -> Task] /\ flights \in [Worker -> Flight]
    BY Typed DEF DaemonInv, TypeOK
  <2> QED
    BY <2>1, Doomed DEF DaemonInv
<1>2. WorkInv' /\ Alive' = Alive
  BY <1>1, WorkStays, Typed DEF DaemonInv
<1>3. HandlersHavePin'
  BY <1>1, HandlersKeepPin
<1>4. TypeOK'
  BY <1>1 DEF DaemonInv, TypeOK, Task
<1> QED
  BY <1>2, <1>3, <1>4 DEF DaemonInv, DownIsQuiet, ResponseKeepsEpoch

LEMMA StartKeeps == ASSUME DaemonInv, Start PROVE DaemonInv'
<1>1. /\ ctl = "none" /\ state \in {"STOPPED", "CRASHED"} /\ epoch < MaxStarts /\ epoch' = epoch + 1
      /\ state' = "READY"
      /\ UNCHANGED <<ctl, closed, queue, unfinished, subs, active, terminal, opening, flights, pins, opener, faults>>
  BY DEF Start
<1>2. Alive = {} /\ closed = {} /\ epoch' \in 0..MaxStarts /\ epoch' # 0
  BY <1>1, ConstantsAssumption DEF DaemonInv, DownIsQuiet, TypeOK
<1> DEFINE t == [NoTask EXCEPT !.pc = "idle", !.epoch = epoch']
<1>3. t \in Task /\ t.pc = "idle" /\ t.job = 0 /\ t.epoch = epoch'
  <2>1. NoTask \in Task /\ NoTask.job = 0
    BY ConstantsAssumption DEF NoTask, Task
  <2> HIDE DEF NoTask
  <2> QED
    BY <1>2, <2>1 DEF Task
<1>4. tasks' = [w \in Worker |-> t]
  BY <1>2 DEF Start
<1> HIDE DEF t
<1>5. tasks' \in [Worker -> Task] /\ \A w \in Worker : tasks'[w] = t
  BY <1>3, <1>4
<1>6. Busy = {} /\ Busy' = {}
  BY <1>2, <1>3, <1>5 DEF DaemonInv, WorkInv, WorkersHoldTheirJobs, Busy, Job, Alive, Held
<1>7. WorkInv'
  <2>1. JoinIsExact'
    BY <1>1, <1>6 DEF DaemonInv, WorkInv, JoinIsExact, Busy
  <2>2. WorkersHoldTheirJobs'
    BY <1>1, <1>2, <1>3, <1>5, Typed DEF DaemonInv, WorkersHoldTheirJobs, Job, Held
  <2>3. PendingAreHeld'
    BY <1>1, <1>6, Typed DEF DaemonInv, WorkInv, PendingAreHeld, Busy
  <2> QED
    BY <1>1, <2>1, <2>2, <2>3 DEF DaemonInv, WorkInv, QueuedAreSubmitted
<1>8. TypeOK'
  BY <1>1, <1>2, <1>5 DEF DaemonInv, TypeOK, State, Task
<1>9. HandlersHavePin' /\ DownIsQuiet' /\ ResponseKeepsEpoch'
  BY <1>1, <1>2, <1>3, <1>5 DEF DaemonInv, HandlersHavePin, DownIsQuiet, ResponseKeepsEpoch
<1> QED
  BY <1>7, <1>8, <1>9 DEF DaemonInv


LEMMA SupervisorKeeps == ASSUME DaemonInv, Supervisor PROVE DaemonInv'
<1>1. /\ active \in [Request -> Worker \cup {None}] /\ state \in State /\ faults \in 0..MaxFaults
      /\ MaxFaults \in Nat /\ {"READY", "DRAINING", "CRASHED"} \subseteq State
      /\ {"join", "gather", "crashing"} \subseteq Control
  BY ConstantsAssumption DEF DaemonInv, TypeOK, State, Control
<1>2. ctl = "none" => closed = {}
  BY DEF DaemonInv, DownIsQuiet
<1>3. CASE ShutdownDrain
  BY <1>1, <1>2, <1>3, LifecycleKeeps DEF ShutdownDrain, serving
<1>4. CASE ShutdownNow
  BY <1>1, <1>2, <1>4, LifecycleKeeps DEF ShutdownNow, StopWorkers
<1>5. CASE Crash
  <2>1. faults' \in 0..MaxFaults
    BY <1>1, <1>5 DEF Crash
  <2> QED
    BY <1>1, <1>2, <1>5, <2>1, LifecycleKeeps DEF Crash
<1> QED
  BY <1>3, <1>4, <1>5, StartKeeps DEF Supervisor

LEMMA ClosingKeeps == ASSUME DaemonInv, Closing PROVE DaemonInv'
<1>1. /\ active \in [Request -> Worker \cup {None}] /\ state \in State /\ faults \in 0..MaxFaults
      /\ {"none", "close", "gather"} \subseteq Control
  BY DEF DaemonInv, TypeOK, Control
<1>2. ctl # "close" => closed = {}
  BY DEF DaemonInv, DownIsQuiet
<1>3. CASE Joined
  BY <1>1, <1>2, <1>3, LifecycleKeeps DEF Joined, StopWorkers
<1>4. CASE Gathered
  BY <1>1, <1>2, <1>4, LifecycleKeeps DEF Gathered, serving
<1>5. CASE CrashEnd
  <2>1. active' \in [Request -> Worker \cup {None}]
    BY <1>5 DEF CrashEnd
  <2> QED
    BY <1>1, <1>2, <1>5, <2>1, LifecycleKeeps DEF CrashEnd
<1>6. ASSUME ctl = "close", UNCHANGED <<epoch, queue, unfinished, subs, tasks, active, terminal, opening, flights, opener, faults>>,
             pins' \subseteq pins, closed' \subseteq Generations, ctl' \in Control, state' \in State,
             closed' # {} => ctl' = "close"
      PROVE  DaemonInv'
  <2>1. Alive = {} /\ Alive' = {}
    BY <1>6 DEF DaemonInv, DownIsQuiet, Alive
  <2>2. WorkInv'
    BY <1>6, WorkStays, Typed DEF DaemonInv
  <2>3. TypeOK'
    <3>1. pins' \subseteq Generations
      BY <1>6 DEF DaemonInv, TypeOK
    <3> QED
      BY <1>6, <3>1 DEF DaemonInv, TypeOK
  <2>4. HandlersHavePin' /\ DownIsQuiet' /\ ResponseKeepsEpoch'
    BY <1>6, <2>1 DEF DaemonInv, HandlersHavePin, DownIsQuiet, ResponseKeepsEpoch, Alive
  <2> QED
    BY <2>2, <2>3, <2>4 DEF DaemonInv
<1>7. ASSUME NEW g \in Generations, ClosePin(g) PROVE DaemonInv'
  <2>1. ctl \in Control /\ closed' \subseteq Generations
    BY <1>1, <1>7 DEF ClosePin, DaemonInv, TypeOK
  <2> QED
    BY <1>1, <1>6, <1>7, <2>1 DEF ClosePin, serving
<1>8. CASE Stopped
  BY <1>1, <1>6, <1>8 DEF Stopped, State
<1> QED
  BY <1>3, <1>4, <1>5, <1>7, <1>8 DEF Closing


----------------------------------------------------------------------------

LEMMA DaemonStep == ASSUME DaemonInv, [Next]_vars PROVE DaemonInv'
<1>1. CASE WorkerStep
  BY <1>1, TakeSkippedKeeps, TakeKeeps, FinishKeeps, DieKeeps DEF WorkerStep
<1>2. CASE OpeningStep
  BY <1>2, OpenEndKeeps, DeliverKeeps DEF OpeningStep
<1>3. CASE UNCHANGED vars
  <2>1. UNCHANGED <<serving, lifecycle, opener, faults>>
    BY <1>3 DEF vars
  <2> QED
    BY <2>1 DEF serving, lifecycle, DaemonInv, TypeOK, WorkInv, QueuedAreSubmitted, WorkersHoldTheirJobs,
       PendingAreHeld, JoinIsExact, DownIsQuiet, HandlersHavePin, ResponseKeepsEpoch, Alive, Job, Gen, Req
<1> QED
  BY <1>1, <1>2, <1>3, ClientsKeep, ClosingKeeps, SupervisorKeeps DEF Next, Loop

LEMMA DaemonStarts == Init => DaemonInv
<1> SUFFICES ASSUME Init PROVE DaemonInv
  OBVIOUS
<1>1. NoTask \in Task /\ NoTask.pc = "none" /\ NoTask.job = 0
  BY ConstantsAssumption DEF NoTask, Task
<1> HIDE DEF NoTask
<1>2. tasks \in [Worker -> Task] /\ \A w \in Worker : tasks[w] = NoTask
  BY <1>1 DEF Init
<1>3. TypeOK
  BY <1>2, ConstantsAssumption DEF Init, TypeOK, Task, State, Control, Flight
<1>4. Busy = {} /\ Alive = {} /\ Len(queue) = 0 /\ Len(subs) = 0
  BY <1>1, <1>2 DEF Init, Busy, Alive, Job
<1>5. JoinIsExact
  <2>1. unfinished = 0 /\ Cardinality(Busy) = 0
    BY <1>4, FS_EmptySet DEF Init
  <2> QED
    BY <1>3, <1>4, <2>1, BusyIsFinite
<1>6. WorkersHoldTheirJobs
  BY <1>1, <1>2, <1>4 DEF WorkersHoldTheirJobs, Job, Held
<1>7. QueuedAreSubmitted /\ PendingAreHeld
  BY <1>4 DEF QueuedAreSubmitted, PendingAreHeld
<1> QED
  BY <1>1, <1>2, <1>3, <1>4, <1>5, <1>6, <1>7 DEF Init, DaemonInv, WorkInv, DownIsQuiet, HandlersHavePin, ResponseKeepsEpoch

(* Through cancels, deadlines, shared and failed openings, drains, a crash and a restart,
   handlers run on open pins, what join waits for is exactly what is left, and no response
   crosses a crash (_worker, _pin, cancel, shutdown and crash of resident_daemon.py). *)
THEOREM WorkAccounted == Spec => []WorkIsAccounted
<1>1. DaemonInv => WorkIsAccounted
  BY DEF DaemonInv, WorkInv, WorkIsAccounted
<1> QED
  BY <1>1, DaemonStarts, DaemonStep, PTL DEF Spec

(* When join returns in shutdown(drain=True), no caller is left with a pending future:
   whoever still waits is queued or held by a worker, and join counts both. *)
THEOREM DrainsSettle == Spec => DrainSettles
<1>1. ASSUME DaemonInv, [Next]_vars, ctl = "join", ctl' = "gather"
      PROVE  \A n \in DOMAIN subs : subs[n].fut # "pending"
  <2>1. unfinished = 0
    <3>1. CASE Loop
      BY <1>1, <3>1 DEF Loop, WorkerStep, OpeningStep, Deadline, Closing, TakeSkipped, Take, Finish, Die, OpenEnd,
         Deliver, Expire, Joined, Gathered, ClosePin, Stopped, CrashEnd, lifecycle
    <3>2. CASE Client \/ Supervisor \/ UNCHANGED vars
      BY <1>1, <3>2 DEF Client, Supervisor, Submit, ClientCancel, Start, ShutdownDrain, ShutdownNow, Crash, lifecycle, vars
    <3> QED
      BY <1>1, <3>1, <3>2 DEF Next
  <2>2. Len(queue) \in Nat /\ IsFiniteSet(Busy) /\ Cardinality(Busy) \in Nat /\ Len(queue) + Cardinality(Busy) = 0
    BY <1>1, <2>1, BusyIsFinite, Typed DEF DaemonInv, WorkInv
  <2>3. Len(queue) = 0 /\ Busy = {}
    <3>1. Len(queue) = 0 /\ Cardinality(Busy) = 0
      BY <2>2
    <3> QED
      BY <2>2, <3>1, FS_EmptySet
  <2> QED
    BY <1>1, <2>3, Typed DEF DaemonInv, WorkInv, PendingAreHeld, Busy
<1>2. DaemonInv /\ [Next]_vars
      => [ctl = "join" /\ ctl' = "gather" => \A n \in DOMAIN subs : subs[n].fut # "pending"]_vars
  BY <1>1
<1> QED
  BY <1>2, DaemonStarts, DaemonStep, PTL DEF Spec, DrainSettles

=============================================================================
