----------------------------- MODULE RustSession -----------------------------
(***************************************************************************)
(* The resident Rust child behind a pipe (rust_session.py): calls are      *)
(* serialised by a lock and carry no number, so an answer belongs to       *)
(* whoever reads it; a child that is gone is replaced once per call; close *)
(* takes no lock.  The child answers every frame with one line, in order,  *)
(* possibly a bad one, and dies when it likes.                             *)
(***************************************************************************)
EXTENDS Naturals, Sequences, FiniteSets

CONSTANTS
    Asker, Closer,   \* threads that call or restart, and that close
    MaxStarts,       \* bound on children
    NoAsk

VARIABLES
    sessionClosed,   \* _closed
    children,        \* the processes that live; the last one started is _process
    starts,
    frames,          \* askers whose frames _process has not answered
    askers,           \* thread -> [step, attempt, only (a restart), answer], or NoAsk
    closing          \* threads between the two steps of close

sessionVars == <<sessionClosed, children, starts, frames, askers, closing>>

LockedSteps == {"write", "read", "crashed", "spawn", "greet"}
AskerCall == [step : LockedSteps \cup {"call", "done"}, attempt : {0, 1}, only : BOOLEAN,
              answer : Asker \cup {NoAsk}]

ASSUME SessionAssumption == MaxStarts \in Nat \ {0} /\ NoAsk \notin AskerCall

SessionInit ==
    /\ sessionClosed = FALSE /\ children = {1} /\ starts = 1 /\ frames = <<>>
    /\ askers = [t \in Asker |-> NoAsk] /\ closing = {}

AskerAt(t, step) == askers[t] # NoAsk /\ askers[t].step = step
Locked == \E t \in Asker : askers[t] # NoAsk /\ askers[t].step \in LockedSteps
MoveTo(t, step) == askers' = [askers EXCEPT ![t].step = step]
Raise(t) == askers' = [askers EXCEPT ![t] = NoAsk]
Alive == starts \in children

(* call looks at the flag before it takes the lock; restart does not look *)
CallBegins(t) ==
    /\ askers[t] = NoAsk /\ ~sessionClosed
    /\ askers' = [askers EXCEPT ![t] = [step |-> "call", attempt |-> 0, only |-> FALSE, answer |-> NoAsk]]
    /\ UNCHANGED <<sessionClosed, children, starts, frames, closing>>

RestartBegins(t) ==
    /\ askers[t] = NoAsk /\ ~Locked
    /\ askers' = [askers EXCEPT ![t] = [step |-> "crashed", attempt |-> 0, only |-> TRUE, answer |-> NoAsk]]
    /\ UNCHANGED <<sessionClosed, children, starts, frames, closing>>

TakesLock(t) ==
    /\ AskerAt(t, "call") /\ ~Locked
    /\ MoveTo(t, "write")
    /\ UNCHANGED <<sessionClosed, children, starts, frames, closing>>

(* Mutant: the lock is given back when the frame is written. *)
WriteFrameUnlocked(t) ==
    /\ AskerAt(t, "write") /\ Alive
    /\ frames' = Append(frames, t) /\ MoveTo(t, "wait")
    /\ UNCHANGED <<sessionClosed, children, starts, closing>>

WriteFrame(t) ==
    /\ AskerAt(t, "write") /\ Alive
    /\ frames' = Append(frames, t) /\ MoveTo(t, "read")
    /\ UNCHANGED <<sessionClosed, children, starts, closing>>

(* poll or a broken pipe; the ValueError of a pipe that close has closed is not caught *)
WriteFails(t) ==
    /\ AskerAt(t, "write") /\ ~Alive
    /\ \/ MoveTo(t, "crashed")
       \/ sessionClosed /\ Raise(t)
    /\ UNCHANGED <<sessionClosed, children, starts, frames, closing>>

(* _readline: the next line, whoever's it is; what a child wrote before it died is still read *)
ReadAnswer(t) ==
    /\ AskerAt(t, "read") \/ AskerAt(t, "wait")
    /\ frames # <<>>
    /\ askers' = [askers EXCEPT ![t].step = "done", ![t].answer = Head(frames)]
    /\ frames' = Tail(frames)
    /\ UNCHANGED <<sessionClosed, children, starts, closing>>

(* a line that is too long or not JSON, or the end of the file *)
ReadFails(t) ==
    /\ AskerAt(t, "read")
    /\ \/ frames # <<>> /\ frames' = Tail(frames)
       \/ ~Alive /\ UNCHANGED frames
    /\ MoveTo(t, "crashed")
    /\ UNCHANGED <<sessionClosed, children, starts, closing>>

CallReturns(t) ==
    /\ AskerAt(t, "done")
    /\ Raise(t)
    /\ UNCHANGED <<sessionClosed, children, starts, frames, closing>>

GivesIn(t) ==
    /\ AskerAt(t, "crashed") /\ askers[t].attempt = 1
    /\ Raise(t)
    /\ UNCHANGED <<sessionClosed, children, starts, frames, closing>>

(* _restart_locked: close, clear the flag, start a child, wait for its handshake *)
RestartCloses(t) ==
    /\ AskerAt(t, "crashed") /\ askers[t].attempt = 0
    /\ children' = children \ {starts} /\ sessionClosed' = FALSE
    /\ MoveTo(t, "spawn")
    /\ UNCHANGED <<starts, frames, closing>>

Spawn(t) ==
    /\ AskerAt(t, "spawn") /\ starts < MaxStarts
    /\ starts' = starts + 1 /\ children' = children \cup {starts'} /\ frames' = <<>>
    /\ MoveTo(t, "greet")
    /\ UNCHANGED <<sessionClosed, closing>>

(* Popen fails, or the handshake is not the one expected: close and raise *)
RestartFails(t) ==
    /\ AskerAt(t, "spawn") \/ AskerAt(t, "greet")
    /\ sessionClosed' = TRUE /\ children' = children \ {starts}
    /\ Raise(t)
    /\ UNCHANGED <<starts, frames, closing>>

(* back to the frame of a call, or out of restart *)
Handshake(t) ==
    /\ AskerAt(t, "greet") /\ Alive
    /\ IF askers[t].only THEN Raise(t)
       ELSE askers' = [askers EXCEPT ![t].step = "write", ![t].attempt = 1]
    /\ UNCHANGED <<sessionClosed, children, starts, frames, closing>>

(* close of any thread: the flag, then the process that is there by then *)
CloseBegins(c) ==
    /\ c \notin closing
    /\ sessionClosed' = TRUE /\ closing' = closing \cup {c}
    /\ UNCHANGED <<children, starts, frames, askers>>

CloseEnds(c) ==
    /\ c \in closing
    /\ children' = children \ {starts} /\ closing' = closing \ {c}
    /\ UNCHANGED <<sessionClosed, starts, frames, askers>>

ChildDies ==
    /\ Alive
    /\ children' = children \ {starts}
    /\ UNCHANGED <<sessionClosed, starts, frames, askers, closing>>

SessionNext ==
    \/ \E t \in Asker :
          \/ CallBegins(t) \/ RestartBegins(t) \/ TakesLock(t)
          \/ WriteFrame(t) \/ WriteFails(t) \/ ReadAnswer(t) \/ ReadFails(t) \/ CallReturns(t)
          \/ GivesIn(t) \/ RestartCloses(t) \/ Spawn(t) \/ RestartFails(t) \/ Handshake(t)
    \/ \E c \in Closer : CloseBegins(c) \/ CloseEnds(c)
    \/ ChildDies

SessionSpec == SessionInit /\ [][SessionNext]_sessionVars

----------------------------------------------------------------------------
(* Properties *)

(* A call returns the answer to its own frame and never one that an earlier call left
   unread, and no child is left behind when another is started, however deaths, retries
   and closes by other threads come between. *)
AnswersItsOwn ==
    /\ \A t \in Asker : AskerAt(t, "done") => askers[t].answer = t
    /\ children \subseteq {starts}
    /\ frames # <<>> /\ Alive => Locked

(* Not an invariant: a session that was closed, with nothing under way, has no child left.
   A close that overlaps a restart finds the old process, and the new one stays. *)
ClosedHasNoChild ==
    sessionClosed /\ closing = {} /\ (\A t \in Asker : askers[t] = NoAsk) => children = {}
=============================================================================
