----------------------- MODULE BinaryChangesetProofs -----------------------
(***************************************************************************)
(* Proofs that the changeset lifecycle is safe for every repository, every *)
(* set of changesets and every bound on edits, crashes and spawns.         *)
(***************************************************************************)
EXTENDS BinaryChangeset, TLAPS

(* Only compiled intent is executed: prepare is the way into the system. *)
Admitted ==
    /\ \A cs \in prepared : ValidChangeSet(cs)
    /\ ~At("idle") => call.cs \in prepared
    /\ \A k \in DOMAIN children : children[k].cs \in prepared

(* What the next effect of a command is going to write. *)
Pending ==
    /\ At("seal") => call.put \in {"idempotent", Missing}
    /\ At("record") => call.put \in States
    /\ At("wait") => Child \in DOMAIN children /\ children[Child].cs = call.cs

(* While a command runs, the journal is the one it read: intact, its own, and
   without a final record of its changeset. *)
Holding ==
    ~At("idle") =>
        /\ ~torn
        /\ \A i \in DOMAIN journal : journal[i].authority = Authority[call.cs]
        /\ \A i \in Own(call.cs) : journal[i].state \notin Final

(* A final record is the newest record of its changeset. *)
FinalIsLast ==
    \A i, j \in DOMAIN journal :
        journal[i].state \in Final /\ journal[j].cs = journal[i].cs => j <= i

(* A final state that is about to be recorded is already earned. *)
EarnedBefore ==
    /\ At("after") => Earned(call.cs)
    /\ ~At("idle") /\ call.put \in Final => Earned(call.cs)

(* Whatever is in place now was recorded as landed. *)
LandedNow == InPlaceIn(files) \subseteq landed

TypeInv == TypeOK /\ Admitted /\ Pending

SafeInv ==
    /\ Holding
    /\ FinalIsLast
    /\ EarnedBefore
    /\ LandedNow
    /\ JournalOneAuthority
    /\ AppliedMeansLanded

IInv == TypeInv /\ SafeInv

----------------------------------------------------------------------------
(* Facts about operations *)

(* An operation that validate calls idempotent has its effect in place. *)
LEMMA IdempotentInPlace ==
    ASSUME NEW o \in Operation, NEW f \in [Path -> File],
           OperationVerdict(o, f).status = "idempotent"
    PROVE  InPlace(o, f)
<1>1. CASE o.op = "create"
  BY <1>1 DEF OperationVerdict, CreateVerdict, InPlace
<1>2. CASE o.op = "replace-range"
  BY <1>2 DEF OperationVerdict, ReplaceVerdict, InPlace
<1>3. CASE o.op = "rename"
  BY <1>3 DEF OperationVerdict, RenameVerdict, InPlace
<1>4. CASE o.op = "delete"
  BY <1>4 DEF OperationVerdict, DeleteVerdict, InPlace
<1> QED
  BY <1>1, <1>2, <1>3, <1>4 DEF Operation, OpType

(* A changeset that validate calls idempotent is in place as a whole. *)
LEMMA ValidateIdempotent ==
    ASSUME NEW cs \in ChangeSet, NEW f \in [Path -> File],
           Validate(cs, f) = "idempotent"
    PROVE  {cs} \X DOMAIN Operations[cs] \subseteq InPlaceIn(f)
<1>1. ASSUME NEW i \in DOMAIN Operations[cs]
      PROVE  <<cs, i>> \in InPlaceIn(f)
  <2>1. Operations[cs][i] \in Operation
    BY ConstantsAssumption, <1>1
  <2>2. OperationVerdict(Operations[cs][i], f).status = "idempotent"
    BY <1>1 DEF Validate
  <2>3. InPlace(Operations[cs][i], f)
    BY <2>1, <2>2, IdempotentInPlace
  <2>4. <<cs, i>> \in AllOperations
    BY <1>1 DEF AllOperations
  <2> QED
    BY <2>3, <2>4 DEF InPlaceIn
<1> QED
  BY <1>1

(* The validated payload of an operation Dev CLI may be asked to apply. *)
LEMMA AppliedType ==
    ASSUME NEW o \in Operation, ValidOperation(o), files \in [Path -> File],
           NEW guard, GuardHolds(o, guard)
    PROVE  Applied(o) \in [Path -> File]
<1> USE ConstantsAssumption
<1>1. CASE o.op = "create"
  BY <1>1 DEF ValidOperation, Applied, Operation, File
<1>2. CASE o.op = "replace-range"
  BY <1>2 DEF GuardHolds, Applied, Operation, File
<1>3. CASE o.op = "rename"
  BY <1>3 DEF ValidOperation, Applied, Operation, File
<1>4. CASE o.op = "delete"
  BY <1>4 DEF Applied, Operation, File
<1> QED
  BY <1>1, <1>2, <1>3, <1>4 DEF Operation, OpType

(* A sound plan pins every file it is going to change. *)
LEMMA SoundPlan ==
    ASSUME TypeOK, NEW cs \in ChangeSet, PlanVerdict(cs) = "sound",
           NEW i \in DOMAIN Operations[cs]
    PROVE  Guard(Operations[cs][i]) \in Content \cup {Missing}
<1> DEFINE o == Operations[cs][i]
<1>1. o \in Operation
  BY ConstantsAssumption
<1>2. PlanProblem(o) = "none"
  BY DEF PlanVerdict, PlanProblem
<1>3. o.path \in Touched(cs)
  <2>1. o.path # Missing
    BY <1>1, ConstantsAssumption DEF Operation
  <2>2. o.path \in OperationPaths(o)
    BY <2>1 DEF OperationPaths
  <2> QED
    BY <2>2 DEF Touched
<1>4. files[o.path] # Symlink
  BY <1>3 DEF PlanVerdict
<1>5. CASE o.op = "create"
  BY <1>5 DEF Guard
<1>6. CASE o.op # "create"
  <2>1. files[o.path] \in Content
    BY <1>1, <1>2, <1>4, <1>6 DEF PlanProblem, TypeOK, File, Operation
  <2> QED
    BY <2>1, <1>6, ConstantsAssumption DEF Guard
<1> QED
  BY <1>5, <1>6

----------------------------------------------------------------------------
(* Type correctness, with what makes it inductive: the state of a running
   command and that only admitted changesets are executed. *)

LEMMA TypeInit == Init => TypeInv
<1> SUFFICES ASSUME Init PROVE TypeInv
  OBVIOUS
<1>1. TypeOK
  <2>1. files \in [Path -> File] /\ prepared \subseteq ChangeSet
    BY ConstantsAssumption DEF Init
  <2>2. header \in {"none", "torn", "whole"} /\ torn \in BOOLEAN
    BY DEF Init
  <2>3. journal \in Seq(Event) /\ children \in Seq(Process)
    BY DEF Init
  <2>4. call \in [pc : PC, cs : ChangeSet \cup {Missing}, put : States \cup {Missing}]
    BY DEF Init, Idle, PC
  <2>5. edits \in 0..MaxEdits /\ crashes \in 0..MaxCrashes
    BY ConstantsAssumption DEF Init
  <2>6. landed \subseteq AllOperations /\ locked \subseteq ChangeSet
    BY DEF Init, InPlaceIn
  <2> QED
    BY <2>1, <2>2, <2>3, <2>4, <2>5, <2>6 DEF TypeOK
<1>2. Admitted /\ Pending
  BY DEF Init, Admitted, Pending, At, Idle
<1> QED
  BY <1>1, <1>2 DEF TypeInv

(* Appending keeps the journal a sequence of events. *)
LEMMA AppendType ==
    ASSUME TypeOK, NEW cs \in ChangeSet, NEW state \in States, AppendRecord(cs, state)
    PROVE  header' \in {"none", "torn", "whole"} /\ journal' \in Seq(Event) /\ torn' \in BOOLEAN
<1>1. [cs |-> cs, state |-> state, authority |-> Authority[cs]] \in Event
  BY DEF Event, Authorities
<1>2. header \in {"none", "torn", "whole"} /\ journal \in Seq(Event) /\ torn \in BOOLEAN
  BY DEF TypeOK
<1>3. CASE Recorded(cs, state)
  BY <1>2, <1>3 DEF AppendRecord
<1>4. CASE ~Recorded(cs, state)
  <2>1. header' = "whole" /\ torn' = torn
    BY <1>4 DEF AppendRecord
  <2>2. journal' = Append(journal, [cs |-> cs, state |-> state, authority |-> Authority[cs]])
    BY <1>4 DEF AppendRecord
  <2> QED
    BY <1>1, <1>2, <2>1, <2>2
<1> QED
  BY <1>3, <1>4

(* A Dev CLI process that moves on stays the process of its changeset. *)
LEMMA ProcessStep ==
    ASSUME TypeOK, NEW k \in DOMAIN children, NEW p \in Process,
           p.cs = children[k].cs, children' = [children EXCEPT ![k] = p]
    PROVE  /\ children' \in Seq(Process)
           /\ Len(children') = Len(children)
           /\ \A j \in DOMAIN children : children'[j].cs = children[j].cs
<1>1. children \in Seq(Process)
  BY DEF TypeOK
<1> QED
  BY <1>1

LEMMA ProcessFields ==
    ASSUME TypeOK, NEW k \in DOMAIN children
    PROVE  /\ children[k] \in Process
           /\ children[k].cs \in ChangeSet
           /\ children[k].next \in Nat \ {0}
<1>1. children[k] \in Process
  BY DEF TypeOK
<1> QED
  BY <1>1 DEF Process

LEMMA TypeNext == TypeInv /\ [Next]_vars => TypeInv'
<1> SUFFICES ASSUME TypeInv, [Next]_vars PROVE TypeInv'
  OBVIOUS
<1> USE DEF TypeInv
<1>1. ASSUME NEW cs \in ChangeSet, Prepare(cs) PROVE TypeInv'
  BY <1>1 DEF Prepare, KeepFiles, KeepJournal, envVars, TypeOK, Admitted, Pending, At, Child
<1>2. ASSUME NEW cs \in ChangeSet, MaterializeBegin(cs) PROVE TypeInv'
  BY <1>2 DEF MaterializeBegin, KeepFiles, KeepJournal, envVars, TypeOK, Admitted, Pending, At, Child, PC
<1>3. ASSUME NEW cs \in ChangeSet, ReconcileBegin(cs) PROVE TypeInv'
  BY <1>3 DEF ReconcileBegin, KeepFiles, KeepJournal, envVars, TypeOK, Admitted, Pending, At, Child, PC
<1>4. ASSUME NEW a, Recover(a) PROVE TypeInv'
  BY <1>4 DEF Recover, KeepFiles, KeepJournal, envVars, TypeOK, Admitted, Pending, At, Child
<1>5. CASE MaterializeValidate
  BY <1>5 DEF MaterializeValidate, Goto, KeepFiles, KeepJournal, envVars, TypeOK,
              Admitted, Pending, At, Child, PC, States
<1>6. CASE MaterializeSeal
  <2>1. call.cs \in ChangeSet /\ "sealed" \in States
    BY <1>6 DEF MaterializeSeal, TypeOK, Admitted, At, States
  <2>2. header' \in {"none", "torn", "whole"} /\ journal' \in Seq(Event) /\ torn' \in BOOLEAN
    BY <1>6, <2>1, AppendType DEF MaterializeSeal
  <2> QED
    BY <1>6, <2>1, <2>2 DEF MaterializeSeal, Goto, KeepFiles, envVars, TypeOK, Admitted,
                       Pending, At, Child, PC, States
<1>7. CASE PlanRejected
  BY <1>7 DEF PlanRejected, Goto, KeepFiles, KeepJournal, envVars, TypeOK,
              Admitted, Pending, At, Child, PC, States
<1>8. CASE PlanRaises
  BY <1>8 DEF PlanRaises, Return, Idle, KeepFiles, KeepJournal, envVars, TypeOK,
              Admitted, Pending, At, Child, PC
<1>9. CASE SpawnFails
  BY <1>9 DEF SpawnFails, Goto, KeepFiles, KeepJournal, envVars, TypeOK,
              Admitted, Pending, At, Child, PC, States
<1>10. CASE Spawn
  <2> DEFINE guard == [i \in DOMAIN Operations[call.cs] |-> Guard(Operations[call.cs][i])]
             child == [cs |-> call.cs, next |-> 1, status |-> "running", guard |-> guard]
  <2>1. call.cs \in ChangeSet /\ call.cs \in prepared
    BY <1>10 DEF Spawn, TypeOK, Admitted, At
  <2>2. guard \in [DOMAIN Operations[call.cs] -> Content \cup {Missing}]
    BY <1>10, <2>1, SoundPlan DEF Spawn
  <2>3. child \in Process
    BY <2>1, <2>2 DEF Process
  <2>4. children' = Append(children, child) /\ children \in Seq(Process)
    BY <1>10 DEF Spawn, TypeOK
  <2>5. /\ children' \in Seq(Process)
        /\ Len(children') = Len(children) + 1
        /\ children'[Len(children')] = child
        /\ \A k \in 1..Len(children) : children'[k] = children[k]
    <3> HIDE DEF child
    <3> QED
      BY <2>3, <2>4
  <2>6. \A k \in DOMAIN children' : children'[k].cs \in prepared
    BY <2>1, <2>4, <2>5 DEF Admitted
  <2> HIDE DEF child
  <2>7. TypeOK'
    BY <1>10, <2>5 DEF Spawn, Goto, KeepFiles, KeepJournal, envVars, TypeOK, PC
  <2>8. Admitted'
    BY <1>10, <2>6 DEF Spawn, Goto, Admitted, At
  <2>9. Pending'
    BY <1>10, <2>5 DEF Spawn, Goto, Pending, At, Child, child
  <2> QED
    BY <2>7, <2>8, <2>9
<1>11. ASSUME NEW k \in DOMAIN children, DevCliStep(k) PROVE TypeInv'
  <2> DEFINE o == Operations[children[k].cs][children[k].next]
  <2>1. children[k] \in Process /\ children[k].cs \in ChangeSet /\ children[k].next \in Nat \ {0}
    BY <1>11, ProcessFields
  <2>2. children[k].next \in DOMAIN Operations[children[k].cs]
    BY <1>11, <2>1, ConstantsAssumption DEF DevCliStep
  <2>3. o \in Operation
    BY <2>1, <2>2, ConstantsAssumption
  <2>4. ValidOperation(o)
    BY <1>11, <2>2 DEF Admitted, ValidChangeSet
  <2>5. files' \in [Path -> File] /\ landed' \subseteq AllOperations
    <3>1. CASE GuardHolds(o, children[k].guard[children[k].next])
      BY <1>11, <2>3, <2>4, <3>1, AppliedType DEF DevCliStep, SetFiles, InPlaceIn, TypeOK
    <3>2. CASE ~GuardHolds(o, children[k].guard[children[k].next])
      BY <1>11, <3>2 DEF DevCliStep, KeepFiles, TypeOK
    <3> QED
      BY <3>1, <3>2
  <2>6. /\ children' \in Seq(Process)
        /\ Len(children') = Len(children)
        /\ \A j \in DOMAIN children : children'[j].cs = children[j].cs
    <3> DEFINE next == [children[k] EXCEPT !.next = @ + 1]
               rejected == [children[k] EXCEPT !.status = "rejected"]
    <3>1. next \in Process /\ next.cs = children[k].cs
      BY <2>1 DEF Process
    <3>2. rejected \in Process /\ rejected.cs = children[k].cs
      BY <2>1 DEF Process
    <3>3. \/ children' = [children EXCEPT ![k] = next]
          \/ children' = [children EXCEPT ![k] = rejected]
      BY <1>11 DEF DevCliStep
    <3> HIDE DEF next, rejected
    <3> QED
      BY <1>11, <3>1, <3>2, <3>3, ProcessStep
  <2> QED
    BY <1>11, <2>5, <2>6 DEF DevCliStep, KeepJournal, envVars, TypeOK, Admitted, Pending, At, Child
<1>12. ASSUME NEW k \in DOMAIN children, DevCliExit(k) PROVE TypeInv'
  <2>1. /\ children' \in Seq(Process)
        /\ Len(children') = Len(children)
        /\ \A j \in DOMAIN children : children'[j].cs = children[j].cs
    <3>1. PICK receipt \in {"ok", "garbled"} : children' = [children EXCEPT ![k].status = receipt]
      BY <1>12 DEF DevCliExit
    <3> DEFINE ended == [children[k] EXCEPT !.status = receipt]
    <3>2. ended \in Process /\ ended.cs = children[k].cs
      BY <1>12, ProcessFields DEF Process
    <3>3. children' = [children EXCEPT ![k] = ended]
      BY <3>1
    <3> HIDE DEF ended
    <3> QED
      BY <1>12, <3>2, <3>3, ProcessStep
  <2> QED
    BY <1>12, <2>1 DEF DevCliExit, KeepFiles, KeepJournal, envVars, TypeOK, Admitted, Pending, At, Child
<1>13. CASE AdapterReturns
  BY <1>13 DEF AdapterReturns, Goto, KeepFiles, KeepJournal, envVars, TypeOK,
               Admitted, Pending, At, Child, PC, States
<1>14. CASE AdapterTimesOut
  <2>1. /\ children' \in Seq(Process)
        /\ Len(children') = Len(children)
        /\ \A j \in DOMAIN children : children'[j].cs = children[j].cs
    <3> DEFINE killed == [children[Child] EXCEPT !.status = "killed"]
    <3>1. Child \in DOMAIN children
      BY <1>14 DEF AdapterTimesOut, Pending
    <3>2. killed \in Process /\ killed.cs = children[Child].cs
      BY <3>1, ProcessFields DEF Process
    <3>3. children' = [children EXCEPT ![Child] = killed]
      BY <1>14 DEF AdapterTimesOut
    <3> HIDE DEF killed
    <3> QED
      BY <3>1, <3>2, <3>3, ProcessStep
  <2> QED
    BY <1>14, <2>1 DEF AdapterTimesOut, Goto, KeepFiles, KeepJournal, envVars, TypeOK,
               Admitted, Pending, At, Child, PC, States
<1>15. CASE MaterializeAfter
  BY <1>15 DEF MaterializeAfter, Goto, KeepFiles, KeepJournal, envVars, TypeOK,
               Admitted, Pending, At, Child, PC, States
<1>16. CASE Record
  <2>1. call.cs \in ChangeSet /\ call.put \in States
    BY <1>16 DEF Record, TypeOK, Admitted, Pending, At
  <2>2. header' \in {"none", "torn", "whole"} /\ journal' \in Seq(Event) /\ torn' \in BOOLEAN
    BY <1>16, <2>1, AppendType DEF Record
  <2>3. locked' \subseteq ChangeSet
    BY <1>16, <2>1 DEF Record, TypeOK
  <2> QED
    BY <1>16, <2>2, <2>3 DEF Record, Return, Idle, KeepFiles, envVars, TypeOK, Admitted,
                       Pending, At, Child, PC
<1>17. CASE ReconcileSettle
  <2>1. call' \in {Idle, [pc |-> "record", cs |-> call.cs, put |-> "applied"],
                   [pc |-> "record", cs |-> call.cs, put |-> "reconciled"]}
    BY <1>17 DEF ReconcileSettle, Validate, Goto, Return
  <2> QED
    BY <1>17, <2>1 DEF ReconcileSettle, Idle, KeepFiles, KeepJournal, envVars, TypeOK,
                       Admitted, Pending, At, Child, PC, States
<1>18. CASE Crash
  BY <1>18, ConstantsAssumption DEF Crash, Return, Idle, KeepFiles, KeepJournal, envVars, TypeOK,
               Admitted, Pending, At, Child, PC
<1>19. CASE DeveloperEdit
  <2>1. files' \in [Path -> File] /\ landed' \subseteq AllOperations
    BY <1>19, ConstantsAssumption DEF DeveloperEdit, SetFiles, InPlaceIn, TypeOK
  <2> QED
    BY <1>19, <2>1, ConstantsAssumption DEF DeveloperEdit, KeepJournal, envVars, TypeOK,
               Admitted, Pending, At, Child
<1>20. CASE UNCHANGED vars
  BY <1>20 DEF vars, envVars, TypeOK, Admitted, Pending, At, Child
<1> QED
  BY <1>1, <1>2, <1>3, <1>4, <1>5, <1>6, <1>7, <1>8, <1>9, <1>10, <1>11, <1>12, <1>13,
     <1>14, <1>15, <1>16, <1>17, <1>18, <1>19, <1>20
  DEF Next, Begin, RecoverTail, Command, Planning, DevCli

(* Every reachable state is well typed, for every repository and every bound:
   the journal holds only records of known states, Dev CLI only runs plans whose
   pins exist, and files stay files. *)
THEOREM TypeCorrect == Spec => []TypeOK
<1>1. TypeInv => TypeOK
  BY DEF TypeInv
<1> QED
  BY <1>1, TypeInit, TypeNext, PTL DEF Spec
----------------------------------------------------------------------------
(* What a step may do to the journal, to the evidence and to the command *)

JournalStep ==
    \/ journal' = journal
    \/ \E e \in Event :
         /\ journal' = Append(journal, e)
         /\ e.cs = call.cs /\ e.authority = Authority[call.cs]
         /\ \/ At("seal") /\ e.state = "sealed"
            \/ At("record") /\ e.state = call.put /\ call' = Idle

LEMMA AppendStep ==
    ASSUME NEW cs \in ChangeSet, NEW state \in States, AppendRecord(cs, state)
    PROVE  \/ journal' = journal
           \/ \E e \in Event : /\ journal' = Append(journal, e)
                               /\ e.cs = cs /\ e.authority = Authority[cs] /\ e.state = state
<1> DEFINE e == [cs |-> cs, state |-> state, authority |-> Authority[cs]]
<1>1. e \in Event
  BY DEF Event, Authorities
<1> QED
  BY <1>1 DEF AppendRecord

LEMMA JournalGrows == TypeInv /\ [Next]_vars => JournalStep
<1> SUFFICES ASSUME TypeInv, [Next]_vars PROVE JournalStep
  OBVIOUS
<1>1. CASE MaterializeSeal
  <2>1. call.cs \in ChangeSet /\ "sealed" \in States
    BY <1>1 DEF MaterializeSeal, TypeInv, TypeOK, Admitted, At, States
  <2> QED
    BY <1>1, <2>1, AppendStep DEF MaterializeSeal, JournalStep
<1>2. CASE Record
  <2>1. call.cs \in ChangeSet /\ call.put \in States
    BY <1>2 DEF Record, TypeInv, TypeOK, Admitted, Pending, At
  <2> QED
    BY <1>2, <2>1, AppendStep DEF Record, Return, JournalStep
<1>3. CASE ~MaterializeSeal /\ ~Record
  <2>1. journal' = journal
    BY <1>3 DEF Next, Begin, RecoverTail, Command, Planning, DevCli, Prepare, MaterializeBegin,
         ReconcileBegin, Recover, MaterializeValidate, PlanRejected, PlanRaises, SpawnFails,
         Spawn, AdapterReturns, AdapterTimesOut, MaterializeAfter, ReconcileSettle,
         DevCliStep, DevCliExit, Crash, DeveloperEdit, KeepJournal, vars
  <2> QED
    BY <2>1 DEF JournalStep
<1> QED
  BY <1>1, <1>2, <1>3

(* Evidence is never withdrawn: landed only grows, a finished process stays. *)
EvidenceStep ==
    /\ landed \subseteq landed'
    /\ \A k \in DOMAIN children :
         /\ k \in DOMAIN children'
         /\ children'[k].cs = children[k].cs
         /\ children[k].status = "ok" => children'[k].status = "ok"

LEMMA EvidenceStays == TypeInv /\ [Next]_vars => EvidenceStep
<1> SUFFICES ASSUME TypeInv, [Next]_vars PROVE EvidenceStep
  OBVIOUS
<1>1. children \in Seq(Process)
  BY DEF TypeInv, TypeOK
<1>2. ASSUME NEW k \in DOMAIN children, DevCliStep(k) PROVE EvidenceStep
  <2>1. landed \subseteq landed'
    BY <1>2 DEF DevCliStep, SetFiles, KeepFiles
  <2>2. \/ children' = [children EXCEPT ![k].next = @ + 1]
        \/ children' = [children EXCEPT ![k].status = "rejected"]
    BY <1>2 DEF DevCliStep
  <2>3. children[k].status = "running"
    BY <1>2 DEF DevCliStep
  <2>4. \A j \in DOMAIN children : children[j] \in Process
    BY <1>1
  <2>5. CASE children' = [children EXCEPT ![k].next = @ + 1]
    BY <1>1, <1>2, <2>1, <2>4, <2>5 DEF EvidenceStep, Process
  <2>6. CASE children' = [children EXCEPT ![k].status = "rejected"]
    BY <1>1, <1>2, <2>1, <2>3, <2>4, <2>6 DEF EvidenceStep, Process
  <2> QED
    BY <2>2, <2>5, <2>6
<1>3. ASSUME NEW k \in DOMAIN children, DevCliExit(k) PROVE EvidenceStep
  BY <1>1, <1>3 DEF DevCliExit, KeepFiles, EvidenceStep, Process
<1>4. CASE AdapterTimesOut
  BY <1>1, <1>4 DEF AdapterTimesOut, KeepFiles, EvidenceStep, Process
<1>5. CASE Spawn
  <2>1. PICK c : children' = Append(children, c)
    BY <1>5 DEF Spawn
  <2> QED
    BY <1>1, <1>5, <2>1 DEF Spawn, KeepFiles, EvidenceStep
<1>6. CASE DeveloperEdit
  BY <1>6 DEF DeveloperEdit, SetFiles, EvidenceStep
<1>7. CASE landed' = landed /\ children' = children
  BY <1>7 DEF EvidenceStep
<1>8. \/ \E k \in DOMAIN children : DevCliStep(k) \/ DevCliExit(k)
      \/ AdapterTimesOut \/ Spawn \/ DeveloperEdit
      \/ landed' = landed /\ children' = children
  BY DEF Next, Begin, RecoverTail, Command, Planning, DevCli, Prepare, MaterializeBegin,
         ReconcileBegin, Recover, MaterializeValidate, MaterializeSeal, PlanRejected,
         PlanRaises, SpawnFails, AdapterReturns, MaterializeAfter, Record, ReconcileSettle,
         Crash, KeepFiles, vars
<1> QED
  BY <1>2, <1>3, <1>4, <1>5, <1>6, <1>7, <1>8

LEMMA EarnedStays ==
    ASSUME EvidenceStep, NEW cs, Earned(cs)
    PROVE  Earned(cs)'
BY DEF EvidenceStep, Earned

(* A command continues, ends, or one begins on a journal it may read. *)
Continues == ~At("idle") /\ call'.cs = call.cs /\ (torn' => torn)
Begins(cs) ==
    /\ cs \in prepared
    /\ call'.cs = cs
    /\ ~torn'
    /\ \A i \in DOMAIN journal : journal[i].authority = Authority[cs]
    /\ LastState(cs) \notin Final
    /\ journal' = journal

LEMMA CommandStep ==
    TypeInv /\ [Next]_vars =>
        call'.pc = "idle" \/ Continues \/ \E cs \in ChangeSet : Begins(cs)
<1> SUFFICES ASSUME TypeInv, [Next]_vars, call'.pc # "idle"
             PROVE  Continues \/ \E cs \in ChangeSet : Begins(cs)
  OBVIOUS
<1>1. ASSUME NEW cs \in ChangeSet, MaterializeBegin(cs) PROVE Begins(cs)
  <2>1. call'.cs = cs /\ LastState(cs) \notin Final
    BY <1>1 DEF MaterializeBegin, At
  <2> QED
    BY <1>1, <2>1 DEF MaterializeBegin, Begins, KeepJournal, ReadAccepts
<1>2. ASSUME NEW cs \in ChangeSet, ReconcileBegin(cs) PROVE Begins(cs)
  <2>1. call'.cs = cs /\ LastState(cs) \notin Final
    BY <1>2 DEF ReconcileBegin, At, Final
  <2> QED
    BY <1>2, <2>1 DEF ReconcileBegin, Begins, KeepJournal, ReadAccepts
<1>3. CASE Command
  <2>1. torn' = torn
    BY <1>3 DEF Command, Planning, MaterializeValidate, MaterializeSeal, PlanRejected, PlanRaises,
           SpawnFails, Spawn, AdapterReturns, AdapterTimesOut, MaterializeAfter, Record,
           ReconcileSettle, AppendRecord, KeepJournal
  <2>2. ~At("idle")
    BY <1>3 DEF Command, Planning, MaterializeValidate, MaterializeSeal, PlanRejected, PlanRaises,
           SpawnFails, Spawn, AdapterReturns, AdapterTimesOut, MaterializeAfter, Record,
           ReconcileSettle, At
  <2>3. CASE ReconcileSettle
    <3>1. call' \in {Idle, [pc |-> "record", cs |-> call.cs, put |-> "applied"],
                     [pc |-> "record", cs |-> call.cs, put |-> "reconciled"]}
      BY <2>3 DEF ReconcileSettle, Validate, Goto, Return
    <3> QED
      BY <2>1, <2>2, <3>1 DEF Idle, Continues
  <2>4. CASE ~ReconcileSettle
    BY <1>3, <2>1, <2>2, <2>4
      DEF Command, Planning, MaterializeValidate, MaterializeSeal, PlanRejected, PlanRaises,
          SpawnFails, Spawn, AdapterReturns, AdapterTimesOut, MaterializeAfter, Record,
          Goto, Return, Idle, Continues
  <2> QED
    BY <2>3, <2>4
<1>4. CASE call' = call /\ torn' = torn
  BY <1>4 DEF Continues, At
<1>5. ASSUME NEW a, Recover(a) PROVE FALSE
  BY <1>5 DEF Recover, At
<1>6. CASE Crash
  BY <1>6 DEF Crash, Return, Idle
<1>7. ASSUME NEW cs \in ChangeSet, Prepare(cs) PROVE call' = call /\ torn' = torn
  BY <1>7 DEF Prepare, KeepJournal
<1>8. ASSUME NEW k \in DOMAIN children, DevCliStep(k) \/ DevCliExit(k)
      PROVE  call' = call /\ torn' = torn
  BY <1>8 DEF DevCliStep, DevCliExit, KeepJournal
<1>9. CASE DeveloperEdit \/ UNCHANGED vars
  BY <1>9, <1>4 DEF DeveloperEdit, KeepJournal, vars
<1> QED
  BY <1>1, <1>2, <1>3, <1>4, <1>5, <1>6, <1>7, <1>8, <1>9 DEF Next, Begin, RecoverTail, DevCli

----------------------------------------------------------------------------
(* Safety *)

(* A changeset whose newest record is not final has no final record. *)
LEMMA NoFinalLeft ==
    ASSUME TypeOK, FinalIsLast, NEW cs, LastState(cs) \notin Final
    PROVE  \A i \in Own(cs) : journal[i].state \notin Final
<1> SUFFICES ASSUME NEW i \in Own(cs), journal[i].state \in Final PROVE FALSE
  OBVIOUS
<1>1. DOMAIN journal \subseteq Nat /\ i \in DOMAIN journal
  BY DEF TypeOK, Own
<1>2. \A j \in Own(cs) : j <= i
  BY DEF FinalIsLast, Own
<1> DEFINE last == CHOOSE k \in Own(cs) : \A j \in Own(cs) : j <= k
<1>3. last \in Own(cs) /\ \A j \in Own(cs) : j <= last
  BY <1>2
<1>4. last = i
  BY <1>1, <1>2, <1>3 DEF Own
<1> QED
  BY <1>4 DEF LastState

LEMMA SafeInit == Init => SafeInv
BY DEF Init, Idle, At, SafeInv, Holding, FinalIsLast, EarnedBefore, LandedNow,
       JournalOneAuthority, AppliedMeansLanded

(* A command that is about to record a final state has earned it already. *)
LEMMA EarnedFirst ==
    ASSUME IInv, [Next]_vars, call'.pc # "idle", call'.pc = "after" \/ call'.put \in Final
    PROVE  Earned(call'.cs)
<1> USE ConstantsAssumption DEF IInv, TypeInv, SafeInv, Final, States
<1>1. ASSUME call.cs \in ChangeSet, Validate(call.cs, files) = "idempotent"
      PROVE  Earned(call.cs)
  <2>1. files \in [Path -> File]
    BY DEF TypeOK
  <2> QED
    BY <1>1, <2>1, ValidateIdempotent DEF LandedNow, Earned
<1>2. ~At("idle") => call.cs \in ChangeSet
  BY DEF TypeOK, Admitted
<1>3. CASE call' = call
  BY <1>3 DEF EarnedBefore, At
<1>4. CASE MaterializeValidate
  BY <1>1, <1>2, <1>4 DEF MaterializeValidate, Goto, At
<1>5. CASE MaterializeSeal
  BY <1>5 DEF MaterializeSeal, Goto, At, EarnedBefore
<1>6. CASE AdapterReturns
  <2>1. Child \in DOMAIN children /\ children[Child].cs = call.cs
    BY <1>6 DEF AdapterReturns, Pending
  <2>2. call'.cs = call.cs /\ children[Child].status = "ok"
    BY <1>6 DEF AdapterReturns, Goto
  <2> QED
    BY <2>1, <2>2 DEF Earned
<1>7. CASE MaterializeAfter
  BY <1>7 DEF MaterializeAfter, Goto, At, EarnedBefore
<1>8. CASE ReconcileSettle
  <2>1. \/ call' = Idle
        \/ call' = [pc |-> "record", cs |-> call.cs, put |-> "reconciled"]
        \/ Validate(call.cs, files) = "idempotent" /\ call'.cs = call.cs
    <3>1. Validate(call.cs, files) \in {"error", "idempotent", "ready"}
      BY DEF Validate
    <3>2. CASE Validate(call.cs, files) = "error"
      BY <1>8, <3>2 DEF ReconcileSettle, Return
    <3>3. CASE Validate(call.cs, files) = "idempotent"
      BY <1>8, <3>3 DEF ReconcileSettle, Goto
    <3>4. CASE Validate(call.cs, files) = "ready"
      BY <1>8, <3>4 DEF ReconcileSettle, Goto
    <3> QED
      BY <3>1, <3>2, <3>3, <3>4
  <2>2. At("settle")
    BY <1>8 DEF ReconcileSettle
  <2> QED
    BY <1>1, <1>2, <2>1, <2>2 DEF Idle, At
<1>9. CASE Planning \/ AdapterTimesOut \/ Record \/ Crash
  BY <1>9 DEF Planning, PlanRejected, PlanRaises, SpawnFails, Spawn, AdapterTimesOut, Record,
              Crash, Goto, Return, Idle
<1>10. ASSUME NEW cs \in ChangeSet, Prepare(cs) \/ MaterializeBegin(cs) \/ ReconcileBegin(cs)
       PROVE  Earned(call'.cs)
  <2>1. \/ call' = call
        \/ call'.pc \in {"validate", "settle"} /\ call'.put = Missing
    <3>1. CASE Prepare(cs)
      BY <3>1 DEF Prepare
    <3>2. CASE MaterializeBegin(cs)
      BY <3>2 DEF MaterializeBegin
    <3>3. CASE ReconcileBegin(cs)
      BY <3>3 DEF ReconcileBegin
    <3> QED
      BY <1>10, <3>1, <3>2, <3>3
  <2> QED
    BY <1>3, <2>1
<1>11. CASE RecoverTail \/ DevCli \/ DeveloperEdit \/ UNCHANGED vars
  <2>1. call' = call
    BY <1>11 DEF RecoverTail, Recover, DevCli, DevCliStep, DevCliExit, DeveloperEdit, vars
  <2> QED
    BY <2>1, <1>3
<1> QED
  BY <1>3, <1>4, <1>5, <1>6, <1>7, <1>8, <1>9, <1>10, <1>11 DEF Next, Begin, Command

LEMMA SafeNext == IInv /\ [Next]_vars => SafeInv'
<1> SUFFICES ASSUME IInv, [Next]_vars PROVE SafeInv'
  OBVIOUS
<1>1. JournalStep /\ EvidenceStep /\ TypeInv'
  BY JournalGrows, EvidenceStays, TypeNext DEF IInv
<1>2. journal \in Seq(Event)
  BY DEF IInv, TypeInv, TypeOK
<1>3. \A cs : Earned(cs) => Earned(cs)'
  BY <1>1, EarnedStays
<1>4. Holding'
  <2> SUFFICES ASSUME call'.pc # "idle"
               PROVE  /\ ~torn'
                      /\ \A i \in DOMAIN journal' : journal'[i].authority = Authority[call'.cs]
                      /\ \A i \in DOMAIN journal' :
                           journal'[i].cs = call'.cs => journal'[i].state \notin Final
    BY DEF Holding, At, Own
  <2>1. CASE Continues
    <3>1. /\ ~torn
          /\ \A i \in DOMAIN journal : journal[i].authority = Authority[call.cs]
          /\ \A i \in DOMAIN journal : journal[i].cs = call.cs => journal[i].state \notin Final
      BY <2>1 DEF IInv, SafeInv, Holding, Continues, Own
    <3>2. CASE journal' = journal
      BY <2>1, <3>1, <3>2 DEF Continues
    <3>3. ASSUME NEW e \in Event, journal' = Append(journal, e), e.cs = call.cs,
                 e.authority = Authority[call.cs], e.state = "sealed"
          PROVE  /\ \A i \in DOMAIN journal' : journal'[i].authority = Authority[call'.cs]
                 /\ \A i \in DOMAIN journal' :
                      journal'[i].cs = call'.cs => journal'[i].state \notin Final
      BY <1>2, <2>1, <3>1, <3>3 DEF Continues, Final
    <3>4. ~torn'
      BY <2>1, <3>1 DEF Continues
    <3> QED
      BY <1>1, <3>2, <3>3, <3>4 DEF JournalStep, Idle
  <2>2. ASSUME NEW cs \in ChangeSet, Begins(cs)
        PROVE  /\ ~torn'
               /\ \A i \in DOMAIN journal' : journal'[i].authority = Authority[call'.cs]
               /\ \A i \in DOMAIN journal' :
                    journal'[i].cs = call'.cs => journal'[i].state \notin Final
    <3>1. \A i \in Own(cs) : journal[i].state \notin Final
      BY <2>2, NoFinalLeft DEF IInv, TypeInv, SafeInv, Begins
    <3> QED
      BY <2>2, <3>1 DEF Begins, Own
  <2> QED
    BY <2>1, <2>2, CommandStep DEF IInv
<1>5. LandedNow'
  <2>1. CASE files' = files
    BY <1>1, <2>1 DEF IInv, SafeInv, LandedNow, InPlaceIn, InPlace, EvidenceStep
  <2>2. CASE InPlaceIn(files') \subseteq landed'
    BY <2>2 DEF LandedNow, InPlaceIn, InPlace
  <2>3. files' = files \/ InPlaceIn(files') \subseteq landed'
    BY DEF Next, Begin, RecoverTail, Command, Planning, DevCli, Prepare, MaterializeBegin,
         ReconcileBegin, Recover, MaterializeValidate, MaterializeSeal, PlanRejected,
         PlanRaises, SpawnFails, Spawn, AdapterReturns, AdapterTimesOut, MaterializeAfter,
         Record, ReconcileSettle, DevCliStep, DevCliExit, Crash, DeveloperEdit,
         KeepFiles, SetFiles, vars
  <2> QED
    BY <2>1, <2>2, <2>3
<1>6. EarnedBefore'
  <2> SUFFICES ASSUME call'.pc # "idle", call'.pc = "after" \/ call'.put \in Final
               PROVE  Earned(call.cs)'
    BY DEF EarnedBefore, At, Earned
  <2>1. Earned(call'.cs)
    BY EarnedFirst
  <2> QED
    BY <1>1, <2>1 DEF Earned, EvidenceStep
<1>7. ASSUME journal' = journal
      PROVE  JournalOneAuthority' /\ AppliedMeansLanded' /\ FinalIsLast'
  <2>1. JournalOneAuthority' /\ FinalIsLast'
    BY <1>7 DEF IInv, SafeInv, JournalOneAuthority, FinalIsLast
  <2>2. AppliedMeansLanded'
    BY <1>3, <1>7 DEF IInv, SafeInv, AppliedMeansLanded, Earned
  <2> QED
    BY <2>1, <2>2
<1>8. ASSUME NEW e \in Event, journal' = Append(journal, e), e.cs = call.cs,
             e.authority = Authority[call.cs],
             \/ At("seal") /\ e.state = "sealed"
             \/ At("record") /\ e.state = call.put /\ call' = Idle
      PROVE  JournalOneAuthority' /\ AppliedMeansLanded' /\ FinalIsLast'
  <2>1. /\ Len(journal') = Len(journal) + 1
        /\ DOMAIN journal' = 1..Len(journal')
        /\ journal'[Len(journal')] = e
        /\ \A i \in DOMAIN journal : i \in Nat /\ i <= Len(journal) /\ journal'[i] = journal[i]
        /\ \A i \in DOMAIN journal' : i \in DOMAIN journal \/ i = Len(journal')
        /\ Len(journal) \in Nat
    BY <1>2, <1>8
  <2>2. ~At("idle")
    BY <1>8 DEF At
  <2>3. /\ \A i \in DOMAIN journal : journal[i].authority = e.authority
        /\ \A i \in DOMAIN journal : journal[i].cs = e.cs => journal[i].state \notin Final
    BY <1>8, <2>2 DEF IInv, SafeInv, Holding, Own
  <2>4. JournalOneAuthority'
    BY <2>1, <2>3 DEF JournalOneAuthority
  <2>5. FinalIsLast'
    BY <2>1, <2>3 DEF IInv, SafeInv, FinalIsLast
  <2>6. AppliedMeansLanded'
    <3>1. e.state \in Final => Earned(e.cs)
      BY <1>8, <2>2 DEF IInv, SafeInv, EarnedBefore, Final
    <3>2. e.state \in Final => Earned(e.cs)'
      BY <1>3, <3>1
    <3>3. \A i \in DOMAIN journal :
             journal[i].state \in Final => \A cs : cs = journal[i].cs => Earned(cs)'
      BY <1>3 DEF IInv, SafeInv, AppliedMeansLanded
    <3> QED
      BY <2>1, <3>2, <3>3 DEF AppliedMeansLanded, Earned
  <2> QED
    BY <2>4, <2>5, <2>6
<1>9. JournalOneAuthority' /\ AppliedMeansLanded' /\ FinalIsLast'
  BY <1>1, <1>7, <1>8 DEF JournalStep
<1> QED
  BY <1>4, <1>5, <1>6, <1>9 DEF SafeInv

LEMMA Invariance == Spec => []IInv
<1>1. Init => IInv
  BY TypeInit, SafeInit DEF IInv
<1>2. IInv /\ [Next]_vars => IInv'
  BY TypeNext, SafeNext DEF IInv
<1> QED
  BY <1>1, <1>2, PTL DEF Spec

(* However timeouts, crashes, partial effects and concurrent edits interleave,
   a record "applied" or "idempotent" stands for an effect that was in place in
   the source or for a Dev CLI process that ran its whole plan. *)
THEOREM AppliedIsEarned == Spec => []AppliedMeansLanded
<1>1. IInv => AppliedMeansLanded
  BY DEF IInv, SafeInv
<1> QED
  BY <1>1, Invariance, PTL

(* A journal belongs to one worktree, lease and fencing token for good. *)
THEOREM OneAuthority == Spec => []JournalOneAuthority
<1>1. IInv => JournalOneAuthority
  BY DEF IInv, SafeInv
<1> QED
  BY <1>1, Invariance, PTL

(* No step drops or rewrites a complete journal record. *)
THEOREM Durability == Spec => RecordsAreDurable
<1>1. IInv /\ [Next]_vars =>
        [/\ Len(journal') >= Len(journal)
         /\ SubSeq(journal', 1, Len(journal)) = journal]_journal
  <2> SUFFICES ASSUME IInv, [Next]_vars, journal' # journal
               PROVE  /\ Len(journal') >= Len(journal)
                      /\ SubSeq(journal', 1, Len(journal)) = journal
    OBVIOUS
  <2>1. journal \in Seq(Event)
    BY DEF IInv, TypeInv, TypeOK
  <2>2. PICK e \in Event : journal' = Append(journal, e)
    BY JournalGrows DEF IInv, JournalStep
  <2> QED
    BY <2>1, <2>2
<1> QED
  BY <1>1, Invariance, PTL DEF Spec, RecordsAreDurable

(* A changeset with a final record is never handed to Dev CLI again. *)
THEOREM NeverRespawned == Spec => FinishedNeverRespawned
<1>1. IInv /\ [Next]_vars =>
        [Len(children') > Len(children) =>
            \A i \in Own(children'[Len(children')].cs) : journal[i].state \notin Final]_vars
  <2> SUFFICES ASSUME IInv, Next, Len(children') > Len(children)
               PROVE  \A i \in Own(children'[Len(children')].cs) : journal[i].state \notin Final
    OBVIOUS
  <2>1. children \in Seq(Process)
    BY DEF IInv, TypeInv, TypeOK
  <2>2. Spawn
    <3>1. ASSUME NEW k \in DOMAIN children, DevCliStep(k) \/ DevCliExit(k) PROVE FALSE
      BY <2>1, <3>1 DEF DevCliStep, DevCliExit
    <3>2. ~AdapterTimesOut
      BY <2>1 DEF AdapterTimesOut
    <3>3. children' # children
      BY <2>1
    <3> QED
      BY <3>1, <3>2, <3>3
        DEF Next, Begin, RecoverTail, Command, Planning, DevCli, Prepare, MaterializeBegin,
            ReconcileBegin, Recover, MaterializeValidate, MaterializeSeal, PlanRejected,
            PlanRaises, SpawnFails, AdapterReturns, MaterializeAfter, Record,
            ReconcileSettle, Crash, DeveloperEdit
  <2>3. PICK c : children' = Append(children, c) /\ c.cs = call.cs
    BY <2>2 DEF Spawn
  <2>4. children'[Len(children')].cs = call.cs
    BY <2>1, <2>3
  <2>5. ~At("idle")
    BY <2>2 DEF Spawn, At
  <2> QED
    BY <2>4, <2>5 DEF IInv, SafeInv, Holding
<1> QED
  BY <1>1, Invariance, PTL DEF Spec, FinishedNeverRespawned

(* The journal is true for one holder, and what it records binds every later command:
   across timeouts, partial effects, crashes, torn records and recover. *)
THEOREM JournalTrue == Spec => []JournalIsTrue
  BY TypeCorrect, AppliedIsEarned, OneAuthority, PTL DEF JournalIsTrue

(* So nothing recorded is undone, and nothing that is finished is spawned again. *)
THEOREM RecordsAreBinding == Spec => RecordsBind
  BY Durability, NeverRespawned, PTL DEF RecordsBind
=============================================================================
