--------------------------- MODULE BinaryChangeset ---------------------------
(***************************************************************************)
(* The public life of a binary changeset (binary_changeset.py and the      *)
(* `changeset` commands of cli.py): intent is checked and sealed, then     *)
(* `materialize` validates it against the source files, hands it to the    *)
(* external Dev CLI and records every stage in an append-only journal;     *)
(* `reconcile` settles an outcome nobody observed, `recover` cuts a torn   *)
(* tail.  Any command can crash between two effects, the Dev CLI child     *)
(* survives its parent, and developers edit the same files meanwhile.      *)
(*                                                                         *)
(* Data is abstracted as follows.  A file's bytes are a member of Content  *)
(* and a SHA-256 is identified with the bytes it digests; Norm maps bytes  *)
(* to their newline-normalised form.  A replace-range edit is the function *)
(* from the old bytes to the new ones (Missing where the line map or the   *)
(* encoding does not fit).                                                 *)
(***************************************************************************)
EXTENDS Naturals, Sequences, FiniteSets

CONSTANTS
    Path,          \* repository-relative paths
    Content,       \* byte strings
    Norm,          \* newline-normalised form of a byte string
    Missing,       \* no file at the path (and "no value" in an operation)
    Symlink,       \* the path is a symbolic link
    ChangeSet,     \* changesets, by changeset_id
    Operations,    \* the operations of each changeset
    Allowed,       \* the allowed_paths of each changeset
    Authority,     \* worktree, lease and fencing token of each changeset
    InitialFiles,  \* the repository when the first command runs
    Edits,         \* what developers write: a set of <<path, file>> pairs
    MaxEdits, MaxCrashes, MaxSpawns   \* bounds on the environment

VARIABLES
    files,      \* the source files
    prepared,   \* changesets that have a sealed binary
    header,     \* the journal file: "none", "torn" or "whole" header
    journal,    \* complete journal records, oldest first
    torn,       \* an incomplete record follows them
    call,       \* the command being executed
    children,   \* Dev CLI processes, in the order they were spawned
    edits, crashes,                   \* environment counters
    landed,     \* history: <<changeset, i>> whose effect was once in place
    locked      \* history: changesets whose caller was told "locked"

envVars == <<edits, crashes>>
vars == <<files, prepared, header, journal, torn, call, children, envVars,
          landed, locked>>

----------------------------------------------------------------------------
(* Operations and changesets *)

File == Content \cup {Missing, Symlink}
OpType == {"create", "replace-range", "rename", "delete"}
Operation ==
    [op : OpType, path : Path, dest : Path \cup {Missing},
     before : Content \cup {Missing}, after : Content \cup {Missing},
     content : Content \cup {Missing},
     edit : [Content -> Content \cup {Missing}]]
Authorities == {Authority[cs] : cs \in ChangeSet}
States == {"sealed", "idempotent", "applied", "unknown", "reconciled", "rejected"}
Final == {"applied", "idempotent"}
Event == [cs : ChangeSet, state : States, authority : Authorities]

ASSUME ConstantsAssumption ==
    /\ Missing \notin Content
    /\ Symlink \notin Content
    /\ Missing \notin Path
    /\ Missing # Symlink
    /\ Missing \notin States
    /\ Norm \in [Content -> Content]
    /\ \A c \in Content : Norm[Norm[c]] = Norm[c]
    /\ Operations \in [ChangeSet -> Seq(Operation)]
    /\ Allowed \in [ChangeSet -> SUBSET Path]
    /\ DOMAIN Authority = ChangeSet
    /\ InitialFiles \in [Path -> File]
    /\ Edits \subseteq Path \X File
    /\ MaxEdits \in Nat /\ MaxCrashes \in Nat /\ MaxSpawns \in Nat

(* _matches_hash: the raw or the newline-normalised digest is the expected one *)
MatchesHash(c, expected) ==
    /\ c \in Content
    /\ expected # Missing
    /\ expected \in {c, Norm[c]}

(* ChangeOperation.from_dict: the payload each kind of operation must carry *)
ValidOperation(o) ==
    CASE o.op = "create"        -> o.content # Missing /\ o.after # Missing
      [] o.op = "replace-range" -> /\ o.content # Missing
                                   /\ o.before # Missing /\ o.after # Missing
      [] o.op = "rename"        -> /\ o.dest # Missing /\ o.dest # o.path
                                   /\ o.before # Missing /\ o.after # Missing
      [] o.op = "delete"        -> o.before # Missing

OperationPaths(o) == {o.path, o.dest} \ {Missing}
Touched(cs) == UNION {OperationPaths(Operations[cs][i]) : i \in DOMAIN Operations[cs]}

(* BinaryChangeSet.__post_init__ and prepare_from_json *)
ValidChangeSet(cs) ==
    /\ Operations[cs] # << >>
    /\ Allowed[cs] # {}
    /\ \A i \in DOMAIN Operations[cs] : ValidOperation(Operations[cs][i])
    /\ Touched(cs) \subseteq Allowed[cs]

(* The four arms of BinaryChangeSet.validate for one operation against the
   simulated files f: what it says and the files after it. *)
CreateVerdict(o, f) ==
    IF f[o.path] = Missing THEN [status |-> "ready", f |-> [f EXCEPT ![o.path] = o.content]]
    ELSE IF MatchesHash(f[o.path], o.after) THEN [status |-> "idempotent", f |-> f]
    ELSE [status |-> "error", f |-> f]

ReplaceVerdict(o, f) ==
    IF f[o.path] = Missing THEN [status |-> "error", f |-> f]
    ELSE IF MatchesHash(f[o.path], o.after) THEN [status |-> "idempotent", f |-> f]
    ELSE IF MatchesHash(f[o.path], o.before) /\ MatchesHash(o.edit[f[o.path]], o.after)
         THEN [status |-> "ready", f |-> [f EXCEPT ![o.path] = o.edit[f[o.path]]]]
    ELSE [status |-> "error", f |-> f]

RenameVerdict(o, f) ==
    IF f[o.path] = Missing /\ MatchesHash(f[o.dest], o.after)
    THEN [status |-> "idempotent", f |-> f]
    ELSE IF MatchesHash(f[o.path], o.before) /\ f[o.dest] = Missing
         THEN [status |-> "ready",
               f |-> [f EXCEPT ![o.dest] = f[o.path], ![o.path] = Missing]]
    ELSE [status |-> "error", f |-> f]

DeleteVerdict(o, f) ==
    IF f[o.path] = Missing THEN [status |-> "idempotent", f |-> f]
    ELSE IF MatchesHash(f[o.path], o.before)
         THEN [status |-> "ready", f |-> [f EXCEPT ![o.path] = Missing]]
    ELSE [status |-> "error", f |-> f]

OperationVerdict(o, f) ==
    CASE o.op = "create"        -> CreateVerdict(o, f)
      [] o.op = "replace-range" -> ReplaceVerdict(o, f)
      [] o.op = "rename"        -> RenameVerdict(o, f)
      [] o.op = "delete"        -> DeleteVerdict(o, f)

(* BinaryChangeSet.validate: the operations are simulated in order on top of
   the files; the first failure ends it.  _safe_path refuses symbolic links
   before anything is simulated.  The changeset is idempotent when every
   operation is, and then none of them changed the simulated files. *)
SimulationFails(cs, f) ==
    LET ops == Operations[cs]
        step[i \in 0..Len(ops)] ==
            IF i = 0 THEN [status |-> "ready", f |-> f]
            ELSE IF step[i - 1].status = "error" THEN step[i - 1]
            ELSE OperationVerdict(ops[i], step[i - 1].f)
    IN  step[Len(ops)].status = "error"

Validate(cs, f) ==
    IF \E p \in Touched(cs) : f[p] = Symlink THEN "error"
    ELSE IF \A i \in DOMAIN Operations[cs] :
              OperationVerdict(Operations[cs][i], f).status = "idempotent"
         THEN "idempotent"
    ELSE IF SimulationFails(cs, f) THEN "error"
    ELSE "ready"

(* The effect of operation o is in place in f, stated without the code. *)
InPlace(o, f) ==
    CASE o.op \in {"create", "replace-range"} -> MatchesHash(f[o.path], o.after)
      [] o.op = "rename" -> f[o.path] = Missing /\ MatchesHash(f[o.dest], o.after)
      [] o.op = "delete" -> f[o.path] = Missing

AllOperations == UNION {{cs} \X DOMAIN Operations[cs] : cs \in ChangeSet}
InPlaceIn(f) == {x \in AllOperations : InPlace(Operations[x[1]][x[2]], f)}

SetFiles(f) == files' = f /\ landed' = landed \cup InPlaceIn(f)
KeepFiles == UNCHANGED <<files, landed>>

----------------------------------------------------------------------------
(* The journal *)

Own(cs) == {i \in DOMAIN journal : journal[i].cs = cs}

(* "previous" of materialize and reconcile: the newest record of cs *)
LastState(cs) ==
    IF Own(cs) = {} THEN "none"
    ELSE journal[CHOOSE i \in Own(cs) : \A j \in Own(cs) : j <= i].state

(* Mutant: records of other holders are accepted. *)
ReadAcceptsAnyHolder(authority, tornAllowed) ==
    /\ header # "torn"
    /\ torn => tornAllowed

(* BinaryChangeJournal.read without recover: header, complete records, authority *)
ReadAccepts(authority, tornAllowed) ==
    /\ header # "torn"
    /\ torn => tornAllowed
    /\ \A i \in DOMAIN journal : journal[i].authority = authority

(* BinaryChangeJournal.append: one record per changeset and state *)
Recorded(cs, state) == \E i \in Own(cs) : journal[i].state = state

AppendRecord(cs, state) ==
    /\ IF Recorded(cs, state) THEN UNCHANGED <<header, journal>>
       ELSE /\ header' = "whole"
            /\ journal' = Append(journal, [cs |-> cs, state |-> state,
                                           authority |-> Authority[cs]])
    /\ UNCHANGED torn

KeepJournal == UNCHANGED <<header, journal, torn>>

----------------------------------------------------------------------------
(* Commands.  call.pc names the next effect of the command in progress. *)

PC == {"idle", "validate", "seal", "plan", "wait", "after", "record", "settle"}
Idle == [pc |-> "idle", cs |-> Missing, put |-> Missing]
At(pc) == call.pc = pc
Goto(pc, put) == call' = [pc |-> pc, cs |-> call.cs, put |-> put]
Return == call' = Idle

Init ==
    /\ files = InitialFiles
    /\ prepared = {}
    /\ header = "none" /\ journal = << >> /\ torn = FALSE
    /\ call = Idle
    /\ children = << >>
    /\ edits = 0 /\ crashes = 0
    /\ landed = InPlaceIn(InitialFiles)
    /\ locked = {}

(* `changeset prepare`: intent is compiled and sealed with an atomic replace;
   an invalid intent raises and leaves nothing behind. *)
Prepare(cs) ==
    /\ At("idle")
    /\ cs \notin prepared
    /\ ValidChangeSet(cs)
    /\ prepared' = prepared \cup {cs}
    /\ KeepFiles /\ KeepJournal
    /\ UNCHANGED <<call, children, envVars, locked>>

(* Mutant: only an unknown outcome stops a replay. *)
MaterializeBeginOnceMore(cs) ==
    /\ At("idle")
    /\ cs \in prepared
    /\ ReadAccepts(Authority[cs], FALSE)
    /\ LastState(cs) # "unknown"
    /\ call' = [pc |-> "validate", cs |-> cs, put |-> Missing]
    /\ KeepFiles /\ KeepJournal
    /\ UNCHANGED <<prepared, children, envVars, locked>>

(* materialize up to its first decision.  A finished changeset returns
   "idempotent", a locked one returns "locked"; an unreadable journal raises. *)
MaterializeBegin(cs) ==
    /\ At("idle")
    /\ cs \in prepared
    /\ ReadAccepts(Authority[cs], FALSE)
    /\ \/ /\ LastState(cs) = "unknown"
          /\ locked' = locked \cup {cs}
          /\ UNCHANGED call
       \/ /\ LastState(cs) \notin Final \cup {"unknown"}
          /\ call' = [pc |-> "validate", cs |-> cs, put |-> Missing]
          /\ UNCHANGED locked
    /\ KeepFiles /\ KeepJournal
    /\ UNCHANGED <<prepared, children, envVars>>

(* Mutant: the verdict itself is written to the journal. *)
MaterializeValidateVerbatim ==
    /\ At("validate")
    /\ LET verdict == Validate(call.cs, files) IN
         IF verdict = "ready" THEN Goto("seal", Missing) ELSE Goto("record", verdict)
    /\ KeepFiles /\ KeepJournal
    /\ UNCHANGED <<prepared, children, envVars, locked>>

(* validation = changeset.validate(root); an error is recorded as "rejected" *)
MaterializeValidate ==
    /\ At("validate")
    /\ LET verdict == Validate(call.cs, files) IN
         IF verdict = "error" THEN Goto("record", "rejected")
         ELSE Goto("seal", IF verdict = "idempotent" THEN "idempotent" ELSE Missing)
    /\ KeepFiles /\ KeepJournal
    /\ UNCHANGED <<prepared, children, envVars, locked>>

(* journal.append(changeset, "sealed") *)
MaterializeSeal ==
    /\ At("seal")
    /\ AppendRecord(call.cs, "sealed")
    /\ IF call.put = "idempotent" THEN Goto("record", "idempotent") ELSE Goto("plan", Missing)
    /\ KeepFiles
    /\ UNCHANGED <<prepared, children, envVars, locked>>

(* DevCliAdapter.materialize up to subprocess.run.  The plan is drawn from the
   files as they are now: every operation, in place or not, pinned to the
   digest its file has at this moment.  Symbolic links are refused first; then
   the first operation that cannot be planned decides: a vanished source raises
   FileNotFoundError out of materialize, a line map out of range is an error. *)
Guard(o) == IF o.op = "create" THEN Missing ELSE Norm[files[o.path]]

PlanProblem(o) ==
    IF o.op = "create" THEN "none"
    ELSE IF files[o.path] = Missing THEN "raises"
    ELSE IF o.op = "replace-range" /\ o.edit[files[o.path]] = Missing THEN "rejected"
    ELSE "none"

PlanVerdict(cs) ==
    LET ops == Operations[cs]
        bad == {i \in DOMAIN ops : PlanProblem(ops[i]) # "none"}
    IN  IF \E p \in Touched(cs) : files[p] = Symlink THEN "rejected"
        ELSE IF bad = {} THEN "sound"
        ELSE PlanProblem(ops[CHOOSE i \in bad : \A j \in bad : i <= j])

(* The plan fails, or (sound plan) no Dev CLI executable is installed *)
PlanRejected ==
    /\ At("plan")
    /\ PlanVerdict(call.cs) \in {"rejected", "sound"}
    /\ Goto("record", "rejected")
    /\ KeepFiles /\ KeepJournal
    /\ UNCHANGED <<prepared, children, envVars, locked>>

PlanRaises ==
    /\ At("plan")
    /\ PlanVerdict(call.cs) = "raises"
    /\ Return
    /\ KeepFiles /\ KeepJournal
    /\ UNCHANGED <<prepared, children, envVars, locked>>

(* subprocess.run raises OSError: the effect counts as unknown *)
SpawnFails ==
    /\ At("plan")
    /\ PlanVerdict(call.cs) = "sound"
    /\ Goto("record", "unknown")
    /\ KeepFiles /\ KeepJournal
    /\ UNCHANGED <<prepared, children, envVars, locked>>

Spawn ==
    /\ At("plan")
    /\ Len(children) < MaxSpawns
    /\ PlanVerdict(call.cs) = "sound"
    /\ children' = Append(children,
         [cs |-> call.cs, next |-> 1, status |-> "running",
          guard |-> [i \in DOMAIN Operations[call.cs] |-> Guard(Operations[call.cs][i])]])
    /\ Goto("wait", Missing)
    /\ KeepFiles /\ KeepJournal
    /\ UNCHANGED <<prepared, envVars, locked>>

----------------------------------------------------------------------------
(* The Dev CLI process (external): it applies the plan operation by operation,
   each one only on a file with the pinned digest, and then prints a receipt. *)

GuardHolds(o, guard) ==
    CASE o.op = "create" -> files[o.path] = Missing
      [] o.op = "rename" -> /\ files[o.path] \in Content /\ Norm[files[o.path]] = guard
                            /\ files[o.dest] = Missing
      [] o.op = "replace-range" -> /\ files[o.path] \in Content
                                   /\ Norm[files[o.path]] = guard
                                   /\ o.edit[files[o.path]] # Missing
      [] o.op = "delete" -> files[o.path] \in Content /\ Norm[files[o.path]] = guard

Applied(o) ==
    CASE o.op = "create"        -> [files EXCEPT ![o.path] = o.content]
      [] o.op = "replace-range" -> [files EXCEPT ![o.path] = o.edit[files[o.path]]]
      [] o.op = "rename"        -> [files EXCEPT ![o.dest] = files[o.path], ![o.path] = Missing]
      [] o.op = "delete"        -> [files EXCEPT ![o.path] = Missing]

DevCliStep(k) ==
    /\ children[k].status = "running"
    /\ children[k].next <= Len(Operations[children[k].cs])
    /\ LET o == Operations[children[k].cs][children[k].next] IN
         IF GuardHolds(o, children[k].guard[children[k].next])
         THEN /\ SetFiles(Applied(o))
              /\ children' = [children EXCEPT ![k].next = @ + 1]
         ELSE /\ KeepFiles
              /\ children' = [children EXCEPT ![k].status = "rejected"]
    /\ KeepJournal
    /\ UNCHANGED <<prepared, call, envVars, locked>>

DevCliExit(k) ==
    /\ children[k].status = "running"
    /\ children[k].next > Len(Operations[children[k].cs])
    /\ \E receipt \in {"ok", "garbled"} :
         children' = [children EXCEPT ![k].status = receipt]
    /\ KeepFiles /\ KeepJournal
    /\ UNCHANGED <<prepared, call, envVars, locked>>

----------------------------------------------------------------------------
(* The rest of materialize *)

Child == Len(children)   \* the process a waiting command spawned

(* completed: only status "ok" and applied count, everything else is an error *)
AdapterReturns ==
    /\ At("wait")
    /\ children[Child].status \in {"ok", "garbled", "rejected"}
    /\ IF children[Child].status = "ok" THEN Goto("after", Missing)
       ELSE Goto("record", "rejected")
    /\ KeepFiles /\ KeepJournal
    /\ UNCHANGED <<prepared, children, envVars, locked>>

(* Mutant: subprocess.run without a timeout. *)
AdapterWaits == At("wait") /\ UNCHANGED vars

(* subprocess.TimeoutExpired: the child is killed wherever it is *)
AdapterTimesOut ==
    /\ At("wait")
    /\ children[Child].status = "running"
    /\ children' = [children EXCEPT ![Child].status = "killed"]
    /\ Goto("record", "unknown")
    /\ KeepFiles /\ KeepJournal
    /\ UNCHANGED <<prepared, envVars, locked>>

(* after = changeset.validate(root): any verdict but an error is "applied" *)
MaterializeAfter ==
    /\ At("after")
    /\ IF Validate(call.cs, files) = "error" THEN Goto("record", "rejected")
       ELSE Goto("record", "applied")
    /\ KeepFiles /\ KeepJournal
    /\ UNCHANGED <<prepared, children, envVars, locked>>

(* the last append of materialize or reconcile, and the receipt it returns *)
Record ==
    /\ At("record")
    /\ AppendRecord(call.cs, call.put)
    /\ locked' = CASE call.put = "unknown" -> locked \cup {call.cs}
                   [] call.put \in {"reconciled", "applied"} -> locked \ {call.cs}
                   [] OTHER -> locked
    /\ Return
    /\ KeepFiles
    /\ UNCHANGED <<prepared, children, envVars>>

----------------------------------------------------------------------------
(* reconcile_unknown_effect and BinaryChangeJournal.recover *)

(* A changeset with no unknown effect is "rejected"; one already reconciled
   gets its recorded answer back. *)
ReconcileBegin(cs) ==
    /\ At("idle")
    /\ cs \in prepared
    /\ ReadAccepts(Authority[cs], FALSE)
    /\ \/ /\ LastState(cs) = "reconciled"
          /\ locked' = locked \ {cs}
          /\ UNCHANGED call
       \/ /\ LastState(cs) = "unknown"
          /\ call' = [pc |-> "settle", cs |-> cs, put |-> Missing]
          /\ UNCHANGED locked
    /\ KeepFiles /\ KeepJournal
    /\ UNCHANGED <<prepared, children, envVars>>

(* Mutant: a source that fits the changeset counts as applied. *)
ReconcileSettleTrusting ==
    /\ At("settle")
    /\ IF Validate(call.cs, files) = "error" THEN Return ELSE Goto("record", "applied")
    /\ KeepFiles /\ KeepJournal
    /\ UNCHANGED <<prepared, children, envVars, locked>>

(* The source decides: in place is "applied", untouched is "reconciled" and
   may be retried, anything else stays locked and nothing is recorded. *)
ReconcileSettle ==
    /\ At("settle")
    /\ LET verdict == Validate(call.cs, files) IN
         CASE verdict = "error"      -> Return
           [] verdict = "idempotent" -> Goto("record", "applied")
           [] verdict = "ready"      -> Goto("record", "reconciled")
    /\ KeepFiles /\ KeepJournal
    /\ UNCHANGED <<prepared, children, envVars, locked>>

(* Mutant: the cut is one record too early. *)
RecoverTooFar(authority) ==
    /\ At("idle")
    /\ header = "whole"
    /\ torn
    /\ ReadAccepts(authority, TRUE)
    /\ torn' = FALSE
    /\ journal' = IF journal = << >> THEN journal ELSE SubSeq(journal, 1, Len(journal) - 1)
    /\ KeepFiles
    /\ UNCHANGED <<prepared, header, call, children, envVars, locked>>

(* recover cuts the incomplete record; a torn header raises instead *)
Recover(authority) ==
    /\ At("idle")
    /\ header = "whole"
    /\ torn
    /\ ReadAccepts(authority, TRUE)
    /\ torn' = FALSE
    /\ KeepFiles
    /\ UNCHANGED <<prepared, header, journal, call, children, envVars, locked>>

----------------------------------------------------------------------------
(* The environment *)

(* The command dies.  In the middle of an append it leaves a torn record, or a
   torn header when the journal file was just created; a child lives on. *)
Appending ==
    \/ At("seal") /\ ~Recorded(call.cs, "sealed")
    \/ At("record") /\ ~Recorded(call.cs, call.put)

Crash ==
    /\ ~At("idle")
    /\ crashes < MaxCrashes
    /\ crashes' = crashes + 1
    /\ \/ KeepJournal
       \/ Appending /\ header = "none" /\ header' = "torn" /\ UNCHANGED <<journal, torn>>
       \/ Appending /\ header' = "whole" /\ torn' \in BOOLEAN /\ UNCHANGED journal
    /\ Return
    /\ KeepFiles
    /\ UNCHANGED <<prepared, children, edits, locked>>

(* a developer or another tool writes a source file *)
DeveloperEdit ==
    /\ edits < MaxEdits
    /\ edits' = edits + 1
    /\ \E e \in Edits : files[e[1]] # e[2] /\ SetFiles([files EXCEPT ![e[1]] = e[2]])
    /\ KeepJournal
    /\ UNCHANGED <<prepared, call, children, crashes, locked>>

----------------------------------------------------------------------------

Begin == \E cs \in ChangeSet : Prepare(cs) \/ MaterializeBegin(cs) \/ ReconcileBegin(cs)
RecoverTail == \E a \in Authorities : Recover(a)
Planning == PlanRejected \/ PlanRaises \/ SpawnFails \/ Spawn
Command ==
    \/ MaterializeValidate \/ MaterializeSeal \/ Planning
    \/ AdapterReturns \/ AdapterTimesOut \/ MaterializeAfter
    \/ Record \/ ReconcileSettle
DevCli == \E k \in DOMAIN children : DevCliStep(k) \/ DevCliExit(k)

Next == Begin \/ RecoverTail \/ Command \/ DevCli \/ Crash \/ DeveloperEdit

Spec == Init /\ [][Next]_vars

(* A started command keeps running: every wait in it has a timeout. *)
FairSpec == Spec /\ WF_vars(Command)

----------------------------------------------------------------------------
(* Properties *)

Process ==
    [cs : ChangeSet, next : Nat \ {0},
     status : {"running", "ok", "garbled", "rejected", "killed"},
     guard : UNION {[DOMAIN Operations[cs] -> Content \cup {Missing}] : cs \in ChangeSet}]

TypeOK ==
    /\ files \in [Path -> File]
    /\ prepared \subseteq ChangeSet
    /\ header \in {"none", "torn", "whole"}
    /\ journal \in Seq(Event)
    /\ torn \in BOOLEAN
    /\ call \in [pc : PC, cs : ChangeSet \cup {Missing}, put : States \cup {Missing}]
    /\ children \in Seq(Process)
    /\ edits \in 0..MaxEdits /\ crashes \in 0..MaxCrashes
    /\ landed \subseteq AllOperations
    /\ locked \subseteq ChangeSet

(* A receipt "applied" or "idempotent" is earned: every operation of a
   changeset with such a record was in place in the source at some time, or a
   Dev CLI process ran its whole plan, across timeouts, partial effects,
   garbled receipts, crashes and concurrent edits. *)
Earned(cs) ==
    \/ {cs} \X DOMAIN Operations[cs] \subseteq landed
    \/ \E k \in DOMAIN children : children[k].cs = cs /\ children[k].status = "ok"

AppliedMeansLanded ==
    \A i \in DOMAIN journal : journal[i].state \in Final => Earned(journal[i].cs)

(* All records of a journal carry one worktree, lease and fencing token: once a
   holder wrote to it no other holder's command adds a record. *)
JournalOneAuthority ==
    \A i, j \in DOMAIN journal : journal[i].authority = journal[j].authority

(* A journal speaks the truth for one holder: its final records are earned and it
   is read and written under one worktree, lease and fencing token. *)
JournalIsTrue == TypeOK /\ AppliedMeansLanded /\ JournalOneAuthority

(* A record that was completely written is never lost or altered: crashes only
   tear what follows it and recover cuts only that. *)
RecordsAreDurable ==
    [][/\ Len(journal') >= Len(journal)
       /\ SubSeq(journal', 1, Len(journal)) = journal]_journal

(* A changeset recorded as applied or idempotent is never handed to Dev CLI
   again, whatever is retried, reconciled or recovered later. *)
FinishedNeverRespawned ==
    [][Len(children') > Len(children) =>
        \A i \in Own(children'[Len(children')].cs) : journal[i].state \notin Final]_vars

(* What was recorded binds: no crash or recover undoes it, and no later command
   acts against it. *)
RecordsBind == RecordsAreDurable /\ FinishedNeverRespawned

(* Every command ends, also when Dev CLI hangs. *)
CommandsEnd == ~At("idle") ~> At("idle")

(* A caller told "locked" can rely on it: until a reconcile settles the unknown
   effect, no Dev CLI process is started for that changeset. *)
UnknownLocksReplay ==
    [][Len(children') > Len(children) => children'[Len(children')].cs \notin locked]_vars
=============================================================================
