------------------------------ MODULE Delivery ------------------------------
(***************************************************************************)
(* One delivery of a simplicio.fast.changeset/v2 (DeliveryEngine.deliver   *)
(* in delivery.py, ProjectProcessor.apply_changeset in processor.py,       *)
(* run_dev_cli_changeset in integrations.py): replay of a stored receipt,  *)
(* the Runtime effect of the full profile, the native executor, and the    *)
(* guarded fallback with its rollback.  Several workers deliver at the     *)
(* same time, developers edit the files, replacements fail, workers crash. *)
(*                                                                         *)
(* Bytes are members of Content and a SHA-256 is the bytes it digests.     *)
(* Garbled stands for a native result that differs from the canonical one  *)
(* in newlines or encoding only.  A loop that only reads files (the stale  *)
(* checks of one function, _file_records) is one step; every write is a    *)
(* step of its own.                                                        *)
(***************************************************************************)
EXTENDS Naturals, Sequences, FiniteSets

CONSTANTS
    Path, Content,
    Gone,           \* no file at the path: reading it raises
    Garbled,        \* what a native executor writes instead of the result
    Request,        \* delivery requests
    Key,            \* the idempotency key of each request
    Changes,        \* sequence of [path, expected, result] of each request
    Write,          \* the request writes; otherwise it is a dry run
    Full,           \* profile full: writes belong to Runtime
    Transaction,    \* the coordinator's EffectTransaction: "none", "foreign" or "issued"
    Worker, InitialFiles, Edits,
    NoRequest, NoReceipt,
    MaxCalls, MaxEdits, MaxFailures, MaxCrashes

VARIABLES
    files,       \* the source files
    snapshot,    \* the files the published snapshot was built from
    integrated,  \* the snapshot is a Mapper projection
    receipts,    \* stored delivery receipts, by key
    calls,       \* what each worker is doing
    calling, edits, failures, crashes,   \* environment counters
    exact        \* history: <<request, i>> whose file held the canonical result

envVars == <<calling, edits, failures, crashes>>
vars == <<files, snapshot, integrated, receipts, calls, envVars, exact>>

----------------------------------------------------------------------------

File == Content \cup {Gone}
Keys == {Key[r] : r \in Request}
Change == [path : Path, expected : Content, result : Content]
Status == {"applied", "runtime_applied", "blocked", "dry_run"}
PC == {"idle", "runtime", "prepare", "native", "running", "verify", "restore", "restored",
       "check", "replace", "rollback", "confirm", "refresh", "publish", "store"}
IdleCall == [pc |-> "idle", req |-> NoRequest, i |-> 0, status |-> NoReceipt,
             twice |-> FALSE, foreign |-> FALSE, view |-> InitialFiles]

ASSUME ConstantsAssumption ==
    /\ Key \in [Request -> Keys]
    /\ Changes \in [Request -> Seq(Change)]
    /\ Write \in [Request -> BOOLEAN] /\ Full \in [Request -> BOOLEAN]
    /\ Transaction \in [Request -> {"none", "foreign", "issued"}]
    /\ Garbled \in Content /\ Gone \notin Content
    /\ InitialFiles \in [Path -> Content]
    /\ Edits \subseteq Path \X File
    /\ NoRequest \notin Request \cup Worker /\ NoReceipt \notin Status
    /\ MaxCalls \in Nat /\ MaxEdits \in Nat /\ MaxFailures \in Nat /\ MaxCrashes \in Nat

Req(w) == calls[w].req
Todo(w) == Changes[Req(w)]
Item(w) == Todo(w)[calls[w].i]
Touched(r) == {Changes[r][i].path : i \in DOMAIN Changes[r]}
At(w, pc) == calls[w].pc = pc

(* The prepared original of an item is the content its hash stands for. *)
Original(w) == \A i \in DOMAIN Todo(w) : files[Todo(w)[i].path] = Todo(w)[i].expected
Readable(w) == \A p \in Touched(Req(w)) : files[p] # Gone
Updated(w) == \A i \in DOMAIN Todo(w) : files[Todo(w)[i].path] = Todo(w)[i].result

(* expected_after of a write is keyed by path: of two changes to one file the last one counts *)
Landed(w) ==
    \A i \in DOMAIN Todo(w) :
        (\A j \in DOMAIN Todo(w) : j > i => Todo(w)[j].path # Todo(w)[i].path)
        => files[Todo(w)[i].path] = Todo(w)[i].result

LastChange(w, p) ==
    Todo(w)[CHOOSE i \in DOMAIN Todo(w) : /\ Todo(w)[i].path = p
                                          /\ \A j \in DOMAIN Todo(w) : j > i => Todo(w)[j].path # p]

ExactIn(f) == {x \in UNION {{r} \X DOMAIN Changes[r] : r \in Request} :
                 f[Changes[x[1]][x[2]].path] = Changes[x[1]][x[2]].result}

(* One file is written; every other call that works on it notes a foreign write. *)
MarkForeign(w, p) ==
    [v \in Worker |-> IF v # w /\ ~At(v, "idle") /\ p \in Touched(Req(v))
                      THEN [calls[v] EXCEPT !.foreign = TRUE] ELSE calls[v]]

WriteFile(w, p, c, call) ==
    /\ files' = [files EXCEPT ![p] = c]
    /\ calls' = [MarkForeign(w, p) EXCEPT ![w] = call]
    /\ exact' = exact \cup ExactIn(files')

Goto(w, pc, i) == [calls[w] EXCEPT !.pc = pc, !.i = i]
Move(w, call) == calls' = [calls EXCEPT ![w] = call] /\ UNCHANGED <<files, exact>>
Raise(w) == Move(w, IdleCall)

Init ==
    /\ files = InitialFiles
    /\ snapshot = InitialFiles /\ integrated \in BOOLEAN
    /\ receipts = [k \in Keys |-> NoReceipt]
    /\ calls = [w \in Worker |-> IdleCall]
    /\ calling = 0 /\ edits = 0 /\ failures = 0 /\ crashes = 0
    /\ exact = ExactIn(InitialFiles)

----------------------------------------------------------------------------
(* DeliveryEngine.deliver *)

(* A stored receipt is replayed; a full write goes to Runtime. *)
Begin(w, r) ==
    /\ At(w, "idle")
    /\ calling < MaxCalls
    /\ calling' = calling + 1
    /\ IF receipts[Key[r]] # NoReceipt THEN UNCHANGED calls
       ELSE calls' = [calls EXCEPT ![w] = [IdleCall EXCEPT
              !.pc = IF Full[r] /\ Write[r] THEN "runtime" ELSE "prepare", !.req = r]]
    /\ UNCHANGED <<files, snapshot, integrated, receipts, edits, failures, crashes, exact>>

(* No transaction, a foreign write set, or a Runtime that does not complete. *)
RuntimeBlocks(w) ==
    /\ At(w, "runtime")
    /\ Move(w, [Goto(w, "store", 0) EXCEPT !.status = "blocked"])
    /\ UNCHANGED <<snapshot, integrated, receipts, envVars>>

(* RuntimeEffectSink.submit (external) writes the authorised effect, of two changes
   to one file the last one; if its outcome does not come back as completed the
   receipt says blocked. *)
RuntimeCompletes(w) ==
    /\ At(w, "runtime")
    /\ Transaction[Req(w)] = "issued"
    /\ Original(w)
    /\ files' = [p \in Path |-> IF p \in Touched(Req(w))
                   THEN LastChange(w, p).result ELSE files[p]]
    /\ \E heard \in BOOLEAN : calls' = [v \in Worker |->
         IF v = w THEN IF heard THEN [Goto(w, "refresh", 0) EXCEPT !.status = "runtime_applied"]
                                ELSE [Goto(w, "store", 0) EXCEPT !.status = "blocked"]
         ELSE IF ~At(v, "idle") /\ Touched(Req(v)) \cap Touched(Req(w)) # {}
              THEN [calls[v] EXCEPT !.foreign = TRUE] ELSE calls[v]]
    /\ exact' = exact \cup ExactIn(files')
    /\ UNCHANGED <<snapshot, integrated, receipts, envVars>>

(* _refresh_after_write: a Mapper projection waits for a new handoff, a
   bootstrap snapshot is rebuilt from the files and then replaced, unless
   build_snapshot raises: a Mapper handoff has appeared, or a file of the tree
   does not parse, does not decode or is too large.  The files are written by
   then, and no receipt is stored. *)
RefreshReads(w) ==
    /\ At(w, "refresh")
    /\ IF integrated THEN Move(w, Goto(w, "store", 0))
       ELSE Move(w, [Goto(w, "publish", 0) EXCEPT !.view = files])
    /\ UNCHANGED <<snapshot, integrated, receipts, envVars>>

RefreshPublishes(w) ==
    /\ At(w, "publish")
    /\ snapshot' = calls[w].view
    /\ Move(w, Goto(w, "store", 0))
    /\ UNCHANGED <<integrated, receipts, envVars>>

RefreshFails(w) ==
    /\ At(w, "refresh") \/ At(w, "publish")
    /\ ~integrated
    /\ Raise(w)
    /\ UNCHANGED <<snapshot, integrated, receipts, envVars>>

Store(w) ==
    /\ At(w, "store")
    /\ receipts' = [receipts EXCEPT ![Key[Req(w)]] = calls[w].status]
    /\ Move(w, IdleCall)
    /\ UNCHANGED <<snapshot, integrated, envVars>>

----------------------------------------------------------------------------
(* ProjectProcessor.apply_changeset *)

(* _prepare_changes: a stale source raises before anything is written *)
Prepare(w) ==
    /\ At(w, "prepare")
    /\ IF Original(w) THEN Move(w, Goto(w, "native", 0)) ELSE Raise(w)
    /\ UNCHANGED <<snapshot, integrated, receipts, envVars>>

(* run_dev_cli_changeset: not importable, stale again, or executed *)
NativeUnavailable(w) ==
    /\ At(w, "native")
    /\ Move(w, IF Write[Req(w)] THEN Goto(w, "check", 1) ELSE Goto(w, "confirm", 0))
    /\ UNCHANGED <<snapshot, integrated, receipts, envVars>>

NativeStarts(w) ==
    /\ At(w, "native")
    /\ IF Original(w) THEN Move(w, Goto(w, "running", 1)) ELSE Raise(w)
    /\ UNCHANGED <<snapshot, integrated, receipts, envVars>>

(* execute_plan (external) edits the files one by one, canonically or not; it
   may do so even when it was asked for a dry run. *)
NativeEdits(w) ==
    /\ At(w, "running")
    /\ calls[w].i <= Len(Todo(w))
    /\ files[Item(w).path] = Item(w).expected
    /\ \E c \in {Item(w).result, Garbled} :
         WriteFile(w, Item(w).path, c, Goto(w, "running", calls[w].i + 1))
    /\ UNCHANGED <<snapshot, integrated, receipts, envVars>>

(* It reports success, or refuses or raises wherever it is. *)
NativeReturns(w) ==
    /\ At(w, "running")
    /\ \/ Move(w, Goto(w, "verify", 0))
       \/ Readable(w) /\ Move(w, Goto(w, "restore", 1))
       \/ ~Readable(w) /\ Raise(w)
    /\ UNCHANGED <<snapshot, integrated, receipts, envVars>>

(* Mutant: a native "ok" is believed. *)
VerifyTrusting(w) ==
    /\ At(w, "verify")
    /\ Move(w, IF Write[Req(w)] THEN [Goto(w, "refresh", 0) EXCEPT !.status = "applied"]
               ELSE [Goto(w, "store", 0) EXCEPT !.status = "dry_run"])
    /\ UNCHANGED <<snapshot, integrated, receipts, envVars>>

(* A success is believed only when every file holds the canonical bytes; the
   mismatch branch restores once there and falls into the refusal branch, which
   restores again. *)
Verify(w) ==
    /\ At(w, "verify")
    /\ IF ~Readable(w) THEN Raise(w)
       ELSE IF Write[Req(w)] /\ Updated(w)
       THEN Move(w, [Goto(w, "refresh", 0) EXCEPT !.status = "applied"])
       ELSE IF ~Write[Req(w)] /\ Original(w)
       THEN Move(w, [Goto(w, "store", 0) EXCEPT !.status = "dry_run"])
       ELSE Move(w, [Goto(w, "restore", 1) EXCEPT !.twice = TRUE])
    /\ UNCHANGED <<snapshot, integrated, receipts, envVars>>

(* _restore_prepared *)
Restore(w) ==
    /\ At(w, "restore")
    /\ IF calls[w].i > Len(Todo(w))
       THEN IF ~Readable(w) THEN Raise(w)
            ELSE IF calls[w].twice
            THEN Move(w, [Goto(w, "restore", 1) EXCEPT !.twice = FALSE])
            ELSE Move(w, Goto(w, "restored", 0))
       ELSE IF files[Item(w).path] = Gone THEN Raise(w)
       ELSE IF files[Item(w).path] = Item(w).expected
            THEN Move(w, Goto(w, "restore", calls[w].i + 1))
            ELSE WriteFile(w, Item(w).path, Item(w).expected,
                           Goto(w, "restore", calls[w].i + 1))
    /\ UNCHANGED <<snapshot, integrated, receipts, envVars>>

(* the no-write proof: a refusal that cannot be rolled back raises *)
Restored(w) ==
    /\ At(w, "restored")
    /\ IF ~Original(w) THEN Raise(w)
       ELSE Move(w, IF Write[Req(w)] THEN Goto(w, "check", 1) ELSE Goto(w, "confirm", 0))
    /\ UNCHANGED <<snapshot, integrated, receipts, envVars>>

(* _write_prepared: each file is checked again and then replaced; a stale file
   or a failed replacement undoes the ones before it, last one first *)
FallbackCheck(w) ==
    /\ At(w, "check")
    /\ IF calls[w].i > Len(Todo(w)) THEN Move(w, Goto(w, "confirm", 0))
       ELSE IF files[Item(w).path] = Item(w).expected
            THEN Move(w, Goto(w, "replace", calls[w].i))
            ELSE Move(w, Goto(w, "rollback", calls[w].i - 1))
    /\ UNCHANGED <<snapshot, integrated, receipts, envVars>>

FallbackReplace(w) ==
    /\ At(w, "replace")
    /\ WriteFile(w, Item(w).path, Item(w).result, Goto(w, "check", calls[w].i + 1))
    /\ UNCHANGED <<snapshot, integrated, receipts, envVars>>

FallbackFails(w) ==
    /\ At(w, "replace")
    /\ failures < MaxFailures
    /\ failures' = failures + 1
    /\ Move(w, Goto(w, "rollback", calls[w].i - 1))
    /\ UNCHANGED <<snapshot, integrated, receipts, calling, edits, crashes>>

(* Mutant: the first replaced file is not undone. *)
RollbackShort(w) ==
    /\ At(w, "rollback")
    /\ IF calls[w].i <= 1 THEN Raise(w)
       ELSE WriteFile(w, Item(w).path, Item(w).expected, Goto(w, "rollback", calls[w].i - 1))
    /\ UNCHANGED <<snapshot, integrated, receipts, envVars>>

Rollback(w) ==
    /\ At(w, "rollback")
    /\ IF calls[w].i = 0 THEN Raise(w)
       ELSE WriteFile(w, Item(w).path, Item(w).expected, Goto(w, "rollback", calls[w].i - 1))
    /\ UNCHANGED <<snapshot, integrated, receipts, envVars>>

RollbackFails(w) ==
    /\ At(w, "rollback")
    /\ calls[w].i > 0
    /\ failures < MaxFailures
    /\ failures' = failures + 1
    /\ Raise(w)
    /\ UNCHANGED <<snapshot, integrated, receipts, calling, edits, crashes>>

(* _fallback_receipt: the files must hold exactly the expected bytes *)
Confirm(w) ==
    /\ At(w, "confirm")
    /\ IF Write[Req(w)]
       THEN IF Landed(w) THEN Move(w, [Goto(w, "refresh", 0) EXCEPT !.status = "applied"])
            ELSE Raise(w)
       ELSE IF Original(w) THEN Move(w, [Goto(w, "store", 0) EXCEPT !.status = "dry_run"])
            ELSE Raise(w)
    /\ UNCHANGED <<snapshot, integrated, receipts, envVars>>

----------------------------------------------------------------------------
(* The environment *)

Crash(w) ==
    /\ ~At(w, "idle")
    /\ crashes < MaxCrashes
    /\ crashes' = crashes + 1
    /\ Raise(w)
    /\ UNCHANGED <<snapshot, integrated, receipts, calling, edits, failures>>

DeveloperEdit ==
    /\ edits < MaxEdits
    /\ edits' = edits + 1
    /\ \E e \in Edits :
         /\ files[e[1]] # e[2]
         /\ files' = [files EXCEPT ![e[1]] = e[2]]
         /\ calls' = MarkForeign(NoRequest, e[1])
         /\ exact' = exact \cup ExactIn(files')
    /\ UNCHANGED <<snapshot, integrated, receipts, calling, failures, crashes>>

Step(w) ==
    \/ RuntimeBlocks(w) \/ RuntimeCompletes(w)
    \/ Prepare(w) \/ NativeUnavailable(w) \/ NativeStarts(w) \/ NativeEdits(w)
    \/ NativeReturns(w) \/ Verify(w) \/ Restore(w) \/ Restored(w)
    \/ FallbackCheck(w) \/ FallbackReplace(w) \/ FallbackFails(w)
    \/ Rollback(w) \/ RollbackFails(w) \/ Confirm(w)
    \/ RefreshReads(w) \/ RefreshPublishes(w) \/ RefreshFails(w) \/ Store(w)

Next ==
    \/ \E w \in Worker : Step(w) \/ Crash(w) \/ \E r \in Request : Begin(w, r)
    \/ DeveloperEdit

Spec == Init /\ [][Next]_vars

----------------------------------------------------------------------------
(* Properties *)

TypeOK ==
    /\ files \in [Path -> File] /\ snapshot \in [Path -> File] /\ integrated \in BOOLEAN
    /\ receipts \in [Keys -> Status \cup {NoReceipt}]
    /\ calls \in [Worker -> [pc : PC, req : Request \cup {NoRequest}, i : Nat,
                             status : Status \cup {NoReceipt}, twice : BOOLEAN,
                             foreign : BOOLEAN, view : [Path -> File]]]
    /\ calling \in 0..MaxCalls /\ edits \in 0..MaxEdits
    /\ failures \in 0..MaxFailures /\ crashes \in 0..MaxCrashes

(* A receipt "applied" of the local executor is byte-exact: every file of the
   changeset held the canonical result, whatever the native executor wrote, and
   whoever else worked on the files. *)
AppliedWasExact ==
    \A k \in Keys : receipts[k] = "applied" =>
        \E r \in Request : Key[r] = k /\ {r} \X DOMAIN Changes[r] \subseteq exact

(* A delivery that raises is all or nothing: it leaves the files as it found them,
   wherever the native executor, a stale file or a failed replacement stopped it, and
   with the whole changeset in place when it was the refresh of the snapshot that
   raised, as long as nobody else wrote to these files meanwhile and the rollback
   itself could write. *)
RaisedIsAllOrNothing ==
    [][\A w \in Worker :
        /\ calls[w].pc \notin {"idle", "prepare", "store"} /\ calls'[w] = IdleCall
        /\ crashes' = crashes
        /\ ~(At(w, "rollback") /\ failures' # failures)
        /\ ~calls[w].foreign
        => IF At(w, "refresh") \/ At(w, "publish") THEN Landed(w) ELSE Original(w)]_vars

(* A file that changed after the changeset was drawn up is never overwritten by
   the local executor: the delivery fails closed instead. *)
StaleFailsClosed ==
    [][\A w \in Worker : At(w, "restore") /\ files' # files =>
        files[Item(w).path] \in {Item(w).expected, Item(w).result, Garbled}]_vars

(* Receipts are well formed and say what was done. *)
ReceiptsAreExact == TypeOK /\ AppliedWasExact
=============================================================================
