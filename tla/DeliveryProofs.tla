---------------------------- MODULE DeliveryProofs ----------------------------
(***************************************************************************)
(* Proofs about a delivery: an applied receipt is exact, and a delivery    *)
(* that raises is all or nothing, for every number of workers, files and   *)
(* requests, changesets of every length (with several changes of one       *)
(* file), and every number of edits, failures and crashes.                 *)
(***************************************************************************)
EXTENDS Delivery, WellFoundedInduction, TLAPS

Call == [pc : PC, req : Request \cup {NoRequest}, i : Nat, status : Status \cup {NoReceipt},
         twice : BOOLEAN, foreign : BOOLEAN, view : [Path -> File]]

(* the changes a call works on *)
Todos(c) == Changes[c.req]
Indices(c) == DOMAIN Changes[c.req]

(* The changes of one file name the same original: they were all checked against one
   state of it. *)
OneOriginal(c) ==
    \A i, j \in Indices(c) : Todos(c)[i].path = Todos(c)[j].path => Todos(c)[i].expected = Todos(c)[j].expected

HoldsOriginal(c) == \A i \in Indices(c) : files[Todos(c)[i].path] = Todos(c)[i].expected

HoldsResults(c) ==
    \A i \in Indices(c) :
        (\A j \in Indices(c) : j > i => Todos(c)[j].path # Todos(c)[i].path)
        => files[Todos(c)[i].path] = Todos(c)[i].result

(* Every file has the result of the last change before the n-th, or its original. *)
WrittenBefore(c, n) ==
    /\ \A j \in Indices(c) : j < n /\ (\A k \in Indices(c) : j < k /\ k < n => Todos(c)[k].path # Todos(c)[j].path)
                             => files[Todos(c)[j].path] = Todos(c)[j].result
    /\ \A j \in Indices(c) : (\A k \in Indices(c) : k < n => Todos(c)[k].path # Todos(c)[j].path)
                             => files[Todos(c)[j].path] = Todos(c)[j].expected

(* Only the files of the first n changes are left to be undone. *)
UndoneAfter(c, n) ==
    \A j \in Indices(c) : (\A k \in Indices(c) : k <= n => Todos(c)[k].path # Todos(c)[j].path)
                          => files[Todos(c)[j].path] = Todos(c)[j].expected

(* The files as a call nobody interfered with left them. *)
Undisturbed(c) ==
    /\ c.pc \in {"native", "restored"} => HoldsOriginal(c)
    /\ c.pc = "confirm" /\ ~Write[c.req] => HoldsOriginal(c)
    /\ c.pc = "confirm" /\ Write[c.req] => HoldsResults(c)
    /\ c.pc \in {"refresh", "publish"} => HoldsResults(c)
    /\ c.pc \in {"running", "verify", "restore"} => \A i \in Indices(c) : files[Todos(c)[i].path] # Gone
    /\ c.pc = "restore" => \A j \in Indices(c) : j < c.i => files[Todos(c)[j].path] = Todos(c)[j].expected
    /\ c.pc \in {"check", "replace"} => WrittenBefore(c, c.i)
    /\ c.pc = "rollback" => UndoneAfter(c, c.i)

(* The step of its changeset that a call is at. *)
InRange(c) ==
    /\ c.pc # "idle" => c.req \in Request
    /\ c.pc \in {"running", "restore", "check"} => c.i \in 1..(Len(Todos(c)) + 1)
    /\ c.pc \in {"check", "replace"} => Write[c.req]
    /\ c.pc = "replace" => c.i \in 1..Len(Todos(c))
    /\ c.pc = "rollback" => c.i \in 0..Len(Todos(c))

(* The changes whose result a file held. *)
Recorded(c) ==
    /\ c.status = "applied" \/ (c.pc = "confirm" /\ Write[c.req]) => \A j \in Indices(c) : <<c.req, j>> \in exact
    /\ c.pc \in {"check", "replace"} => \A j \in Indices(c) : j < c.i => <<c.req, j>> \in exact
    /\ c.status = "applied" => c.pc # "idle"

Checked == {"native", "running", "verify", "restore", "restored", "check", "replace", "rollback", "confirm"}

GoodCall(c) ==
    /\ InRange(c)
    /\ Recorded(c)
    /\ c.pc \in Checked => OneOriginal(c)
    /\ ~c.foreign => Undisturbed(c)

DeliveryInv ==
    /\ TypeOK
    /\ ExactIn(files) \subseteq exact
    /\ \A w \in Worker : GoodCall(calls[w])
    /\ AppliedWasExact

----------------------------------------------------------------------------
(* Calls and changes *)

LEMMA SameOriginals ==
    ASSUME NEW b, NEW c, b.req = c.req, OneOriginal(b)
    PROVE  OneOriginal(c) /\ OneOriginal(c)'
BY DEF OneOriginal, Todos, Indices

LEMMA CallFields ==
    \A c \in Call : /\ c.pc \in PC /\ c.req \in Request \cup {NoRequest} /\ c.i \in Nat
                    /\ c.status \in Status \cup {NoReceipt} /\ c.foreign \in BOOLEAN /\ c.view \in [Path -> File]
BY DEF Call

LEMMA IdleIsCall ==
    /\ IdleCall \in Call /\ IdleCall.pc = "idle" /\ IdleCall.status = NoReceipt /\ ~IdleCall.foreign
    /\ NoReceipt # "applied"
<1>1. "idle" \in PC /\ "applied" \in Status
  BY DEF PC, Status
<1>2. InitialFiles \in [Path -> File]
  BY ConstantsAssumption DEF File
<1> QED
  BY <1>1, <1>2, ConstantsAssumption DEF IdleCall, Call

LEMMA ChangesOf ==
    ASSUME NEW r \in Request
    PROVE  /\ Len(Changes[r]) \in Nat /\ DOMAIN Changes[r] = 1..Len(Changes[r])
           /\ \A i \in DOMAIN Changes[r] : /\ Changes[r][i].path \in Path
                                           /\ Changes[r][i].expected \in Content /\ Changes[r][i].expected # Gone
                                           /\ Changes[r][i].result \in Content /\ Changes[r][i].result # Gone
<1>1. Changes[r] \in Seq(Change)
  BY ConstantsAssumption
<1>2. \A i \in DOMAIN Changes[r] : Changes[r][i] \in Change
  BY <1>1
<1> QED
  BY <1>1, <1>2, ConstantsAssumption DEF Change

(* A set of numbers has a least one. *)
LEMMA LeastNumber == ASSUME NEW S \in SUBSET Nat, S # {} PROVE \E x \in S : \A y \in S : x <= y
<1> DEFINE R == OpToRel(<, Nat)
<1>1. IsWellFoundedOn(R, Nat)
  BY NatLessThanWellFounded, Zenon
<1>2. ASSUME NEW x \in Nat, NEW y \in Nat, x < y PROVE <<x, y>> \in R
  BY <1>2 DEF OpToRel
<1> HIDE DEF R
<1>3. PICK x \in S : \A y \in S : <<y, x>> \notin R
  BY <1>1, WFMin
<1>4. ASSUME NEW y \in S PROVE x <= y
  <2>1. x \in Nat /\ y \in Nat /\ ~(y < x)
    BY <1>2, <1>3, Zenon
  <2> QED
    BY <2>1
<1> QED
  BY <1>4

(* Of the changes of one file there is a last one. *)
LEMMA LastChangeOf ==
    ASSUME NEW r \in Request, NEW p \in Touched(r)
    PROVE  \E i \in DOMAIN Changes[r] : /\ Changes[r][i].path = p
                                        /\ \A j \in DOMAIN Changes[r] : j > i => Changes[r][j].path # p
<1>1. PICK n \in Nat : n = Len(Changes[r]) /\ DOMAIN Changes[r] = 1..n
  BY ChangesOf
<1> DEFINE S == {k \in Nat : n - k \in 1..n /\ Changes[r][n - k].path = p}
<1>2. S # {}
  <2>1. PICK i \in 1..n : Changes[r][i].path = p
    BY <1>1 DEF Touched
  <2>2. n - i \in Nat /\ n - (n - i) = i
    BY <1>1
  <2>3. n - i \in S
    BY <2>1, <2>2
  <2> QED
    BY <2>3
<1>3. PICK m \in S : \A k \in S : m <= k
  <2> HIDE DEF S
  <2>1. S \in SUBSET Nat
    BY DEF S
  <2> QED
    BY <1>2, <2>1, LeastNumber
<1>4. ASSUME NEW j \in 1..n, j > n - m PROVE Changes[r][j].path # p
  <2>1. n - j \in Nat /\ n - (n - j) = j /\ ~(m <= n - j)
    BY <1>1, <1>3, <1>4
  <2>2. n - j \notin S
    BY <1>3, <2>1
  <2> QED
    BY <2>1, <2>2
<1>5. n - m \in 1..n /\ Changes[r][n - m].path = p
  BY <1>3
<1> QED
  BY <1>1, <1>4, <1>5

LEMMA ResultsAreRecorded ==
    ASSUME NEW r \in Request, NEW i \in DOMAIN Changes[r], NEW f, f[Changes[r][i].path] = Changes[r][i].result
    PROVE  <<r, i>> \in ExactIn(f)
<1>1. <<r, i>> \in UNION {{q} \X DOMAIN Changes[q] : q \in Request}
  OBVIOUS
<1> QED
  BY <1>1 DEF ExactIn

(* A call is not disturbed by a step that leaves its files alone or marks it. *)
LEMMA CallStays ==
    ASSUME NEW c \in Call, NEW d, GoodCall(c), exact \subseteq exact',
           \/ d = [c EXCEPT !.foreign = TRUE]
           \/ d = c /\ (c.pc = "idle" \/ \A q \in Touched(c.req) : files'[q] = files[q])
    PROVE  d \in Call /\ GoodCall(d)'
<1>1. d \in Call
  BY DEF Call
<1>2. d.pc = c.pc /\ d.req = c.req /\ d.i = c.i /\ d.status = c.status
  BY DEF Call
<1>3. InRange(d)' /\ (d.pc \in Checked => OneOriginal(d))'
  BY <1>2 DEF GoodCall, InRange, OneOriginal, Todos, Indices
<1>4. Recorded(d)'
  BY <1>2 DEF GoodCall, Recorded, Indices
<1>5. ~d.foreign => Undisturbed(d)'
  <2> SUFFICES ASSUME ~d.foreign PROVE Undisturbed(d)'
    OBVIOUS
  <2>1. d = c
    BY DEF Call
  <2>2. CASE c.pc = "idle"
    BY <2>1, <2>2 DEF Undisturbed
  <2>3. CASE \A q \in Touched(c.req) : files'[q] = files[q]
    <3>1. \A j \in Indices(c) : files'[Todos(c)[j].path] = files[Todos(c)[j].path]
      BY <2>3 DEF Touched, Indices, Todos
    <3>2. Undisturbed(c)
      BY <2>1 DEF GoodCall
    <3>3. Undisturbed(c)'
      BY <3>1, <3>2 DEF Undisturbed, HoldsOriginal, HoldsResults, WrittenBefore, UndoneAfter, Indices, Todos
    <3> QED
      BY <2>1, <3>3
  <2> QED
    BY <2>1, <2>2, <2>3 DEF Call
<1> QED
  BY <1>1, <1>3, <1>4, <1>5 DEF GoodCall

LEMMA CallOf == ASSUME DeliveryInv, NEW w \in Worker PROVE calls[w] \in Call /\ GoodCall(calls[w])
BY DEF DeliveryInv, TypeOK, Call

Counters == calling \in 0..MaxCalls /\ edits \in 0..MaxEdits /\ failures \in 0..MaxFailures /\ crashes \in 0..MaxCrashes

LEMMA AppliedStays ==
    ASSUME AppliedWasExact, exact \subseteq exact', UNCHANGED receipts PROVE AppliedWasExact'
BY DEF AppliedWasExact

(* A step of one worker that writes no file. *)
LEMMA MoveKeeps ==
    ASSUME DeliveryInv, NEW w \in Worker, NEW c \in Call, Move(w, c), GoodCall(c),
           UNCHANGED <<integrated, receipts>>, snapshot' \in [Path -> File], Counters'
    PROVE  DeliveryInv'
<1>1. calls \in [Worker -> Call] /\ calls' = [calls EXCEPT ![w] = c] /\ UNCHANGED <<files, exact>>
  BY DEF DeliveryInv, TypeOK, Call, Move
<1>2. calls' \in [Worker -> Call]
  BY <1>1
<1>3. TypeOK'
  BY <1>1, <1>2 DEF DeliveryInv, TypeOK, Call, Counters
<1>4. ASSUME NEW v \in Worker PROVE GoodCall(calls[v])'
  <2>1. PICK d : d = calls'[v]
    OBVIOUS
  <2>2. d \in Call /\ GoodCall(d)
    BY <1>1, <2>1 DEF DeliveryInv
  <2>3. GoodCall(d)'
    BY <1>1, <2>2, CallStays
  <2> QED
    BY <2>1, <2>3
<1>5. (ExactIn(files) \subseteq exact)'
  BY <1>1 DEF DeliveryInv, ExactIn
<1>6. AppliedWasExact'
  BY <1>1, AppliedStays DEF DeliveryInv
<1> QED
  BY <1>3, <1>4, <1>5, <1>6 DEF DeliveryInv

LEMMA IdleIsGood == GoodCall(IdleCall) /\ GoodCall(IdleCall)'
BY IdleIsCall DEF GoodCall, InRange, Recorded, Undisturbed, Checked

LEMMA RaiseKeeps ==
    ASSUME DeliveryInv, NEW w \in Worker, Raise(w), UNCHANGED <<snapshot, integrated, receipts>>, Counters'
    PROVE  DeliveryInv'
<1>1. snapshot' \in [Path -> File]
  BY DEF DeliveryInv, TypeOK
<1> QED
  BY <1>1, IdleIsCall, IdleIsGood, MoveKeeps DEF Raise

LEMMA CountersStay == ASSUME DeliveryInv, UNCHANGED envVars PROVE Counters'
BY DEF DeliveryInv, TypeOK, Counters, envVars

(* A step of one worker that writes one file: everybody else who works on it is marked. *)
LEMMA WriteKeeps ==
    ASSUME DeliveryInv, NEW w \in Worker, NEW c \in Call, NEW p \in Path, NEW x \in File, WriteFile(w, p, x, c),
           GoodCall(c)', UNCHANGED <<snapshot, integrated, receipts, envVars>>
    PROVE  DeliveryInv'
<1>1. /\ files' = [files EXCEPT ![p] = x] /\ exact' = exact \cup ExactIn(files')
      /\ calls' = [MarkForeign(w, p) EXCEPT ![w] = c]
  BY DEF WriteFile
<1>2. files \in [Path -> File] /\ files' \in [Path -> File]
  BY <1>1 DEF DeliveryInv, TypeOK
<1>3. calls'[w] = c
  BY <1>1 DEF MarkForeign
<1>4. ASSUME NEW v \in Worker PROVE calls'[v] \in Call /\ GoodCall(calls[v])'
  <2>1. CASE v = w
    BY <1>3, <2>1
  <2>2. CASE v # w
    <3>1. PICK b : b = calls[v]
      OBVIOUS
    <3>2. PICK d : d = calls'[v]
      OBVIOUS
    <3>3. d = IF b.pc # "idle" /\ p \in Touched(b.req) THEN [b EXCEPT !.foreign = TRUE] ELSE b
      BY <1>1, <2>2, <3>1, <3>2 DEF MarkForeign, At, Req
    <3>4. b \in Call /\ GoodCall(b)
      BY <3>1, CallOf
    <3>5. b.pc # "idle" => Touched(b.req) \subseteq Path
      <4> SUFFICES ASSUME b.pc # "idle" PROVE Touched(b.req) \subseteq Path
        OBVIOUS
      <4>1. b.req \in Request
        BY <3>4 DEF GoodCall, InRange
      <4> QED
        BY <4>1, ChangesOf DEF Touched
    <3>6. d = [b EXCEPT !.foreign = TRUE] \/ (d = b /\ (b.pc = "idle" \/ \A q \in Touched(b.req) : files'[q] = files[q]))
      BY <1>1, <1>2, <3>3, <3>5
    <3>7. d \in Call /\ GoodCall(d)'
      BY <1>1, <3>4, <3>6, CallStays
    <3> QED
      BY <3>2, <3>7
  <2> QED
    BY <2>1, <2>2
<1>5. calls' \in [Worker -> Call]
  <2>1. calls' = [v \in Worker |-> calls'[v]]
    BY <1>1 DEF MarkForeign
  <2> QED
    BY <1>4, <2>1
<1>6. TypeOK'
  BY <1>2, <1>5, CountersStay DEF DeliveryInv, TypeOK, Call, Counters
<1>7. (ExactIn(files) \subseteq exact)'
  BY <1>1 DEF ExactIn
<1>8. AppliedWasExact'
  BY <1>1, AppliedStays DEF DeliveryInv
<1> QED
  BY <1>4, <1>6, <1>7, <1>8 DEF DeliveryInv

----------------------------------------------------------------------------
(* DeliveryEngine.deliver *)

LEMMA BeginKeeps == ASSUME DeliveryInv, NEW w \in Worker, NEW r \in Request, Begin(w, r) PROVE DeliveryInv'
<1>1. UNCHANGED <<files, exact, snapshot, integrated, receipts, edits, failures, crashes>> /\ calling' = calling + 1
      /\ calling < MaxCalls
  BY DEF Begin
<1>2. Counters' /\ snapshot' \in [Path -> File]
  BY <1>1, ConstantsAssumption DEF DeliveryInv, TypeOK, Counters
<1>3. PICK c : c = [IdleCall EXCEPT !.pc = IF Full[r] /\ Write[r] THEN "runtime" ELSE "prepare", !.req = r]
  OBVIOUS
<1>4. c \in Call /\ c.pc \in {"runtime", "prepare"} /\ c.req = r /\ c.status = NoReceipt
  <2>1. {"runtime", "prepare"} \subseteq PC
    BY DEF PC
  <2> QED
    BY <1>3, <2>1, IdleIsCall DEF Call
<1>5. GoodCall(c)
  BY <1>4, IdleIsCall DEF GoodCall, InRange, Recorded, Undisturbed, Checked
<1>6. CASE calls' = [calls EXCEPT ![w] = c]
  BY <1>1, <1>2, <1>4, <1>5, <1>6, MoveKeeps DEF Move
<1>7. CASE UNCHANGED calls
  <2>1. calls' = [calls EXCEPT ![w] = calls[w]]
    BY <1>7 DEF DeliveryInv, TypeOK
  <2>2. PICK b : b = calls[w]
    OBVIOUS
  <2>3. b \in Call /\ GoodCall(b) /\ calls' = [calls EXCEPT ![w] = b]
    BY <2>1, <2>2, CallOf
  <2> QED
    BY <1>1, <1>2, <2>3, MoveKeeps DEF Move
<1> QED
  BY <1>3, <1>6, <1>7 DEF Begin

LEMMA RuntimeBlocksKeeps == ASSUME DeliveryInv, NEW w \in Worker, RuntimeBlocks(w) PROVE DeliveryInv'
<1>1. PICK b : b = calls[w]
  OBVIOUS
<1>2. b \in Call /\ GoodCall(b) /\ b.pc = "runtime"
  BY <1>1, CallOf DEF RuntimeBlocks, At
<1>3. PICK c : c = [b EXCEPT !.pc = "store", !.i = 0, !.status = "blocked"]
  OBVIOUS
<1>4. Move(w, c)
  BY <1>1, <1>3 DEF RuntimeBlocks, Goto
<1>5. c \in Call /\ c.pc = "store" /\ c.req = b.req /\ c.status = "blocked"
  BY <1>2, <1>3 DEF Call, PC, Status
<1>6. GoodCall(c)
  BY <1>2, <1>5 DEF GoodCall, InRange, Recorded, Undisturbed, Checked
<1>7. UNCHANGED <<snapshot, integrated, receipts, envVars>>
  BY DEF RuntimeBlocks
<1> QED
  BY <1>4, <1>5, <1>6, <1>7, MoveKeeps, CountersStay DEF DeliveryInv, TypeOK

LEMMA StepKeeps ==
    ASSUME DeliveryInv, NEW w \in Worker, NEW c \in Call, Move(w, c), GoodCall(c),
           UNCHANGED <<snapshot, integrated, receipts, envVars>>
    PROVE  DeliveryInv'
BY MoveKeeps, CountersStay DEF DeliveryInv, TypeOK

LEMMA RaisedKeeps ==
    ASSUME DeliveryInv, NEW w \in Worker, Raise(w), UNCHANGED <<snapshot, integrated, receipts, envVars>>
    PROVE  DeliveryInv'
BY RaiseKeeps, CountersStay

LEMMA RuntimeCompletesKeeps == ASSUME DeliveryInv, NEW w \in Worker, RuntimeCompletes(w) PROVE DeliveryInv'
<1>1. PICK b : b = calls[w]
  OBVIOUS
<1>2. b \in Call /\ GoodCall(b) /\ b.pc = "runtime" /\ b.req \in Request
  <2>1. b \in Call /\ GoodCall(b) /\ b.pc = "runtime"
    BY <1>1, CallOf DEF RuntimeCompletes, At
  <2> QED
    BY <2>1 DEF GoodCall, InRange
<1>3. /\ files' = [p \in Path |-> IF p \in Touched(b.req)
                   THEN LastChange(w, p).result ELSE files[p]]
      /\ exact' = exact \cup ExactIn(files')
      /\ UNCHANGED <<snapshot, integrated, receipts, envVars>>
  BY <1>1 DEF RuntimeCompletes, Req
<1>3a. ASSUME NEW p \in Touched(b.req)
       PROVE  \E i \in Indices(b) : /\ LastChange(w, p) = Todos(b)[i] /\ Todos(b)[i].path = p
                                    /\ \A j \in Indices(b) : j > i => Todos(b)[j].path # p
  <2>1. PICK i : i = CHOOSE k \in DOMAIN Changes[b.req] :
                       /\ Changes[b.req][k].path = p
                       /\ \A j \in DOMAIN Changes[b.req] : j > k => Changes[b.req][j].path # p
    OBVIOUS
  <2>2. /\ i \in DOMAIN Changes[b.req] /\ Changes[b.req][i].path = p
        /\ \A j \in DOMAIN Changes[b.req] : j > i => Changes[b.req][j].path # p
    BY <1>2, <2>1, LastChangeOf
  <2>3. LastChange(w, p) = Changes[b.req][i]
    BY <1>1, <2>1 DEF LastChange, Todo, Req
  <2> QED
    BY <2>2, <2>3 DEF Indices, Todos
<1>4. PICK c \in Call :
         /\ c.req = b.req /\ c.status # "applied" /\ c.pc \in {"refresh", "store"}
         /\ calls' = [v \in Worker |->
              IF v = w THEN c
              ELSE IF ~At(v, "idle") /\ Touched(Req(v)) \cap Touched(Req(w)) # {}
              THEN [calls[v] EXCEPT !.foreign = TRUE] ELSE calls[v]]
  <2>1. PICK heard \in BOOLEAN : calls' = [v \in Worker |->
         IF v = w THEN IF heard THEN [Goto(w, "refresh", 0) EXCEPT !.status = "runtime_applied"]
                                ELSE [Goto(w, "store", 0) EXCEPT !.status = "blocked"]
         ELSE IF ~At(v, "idle") /\ Touched(Req(v)) \cap Touched(Req(w)) # {}
              THEN [calls[v] EXCEPT !.foreign = TRUE] ELSE calls[v]]
    BY DEF RuntimeCompletes
  <2>2. PICK c : c = IF heard THEN [b EXCEPT !.pc = "refresh", !.i = 0, !.status = "runtime_applied"]
                     ELSE [b EXCEPT !.pc = "store", !.i = 0, !.status = "blocked"]
    OBVIOUS
  <2>3. c = IF heard THEN [Goto(w, "refresh", 0) EXCEPT !.status = "runtime_applied"]
            ELSE [Goto(w, "store", 0) EXCEPT !.status = "blocked"]
    BY <1>1, <2>2 DEF Goto
  <2>4. c \in Call /\ c.req = b.req /\ c.status # "applied" /\ c.pc \in {"refresh", "store"}
    BY <1>2, <2>2 DEF Call, PC, Status
  <2> QED
    BY <2>1, <2>3, <2>4
<1>5. files' \in [Path -> File]
  <2>1. ASSUME NEW p \in Path PROVE files'[p] \in File
    <3>1. CASE p \in Touched(b.req)
      <4>1. PICK i \in Indices(b) : LastChange(w, p) = Todos(b)[i]
        BY <1>3a, <3>1
      <4>2. files'[p] = Todos(b)[i].result
        BY <1>3, <3>1, <4>1
      <4> QED
        BY <1>2, <4>2, ChangesOf DEF File, Indices, Todos
    <3>2. CASE p \notin Touched(b.req)
      BY <1>3, <3>2 DEF DeliveryInv, TypeOK
    <3> QED
      BY <3>1, <3>2
  <2> QED
    BY <1>3, <2>1
<1>5a. HoldsResults(c)'
  <2> SUFFICES ASSUME NEW i \in Indices(b),
                      \A j \in Indices(b) : j > i => Todos(b)[j].path # Todos(b)[i].path
               PROVE  files'[Todos(b)[i].path] = Todos(b)[i].result
    BY <1>4 DEF HoldsResults, Indices, Todos
  <2>1. PICK p : p = Todos(b)[i].path
    OBVIOUS
  <2>2. p \in Touched(b.req) /\ p \in Path /\ Indices(b) \subseteq Int
    BY <1>2, <2>1, ChangesOf DEF Touched, Indices, Todos
  <2>3. PICK k \in Indices(b) : /\ LastChange(w, p) = Todos(b)[k] /\ Todos(b)[k].path = p
                                /\ \A j \in Indices(b) : j > k => Todos(b)[j].path # p
    BY <1>3a, <2>2
  <2>4. k = i
    BY <2>1, <2>2, <2>3
  <2>5. files'[p] = LastChange(w, p).result
    BY <1>3, <2>2
  <2> QED
    BY <2>1, <2>3, <2>4, <2>5
<1>6. ASSUME NEW v \in Worker PROVE calls'[v] \in Call /\ GoodCall(calls[v])'
  <2>1. CASE v = w
    <3>1. GoodCall(c)'
      BY <1>2, <1>4, <1>5a DEF GoodCall, InRange, Recorded, Undisturbed, Checked
    <3> QED
      BY <1>4, <2>1, <3>1
  <2>2. CASE v # w
    <3>1. PICK a : a = calls[v]
      OBVIOUS
    <3>2. PICK d : d = calls'[v]
      OBVIOUS
    <3>3. d = IF a.pc # "idle" /\ Touched(a.req) \cap Touched(b.req) # {} THEN [a EXCEPT !.foreign = TRUE] ELSE a
      BY <1>1, <1>4, <2>2, <3>1, <3>2 DEF At, Req
    <3>4. a \in Call /\ GoodCall(a)
      BY <3>1, CallOf
    <3>5. a.pc # "idle" => Touched(a.req) \subseteq Path
      <4> SUFFICES ASSUME a.pc # "idle" PROVE Touched(a.req) \subseteq Path
        OBVIOUS
      <4>1. a.req \in Request
        BY <3>4 DEF GoodCall, InRange
      <4> QED
        BY <4>1, ChangesOf DEF Touched
    <3>6. d = [a EXCEPT !.foreign = TRUE] \/ (d = a /\ (a.pc = "idle" \/ \A q \in Touched(a.req) : files'[q] = files[q]))
      <4>1. \A q \in Path : q \notin Touched(b.req) => files'[q] = files[q]
        BY <1>3
      <4> QED
        BY <3>3, <3>5, <4>1
    <3>7. d \in Call /\ GoodCall(d)'
      BY <1>3, <3>4, <3>6, CallStays
    <3> QED
      BY <3>2, <3>7
  <2> QED
    BY <2>1, <2>2
<1>7. calls' \in [Worker -> Call]
  <2>1. calls' = [v \in Worker |-> calls'[v]]
    BY <1>4
  <2> QED
    BY <1>6, <2>1
<1>8. TypeOK'
  BY <1>3, <1>5, <1>7, CountersStay DEF DeliveryInv, TypeOK, Call, Counters
<1>9. (ExactIn(files) \subseteq exact)'
  BY <1>3 DEF ExactIn
<1>10. AppliedWasExact'
  BY <1>3, AppliedStays DEF DeliveryInv
<1> QED
  BY <1>6, <1>8, <1>9, <1>10 DEF DeliveryInv

LEMMA RefreshReadsKeeps == ASSUME DeliveryInv, NEW w \in Worker, RefreshReads(w) PROVE DeliveryInv'
<1>1. PICK b : b = calls[w]
  OBVIOUS
<1>2. b \in Call /\ GoodCall(b) /\ b.pc = "refresh"
  BY <1>1, CallOf DEF RefreshReads, At
<1>3. PICK c : c = IF integrated THEN [b EXCEPT !.pc = "store", !.i = 0]
                   ELSE [b EXCEPT !.pc = "publish", !.i = 0, !.view = files]
  OBVIOUS
<1>4. Move(w, c)
  BY <1>1, <1>3 DEF RefreshReads, Goto
<1>5. c \in Call /\ c.pc \in {"store", "publish"} /\ c.req = b.req /\ c.status = b.status /\ c.foreign = b.foreign
  BY <1>2, <1>3 DEF Call, PC, DeliveryInv, TypeOK
<1>6. GoodCall(c)
  <2>1. InRange(c) /\ Recorded(c) /\ c.pc \notin Checked
    BY <1>2, <1>5 DEF GoodCall, InRange, Recorded, Checked, Indices
  <2>2. ~c.foreign => HoldsResults(c)
    BY <1>2, <1>5 DEF GoodCall, Undisturbed, HoldsResults, Indices, Todos
  <2> QED
    BY <1>5, <2>1, <2>2 DEF GoodCall, Undisturbed
<1> QED
  BY <1>4, <1>5, <1>6, StepKeeps DEF RefreshReads

LEMMA RefreshPublishesKeeps == ASSUME DeliveryInv, NEW w \in Worker, RefreshPublishes(w) PROVE DeliveryInv'
<1>1. PICK b : b = calls[w]
  OBVIOUS
<1>2. b \in Call /\ GoodCall(b) /\ b.pc = "publish"
  BY <1>1, CallOf DEF RefreshPublishes, At
<1>3. PICK c : c = [b EXCEPT !.pc = "store", !.i = 0]
  OBVIOUS
<1>4. Move(w, c) /\ snapshot' = b.view
  BY <1>1, <1>3 DEF RefreshPublishes, Goto
<1>5. c \in Call /\ c.pc = "store" /\ c.req = b.req /\ c.status = b.status
  BY <1>2, <1>3 DEF Call, PC
<1>6. GoodCall(c)
  BY <1>2, <1>5 DEF GoodCall, InRange, Recorded, Undisturbed, Checked, Indices
<1>7. snapshot' \in [Path -> File]
  BY <1>2, <1>4, CallFields
<1>8. Counters'
  BY CountersStay DEF RefreshPublishes
<1> QED
  BY <1>4, <1>5, <1>6, <1>7, <1>8, MoveKeeps DEF RefreshPublishes

LEMMA RefreshFailsKeeps == ASSUME DeliveryInv, NEW w \in Worker, RefreshFails(w) PROVE DeliveryInv'
BY RaisedKeeps DEF RefreshFails

(* What an applied receipt stores was recorded as exact by then. *)
LEMMA StoreKeeps == ASSUME DeliveryInv, NEW w \in Worker, Store(w) PROVE DeliveryInv'
<1>1. PICK b : b = calls[w]
  OBVIOUS
<1>2. b \in Call /\ GoodCall(b) /\ b.pc = "store" /\ b.status \in Status \cup {NoReceipt}
  BY <1>1, CallOf, CallFields DEF Store, At
<1>3. /\ receipts' = [receipts EXCEPT ![Key[b.req]] = b.status] /\ calls' = [calls EXCEPT ![w] = IdleCall]
      /\ UNCHANGED <<files, exact, snapshot, integrated, envVars>>
  BY <1>1 DEF Store, Move, Req
<1>4. b.req \in Request /\ Key[b.req] \in Keys
  BY <1>2, ConstantsAssumption DEF GoodCall, InRange
<1>5. calls \in [Worker -> Call] /\ calls' \in [Worker -> Call]
  BY <1>3, IdleIsCall DEF DeliveryInv, TypeOK, Call
<1>6. TypeOK'
  BY <1>2, <1>3, <1>4, <1>5, CountersStay DEF DeliveryInv, TypeOK, Call, Counters
<1>7. ASSUME NEW v \in Worker PROVE GoodCall(calls[v])'
  <2>1. PICK d : d = calls'[v]
    OBVIOUS
  <2>2. d \in Call /\ GoodCall(d)
    BY <1>3, <1>5, <2>1, IdleIsCall, IdleIsGood DEF DeliveryInv
  <2>3. GoodCall(d)'
    BY <1>3, <2>2, CallStays
  <2> QED
    BY <2>1, <2>3
<1>8. (ExactIn(files) \subseteq exact)'
  BY <1>3 DEF DeliveryInv, ExactIn
<1>9. AppliedWasExact'
  <2> SUFFICES ASSUME NEW k \in Keys, receipts'[k] = "applied"
               PROVE  \E r \in Request : Key[r] = k /\ {r} \X DOMAIN Changes[r] \subseteq exact'
    BY DEF AppliedWasExact
  <2>1. CASE k = Key[b.req]
    <3>1. b.status = "applied"
      BY <1>3, <1>4, <2>1 DEF DeliveryInv, TypeOK
    <3>2. {b.req} \X DOMAIN Changes[b.req] \subseteq exact
      BY <1>2, <3>1 DEF GoodCall, Recorded, Indices
    <3> QED
      BY <1>3, <1>4, <2>1, <3>2
  <2>2. CASE k # Key[b.req]
    BY <1>3, <2>2 DEF DeliveryInv, AppliedWasExact, TypeOK
  <2> QED
    BY <2>1, <2>2
<1> QED
  BY <1>6, <1>7, <1>8, <1>9 DEF DeliveryInv

----------------------------------------------------------------------------
(* ProjectProcessor.apply_changeset *)

IsReadable(c) == \A i \in Indices(c) : files[Todos(c)[i].path] # Gone

LEMMA Reading ==
    ASSUME NEW w \in Worker, NEW b, b = calls[w]
    PROVE  /\ Original(w) <=> HoldsOriginal(b)
           /\ Landed(w) <=> HoldsResults(b)
           /\ Readable(w) <=> IsReadable(b)
           /\ Updated(w) <=> \A i \in Indices(b) : files[Todos(b)[i].path] = Todos(b)[i].result
           /\ Todo(w) = Todos(b) /\ Item(w) = Todos(b)[b.i] /\ Req(w) = b.req
<1>1. Readable(w) <=> IsReadable(b)
  BY DEF Readable, Touched, IsReadable, Todos, Indices, Req
<1> QED
  BY <1>1 DEF Original, Landed, Updated, Todo, Item, Req, HoldsOriginal, HoldsResults, Todos, Indices

LEMMA OriginalIsReadable ==
    ASSUME NEW c, c.req \in Request, HoldsOriginal(c) PROVE IsReadable(c)
BY ChangesOf DEF HoldsOriginal, IsReadable, Todos, Indices

LEMMA PrepareKeeps == ASSUME DeliveryInv, NEW w \in Worker, Prepare(w) PROVE DeliveryInv'
<1>1. PICK b : b = calls[w]
  OBVIOUS
<1>2. b \in Call /\ GoodCall(b) /\ b.pc = "prepare" /\ UNCHANGED <<snapshot, integrated, receipts, envVars>>
  BY <1>1, CallOf DEF Prepare, At
<1>3. CASE ~HoldsOriginal(b)
  BY <1>1, <1>2, <1>3, Reading, RaisedKeeps DEF Prepare
<1>4. CASE HoldsOriginal(b)
  <2>1. PICK c : c = [b EXCEPT !.pc = "native", !.i = 0]
    OBVIOUS
  <2>2. Move(w, c)
    BY <1>1, <1>4, <2>1, Reading DEF Prepare, Goto
  <2>3. c \in Call /\ c.pc = "native" /\ c.req = b.req /\ c.status = b.status
    BY <1>2, <2>1 DEF Call, PC
  <2>4. HoldsOriginal(c) /\ OneOriginal(c)
    BY <1>4, <2>3 DEF HoldsOriginal, OneOriginal, Todos, Indices
  <2>5. GoodCall(c)
    BY <1>2, <2>3, <2>4 DEF GoodCall, InRange, Recorded, Undisturbed, Indices
  <2> QED
    BY <1>2, <2>2, <2>3, <2>5, StepKeeps
<1> QED
  BY <1>3, <1>4

(* From originals the fallback starts to write, or a dry run is confirmed. *)
LEMMA FallbackStarts ==
    ASSUME DeliveryInv, NEW w \in Worker, NEW b, b = calls[w], b.pc \in {"native", "restored"},
           Move(w, IF Write[Req(w)] THEN Goto(w, "check", 1) ELSE Goto(w, "confirm", 0)),
           UNCHANGED <<snapshot, integrated, receipts, envVars>>
    PROVE  DeliveryInv'
<1>1. b \in Call /\ GoodCall(b)
  BY CallOf
<1>2. b.req \in Request /\ Write[b.req] \in BOOLEAN /\ Len(Todos(b)) \in Nat /\ DOMAIN Todos(b) = 1..Len(Todos(b))
  <2>1. b.req \in Request
    BY <1>1 DEF GoodCall, InRange
  <2> QED
    BY <2>1, ChangesOf, ConstantsAssumption DEF Todos
<1>3. PICK c : c = IF Write[b.req] THEN [b EXCEPT !.pc = "check", !.i = 1] ELSE [b EXCEPT !.pc = "confirm", !.i = 0]
  OBVIOUS
<1>4. Move(w, c)
  BY <1>3 DEF Goto, Req
<1>5. /\ c \in Call /\ c.req = b.req /\ c.status = b.status /\ c.foreign = b.foreign
      /\ \/ Write[c.req] /\ c.pc = "check" /\ c.i = 1
         \/ ~Write[c.req] /\ c.pc = "confirm"
  BY <1>1, <1>2, <1>3 DEF Call, PC
<1>6. InRange(c) /\ OneOriginal(c)
  <2>1. InRange(c)
    BY <1>1, <1>2, <1>5 DEF GoodCall, InRange, Todos
  <2>2. OneOriginal(c)
    BY <1>1, <1>2, <1>5, SameOriginals DEF GoodCall, Checked
  <2> QED
    BY <2>1, <2>2
<1>7. Recorded(c)
  BY <1>1, <1>2, <1>5 DEF GoodCall, Recorded, Indices, Todos
<1>8. ~c.foreign => HoldsOriginal(c)
  BY <1>1, <1>5 DEF GoodCall, Undisturbed, HoldsOriginal, Todos, Indices
<1>9. HoldsOriginal(c) => WrittenBefore(c, 1)
  BY <1>2, <1>5 DEF HoldsOriginal, WrittenBefore, Todos, Indices
<1>10. ~c.foreign => Undisturbed(c)
  BY <1>5, <1>8, <1>9 DEF Undisturbed
<1> QED
  BY <1>4, <1>5, <1>6, <1>7, <1>10, StepKeeps DEF GoodCall

LEMMA NativeUnavailableKeeps == ASSUME DeliveryInv, NEW w \in Worker, NativeUnavailable(w) PROVE DeliveryInv'
BY FallbackStarts DEF NativeUnavailable, At

LEMMA RestoredKeeps == ASSUME DeliveryInv, NEW w \in Worker, Restored(w) PROVE DeliveryInv'
BY FallbackStarts, RaisedKeeps DEF Restored, At

LEMMA NativeStartsKeeps == ASSUME DeliveryInv, NEW w \in Worker, NativeStarts(w) PROVE DeliveryInv'
<1>1. PICK b : b = calls[w]
  OBVIOUS
<1>2. b \in Call /\ GoodCall(b) /\ b.pc = "native" /\ UNCHANGED <<snapshot, integrated, receipts, envVars>>
  BY <1>1, CallOf DEF NativeStarts, At
<1>3. CASE ~HoldsOriginal(b)
  BY <1>1, <1>2, <1>3, Reading, RaisedKeeps DEF NativeStarts
<1>4. CASE HoldsOriginal(b)
  <2>1. PICK c : c = [b EXCEPT !.pc = "running", !.i = 1]
    OBVIOUS
  <2>2. Move(w, c)
    BY <1>1, <1>4, <2>1, Reading DEF NativeStarts, Goto
  <2>3. c \in Call /\ c.pc = "running" /\ c.req = b.req /\ c.status = b.status /\ c.i = 1
    BY <1>2, <2>1 DEF Call, PC
  <2>4. b.req \in Request /\ Len(Todos(b)) \in Nat
    <3>1. b.req \in Request
      BY <1>2 DEF GoodCall, InRange
    <3> QED
      BY <3>1, ChangesOf DEF Todos
  <2>5. IsReadable(b)
    BY <1>4, <2>4, OriginalIsReadable
  <2>6. InRange(c) /\ OneOriginal(c)
    <3>1. InRange(c)
      BY <1>2, <2>3, <2>4 DEF GoodCall, InRange, Todos
    <3>2. OneOriginal(c)
      BY <1>2, <2>3, <2>4, SameOriginals DEF GoodCall, Checked
    <3> QED
      BY <3>1, <3>2
  <2>7. Recorded(c) /\ Undisturbed(c)
    BY <1>2, <2>3, <2>5 DEF GoodCall, Recorded, Undisturbed, IsReadable, Todos, Indices
  <2> QED
    BY <1>2, <2>2, <2>3, <2>6, <2>7, StepKeeps DEF GoodCall
<1> QED
  BY <1>3, <1>4

LEMMA NativeEditsKeeps == ASSUME DeliveryInv, NEW w \in Worker, NativeEdits(w) PROVE DeliveryInv'
<1>1. PICK b : b = calls[w]
  OBVIOUS
<1>2. b \in Call /\ GoodCall(b) /\ b.pc = "running" /\ UNCHANGED <<snapshot, integrated, receipts, envVars>>
  BY <1>1, CallOf DEF NativeEdits, At
<1>3. b.req \in Request /\ b.i \in 1..(Len(Todos(b)) + 1) /\ b.i <= Len(Todos(b))
  BY <1>1, <1>2, Reading DEF GoodCall, InRange, NativeEdits
<1>4. Len(Todos(b)) \in Nat /\ Indices(b) = 1..Len(Todos(b)) /\ b.i \in Indices(b)
  BY <1>3, ChangesOf DEF Todos, Indices
<1>5. PICK x : x \in {Todos(b)[b.i].result, Garbled} /\ WriteFile(w, Todos(b)[b.i].path, x, Goto(w, "running", b.i + 1))
  BY <1>1, Reading DEF NativeEdits
<1>6. Todos(b)[b.i].path \in Path /\ Todos(b)[b.i].result \in Content
  BY <1>3, <1>4, ChangesOf DEF Todos, Indices
<1>7. x \in File /\ x # Gone
  BY <1>5, <1>6, ConstantsAssumption DEF File
<1>8. PICK p \in Path : p = Todos(b)[b.i].path
  BY <1>6
<1>9. PICK c : c = [b EXCEPT !.pc = "running", !.i = b.i + 1]
  OBVIOUS
<1>10. WriteFile(w, p, x, c)
  BY <1>1, <1>5, <1>8, <1>9 DEF Goto
<1>11. c \in Call /\ c.pc = "running" /\ c.req = b.req /\ c.status = b.status /\ c.foreign = b.foreign /\ c.i = b.i + 1
  <2>1. b.i + 1 \in Nat
    BY <1>3, <1>4
  <2> QED
    BY <1>2, <1>9, <2>1 DEF Call, PC
<1>12. \A q \in Path : files'[q] = IF q = p THEN x ELSE files[q]
  BY <1>10 DEF WriteFile, DeliveryInv, TypeOK
<1>13. IsReadable(b) => IsReadable(b)'
  BY <1>3, <1>7, <1>12, ChangesOf DEF IsReadable, Todos, Indices
<1>14. (InRange(c) /\ OneOriginal(c))'
  <2>1. InRange(c)'
    BY <1>2, <1>3, <1>4, <1>11 DEF GoodCall, InRange, Todos
  <2>2. OneOriginal(c)'
    BY <1>2, <1>3, <1>4, <1>11, SameOriginals DEF GoodCall, Checked
  <2> QED
    BY <2>1, <2>2
<1>15. Recorded(c)'
  <2>1. exact \subseteq exact'
    BY <1>10 DEF WriteFile
  <2> QED
    BY <1>2, <1>11, <2>1 DEF GoodCall, Recorded, Indices
<1>16. ~c.foreign => Undisturbed(c)'
  BY <1>2, <1>11, <1>13 DEF GoodCall, Undisturbed, IsReadable, Todos, Indices
<1>17. GoodCall(c)'
  BY <1>14, <1>15, <1>16 DEF GoodCall
<1> QED
  BY <1>2, <1>7, <1>10, <1>11, <1>17, WriteKeeps

LEMMA NativeReturnsKeeps == ASSUME DeliveryInv, NEW w \in Worker, NativeReturns(w) PROVE DeliveryInv'
<1>1. PICK b : b = calls[w]
  OBVIOUS
<1>2. b \in Call /\ GoodCall(b) /\ b.pc = "running" /\ UNCHANGED <<snapshot, integrated, receipts, envVars>>
  BY <1>1, CallOf DEF NativeReturns, At
<1>3. b.req \in Request /\ Len(Todos(b)) \in Nat /\ Indices(b) = 1..Len(Todos(b))
  <2>1. b.req \in Request
    BY <1>2 DEF GoodCall, InRange
  <2> QED
    BY <2>1, ChangesOf DEF Todos, Indices
<1>4. CASE Move(w, Goto(w, "verify", 0))
  <2>1. PICK c : c = [b EXCEPT !.pc = "verify", !.i = 0]
    OBVIOUS
  <2>2. Move(w, c)
    BY <1>1, <1>4, <2>1 DEF Goto
  <2>3. c \in Call /\ c.pc = "verify" /\ c.req = b.req /\ c.status = b.status /\ c.foreign = b.foreign
    BY <1>2, <2>1 DEF Call, PC
  <2>4. InRange(c) /\ OneOriginal(c)
    <3>1. InRange(c)
      BY <1>2, <2>3 DEF GoodCall, InRange, Todos
    <3>2. OneOriginal(c)
      BY <1>2, <2>3, SameOriginals DEF GoodCall, Checked
    <3> QED
      BY <3>1, <3>2
  <2>5. Recorded(c) /\ (~c.foreign => Undisturbed(c))
    BY <1>2, <2>3 DEF GoodCall, Recorded, Undisturbed, Todos, Indices
  <2> QED
    BY <1>2, <2>2, <2>3, <2>4, <2>5, StepKeeps DEF GoodCall
<1>5. CASE Readable(w) /\ Move(w, Goto(w, "restore", 1))
  <2>1. PICK c : c = [b EXCEPT !.pc = "restore", !.i = 1]
    OBVIOUS
  <2>2. Move(w, c)
    BY <1>1, <1>5, <2>1 DEF Goto
  <2>3. c \in Call /\ c.pc = "restore" /\ c.req = b.req /\ c.status = b.status /\ c.foreign = b.foreign /\ c.i = 1
    BY <1>2, <2>1 DEF Call, PC
  <2>4. InRange(c) /\ OneOriginal(c)
    <3>1. InRange(c)
      BY <1>2, <1>3, <2>3 DEF GoodCall, InRange, Todos
    <3>2. OneOriginal(c)
      BY <1>2, <1>3, <2>3, SameOriginals DEF GoodCall, Checked
    <3> QED
      BY <3>1, <3>2
  <2>5. Recorded(c) /\ (~c.foreign => Undisturbed(c))
    BY <1>2, <1>3, <2>3 DEF GoodCall, Recorded, Undisturbed, Todos, Indices
  <2> QED
    BY <1>2, <2>2, <2>3, <2>4, <2>5, StepKeeps DEF GoodCall
<1> QED
  BY <1>2, <1>4, <1>5, RaisedKeeps DEF NativeReturns

LEMMA VerifyKeeps == ASSUME DeliveryInv, NEW w \in Worker, Verify(w) PROVE DeliveryInv'
<1>1. PICK b : b = calls[w]
  OBVIOUS
<1>2. b \in Call /\ GoodCall(b) /\ b.pc = "verify" /\ UNCHANGED <<snapshot, integrated, receipts, envVars>>
  BY <1>1, CallOf DEF Verify, At
<1>3. b.req \in Request /\ Len(Todos(b)) \in Nat /\ Indices(b) = 1..Len(Todos(b)) /\ Write[b.req] \in BOOLEAN
  <2>1. b.req \in Request
    BY <1>2 DEF GoodCall, InRange
  <2> QED
    BY <2>1, ChangesOf, ConstantsAssumption DEF Todos, Indices
<1> DEFINE updated == \A i \in Indices(b) : files[Todos(b)[i].path] = Todos(b)[i].result
<1>4. \/ Raise(w)
      \/ updated /\ Move(w, [b EXCEPT !.pc = "refresh", !.i = 0, !.status = "applied"])
      \/ Move(w, [b EXCEPT !.pc = "store", !.i = 0, !.status = "dry_run"])
      \/ Move(w, [b EXCEPT !.pc = "restore", !.i = 1, !.twice = TRUE])
  BY <1>1, Reading DEF Verify, Goto
<1>5. CASE updated /\ Move(w, [b EXCEPT !.pc = "refresh", !.i = 0, !.status = "applied"])
  <2>1. PICK c : c = [b EXCEPT !.pc = "refresh", !.i = 0, !.status = "applied"]
    OBVIOUS
  <2>2. c \in Call /\ c.pc = "refresh" /\ c.req = b.req
    BY <1>2, <2>1 DEF Call, PC, Status
  <2>3. \A j \in Indices(c) : <<c.req, j>> \in exact
    BY <1>3, <1>5, <2>2, ResultsAreRecorded DEF DeliveryInv, Indices, Todos
  <2>3a. HoldsResults(c)
    BY <1>5, <2>2 DEF HoldsResults, Indices, Todos
  <2>4. GoodCall(c)
    BY <1>3, <2>2, <2>3, <2>3a DEF GoodCall, InRange, Recorded, Undisturbed, Checked
  <2> QED
    BY <1>2, <1>5, <2>1, <2>2, <2>4, StepKeeps
<1>6. CASE Move(w, [b EXCEPT !.pc = "store", !.i = 0, !.status = "dry_run"])
  <2>1. PICK c : c = [b EXCEPT !.pc = "store", !.i = 0, !.status = "dry_run"]
    OBVIOUS
  <2>2. c \in Call /\ c.pc = "store" /\ c.req = b.req /\ c.status = "dry_run"
    BY <1>2, <2>1 DEF Call, PC, Status
  <2>3. GoodCall(c)
    BY <1>3, <2>2 DEF GoodCall, InRange, Recorded, Undisturbed, Checked
  <2> QED
    BY <1>2, <1>6, <2>1, <2>2, <2>3, StepKeeps
<1>7. CASE Move(w, [b EXCEPT !.pc = "restore", !.i = 1, !.twice = TRUE])
  <2>1. PICK c : c = [b EXCEPT !.pc = "restore", !.i = 1, !.twice = TRUE]
    OBVIOUS
  <2>2. c \in Call /\ c.pc = "restore" /\ c.req = b.req /\ c.status = b.status /\ c.foreign = b.foreign /\ c.i = 1
    BY <1>2, <2>1 DEF Call, PC
  <2>3. InRange(c) /\ OneOriginal(c)
    <3>1. InRange(c)
      BY <1>2, <1>3, <2>2 DEF GoodCall, InRange, Todos
    <3>2. OneOriginal(c)
      BY <1>2, <1>3, <2>2, SameOriginals DEF GoodCall, Checked
    <3> QED
      BY <3>1, <3>2
  <2>4. Recorded(c) /\ (~c.foreign => Undisturbed(c))
    BY <1>2, <1>3, <2>2 DEF GoodCall, Recorded, Undisturbed, Todos, Indices
  <2> QED
    BY <1>2, <1>7, <2>1, <2>2, <2>3, <2>4, StepKeeps DEF GoodCall
<1> QED
  BY <1>2, <1>4, <1>5, <1>6, <1>7, RaisedKeeps

(* Where a call that works on its i-th change stands. *)
LEMMA Standing ==
    ASSUME NEW c \in Call, GoodCall(c), c.pc \in {"running", "verify", "restore", "check", "replace", "rollback", "confirm"}
    PROVE  /\ c.req \in Request /\ Write[c.req] \in BOOLEAN
           /\ Len(Todos(c)) \in Nat /\ Indices(c) = 1..Len(Todos(c)) /\ OneOriginal(c)
           /\ \A i \in Indices(c) : /\ Todos(c)[i].path \in Path
                                    /\ Todos(c)[i].expected \in File /\ Todos(c)[i].expected # Gone
                                    /\ Todos(c)[i].result \in File /\ Todos(c)[i].result # Gone
<1>1. c.req \in Request
  BY DEF GoodCall, InRange
<1>2. OneOriginal(c)
  BY DEF GoodCall, Checked
<1> QED
  BY <1>1, <1>2, ChangesOf, ConstantsAssumption DEF Todos, Indices, File

LEMMA FilesAfter ==
    ASSUME DeliveryInv, NEW w \in Worker, NEW p \in Path, NEW x, NEW c, WriteFile(w, p, x, c)
    PROVE  /\ \A q \in Path : files'[q] = IF q = p THEN x ELSE files[q]
           /\ exact \subseteq exact' /\ ExactIn(files') \subseteq exact'
BY DEF WriteFile, DeliveryInv, TypeOK

LEMMA RestoreKeeps == ASSUME DeliveryInv, NEW w \in Worker, Restore(w) PROVE DeliveryInv'
<1>1. PICK b : b = calls[w]
  OBVIOUS
<1>2. b \in Call /\ GoodCall(b) /\ b.pc = "restore" /\ UNCHANGED <<snapshot, integrated, receipts, envVars>>
  BY <1>1, CallOf DEF Restore, At
<1>3. /\ b.req \in Request /\ Len(Todos(b)) \in Nat /\ Indices(b) = 1..Len(Todos(b)) /\ OneOriginal(b)
      /\ b.i \in 1..(Len(Todos(b)) + 1)
  BY <1>2, Standing DEF GoodCall, InRange
<1> DEFINE p == Todos(b)[b.i].path
           x == Todos(b)[b.i].expected
<1>4. \/ Raise(w)
      \/ b.i > Len(Todos(b)) /\ Move(w, [b EXCEPT !.pc = "restore", !.i = 1, !.twice = FALSE])
      \/ b.i > Len(Todos(b)) /\ Move(w, [b EXCEPT !.pc = "restored", !.i = 0])
      \/ b.i <= Len(Todos(b)) /\ files[p] = x /\ Move(w, [b EXCEPT !.pc = "restore", !.i = b.i + 1])
      \/ b.i <= Len(Todos(b)) /\ WriteFile(w, p, x, [b EXCEPT !.pc = "restore", !.i = b.i + 1])
  BY <1>1, <1>3, Reading DEF Restore, Goto
<1>5. CASE b.i > Len(Todos(b)) /\ Move(w, [b EXCEPT !.pc = "restore", !.i = 1, !.twice = FALSE])
  <2>1. PICK c : c = [b EXCEPT !.pc = "restore", !.i = 1, !.twice = FALSE]
    OBVIOUS
  <2>2. c \in Call /\ c.pc = "restore" /\ c.req = b.req /\ c.status = b.status /\ c.foreign = b.foreign /\ c.i = 1
    BY <1>2, <2>1 DEF Call, PC
  <2>3. InRange(c) /\ OneOriginal(c)
    <3>1. InRange(c)
      BY <1>2, <1>3, <2>2 DEF GoodCall, InRange, Todos
    <3>2. OneOriginal(c)
      BY <1>2, <1>3, <2>2, SameOriginals DEF GoodCall, Checked
    <3> QED
      BY <3>1, <3>2
  <2>4. Recorded(c) /\ (~c.foreign => Undisturbed(c))
    BY <1>2, <1>3, <2>2 DEF GoodCall, Recorded, Undisturbed, Todos, Indices
  <2> QED
    BY <1>2, <1>5, <2>1, <2>2, <2>3, <2>4, StepKeeps DEF GoodCall
<1>6. CASE b.i > Len(Todos(b)) /\ Move(w, [b EXCEPT !.pc = "restored", !.i = 0])
  <2>1. PICK c : c = [b EXCEPT !.pc = "restored", !.i = 0]
    OBVIOUS
  <2>2. c \in Call /\ c.pc = "restored" /\ c.req = b.req /\ c.status = b.status /\ c.foreign = b.foreign
    BY <1>2, <2>1 DEF Call, PC
  <2>3. InRange(c) /\ OneOriginal(c)
    <3>1. InRange(c)
      BY <1>2, <1>3, <2>2 DEF GoodCall, InRange, Todos
    <3>2. OneOriginal(c)
      BY <1>2, <1>3, <2>2, SameOriginals DEF GoodCall, Checked
    <3> QED
      BY <3>1, <3>2
  <2>4. ~c.foreign => HoldsOriginal(c)
    BY <1>2, <1>3, <1>6, <2>2 DEF GoodCall, Undisturbed, HoldsOriginal, Todos, Indices
  <2>5. Recorded(c) /\ (~c.foreign => Undisturbed(c))
    BY <1>2, <2>2, <2>4 DEF GoodCall, Recorded, Undisturbed, Indices
  <2> QED
    BY <1>2, <1>6, <2>1, <2>2, <2>3, <2>5, StepKeeps DEF GoodCall
<1>7. PICK c : c = [b EXCEPT !.pc = "restore", !.i = b.i + 1]
  OBVIOUS
<1>8. c \in Call /\ c.pc = "restore" /\ c.req = b.req /\ c.status = b.status /\ c.foreign = b.foreign /\ c.i = b.i + 1
  <2>1. b.i + 1 \in Nat
    BY <1>3
  <2> QED
    BY <1>2, <1>7, <2>1 DEF Call, PC
<1>9. CASE b.i <= Len(Todos(b)) /\ files[p] = x /\ Move(w, [b EXCEPT !.pc = "restore", !.i = b.i + 1])
  <2>1. InRange(c) /\ OneOriginal(c)
    <3>1. OneOriginal(c)
      BY <1>3, <1>8, SameOriginals
    <3>2. c.i \in 1..(Len(Todos(c)) + 1)
      BY <1>3, <1>8, <1>9 DEF Todos
    <3> QED
      BY <1>3, <1>8, <3>1, <3>2 DEF InRange
  <2>2. Recorded(c)
    BY <1>2, <1>8 DEF GoodCall, Recorded, Indices
  <2>3. ~c.foreign => \A j \in Indices(c) : j < c.i => files[Todos(c)[j].path] = Todos(c)[j].expected
    <3> SUFFICES ASSUME ~c.foreign, NEW j \in Indices(b), j < b.i + 1
                 PROVE  files[Todos(b)[j].path] = Todos(b)[j].expected
      BY <1>8 DEF Todos, Indices
    <3>1. j < b.i \/ j = b.i
      BY <1>3
    <3> QED
      BY <1>2, <1>8, <1>9, <3>1 DEF GoodCall, Undisturbed
  <2>4. ~c.foreign => Undisturbed(c)
    BY <1>2, <1>8, <2>3 DEF GoodCall, Undisturbed, Todos, Indices
  <2> QED
    BY <1>2, <1>7, <1>8, <1>9, <2>1, <2>2, <2>4, StepKeeps DEF GoodCall
<1>10. CASE b.i <= Len(Todos(b)) /\ WriteFile(w, p, x, [b EXCEPT !.pc = "restore", !.i = b.i + 1])
  <2>1. b.i \in Indices(b)
    BY <1>3, <1>10
  <2>2. PICK q \in Path : q = p
    BY <1>2, <2>1, Standing
  <2>3. PICK y \in File : y = x
    BY <1>2, <2>1, Standing
  <2>4. WriteFile(w, q, y, c)
    BY <1>7, <1>10, <2>2, <2>3
  <2>5. (\A r \in Path : files'[r] = IF r = q THEN y ELSE files[r]) /\ exact \subseteq exact'
    BY <2>4, FilesAfter
  <2>6. InRange(c)' /\ OneOriginal(c)'
    <3>1. OneOriginal(c)
      BY <1>3, <1>8, SameOriginals
    <3>2. c.i \in 1..(Len(Todos(c)) + 1)
      BY <1>3, <1>8, <1>10 DEF Todos
    <3>3. OneOriginal(c)'
      BY <3>1 DEF OneOriginal, Todos, Indices
    <3> QED
      BY <1>3, <1>8, <3>2, <3>3 DEF InRange, Todos
  <2>7. Recorded(c)'
    BY <1>2, <1>8, <2>5 DEF GoodCall, Recorded, Indices
  <2>8. ASSUME ~c.foreign, NEW j \in Indices(b)
        PROVE  /\ files'[Todos(b)[j].path] # Gone
               /\ j < b.i + 1 => files'[Todos(b)[j].path] = Todos(b)[j].expected
    <3>1. Todos(b)[j].path \in Path /\ y # Gone
      BY <1>2, <2>1, <2>3, Standing
    <3>2. files[Todos(b)[j].path] # Gone /\ (j < b.i => files[Todos(b)[j].path] = Todos(b)[j].expected)
      BY <1>2, <1>8, <2>8 DEF GoodCall, Undisturbed
    <3>3. Todos(b)[j].path = q => Todos(b)[j].expected = y
      BY <1>3, <2>1, <2>2, <2>3 DEF OneOriginal
    <3>4. j < b.i + 1 => j < b.i \/ j = b.i
      BY <1>3
    <3> QED
      BY <2>2, <2>5, <3>1, <3>2, <3>3, <3>4
  <2>9. ~c.foreign => Undisturbed(c)'
    BY <1>8, <2>8 DEF Undisturbed, Todos, Indices
  <2>10. GoodCall(c)'
    BY <2>6, <2>7, <2>9 DEF GoodCall
  <2> QED
    BY <1>2, <1>8, <2>4, <2>10, WriteKeeps
<1> QED
  BY <1>2, <1>4, <1>5, <1>6, <1>7, <1>9, <1>10, RaisedKeeps

(* A fallback that cannot go on undoes what it wrote. *)
LEMMA RollbackStarts ==
    ASSUME DeliveryInv, NEW w \in Worker, NEW b, b = calls[w], b.pc \in {"check", "replace"}, b.i <= Len(Todos(b)),
           Move(w, Goto(w, "rollback", b.i - 1)), UNCHANGED <<snapshot, integrated, receipts>>, Counters'
    PROVE  DeliveryInv'
<1>1. b \in Call /\ GoodCall(b)
  BY CallOf
<1>2. /\ b.req \in Request /\ Len(Todos(b)) \in Nat /\ Indices(b) = 1..Len(Todos(b)) /\ OneOriginal(b)
      /\ b.i \in 1..Len(Todos(b))
  BY <1>1, Standing DEF GoodCall, InRange
<1>3. PICK c : c = [b EXCEPT !.pc = "rollback", !.i = b.i - 1]
  OBVIOUS
<1>4. Move(w, c)
  BY <1>3 DEF Goto
<1>5. c \in Call /\ c.pc = "rollback" /\ c.req = b.req /\ c.status = b.status /\ c.foreign = b.foreign /\ c.i = b.i - 1
  <2>1. b.i - 1 \in Nat
    BY <1>2
  <2> QED
    BY <1>1, <1>3, <2>1 DEF Call, PC
<1>6. OneOriginal(c)
  BY <1>2, <1>5 DEF OneOriginal, Todos, Indices
<1>7. InRange(c)
  <2>1. c.i \in 0..Len(Todos(c))
    BY <1>2, <1>5 DEF Todos
  <2> QED
    BY <1>2, <1>5, <2>1 DEF InRange
<1>8. Recorded(c)
  BY <1>1, <1>5 DEF GoodCall, Recorded, Indices
<1>9. ~c.foreign => UndoneAfter(c, c.i)
  <2> SUFFICES ASSUME ~c.foreign, NEW j \in Indices(b),
                      \A k \in Indices(b) : k <= b.i - 1 => Todos(b)[k].path # Todos(b)[j].path
               PROVE  files[Todos(b)[j].path] = Todos(b)[j].expected
    BY <1>5 DEF UndoneAfter, Todos, Indices
  <2>1. \A k \in Indices(b) : k < b.i => Todos(b)[k].path # Todos(b)[j].path
    BY <1>2
  <2>2. WrittenBefore(b, b.i)
    BY <1>1, <1>5 DEF GoodCall, Undisturbed
  <2> QED
    BY <2>1, <2>2 DEF WrittenBefore
<1>10. ~c.foreign => Undisturbed(c)
  BY <1>5, <1>9 DEF Undisturbed
<1>11. snapshot' \in [Path -> File]
  BY DEF DeliveryInv, TypeOK
<1> QED
  BY <1>4, <1>5, <1>6, <1>7, <1>8, <1>10, <1>11, MoveKeeps DEF GoodCall

LEMMA FallbackCheckKeeps == ASSUME DeliveryInv, NEW w \in Worker, FallbackCheck(w) PROVE DeliveryInv'
<1>1. PICK b : b = calls[w]
  OBVIOUS
<1>2. b \in Call /\ GoodCall(b) /\ b.pc = "check" /\ UNCHANGED <<snapshot, integrated, receipts, envVars>>
  BY <1>1, CallOf DEF FallbackCheck, At
<1>3. /\ b.req \in Request /\ Len(Todos(b)) \in Nat /\ Indices(b) = 1..Len(Todos(b)) /\ OneOriginal(b)
      /\ b.i \in 1..(Len(Todos(b)) + 1)
  BY <1>2, Standing DEF GoodCall, InRange
<1>4. \/ b.i > Len(Todos(b)) /\ Move(w, [b EXCEPT !.pc = "confirm", !.i = 0])
      \/ b.i <= Len(Todos(b)) /\ Move(w, [b EXCEPT !.pc = "replace", !.i = b.i])
      \/ b.i <= Len(Todos(b)) /\ Move(w, Goto(w, "rollback", b.i - 1))
  BY <1>1, <1>3, Reading DEF FallbackCheck, Goto
<1>5. CASE b.i > Len(Todos(b)) /\ Move(w, [b EXCEPT !.pc = "confirm", !.i = 0])
  <2>1. PICK c : c = [b EXCEPT !.pc = "confirm", !.i = 0]
    OBVIOUS
  <2>2. c \in Call /\ c.pc = "confirm" /\ c.req = b.req /\ c.status = b.status /\ c.foreign = b.foreign
    BY <1>2, <2>1 DEF Call, PC
  <2>3. InRange(c)
    BY <1>3, <2>2 DEF InRange
  <2>4. OneOriginal(c)
    BY <1>3, <2>2 DEF OneOriginal, Todos, Indices
  <2>5. \A j \in Indices(b) : j < b.i
    BY <1>3, <1>5
  <2>6. Recorded(c)
    BY <1>2, <2>2, <2>5 DEF GoodCall, Recorded, Indices
  <2>7. ASSUME ~c.foreign, Write[c.req] PROVE HoldsResults(c)
    <3>1. WrittenBefore(b, b.i)
      BY <1>2, <2>2, <2>7 DEF GoodCall, Undisturbed
    <3>2. HoldsResults(b)
      BY <2>5, <3>1 DEF WrittenBefore, HoldsResults
    <3> QED
      BY <2>2, <3>2 DEF HoldsResults, Todos, Indices
  <2>8. ASSUME ~c.foreign, ~Write[c.req] PROVE HoldsOriginal(c)
    BY <1>2, <2>2, <2>8 DEF GoodCall, InRange
  <2>9. ~c.foreign => Undisturbed(c)
    BY <2>2, <2>7, <2>8 DEF Undisturbed
  <2> QED
    BY <1>2, <1>5, <2>1, <2>2, <2>3, <2>4, <2>6, <2>9, StepKeeps DEF GoodCall
<1>6. CASE b.i <= Len(Todos(b)) /\ Move(w, [b EXCEPT !.pc = "replace", !.i = b.i])
  <2>1. PICK c : c = [b EXCEPT !.pc = "replace", !.i = b.i]
    OBVIOUS
  <2>2. c \in Call /\ c.pc = "replace" /\ c.req = b.req /\ c.status = b.status /\ c.foreign = b.foreign /\ c.i = b.i
    BY <1>2, <2>1 DEF Call, PC
  <2>3. InRange(c)
    BY <1>2, <1>3, <1>6, <2>2 DEF GoodCall, InRange, Todos
  <2>4. OneOriginal(c)
    BY <1>3, <2>2 DEF OneOriginal, Todos, Indices
  <2>5. Recorded(c)
    BY <1>2, <2>2 DEF GoodCall, Recorded, Indices
  <2>6. ~c.foreign => WrittenBefore(c, c.i)
    BY <1>2, <2>2 DEF GoodCall, Undisturbed, WrittenBefore, Todos, Indices
  <2>7. ~c.foreign => Undisturbed(c)
    BY <2>2, <2>6 DEF Undisturbed
  <2> QED
    BY <1>2, <1>6, <2>1, <2>2, <2>3, <2>4, <2>5, <2>7, StepKeeps DEF GoodCall
<1>7. CASE b.i <= Len(Todos(b)) /\ Move(w, Goto(w, "rollback", b.i - 1))
  BY <1>1, <1>2, <1>7, RollbackStarts, CountersStay
<1> QED
  BY <1>4, <1>5, <1>6, <1>7

LEMMA FallbackFailsKeeps == ASSUME DeliveryInv, NEW w \in Worker, FallbackFails(w) PROVE DeliveryInv'
<1>1. PICK b : b = calls[w]
  OBVIOUS
<1>2. b \in Call /\ GoodCall(b) /\ b.pc = "replace" /\ Move(w, Goto(w, "rollback", b.i - 1))
  BY <1>1, CallOf DEF FallbackFails, At
<1>3. b.i <= Len(Todos(b))
  BY <1>2, Standing DEF GoodCall, InRange
<1>4. Counters'
  BY ConstantsAssumption DEF FallbackFails, DeliveryInv, TypeOK, Counters
<1> QED
  BY <1>1, <1>2, <1>3, <1>4, RollbackStarts DEF FallbackFails

LEMMA FallbackReplaceKeeps == ASSUME DeliveryInv, NEW w \in Worker, FallbackReplace(w) PROVE DeliveryInv'
<1>1. PICK b : b = calls[w]
  OBVIOUS
<1>2. b \in Call /\ GoodCall(b) /\ b.pc = "replace" /\ UNCHANGED <<snapshot, integrated, receipts, envVars>>
  BY <1>1, CallOf DEF FallbackReplace, At
<1>3. /\ b.req \in Request /\ Len(Todos(b)) \in Nat /\ Indices(b) = 1..Len(Todos(b)) /\ OneOriginal(b)
      /\ b.i \in Indices(b) /\ Write[b.req]
  BY <1>2, Standing DEF GoodCall, InRange
<1>4. PICK p \in Path : p = Todos(b)[b.i].path
  BY <1>2, <1>3, Standing
<1>5. PICK x \in File : x = Todos(b)[b.i].result
  BY <1>2, <1>3, Standing
<1>6. PICK c : c = [b EXCEPT !.pc = "check", !.i = b.i + 1]
  OBVIOUS
<1>7. WriteFile(w, p, x, c)
  BY <1>1, <1>4, <1>5, <1>6, Reading DEF FallbackReplace, Goto
<1>8. c \in Call /\ c.pc = "check" /\ c.req = b.req /\ c.status = b.status /\ c.foreign = b.foreign /\ c.i = b.i + 1
  <2>1. b.i + 1 \in Nat
    BY <1>3
  <2> QED
    BY <1>2, <1>6, <2>1 DEF Call, PC
<1>9. /\ \A q \in Path : files'[q] = IF q = p THEN x ELSE files[q]
      /\ exact \subseteq exact' /\ ExactIn(files') \subseteq exact'
  BY <1>7, FilesAfter
<1>10. OneOriginal(c)
  BY <1>3, <1>8 DEF OneOriginal, Todos, Indices
<1>11. InRange(c)
  <2>1. c.i \in 1..(Len(Todos(c)) + 1)
    BY <1>3, <1>8 DEF Todos
  <2> QED
    BY <1>3, <1>8, <2>1 DEF InRange
<1>12. Recorded(c)'
  <2>1. files'[Changes[b.req][b.i].path] = Changes[b.req][b.i].result
    BY <1>4, <1>5, <1>9 DEF Todos
  <2>2. <<b.req, b.i>> \in exact'
    BY <1>3, <1>9, <2>1, ResultsAreRecorded DEF Indices
  <2>3. ASSUME NEW j \in Indices(b), j < b.i + 1 PROVE <<b.req, j>> \in exact'
    <3>1. j < b.i \/ j = b.i
      BY <1>3, <2>3
    <3> QED
      BY <1>2, <1>9, <2>2, <3>1 DEF GoodCall, Recorded
  <2>4. c.status = "applied" => \A j \in Indices(c) : <<c.req, j>> \in exact'
    BY <1>2, <1>8, <1>9 DEF GoodCall, Recorded, Indices
  <2>5. \A j \in Indices(c) : j < c.i => <<c.req, j>> \in exact'
    BY <1>8, <2>3 DEF Indices
  <2> QED
    BY <1>8, <2>4, <2>5 DEF Recorded, Indices
<1>13. ASSUME ~c.foreign PROVE WrittenBefore(c, c.i)'
  <2>1. WrittenBefore(b, b.i)
    BY <1>2, <1>8, <1>13 DEF GoodCall, Undisturbed
  <2>2. ASSUME NEW j \in Indices(b), j < b.i + 1,
               \A k \in Indices(b) : j < k /\ k < b.i + 1 => Todos(b)[k].path # Todos(b)[j].path
        PROVE  files'[Todos(b)[j].path] = Todos(b)[j].result
    <3>1. CASE j = b.i
      BY <1>4, <1>5, <1>9, <3>1
    <3>2. CASE j # b.i
      <4>1. j < b.i /\ b.i < b.i + 1
        BY <1>3, <2>2, <3>2
      <4>2. Todos(b)[j].path # p
        BY <1>3, <1>4, <2>2, <4>1
      <4>3. \A k \in Indices(b) : j < k /\ k < b.i => Todos(b)[k].path # Todos(b)[j].path
        BY <1>3, <2>2
      <4>4. files[Todos(b)[j].path] = Todos(b)[j].result
        BY <2>1, <4>1, <4>3 DEF WrittenBefore
      <4>5. Todos(b)[j].path \in Path
        BY <1>2, Standing
      <4> QED
        BY <1>9, <4>2, <4>4, <4>5
    <3> QED
      BY <3>1, <3>2
  <2>3. ASSUME NEW j \in Indices(b), \A k \in Indices(b) : k < b.i + 1 => Todos(b)[k].path # Todos(b)[j].path
        PROVE  files'[Todos(b)[j].path] = Todos(b)[j].expected
    <3>1. Todos(b)[j].path # p
      BY <1>3, <1>4, <2>3
    <3>2. \A k \in Indices(b) : k < b.i => Todos(b)[k].path # Todos(b)[j].path
      BY <1>3, <2>3
    <3>3. files[Todos(b)[j].path] = Todos(b)[j].expected
      BY <2>1, <3>2 DEF WrittenBefore
    <3>4. Todos(b)[j].path \in Path
      BY <1>2, Standing
    <3> QED
      BY <1>9, <3>1, <3>3, <3>4
  <2> QED
    BY <1>8, <2>2, <2>3 DEF WrittenBefore, Todos, Indices
<1>14. (~c.foreign => Undisturbed(c))'
  BY <1>8, <1>13 DEF Undisturbed
<1>15. GoodCall(c)'
  <2>1. InRange(c)' /\ OneOriginal(c)'
    BY <1>10, <1>11 DEF InRange, OneOriginal, Todos, Indices
  <2> QED
    BY <1>12, <1>14, <2>1 DEF GoodCall
<1> QED
  BY <1>2, <1>7, <1>8, <1>15, WriteKeeps

LEMMA RollbackKeeps == ASSUME DeliveryInv, NEW w \in Worker, Rollback(w) PROVE DeliveryInv'
<1>1. PICK b : b = calls[w]
  OBVIOUS
<1>2. b \in Call /\ GoodCall(b) /\ b.pc = "rollback" /\ UNCHANGED <<snapshot, integrated, receipts, envVars>>
  BY <1>1, CallOf DEF Rollback, At
<1>3. CASE b.i = 0
  BY <1>1, <1>2, <1>3, RaisedKeeps DEF Rollback
<1>4. CASE b.i # 0
  <2>1. /\ b.req \in Request /\ Len(Todos(b)) \in Nat /\ Indices(b) = 1..Len(Todos(b)) /\ OneOriginal(b)
        /\ b.i \in Indices(b)
    BY <1>2, <1>4, Standing DEF GoodCall, InRange
  <2>2. PICK p \in Path : p = Todos(b)[b.i].path
    BY <1>2, <2>1, Standing
  <2>3. PICK x \in File : x = Todos(b)[b.i].expected
    BY <1>2, <2>1, Standing
  <2>4. PICK c : c = [b EXCEPT !.pc = "rollback", !.i = b.i - 1]
    OBVIOUS
  <2>5. WriteFile(w, p, x, c)
    BY <1>1, <1>4, <2>2, <2>3, <2>4, Reading DEF Rollback, Goto
  <2>6. c \in Call /\ c.pc = "rollback" /\ c.req = b.req /\ c.status = b.status /\ c.foreign = b.foreign /\ c.i = b.i - 1
    <3>1. b.i - 1 \in Nat
      BY <2>1
    <3> QED
      BY <1>2, <2>4, <3>1 DEF Call, PC
  <2>7. (\A q \in Path : files'[q] = IF q = p THEN x ELSE files[q]) /\ exact \subseteq exact'
    BY <2>5, FilesAfter
  <2>8. OneOriginal(c)
    BY <2>1, <2>6 DEF OneOriginal, Todos, Indices
  <2>9. InRange(c)
    <3>1. c.i \in 0..Len(Todos(c))
      BY <2>1, <2>6 DEF Todos
    <3> QED
      BY <2>1, <2>6, <3>1 DEF InRange
  <2>10. Recorded(c)'
    BY <1>2, <2>6, <2>7 DEF GoodCall, Recorded, Indices
  <2>11. ASSUME ~c.foreign, NEW j \in Indices(b),
                \A k \in Indices(b) : k <= b.i - 1 => Todos(b)[k].path # Todos(b)[j].path
         PROVE  files'[Todos(b)[j].path] = Todos(b)[j].expected
    <3>1. Todos(b)[j].path \in Path
      BY <1>2, Standing
    <3>2. CASE Todos(b)[j].path = p
      <4>1. Todos(b)[j].expected = x
        BY <2>1, <2>2, <2>3, <3>2 DEF OneOriginal
      <4> QED
        BY <2>7, <3>1, <3>2, <4>1
    <3>3. CASE Todos(b)[j].path # p
      <4>1. ASSUME NEW k \in Indices(b), k <= b.i PROVE Todos(b)[k].path # Todos(b)[j].path
        <5>1. k <= b.i - 1 \/ k = b.i
          BY <2>1, <4>1
        <5> QED
          BY <2>2, <2>11, <3>3, <5>1
      <4>2. UndoneAfter(b, b.i)
        BY <1>2, <2>6, <2>11 DEF GoodCall, Undisturbed
      <4>3. files[Todos(b)[j].path] = Todos(b)[j].expected
        BY <4>1, <4>2 DEF UndoneAfter
      <4> QED
        BY <2>7, <3>1, <3>3, <4>3
    <3> QED
      BY <3>2, <3>3
  <2>12. (~c.foreign => UndoneAfter(c, c.i))'
    BY <2>6, <2>11 DEF UndoneAfter, Todos, Indices
  <2>13. (~c.foreign => Undisturbed(c))'
    BY <2>6, <2>12 DEF Undisturbed
  <2>14. GoodCall(c)'
    <3>1. InRange(c)' /\ OneOriginal(c)'
      BY <2>8, <2>9 DEF InRange, OneOriginal, Todos, Indices
    <3> QED
      BY <2>10, <2>13, <3>1 DEF GoodCall
  <2> QED
    BY <1>2, <2>5, <2>6, <2>14, WriteKeeps
<1> QED
  BY <1>3, <1>4

LEMMA RollbackFailsKeeps == ASSUME DeliveryInv, NEW w \in Worker, RollbackFails(w) PROVE DeliveryInv'
<1>1. Counters'
  BY ConstantsAssumption DEF RollbackFails, DeliveryInv, TypeOK, Counters
<1> QED
  BY <1>1, RaiseKeeps DEF RollbackFails

LEMMA ConfirmKeeps == ASSUME DeliveryInv, NEW w \in Worker, Confirm(w) PROVE DeliveryInv'
<1>1. PICK b : b = calls[w]
  OBVIOUS
<1>2. b \in Call /\ GoodCall(b) /\ b.pc = "confirm" /\ UNCHANGED <<snapshot, integrated, receipts, envVars>>
  BY <1>1, CallOf DEF Confirm, At
<1>3. b.req \in Request
  BY <1>2 DEF GoodCall, InRange
<1>4. \/ Raise(w)
      \/ /\ Write[b.req] /\ HoldsResults(b)
         /\ Move(w, [b EXCEPT !.pc = "refresh", !.i = 0, !.status = "applied"])
      \/ Move(w, [b EXCEPT !.pc = "store", !.i = 0, !.status = "dry_run"])
  BY <1>1, Reading DEF Confirm, Goto
<1>5. CASE /\ Write[b.req] /\ HoldsResults(b)
           /\ Move(w, [b EXCEPT !.pc = "refresh", !.i = 0, !.status = "applied"])
  <2>1. PICK c : c = [b EXCEPT !.pc = "refresh", !.i = 0, !.status = "applied"]
    OBVIOUS
  <2>2. c \in Call /\ c.pc = "refresh" /\ c.req = b.req
    BY <1>2, <2>1 DEF Call, PC, Status
  <2>3. \A j \in Indices(c) : <<c.req, j>> \in exact
    BY <1>2, <1>5, <2>2 DEF GoodCall, Recorded, Indices
  <2>3a. HoldsResults(c)
    BY <1>5, <2>2 DEF HoldsResults, Indices, Todos
  <2>4. GoodCall(c)
    BY <1>3, <2>2, <2>3, <2>3a DEF GoodCall, InRange, Recorded, Undisturbed, Checked
  <2> QED
    BY <1>2, <1>5, <2>1, <2>2, <2>4, StepKeeps
<1>6. CASE Move(w, [b EXCEPT !.pc = "store", !.i = 0, !.status = "dry_run"])
  <2>1. PICK c : c = [b EXCEPT !.pc = "store", !.i = 0, !.status = "dry_run"]
    OBVIOUS
  <2>2. c \in Call /\ c.pc = "store" /\ c.req = b.req /\ c.status = "dry_run"
    BY <1>2, <2>1 DEF Call, PC, Status
  <2>3. GoodCall(c)
    BY <1>3, <2>2 DEF GoodCall, InRange, Recorded, Undisturbed, Checked
  <2> QED
    BY <1>2, <1>6, <2>1, <2>2, <2>3, StepKeeps
<1> QED
  BY <1>2, <1>4, <1>5, <1>6, RaisedKeeps

----------------------------------------------------------------------------
(* The environment *)

LEMMA CrashKeeps == ASSUME DeliveryInv, NEW w \in Worker, Crash(w) PROVE DeliveryInv'
<1>1. Counters'
  BY ConstantsAssumption DEF Crash, DeliveryInv, TypeOK, Counters
<1> QED
  BY <1>1, RaiseKeeps DEF Crash

LEMMA DeveloperEditKeeps == ASSUME DeliveryInv, DeveloperEdit PROVE DeliveryInv'
<1>1. PICK e \in Edits : /\ files' = [files EXCEPT ![e[1]] = e[2]] /\ calls' = MarkForeign(NoRequest, e[1])
                         /\ exact' = exact \cup ExactIn(files')
  BY DEF DeveloperEdit
<1>2. e[1] \in Path /\ e[2] \in File
  BY ConstantsAssumption
<1>3. PICK p \in Path : p = e[1]
  BY <1>2
<1>4. /\ files' \in [Path -> File] /\ \A q \in Path : q # p => files'[q] = files[q]
      /\ UNCHANGED <<snapshot, integrated, receipts>>
  BY <1>1, <1>2, <1>3 DEF DeveloperEdit, DeliveryInv, TypeOK
<1>5. Counters'
  BY ConstantsAssumption DEF DeveloperEdit, DeliveryInv, TypeOK, Counters
<1>6. ASSUME NEW v \in Worker PROVE calls'[v] \in Call /\ GoodCall(calls[v])'
  <2>1. PICK b : b = calls[v]
    OBVIOUS
  <2>2. PICK d : d = calls'[v]
    OBVIOUS
  <2>3. d = IF b.pc # "idle" /\ p \in Touched(b.req) THEN [b EXCEPT !.foreign = TRUE] ELSE b
    BY <1>1, <1>3, <2>1, <2>2, ConstantsAssumption DEF MarkForeign, At, Req
  <2>4. b \in Call /\ GoodCall(b)
    BY <2>1, CallOf
  <2>5. b.pc # "idle" => Touched(b.req) \subseteq Path
    <3> SUFFICES ASSUME b.pc # "idle" PROVE Touched(b.req) \subseteq Path
      OBVIOUS
    <3>1. b.req \in Request
      BY <2>4 DEF GoodCall, InRange
    <3> QED
      BY <3>1, ChangesOf DEF Touched
  <2>6. d = [b EXCEPT !.foreign = TRUE] \/ (d = b /\ (b.pc = "idle" \/ \A q \in Touched(b.req) : files'[q] = files[q]))
    BY <1>4, <2>3, <2>5
  <2>7. d \in Call /\ GoodCall(d)'
    BY <1>1, <2>4, <2>6, CallStays
  <2> QED
    BY <2>2, <2>7
<1>7. calls' \in [Worker -> Call]
  <2>1. calls' = [v \in Worker |-> calls'[v]]
    BY <1>1 DEF MarkForeign
  <2> QED
    BY <1>6, <2>1
<1>8. TypeOK'
  BY <1>4, <1>5, <1>7 DEF DeliveryInv, TypeOK, Call, Counters
<1>9. (ExactIn(files) \subseteq exact)'
  BY <1>1 DEF ExactIn
<1>10. AppliedWasExact'
  BY <1>1, <1>4, AppliedStays DEF DeliveryInv
<1> QED
  BY <1>6, <1>8, <1>9, <1>10 DEF DeliveryInv

----------------------------------------------------------------------------
(* The theorems *)

LEMMA DeliveryInit == Init => DeliveryInv
<1> SUFFICES ASSUME Init PROVE DeliveryInv
  OBVIOUS
<1>1. calls \in [Worker -> Call] /\ \A w \in Worker : calls[w] = IdleCall
  BY IdleIsCall DEF Init
<1>2. TypeOK
  BY <1>1, ConstantsAssumption DEF Init, TypeOK, Call, File
<1>3. AppliedWasExact
  BY IdleIsCall DEF Init, AppliedWasExact
<1> QED
  BY <1>1, <1>2, <1>3, IdleIsGood DEF Init, DeliveryInv

LEMMA DeliveryNext == DeliveryInv /\ [Next]_vars => DeliveryInv'
<1> SUFFICES ASSUME DeliveryInv, [Next]_vars PROVE DeliveryInv'
  OBVIOUS
<1>1. ASSUME NEW w \in Worker, Step(w) PROVE DeliveryInv'
  BY <1>1, RuntimeBlocksKeeps, RuntimeCompletesKeeps, PrepareKeeps, NativeUnavailableKeeps, NativeStartsKeeps,
     NativeEditsKeeps, NativeReturnsKeeps, VerifyKeeps, RestoreKeeps, RestoredKeeps, FallbackCheckKeeps,
     FallbackReplaceKeeps, FallbackFailsKeeps, RollbackKeeps, RollbackFailsKeeps, ConfirmKeeps,
     RefreshReadsKeeps, RefreshPublishesKeeps, RefreshFailsKeeps, StoreKeeps DEF Step
<1>2. CASE UNCHANGED vars
  <2>1. UNCHANGED <<files, snapshot, integrated, receipts, calls, calling, edits, failures, crashes, exact>>
    BY <1>2 DEF vars, envVars
  <2>2. ASSUME NEW v \in Worker PROVE GoodCall(calls[v])'
    <3>1. PICK b : b = calls[v]
      OBVIOUS
    <3>2. b \in Call /\ GoodCall(b) /\ calls'[v] = b
      BY <2>1, <3>1, CallOf
    <3>3. GoodCall(b)'
      BY <2>1, <3>2, CallStays
    <3> QED
      BY <3>2, <3>3
  <2>3. TypeOK' /\ (ExactIn(files) \subseteq exact)'
    BY <2>1 DEF DeliveryInv, TypeOK, ExactIn
  <2>4. AppliedWasExact'
    BY <2>1, AppliedStays DEF DeliveryInv
  <2> QED
    BY <2>2, <2>3, <2>4 DEF DeliveryInv
<1> QED
  BY <1>1, <1>2, BeginKeeps, CrashKeeps, DeveloperEditKeeps DEF Next

LEMMA DeliveryStays == Spec => []DeliveryInv
BY DeliveryInit, DeliveryNext, PTL DEF Spec

(* Receipts are well formed, and an applied receipt of the local executor is byte-exact:
   every file of the changeset held the result of its change, whatever the native executor
   wrote and whoever else worked on the files. *)
THEOREM ReceiptsExact == Spec => []ReceiptsAreExact
<1>1. DeliveryInv => ReceiptsAreExact
  BY DEF DeliveryInv, ReceiptsAreExact
<1> QED
  BY <1>1, DeliveryStays, PTL

(* Nobody but its worker ends a call. *)
LEMMA OthersGoOn ==
    ASSUME DeliveryInv, NEW v \in Worker, NEW w \in Worker, v # w,
           Step(v) \/ Crash(v) \/ (\E r \in Request : Begin(v, r))
    PROVE  calls'[w].pc = calls[w].pc
<1>1. calls \in [Worker -> Call] /\ calls[w] \in Call
  BY DEF DeliveryInv, TypeOK, Call
<1>2. [calls[w] EXCEPT !.foreign = TRUE].pc = calls[w].pc
  BY <1>1 DEF Call
<1>3. ASSUME NEW c, Move(v, c) PROVE calls'[w].pc = calls[w].pc
  BY <1>1, <1>3 DEF Move
<1>4. ASSUME NEW c, NEW p, NEW x, WriteFile(v, p, x, c) PROVE calls'[w].pc = calls[w].pc
  <2>1. calls'[w] = MarkForeign(v, p)[w]
    BY <1>4 DEF WriteFile, MarkForeign
  <2>2. calls'[w] = [calls[w] EXCEPT !.foreign = TRUE] \/ calls'[w] = calls[w]
    BY <2>1 DEF MarkForeign
  <2> QED
    BY <1>2, <2>2
<1>5. ASSUME RuntimeCompletes(v) PROVE calls'[w].pc = calls[w].pc
  <2>1. calls'[w] = [calls[w] EXCEPT !.foreign = TRUE] \/ calls'[w] = calls[w]
    BY <1>5 DEF RuntimeCompletes
  <2> QED
    BY <1>2, <2>1
<1>6. ASSUME NEW r \in Request, Begin(v, r) PROVE calls'[w].pc = calls[w].pc
  BY <1>1, <1>6 DEF Begin
<1>7. ASSUME RuntimeBlocks(v) \/ Prepare(v) \/ NativeUnavailable(v) \/ NativeStarts(v) \/ NativeReturns(v) \/ Verify(v)
             \/ Restored(v) \/ FallbackCheck(v) \/ FallbackFails(v) \/ RollbackFails(v) \/ Confirm(v)
             \/ RefreshReads(v) \/ RefreshPublishes(v) \/ RefreshFails(v) \/ Store(v) \/ Crash(v)
      PROVE  \E c : Move(v, c)
  BY <1>7 DEF RuntimeBlocks, Prepare, NativeUnavailable, NativeStarts, NativeReturns, Verify, Restored, FallbackCheck,
     FallbackFails, RollbackFails, Confirm, RefreshReads, RefreshPublishes, RefreshFails, Store, Crash, Raise
<1>8. ASSUME NativeEdits(v) \/ FallbackReplace(v) PROVE \E p, x, c : WriteFile(v, p, x, c)
  BY <1>8 DEF NativeEdits, FallbackReplace
<1>9. ASSUME Restore(v) \/ Rollback(v) PROVE (\E c : Move(v, c)) \/ (\E p, x, c : WriteFile(v, p, x, c))
  BY <1>9 DEF Restore, Rollback, Raise
<1> QED
  BY <1>3, <1>4, <1>5, <1>6, <1>7, <1>8, <1>9 DEF Step

(* A call that nobody interfered with raises when it wrote nothing or has undone it, or
   when everything is written and the refresh of the snapshot fails. *)
LEMMA RaisedIsUndone ==
    ASSUME DeliveryInv, NEW w \in Worker, Step(w), calls'[w] = IdleCall, ~calls[w].foreign,
           ~At(w, "idle"), ~At(w, "prepare"), ~At(w, "store"), ~(At(w, "rollback") /\ failures' # failures)
    PROVE  IF At(w, "refresh") \/ At(w, "publish") THEN Landed(w) ELSE Original(w)
<1>1. PICK b : b = calls[w]
  OBVIOUS
<1>2. b \in Call /\ GoodCall(b) /\ Undisturbed(b) /\ calls \in [Worker -> Call]
  BY <1>1, CallOf DEF GoodCall, DeliveryInv, TypeOK, Call
<1>3. calls'[w].pc = "idle"
  BY IdleIsCall
<1>4. ASSUME NEW c, c.pc # "idle", Move(w, c) PROVE FALSE
  BY <1>2, <1>3, <1>4 DEF Move
<1>5. ASSUME NEW p, NEW x, NEW c, c.pc # "idle", WriteFile(w, p, x, c) PROVE FALSE
  BY <1>3, <1>5 DEF WriteFile, MarkForeign
<1>6. ASSUME NEW pc, NEW i, pc # "idle" PROVE ~Move(w, Goto(w, pc, i)) /\ Goto(w, pc, i).pc # "idle"
  <2>1. PICK c : c = [b EXCEPT !.pc = pc, !.i = i]
    OBVIOUS
  <2>2. c = Goto(w, pc, i) /\ c.pc # "idle"
    BY <1>1, <1>2, <1>6, <2>1 DEF Goto, Call
  <2> QED
    BY <1>4, <2>2
<1>6a. ASSUME NEW pc, NEW i, NEW s, pc # "idle"
       PROVE  /\ ~Move(w, [Goto(w, pc, i) EXCEPT !.status = s])
              /\ calls'[w] # [Goto(w, pc, i) EXCEPT !.status = s]
  <2>1. PICK c : c = [b EXCEPT !.pc = pc, !.i = i, !.status = s]
    OBVIOUS
  <2>2. c = [Goto(w, pc, i) EXCEPT !.status = s] /\ c.pc # "idle"
    BY <1>1, <1>2, <1>6a, <2>1 DEF Goto, Call
  <2> QED
    BY <1>3, <1>4, <2>2
<1>6b. ASSUME NEW pc, NEW i, NEW t, pc # "idle" PROVE ~Move(w, [Goto(w, pc, i) EXCEPT !.twice = t])
  <2>1. PICK c : c = [b EXCEPT !.pc = pc, !.i = i, !.twice = t]
    OBVIOUS
  <2>2. c = [Goto(w, pc, i) EXCEPT !.twice = t] /\ c.pc # "idle"
    BY <1>1, <1>2, <1>6b, <2>1 DEF Goto, Call
  <2> QED
    BY <1>4, <2>2
<1>7. ~RuntimeBlocks(w) /\ ~Prepare(w) /\ ~NativeUnavailable(w) /\ ~FallbackCheck(w) /\ ~FallbackFails(w)
      /\ ~RefreshReads(w) /\ ~RefreshPublishes(w) /\ ~Store(w) /\ ~NativeEdits(w) /\ ~FallbackReplace(w)
  <2>1. ~RuntimeBlocks(w)
    BY <1>6a DEF RuntimeBlocks
  <2>2. ~NativeUnavailable(w)
    BY <1>6 DEF NativeUnavailable
  <2>3. ~FallbackCheck(w)
    BY <1>6 DEF FallbackCheck
  <2>4. ~FallbackFails(w)
    BY <1>6 DEF FallbackFails
  <2>5. ~RefreshReads(w)
    <3>1. PICK c : c = [b EXCEPT !.pc = "publish", !.i = 0, !.view = files]
      OBVIOUS
    <3>2. c = [Goto(w, "publish", 0) EXCEPT !.view = files] /\ c.pc # "idle"
      BY <1>1, <1>2, <3>1 DEF Goto, Call
    <3> QED
      BY <1>4, <1>6, <3>2 DEF RefreshReads
  <2>6. ~RefreshPublishes(w)
    BY <1>6 DEF RefreshPublishes
  <2>7. ~NativeEdits(w) /\ ~FallbackReplace(w)
    BY <1>5, <1>6 DEF NativeEdits, FallbackReplace
  <2> QED
    BY <2>1, <2>2, <2>3, <2>4, <2>5, <2>6, <2>7 DEF Prepare, Store
<1>8. ~RuntimeCompletes(w)
  <2> SUFFICES ASSUME RuntimeCompletes(w) PROVE FALSE
    OBVIOUS
  <2>1. \/ calls'[w] = [Goto(w, "refresh", 0) EXCEPT !.status = "runtime_applied"]
        \/ calls'[w] = [Goto(w, "store", 0) EXCEPT !.status = "blocked"]
    BY DEF RuntimeCompletes
  <2> QED
    BY <1>6a, <2>1
<1>9. b.pc \in {"running", "verify", "restore"} => Readable(w)
  BY <1>1, <1>2, Reading DEF Undisturbed, IsReadable
<1>10. CASE NativeStarts(w) \/ Restored(w)
  BY <1>1, <1>2, <1>10, Reading DEF NativeStarts, Restored, At, Undisturbed
<1>10a. CASE RefreshFails(w)
  <2>1. b.pc \in {"refresh", "publish"}
    BY <1>1, <1>10a DEF RefreshFails, At
  <2> QED
    BY <1>1, <1>2, <2>1, Reading DEF Undisturbed, At
<1>11. ~NativeReturns(w)
  BY <1>1, <1>6, <1>9 DEF NativeReturns, At
<1>12. ~Verify(w)
  BY <1>1, <1>9, <1>6a, <1>6b DEF Verify, At
<1>13. ~Restore(w)
  <2> SUFFICES ASSUME Restore(w) PROVE FALSE
    OBVIOUS
  <2>1. b.pc = "restore" /\ Readable(w)
    BY <1>1, <1>9 DEF Restore, At
  <2>2. b.i \in 1..(Len(Todos(b)) + 1) /\ Len(Todos(b)) \in Nat /\ Indices(b) = 1..Len(Todos(b))
    BY <1>2, <2>1, Standing DEF GoodCall, InRange
  <2>3. b.i <= Len(Todos(b)) => files[Item(w).path] # Gone
    BY <1>1, <1>2, <2>1, <2>2, Reading DEF Undisturbed
  <2>4. ~(b.i > Len(Todos(b))) => b.i <= Len(Todos(b))
    BY <2>2
  <2>5. Todo(w) = Todos(b)
    BY <1>1, Reading
  <2> QED
    BY <1>1, <1>5, <1>6, <1>6b, <2>1, <2>3, <2>4, <2>5 DEF Restore
<1>14. CASE Rollback(w)
  <2>1. b.i = 0 /\ b.pc = "rollback"
    BY <1>1, <1>5, <1>6, <1>14 DEF Rollback, At
  <2>2. /\ Indices(b) = 1..Len(Todos(b)) /\ Len(Todos(b)) \in Nat
    BY <1>2, <2>1, Standing
  <2>3. UndoneAfter(b, 0)
    BY <1>2, <2>1 DEF Undisturbed
  <2>4. HoldsOriginal(b)
    BY <2>2, <2>3 DEF UndoneAfter, HoldsOriginal
  <2> QED
    BY <1>1, <2>1, <2>4, Reading DEF At
<1>15. ~RollbackFails(w)
  BY DEF RollbackFails, DeliveryInv, TypeOK
<1>16. CASE Confirm(w)
  <2>1. b.pc = "confirm" /\ Write[b.req] \in BOOLEAN
    BY <1>1, <1>2, <1>16, Standing DEF Confirm, At
  <2>2. IF Write[b.req] THEN Landed(w) ELSE Original(w)
    BY <1>1, <1>2, <2>1, Reading DEF Undisturbed
  <2>3. Req(w) = b.req
    BY <1>1 DEF Req
  <2> QED
    BY <1>16, <1>6a, <2>2, <2>3 DEF Confirm
<1> QED
  BY <1>7, <1>8, <1>10, <1>10a, <1>11, <1>12, <1>13, <1>14, <1>15, <1>16 DEF Step

(* A delivery that raises is all or nothing: it leaves the files as it found them, wherever
   the native executor, a stale file or a failed replacement stopped it, and with the whole
   changeset in place when it was the refresh of the snapshot that raised, unless somebody
   else wrote to these files meanwhile or the rollback itself could not write. *)
THEOREM RaisedLeaves == Spec => RaisedIsAllOrNothing
<1> DEFINE Undone ==
       \A w \in Worker :
          /\ calls[w].pc \notin {"idle", "prepare", "store"} /\ calls'[w] = IdleCall
          /\ crashes' = crashes
          /\ ~(At(w, "rollback") /\ failures' # failures)
          /\ ~calls[w].foreign
          => IF At(w, "refresh") \/ At(w, "publish") THEN Landed(w) ELSE Original(w)
<1>1. DeliveryInv /\ [Next]_vars => Undone
  <2> SUFFICES ASSUME DeliveryInv, [Next]_vars, NEW w \in Worker,
                      calls[w].pc \notin {"idle", "prepare", "store"}, calls'[w] = IdleCall, crashes' = crashes,
                      ~(At(w, "rollback") /\ failures' # failures), ~calls[w].foreign
               PROVE  IF At(w, "refresh") \/ At(w, "publish") THEN Landed(w) ELSE Original(w)
    OBVIOUS
  <2>1. calls'[w].pc = "idle" /\ calls'[w].pc # calls[w].pc
    BY IdleIsCall
  <2>2. ~UNCHANGED vars
    BY <2>1 DEF vars
  <2>3. ~DeveloperEdit
    <3> SUFFICES ASSUME DeveloperEdit PROVE FALSE
      OBVIOUS
    <3>1. calls'[w] = [calls[w] EXCEPT !.foreign = TRUE] \/ calls'[w] = calls[w]
      BY DEF DeveloperEdit, MarkForeign
    <3>2. [calls[w] EXCEPT !.foreign = TRUE].pc = calls[w].pc
      BY CallOf DEF Call
    <3> QED
      BY <2>1, <3>1, <3>2
  <2>4. ASSUME NEW v \in Worker, v # w PROVE ~(Step(v) \/ Crash(v) \/ (\E r \in Request : Begin(v, r)))
    BY <2>1, <2>4, OthersGoOn
  <2>5. ~Crash(w)
    BY DEF Crash, DeliveryInv, TypeOK
  <2>6. \A r \in Request : ~Begin(w, r)
    BY DEF Begin, At
  <2>7. Step(w)
    BY <2>2, <2>3, <2>4, <2>5, <2>6 DEF Next
  <2> QED
    BY <2>7, RaisedIsUndone DEF At
<1>2. DeliveryInv /\ [Next]_vars => [Undone]_vars
  BY <1>1
<1> QED
  BY <1>2, DeliveryStays, PTL DEF Spec, RaisedIsAllOrNothing

=============================================================================
