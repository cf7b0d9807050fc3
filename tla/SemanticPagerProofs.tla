------------------------- MODULE SemanticPagerProofs -------------------------
(***************************************************************************)
(* Proofs about the semantic pager: leases, the sharing of loads, what is  *)
(* served and what is counted, for every set of threads, pages and         *)
(* contents and every budget.                                              *)
(***************************************************************************)
EXTENDS SemanticPager, FiniteSetTheorems, TLAPS

CallRecord == [pc : PC, op : Op, key : Key \cup {None}, expected : Content \cup {None},
               data : Content \cup {None}, on : Thread \cup {None}, error : BOOLEAN, raced : BOOLEAN]

PagerTypes ==
    /\ source \in [Key -> Content]
    /\ pages \in [Key -> Page \cup {None}]
    /\ flights \in [Key -> Thread \cup {None}]
    /\ calls \in [Thread -> CallRecord]
    /\ held \in [Key -> Nat]

(* A thread that loads owns the flight; the bytes it is about to insert or to return are
   those its caller asked for, and of the present source unless an edit or an invalidation
   came between. *)
GoodCall(t, c) ==
    /\ c.pc # "idle" => c.key \in Key
    /\ c.pc \in {"load", "insert", "end"} => flights[c.key] = t
    /\ c.pc = "insert" => c.data \in Content /\ Fits(c.expected, c.data)
    /\ c.pc = "insert" /\ c.key \notin stale /\ ~c.raced => c.data = source[c.key]
    /\ c.pc = "end" /\ ~c.error => Fits(c.expected, c.data)

PagerInv ==
    /\ PagerTypes
    /\ \A t \in Thread : GoodCall(t, calls[t])
    /\ LeasesProtect
    /\ InvalidatedIsGone
    /\ DigestHonoured

LEMMA PagerIsSafe == PagerInv => SingleFlight
BY DEF PagerInv, GoodCall, SingleFlight, At, K

----------------------------------------------------------------------------
(* Calls and pages as records *)

LEMMA IdleIsTyped ==
    ASSUME NEW pc \in PC, NEW op \in Op, NEW k \in Key \cup {None}, NEW x \in Content \cup {None}, NEW e \in BOOLEAN
    PROVE  LET c == [pc |-> pc, op |-> op, key |-> k, expected |-> x, data |-> None,
                     on |-> None, error |-> e, raced |-> FALSE]
           IN  c \in CallRecord /\ c.pc = pc /\ c.op = op /\ c.key = k /\ c.expected = x /\ c.error = e
BY DEF CallRecord

LEMMA IdleCalls ==
    ASSUME PagerTypes, NEW t \in Thread
    PROVE  /\ IdleCall \in CallRecord /\ IdleCall.pc = "idle"
           /\ Failing(t) \in CallRecord /\ Failing(t).pc = "end" /\ Failing(t).key = K(t) /\ Failing(t).error
           /\ Returned(t) \in CallRecord /\ Returned(t).pc \in {"idle", "grant"}
           /\ Returned(t).pc = "grant" => Returned(t).key = K(t)
<1>1. {"idle", "end", "grant"} \subseteq PC /\ {"get", "lease"} \subseteq Op
  BY DEF PC, Op
<1>2. K(t) \in Key \cup {None}
  BY DEF PagerTypes, CallRecord, K
<1>3. IdleCall \in CallRecord /\ IdleCall.pc = "idle"
  BY <1>1, IdleIsTyped DEF IdleCall
<1> HIDE DEF IdleCall
<1>4. Failing(t) \in CallRecord /\ Failing(t).pc = "end" /\ Failing(t).key = K(t) /\ Failing(t).error
  BY <1>1, <1>2, <1>3 DEF Failing, CallRecord
<1>5. [IdleCall EXCEPT !.pc = "grant", !.op = "lease", !.key = K(t)] \in CallRecord
      /\ [IdleCall EXCEPT !.pc = "grant", !.op = "lease", !.key = K(t)].pc = "grant"
      /\ [IdleCall EXCEPT !.pc = "grant", !.op = "lease", !.key = K(t)].key = K(t)
  BY <1>1, <1>2, <1>3 DEF CallRecord
<1> QED
  BY <1>3, <1>4, <1>5 DEF Returned

(* A call that goes on keeps all but its place, and perhaps its data. *)
LEMMA GoingOn ==
    ASSUME NEW c \in CallRecord, NEW pc \in PC
    PROVE  \E d \in CallRecord : /\ d = [c EXCEPT !.pc = pc] /\ d.pc = pc
                                 /\ d.key = c.key /\ d.expected = c.expected /\ d.data = c.data
                                 /\ d.on = c.on /\ d.error = c.error /\ d.raced = c.raced
<1> DEFINE m == [c EXCEPT !.pc = pc]
<1>1. m \in CallRecord
  BY DEF CallRecord
<1>2. m.pc = pc /\ m.key = c.key /\ m.expected = c.expected /\ m.data = c.data
  BY DEF CallRecord
<1>3. m.on = c.on /\ m.error = c.error /\ m.raced = c.raced
  BY DEF CallRecord
<1> HIDE DEF m
<1>4. WITNESS m \in CallRecord
<1> QED
  BY <1>1, <1>2, <1>3 DEF m

LEMMA PageEdits ==
    ASSUME NEW p \in Page, NEW n \in Nat
    PROVE  /\ p # None
           /\ [p EXCEPT !.invalidated = TRUE] \in Page
           /\ [p EXCEPT !.invalidated = TRUE].leases = p.leases /\ [p EXCEPT !.invalidated = TRUE].invalidated
           /\ [p EXCEPT !.leases = n] \in Page /\ [p EXCEPT !.leases = n].leases = n
           /\ [p EXCEPT !.leases = n].data = p.data /\ [p EXCEPT !.leases = n].raced = p.raced
           /\ [p EXCEPT !.leases = n].invalidated = p.invalidated
BY ConstantsAssumption DEF Page

----------------------------------------------------------------------------
(* get, lease and prefetch *)

(* One thread goes on, the flights of the others stay theirs. *)
LEMMA ThreadMoves ==
    ASSUME PagerInv, UNCHANGED <<source, stale>>, NEW t \in Thread, NEW c \in CallRecord,
           calls' = [calls EXCEPT ![t] = c], GoodCall(t, c)',
           \A k \in Key : flights'[k] = flights[k] \/ flights[k] \in {t, None}
    PROVE  calls' \in [Thread -> CallRecord] /\ \A u \in Thread : GoodCall(u, calls[u])'
<1>1. /\ calls' \in [Thread -> CallRecord] /\ calls'[t] = c
      /\ \A u \in Thread : u # t => calls'[u] = calls[u]
  BY DEF PagerInv, PagerTypes
<1>2. ASSUME NEW u \in Thread, u # t PROVE GoodCall(u, calls[u])'
  <2>1. GoodCall(u, calls[u]) /\ calls'[u] = calls[u] /\ u # None
    BY <1>1, <1>2, ConstantsAssumption DEF PagerInv
  <2>2. calls[u].pc \in {"load", "insert", "end"} => flights'[calls[u].key] = u
    BY <1>2, <2>1 DEF GoodCall
  <2> QED
    BY <2>1, <2>2 DEF GoodCall
<1>3. GoodCall(t, calls[t])'
  BY <1>1 DEF GoodCall
<1> QED
  BY <1>1, <1>2, <1>3

(* ... and no page is touched. *)
LEMMA CallMoves ==
    ASSUME PagerInv, UNCHANGED <<source, stale, pages, held, overlaid, mistaken>>, NEW t \in Thread, NEW c \in CallRecord,
           calls' = [calls EXCEPT ![t] = c], GoodCall(t, c)', flights' \in [Key -> Thread \cup {None}],
           \A k \in Key : flights'[k] = flights[k] \/ flights[k] \in {t, None}
    PROVE  PagerInv'
<1>1. calls' \in [Thread -> CallRecord] /\ \A u \in Thread : GoodCall(u, calls[u])'
  BY ThreadMoves
<1>2. LeasesProtect' /\ InvalidatedIsGone' /\ DigestHonoured'
  BY DEF PagerInv, LeasesProtect, InvalidatedIsGone, DigestHonoured, Absent, Resident
<1> QED
  BY <1>1, <1>2 DEF PagerInv, PagerTypes

LEMMA CallKeeps ==
    ASSUME PagerInv, NEW t \in Thread, NEW r \in Requests, NEW k \in Key, Call(t, r[1], k, r[2])
    PROVE  PagerInv'
<1>1. PICK op \in Op, x \in Content \cup {None} : op = r[1] /\ x = r[2]
  BY ConstantsAssumption
<1> DEFINE c == [IdleCall EXCEPT !.pc = "get", !.op = op, !.key = k, !.expected = x]
<1>2. c \in CallRecord /\ c.pc = "get" /\ c.key = k
  <2>1. IdleCall \in CallRecord /\ "get" \in PC
    BY IdleCalls DEF PagerInv, PC
  <2> HIDE DEF IdleCall
  <2> QED
    BY <2>1 DEF CallRecord
<1>3. calls' = [calls EXCEPT ![t] = c] /\ UNCHANGED <<source, stale, pages, held, overlaid, mistaken, flights>>
  BY <1>1 DEF Call, Become, store
<1> HIDE DEF c
<1>4. GoodCall(t, c)'
  BY <1>2 DEF GoodCall
<1>5. flights' \in [Key -> Thread \cup {None}]
  BY <1>3 DEF PagerInv, PagerTypes
<1> QED
  BY <1>2, <1>3, <1>4, <1>5, CallMoves

(* A call that returns or raises leaves the flights. *)
LEMMA Leaving ==
    ASSUME PagerInv, NEW t \in Thread, NEW c \in CallRecord, c.pc = "idle" \/ (c.pc = "grant" /\ c.key \in Key)
    PROVE  GoodCall(t, c)'
BY DEF GoodCall

LEMMA HitKeeps == ASSUME PagerInv, NEW t \in Thread, Hit(t) \/ HitMismatch(t) PROVE PagerInv'
<1>1. calls[t].pc = "get" /\ K(t) \in Key /\ K(t) \in Resident /\ ~pages[K(t)].invalidated
      /\ UNCHANGED <<source, stale, held, overlaid, flights>> /\ pages[K(t)] \in Page
  BY DEF Hit, HitMismatch, At, Resident, PagerInv, PagerTypes
<1>2. CASE Hit(t)
  <2>1. calls' = [calls EXCEPT ![t] = Returned(t)] /\ UNCHANGED <<pages, mistaken>>
    BY <1>2 DEF Hit, Deliver, Become, Answer
  <2>2. PICK c \in CallRecord : c = Returned(t)
    BY IdleCalls DEF PagerInv
  <2>3. c.pc = "idle" \/ (c.pc = "grant" /\ c.key \in Key)
    BY <1>1, <2>2, IdleCalls DEF PagerInv
  <2>4. flights' \in [Key -> Thread \cup {None}]
    BY <1>1 DEF PagerInv, PagerTypes
  <2> QED
    BY <1>1, <2>1, <2>2, <2>3, <2>4, Leaving, CallMoves
<1>3. CASE HitMismatch(t)
  <2>1. PICK k \in Key : k = K(t)
    BY <1>1
  <2> DEFINE p == [pages[k] EXCEPT !.invalidated = TRUE]
  <2>2. p \in Page /\ p # None /\ p.leases = pages[k].leases /\ p.invalidated
    BY <1>1, <2>1, PageEdits
  <2>3. pages' = [pages EXCEPT ![k] = p] /\ calls' = [calls EXCEPT ![t] = IdleCall] /\ UNCHANGED mistaken
    BY <1>3, <2>1 DEF HitMismatch, Raise, Become
  <2> HIDE DEF p
  <2>4. /\ pages' \in [Key -> Page \cup {None}] /\ pages'[k] = p /\ k \in Resident
        /\ \A j \in Key : j # k => pages'[j] = pages[j]
    BY <1>1, <2>1, <2>2, <2>3 DEF PagerInv, PagerTypes
  <2>5. LeasesProtect'
    BY <1>1, <2>2, <2>4 DEF PagerInv, LeasesProtect, Resident
  <2>6. InvalidatedIsGone'
    BY <1>1, <2>2, <2>4 DEF PagerInv, InvalidatedIsGone, Absent, Resident
  <2>7. calls' \in [Thread -> CallRecord] /\ \A u \in Thread : GoodCall(u, calls[u])'
    <3>1. IdleCall \in CallRecord /\ IdleCall.pc = "idle"
      BY IdleCalls DEF PagerInv
    <3>2. GoodCall(t, IdleCall)'
      BY <3>1, Leaving
    <3> QED
      BY <1>1, <2>3, <3>1, <3>2, ThreadMoves
  <2> QED
    BY <1>1, <2>3, <2>4, <2>5, <2>6, <2>7 DEF PagerInv, PagerTypes, DigestHonoured
<1> QED
  BY <1>2, <1>3


LEMMA MissKeeps == ASSUME PagerInv, NEW t \in Thread, Miss(t) PROVE PagerInv'
<1>1. /\ calls[t].pc = "get" /\ calls[t] \in CallRecord /\ K(t) = calls[t].key
      /\ UNCHANGED <<source, stale, pages, held, overlaid, mistaken>>
  BY DEF Miss, At, K, PagerInv, PagerTypes, store
<1>2. calls[t].key \in Key
  BY <1>1 DEF PagerInv, GoodCall
<1>3. {"load", "wait"} \subseteq PC
  BY DEF PC
<1>4. CASE flights[K(t)] = None
  <2> DEFINE c == Goto(t, "load")
  <2>1. flights' = [flights EXCEPT ![K(t)] = t] /\ calls' = [calls EXCEPT ![t] = c]
    BY <1>4 DEF Miss, Become
  <2>2. PICK d \in CallRecord : d = c /\ d.pc = "load" /\ d.key = calls[t].key
    BY <1>1, <1>3, GoingOn DEF Goto
  <2> HIDE DEF c
  <2>3. /\ flights' \in [Key -> Thread \cup {None}] /\ flights'[d.key] = t
        /\ \A k \in Key : flights'[k] = flights[k] \/ flights[k] \in {t, None}
    BY <1>1, <1>2, <1>4, <2>1, <2>2 DEF PagerInv, PagerTypes
  <2>4. GoodCall(t, d)'
    BY <1>2, <2>2, <2>3 DEF GoodCall
  <2> QED
    BY <1>1, <2>1, <2>2, <2>3, <2>4, CallMoves
<1>5. CASE flights[K(t)] # None
  <2>1. PICK on \in Thread : on = flights[K(t)]
    BY <1>1, <1>2, <1>5 DEF PagerInv, PagerTypes
  <2> DEFINE c == [Goto(t, "wait") EXCEPT !.on = on]
  <2>2. calls' = [calls EXCEPT ![t] = c] /\ UNCHANGED flights
    BY <1>5, <2>1 DEF Miss, Become
  <2>3. PICK d \in CallRecord : d = c /\ d.pc = "wait" /\ d.key = calls[t].key
    <3>1. PICK e \in CallRecord : e = Goto(t, "wait") /\ e.pc = "wait" /\ e.key = calls[t].key
      BY <1>1, <1>3, GoingOn DEF Goto
    <3>2. [e EXCEPT !.on = on] \in CallRecord /\ [e EXCEPT !.on = on].pc = e.pc /\ [e EXCEPT !.on = on].key = e.key
      BY DEF CallRecord
    <3> QED
      BY <3>1, <3>2
  <2> HIDE DEF c
  <2>4. GoodCall(t, d)'
    BY <1>2, <2>3 DEF GoodCall
  <2>5. flights' \in [Key -> Thread \cup {None}]
    BY <2>2 DEF PagerInv, PagerTypes
  <2> QED
    BY <1>1, <2>2, <2>3, <2>4, <2>5, CallMoves
<1> QED
  BY <1>4, <1>5

(* An owner whose load or insertion failed keeps its flight until it has ended it. *)
LEMMA OwnerFails ==
    ASSUME PagerInv, NEW t \in Thread, calls[t].pc \in {"load", "insert"}, UNCHANGED flights
    PROVE  \E c \in CallRecord : c = Failing(t) /\ GoodCall(t, c)'
<1>1. K(t) \in Key /\ flights[K(t)] = t
  BY DEF PagerInv, GoodCall, K
<1>2. PICK c \in CallRecord : c = Failing(t) /\ c.pc = "end" /\ c.key = K(t) /\ c.error
  BY IdleCalls DEF PagerInv
<1> QED
  BY <1>1, <1>2 DEF GoodCall

LEMMA LoadKeeps == ASSUME PagerInv, NEW t \in Thread, Load(t) \/ LoadFails(t) PROVE PagerInv'
<1>1. /\ calls[t].pc = "load" /\ calls[t] \in CallRecord /\ K(t) = calls[t].key /\ flights' = flights
      /\ UNCHANGED <<source, stale, pages, held, overlaid, mistaken>> /\ flights' \in [Key -> Thread \cup {None}]
  BY DEF Load, LoadFails, At, K, PagerInv, PagerTypes, store
<1>2. calls[t].key \in Key /\ flights[calls[t].key] = t
  BY <1>1 DEF PagerInv, GoodCall
<1>3. CASE calls' = [calls EXCEPT ![t] = Failing(t)]
  <2>1. PICK c \in CallRecord : c = Failing(t) /\ GoodCall(t, c)'
    BY <1>1, OwnerFails
  <2> QED
    BY <1>1, <1>3, <2>1, CallMoves
<1>4. CASE calls' # [calls EXCEPT ![t] = Failing(t)]
  <2>1. PICK data \in Content : data = source[K(t)]
    BY <1>1, <1>2 DEF PagerInv, PagerTypes
  <2> DEFINE c == [Goto(t, "insert") EXCEPT !.data = data]
  <2>2. calls' = [calls EXCEPT ![t] = c] /\ Fits(calls[t].expected, data)
    BY <1>4, <2>1 DEF Load, LoadFails, Become
  <2>3. PICK d \in CallRecord : d = c /\ d.pc = "insert" /\ d.key = calls[t].key
                                /\ d.expected = calls[t].expected /\ d.data = data
    <3>1. PICK e \in CallRecord : /\ e = Goto(t, "insert") /\ e.pc = "insert" /\ e.key = calls[t].key
                                  /\ e.expected = calls[t].expected
      <4>1. "insert" \in PC
        BY DEF PC
      <4> QED
        BY <1>1, <4>1, GoingOn DEF Goto
    <3>2. /\ [e EXCEPT !.data = data] \in CallRecord /\ [e EXCEPT !.data = data].pc = e.pc
          /\ [e EXCEPT !.data = data].key = e.key /\ [e EXCEPT !.data = data].expected = e.expected
          /\ [e EXCEPT !.data = data].data = data
      BY DEF CallRecord
    <3> QED
      BY <3>1, <3>2
  <2> HIDE DEF c
  <2>4. GoodCall(t, d)'
    BY <1>1, <1>2, <2>1, <2>2, <2>3 DEF GoodCall, Fits
  <2> QED
    BY <1>1, <2>2, <2>3, <2>4, CallMoves
<1> QED
  BY <1>3, <1>4

LEMMA WaiterKeeps == ASSUME PagerInv, NEW t \in Thread, Waiter(t) PROVE PagerInv'
<1>1. /\ calls[t].pc = "woken" /\ calls[t] \in CallRecord /\ flights' = flights
      /\ UNCHANGED <<source, stale, pages, held, overlaid, mistaken>> /\ flights' \in [Key -> Thread \cup {None}]
  BY DEF Waiter, At, PagerInv, PagerTypes, store
<1>2. calls[t].key \in Key
  BY <1>1 DEF PagerInv, GoodCall
<1>3. CASE calls' = [calls EXCEPT ![t] = IdleCall]
  <2>1. PICK c \in CallRecord : c = IdleCall /\ c.pc = "idle"
    BY IdleCalls DEF PagerInv
  <2> QED
    BY <1>1, <1>3, <2>1, Leaving, CallMoves
<1>4. CASE calls' # [calls EXCEPT ![t] = IdleCall]
  <2> DEFINE c == [Goto(t, "get") EXCEPT !.on = None]
  <2>1. calls' = [calls EXCEPT ![t] = c]
    BY <1>4 DEF Waiter, Become, Raise
  <2>2. PICK d \in CallRecord : d = c /\ d.pc = "get" /\ d.key = calls[t].key
    <3>1. PICK e \in CallRecord : e = Goto(t, "get") /\ e.pc = "get" /\ e.key = calls[t].key
      <4>1. "get" \in PC
        BY DEF PC
      <4> QED
        BY <1>1, <4>1, GoingOn DEF Goto
    <3>2. [e EXCEPT !.on = None] \in CallRecord /\ [e EXCEPT !.on = None].pc = e.pc /\ [e EXCEPT !.on = None].key = e.key
      BY DEF CallRecord
    <3> QED
      BY <3>1, <3>2
  <2> HIDE DEF c
  <2>3. GoodCall(t, d)'
    BY <1>2, <2>2 DEF GoodCall
  <2> QED
    BY <1>1, <2>1, <2>2, <2>3, CallMoves
<1> QED
  BY <1>3, <1>4

LEMMA GrantKeeps == ASSUME PagerInv, NEW t \in Thread, Grant(t) PROVE PagerInv'
<1>1. /\ calls[t].pc = "grant" /\ calls[t] \in CallRecord /\ flights' = flights
      /\ UNCHANGED <<source, stale, overlaid, mistaken>> /\ flights' \in [Key -> Thread \cup {None}]
      /\ calls' = [calls EXCEPT ![t] = IdleCall]
  BY DEF Grant, At, Become, PagerInv, PagerTypes
<1>2. PICK k \in Key : k = K(t)
  BY <1>1 DEF PagerInv, GoodCall, K
<1>3. PICK c \in CallRecord : c = IdleCall /\ c.pc = "idle"
  BY IdleCalls DEF PagerInv
<1>4. CASE k \notin Resident
  BY <1>1, <1>2, <1>3, <1>4, Leaving, CallMoves DEF Grant
<1>5. CASE k \in Resident
  <2>1. pages[k] \in Page /\ pages[k].leases \in Nat
    BY <1>5 DEF PagerInv, PagerTypes, Resident, Page
  <2>2. PICK n \in Nat : n = pages[k].leases + 1
    BY <2>1
  <2> DEFINE p == [pages[k] EXCEPT !.leases = n]
  <2>3. /\ p \in Page /\ p # None /\ p.leases = n /\ p.data = pages[k].data /\ p.raced = pages[k].raced
        /\ p.invalidated = pages[k].invalidated
    BY <2>1, PageEdits
  <2>4. pages' = [pages EXCEPT ![k] = p] /\ held' = [held EXCEPT ![k] = @ + 1]
    BY <1>2, <1>5, <2>1, <2>2 DEF Grant
  <2> HIDE DEF p
  <2>5. /\ pages' \in [Key -> Page \cup {None}] /\ pages'[k] = p
        /\ \A j \in Key : j # k => pages'[j] = pages[j]
        /\ held' \in [Key -> Nat] /\ held'[k] = held[k] + 1
        /\ \A j \in Key : j # k => held'[j] = held[j]
    BY <2>3, <2>4 DEF PagerInv, PagerTypes
  <2>6. LeasesProtect'
    BY <1>1, <1>5, <2>2, <2>3, <2>5 DEF PagerInv, LeasesProtect, Resident
  <2>7. InvalidatedIsGone'
    BY <1>1, <1>5, <2>3, <2>5 DEF PagerInv, InvalidatedIsGone, Absent, Resident
  <2>8. calls' \in [Thread -> CallRecord] /\ \A u \in Thread : GoodCall(u, calls[u])'
    BY <1>1, <1>3, Leaving, ThreadMoves
  <2> QED
    BY <1>1, <2>5, <2>6, <2>7, <2>8 DEF PagerInv, PagerTypes, DigestHonoured
<1> QED
  BY <1>4, <1>5

LEMMA EditKeeps == ASSUME PagerInv, Edit PROVE PagerInv'
<1>1. PICK e \in Edits : source' = [source EXCEPT ![e[1]] = e[2]] /\ stale' = stale \cup {e[1]}
  BY DEF Edit
<1>2. UNCHANGED <<pages, flights, calls, held, overlaid, mistaken>>
  BY DEF Edit, store
<1>3. PICK k \in Key, x \in Content : k = e[1] /\ x = e[2]
  BY ConstantsAssumption
<1>4. /\ source' \in [Key -> Content] /\ k \in stale'
      /\ \A j \in Key : (j \in stale' <=> j \in stale \/ j = k) /\ (j # k => source'[j] = source[j])
  BY <1>1, <1>3 DEF PagerInv, PagerTypes
<1>5. \A t \in Thread : GoodCall(t, calls[t])'
  <2> SUFFICES ASSUME NEW t \in Thread PROVE GoodCall(t, calls[t])'
    OBVIOUS
  <2>1. GoodCall(t, calls[t])
    BY DEF PagerInv
  <2> QED
    BY <1>2, <1>4, <2>1 DEF GoodCall
<1>6. InvalidatedIsGone'
  BY <1>2, <1>4 DEF PagerInv, InvalidatedIsGone, Absent, Resident
<1>7. LeasesProtect'
  BY <1>2 DEF PagerInv, LeasesProtect, Resident
<1> QED
  BY <1>2, <1>4, <1>5, <1>6, <1>7 DEF PagerInv, PagerTypes, DigestHonoured

LEMMA EndKeeps == ASSUME PagerInv, NEW t \in Thread, EndFlight(t) PROVE PagerInv'
<1>1. /\ calls[t].pc = "end" /\ calls[t] \in CallRecord /\ K(t) = calls[t].key
      /\ UNCHANGED <<source, stale, pages, held, overlaid>>
  BY DEF EndFlight, At, K, PagerInv, PagerTypes, store
<1>2. PICK k \in Key : k = K(t) /\ flights[k] = t
  BY <1>1 DEF PagerInv, GoodCall
<1>3. UNCHANGED mistaken
  BY <1>1 DEF EndFlight, Answer, PagerInv, GoodCall
<1>4. PICK e \in BOOLEAN : e = calls[t].error
  BY <1>1 DEF CallRecord
<1>5. PICK own \in CallRecord : /\ own = (IF calls[t].error THEN IdleCall ELSE Returned(t))
                                /\ own.pc = "idle" \/ (own.pc = "grant" /\ own.key \in Key)
  BY <1>2, IdleCalls DEF PagerInv
<1> DEFINE Woken(u) == [calls[u] EXCEPT !.pc = "woken", !.error = e]
           Next1(u) == IF u = t THEN own
                       ELSE IF At(u, "wait") /\ calls[u].on = t THEN Woken(u) ELSE calls[u]
<1>6. flights' = [flights EXCEPT ![k] = None] /\ calls' = [u \in Thread |-> Next1(u)]
  BY <1>2, <1>4, <1>5 DEF EndFlight
<1>7. ASSUME NEW u \in Thread PROVE Woken(u) \in CallRecord /\ Woken(u).pc = "woken" /\ Woken(u).key = calls[u].key
  <2>1. calls[u] \in CallRecord /\ "woken" \in PC
    BY DEF PagerInv, PagerTypes, PC
  <2> QED
    BY <2>1 DEF CallRecord
<1> HIDE DEF Woken
<1>8. calls' \in [Thread -> CallRecord]
  BY <1>5, <1>6, <1>7 DEF PagerInv, PagerTypes
<1>9. flights' \in [Key -> Thread \cup {None}] /\ \A j \in Key : j # k => flights'[j] = flights[j]
  BY <1>6 DEF PagerInv, PagerTypes
<1>10. ASSUME NEW u \in Thread PROVE GoodCall(u, calls[u])'
  <2>1. PICK c \in CallRecord : c = Next1(u) /\ c = calls'[u]
    BY <1>6, <1>8
  <2>2. GoodCall(u, calls[u])
    BY DEF PagerInv
  <2>3. CASE u = t
    BY <1>5, <2>1, <2>3 DEF GoodCall
  <2>4. CASE u # t /\ At(u, "wait") /\ calls[u].on = t
    <3>1. c.pc = "woken" /\ c.key = calls[u].key /\ calls[u].pc = "wait"
      BY <1>7, <2>1, <2>4 DEF At
    <3>2. c.key \in Key
      BY <2>2, <3>1 DEF GoodCall
    <3> QED
      BY <2>1, <3>1, <3>2 DEF GoodCall
  <2>5. CASE u # t /\ ~(At(u, "wait") /\ calls[u].on = t)
    BY <1>1, <1>2, <1>9, <2>1, <2>2, <2>5 DEF GoodCall
  <2> QED
    BY <2>3, <2>4, <2>5
<1>11. LeasesProtect' /\ InvalidatedIsGone' /\ DigestHonoured'
  BY <1>1, <1>3 DEF PagerInv, LeasesProtect, InvalidatedIsGone, DigestHonoured, Absent, Resident
<1> QED
  BY <1>1, <1>8, <1>9, <1>10, <1>11 DEF PagerInv, PagerTypes

----------------------------------------------------------------------------
(* Insertion, release and invalidation *)

(* Only pages that nobody leases are evicted. *)
LEMMA EvictionSparesLeases ==
    ASSUME PagerInv, NEW n, NEW k \in Key, k \in Resident, k \in Evicted(n)
    PROVE  pages[k].leases = 0
BY DEF Evicted, Victims

LEMMA DropsUnleased ==
    ASSUME PagerInv, NEW gone, \A k \in Key : k \in Resident /\ k \in gone => pages[k].leases = 0
    PROVE  /\ Without(gone) \in [Key -> Page \cup {None}]
           /\ \A k \in Key : Without(gone)[k] = None \/ Without(gone)[k] = pages[k]
           /\ \A k \in Key : Without(gone)[k] # pages[k] => Without(gone)[k] = None /\ pages[k].leases = 0
BY DEF Without, Resident, PagerInv, PagerTypes

LEMMA InsertKeeps == ASSUME PagerInv, NEW t \in Thread, Insert(t) PROVE PagerInv'
<1>1. /\ calls[t].pc = "insert" /\ calls[t] \in CallRecord /\ K(t) = calls[t].key
      /\ UNCHANGED <<source, stale, held, flights, mistaken>> /\ flights' \in [Key -> Thread \cup {None}]
  BY DEF Insert, At, K, PagerInv, PagerTypes
<1>2. PICK k \in Key : k = calls[t].key /\ k = K(t) /\ flights[k] = t
  BY <1>1 DEF PagerInv, GoodCall
<1>3. PICK n : n = IF calls[t].op = "prefetch" THEN 0 ELSE Takes(Size[calls[t].data])
  OBVIOUS
<1> DEFINE gone == Evicted(n)
<1>4. \A j \in Key : j \in Resident /\ j \in gone => pages[j].leases = 0
  BY EvictionSparesLeases
<1> HIDE DEF gone
<1>5. /\ Without(gone) \in [Key -> Page \cup {None}]
      /\ \A j \in Key : Without(gone)[j] = None \/ Without(gone)[j] = pages[j]
      /\ \A j \in Key : Without(gone)[j] # pages[j] => Without(gone)[j] = None /\ pages[j].leases = 0
  BY <1>4, DropsUnleased
<1>6. CASE After(n, Size[calls[t].data])
  <2>1. pages' = Without(gone) /\ calls' = [calls EXCEPT ![t] = Failing(t)] /\ UNCHANGED overlaid
    BY <1>3, <1>6 DEF Insert, Become, gone
  <2>2. PICK c \in CallRecord : c = Failing(t) /\ GoodCall(t, c)'
    BY <1>1, OwnerFails
  <2>3. calls' \in [Thread -> CallRecord] /\ \A u \in Thread : GoodCall(u, calls[u])'
    BY <1>1, <2>1, <2>2, ThreadMoves
  <2>4. LeasesProtect'
    BY <1>1, <1>5, <2>1 DEF PagerInv, LeasesProtect, Resident
  <2>5. InvalidatedIsGone'
    BY <1>1, <1>5, <2>1 DEF PagerInv, InvalidatedIsGone, Absent, Resident
  <2> QED
    BY <1>1, <1>5, <2>1, <2>3, <2>4, <2>5 DEF PagerInv, PagerTypes, DigestHonoured
<1>7. CASE ~After(n, Size[calls[t].data])
  <2>1. PICK data \in Content, raced \in BOOLEAN : data = calls[t].data /\ raced = calls[t].raced
    BY <1>1 DEF PagerInv, GoodCall, CallRecord
  <2> DEFINE page == [data |-> data, leases |-> 0, invalidated |-> FALSE, raced |-> raced]
             c == [Goto(t, "end") EXCEPT !.raced = FALSE]
  <2>2. /\ pages' = [Without(gone) EXCEPT ![k] = page] /\ calls' = [calls EXCEPT ![t] = c]
        /\ overlaid' = IF k \in Resident \ gone /\ pages[k].leases > 0 THEN overlaid \cup {k} ELSE overlaid
    BY <1>2, <1>3, <1>7, <2>1 DEF Insert, Become, gone
  <2>3. page \in Page /\ page # None /\ page.leases = 0 /\ page.data = data /\ page.raced = raced
    <3>1. page \in Page
      BY DEF Page
    <3> QED
      BY <3>1, ConstantsAssumption
  <2>4. PICK d \in CallRecord : d = c /\ d.pc = "end" /\ d.key = k
                                /\ d.expected = calls[t].expected /\ d.data = data
    <3>1. PICK e \in CallRecord : /\ e = Goto(t, "end") /\ e.pc = "end" /\ e.key = calls[t].key
                                  /\ e.expected = calls[t].expected /\ e.data = calls[t].data
      <4>1. "end" \in PC
        BY DEF PC
      <4> QED
        BY <1>1, <4>1, GoingOn DEF Goto
    <3>2. /\ [e EXCEPT !.raced = FALSE] \in CallRecord /\ [e EXCEPT !.raced = FALSE].pc = e.pc
          /\ [e EXCEPT !.raced = FALSE].key = e.key /\ [e EXCEPT !.raced = FALSE].expected = e.expected
          /\ [e EXCEPT !.raced = FALSE].data = e.data
      BY DEF CallRecord
    <3> QED
      BY <1>2, <2>1, <3>1, <3>2
  <2> HIDE DEF page, c
  <2>5. /\ pages' \in [Key -> Page \cup {None}] /\ pages'[k] = page
        /\ \A j \in Key : j # k => pages'[j] = Without(gone)[j]
    BY <1>5, <2>2, <2>3
  <2>6. GoodCall(t, calls[t]) /\ GoodCall(t, d)'
    BY <1>1, <1>2, <2>1, <2>4 DEF GoodCall, PagerInv
  <2>7. calls' \in [Thread -> CallRecord] /\ \A u \in Thread : GoodCall(u, calls[u])'
    BY <1>1, <2>2, <2>4, <2>6, ThreadMoves
  <2>8. LeasesProtect'
    <3> SUFFICES ASSUME NEW j \in Key, j \notin overlaid'
                 PROVE  held[j] = IF pages'[j] # None THEN pages'[j].leases ELSE 0
      BY <1>1 DEF LeasesProtect, Resident
    <3>1. held[j] = IF pages[j] # None THEN pages[j].leases ELSE 0
      BY <2>2 DEF PagerInv, LeasesProtect, Resident
    <3>2. CASE j # k
      BY <1>5, <2>5, <3>1, <3>2
    <3>3. CASE j = k
      <4>1. pages[k] # None => pages[k].leases \in Nat
        BY DEF PagerInv, PagerTypes, Page
      <4>2. pages[k] # None => pages[k].leases = 0
        BY <1>4, <2>2, <3>3, <4>1 DEF Resident
      <4> QED
        BY <2>3, <2>5, <3>1, <3>3, <4>2
    <3> QED
      BY <3>2, <3>3
  <2>9. InvalidatedIsGone'
    <3> SUFFICES ASSUME NEW j \in Key, j \notin stale, pages'[j] # None, ~pages'[j].invalidated, ~pages'[j].raced
                 PROVE  pages'[j].data = source[j]
      BY <1>1 DEF InvalidatedIsGone, Absent, Resident
    <3>1. CASE j # k
      BY <1>5, <2>5, <3>1 DEF PagerInv, InvalidatedIsGone, Absent, Resident
    <3>2. CASE j = k
      BY <1>1, <1>2, <2>1, <2>3, <2>5, <2>6, <3>2 DEF GoodCall
    <3> QED
      BY <3>1, <3>2
  <2> QED
    BY <1>1, <2>5, <2>7, <2>8, <2>9 DEF PagerInv, PagerTypes, DigestHonoured
<1> QED
  BY <1>6, <1>7

(* The last lease of an invalidated page drops the page, any other only itself. *)
LEMMA ReleaseKeeps == ASSUME PagerInv, NEW k \in Key, Release(k) PROVE PagerInv'
<1> DEFINE known == k \in Resident /\ pages[k].leases > 0
           last == known /\ pages[k].invalidated /\ pages[k].leases = 1
<1>1. /\ held[k] > 0 /\ held' = [held EXCEPT ![k] = @ - 1]
      /\ pages' = IF last THEN [pages EXCEPT ![k] = None]
                  ELSE IF known THEN [pages EXCEPT ![k].leases = @ - 1] ELSE pages
      /\ UNCHANGED <<source, flights, calls, stale, overlaid, mistaken>>
  BY DEF Release
<1>2. /\ held' \in [Key -> Nat] /\ held'[k] = held[k] - 1
      /\ \A j \in Key : j # k => held'[j] = held[j]
  BY <1>1 DEF PagerInv, PagerTypes
<1>3. \A u \in Thread : GoodCall(u, calls[u])'
  BY <1>1 DEF PagerInv, GoodCall
<1>4. /\ pages' \in [Key -> Page \cup {None}] /\ \A j \in Key : j # k => pages'[j] = pages[j]
      /\ \/ last /\ pages'[k] = None
         \/ known /\ pages'[k] \in Page /\ pages'[k].leases = pages[k].leases - 1
            /\ pages'[k].data = pages[k].data /\ pages'[k].raced = pages[k].raced
            /\ pages'[k].invalidated = pages[k].invalidated
         \/ ~known /\ pages'[k] = pages[k]
  <2>1. CASE last
    BY <1>1, <2>1 DEF PagerInv, PagerTypes
  <2>2. CASE known /\ ~last
    <3>1. pages[k] \in Page
      BY <2>2 DEF PagerInv, PagerTypes, Resident
    <3>2. pages[k].leases - 1 \in Nat
      BY <2>2, <3>1 DEF Page
    <3>3. PICK n \in Nat : n = pages[k].leases - 1
      BY <3>2
    <3> DEFINE p == [pages[k] EXCEPT !.leases = n]
    <3>4. /\ p \in Page /\ p.leases = n /\ p.data = pages[k].data /\ p.raced = pages[k].raced
          /\ p.invalidated = pages[k].invalidated
      BY <3>1, PageEdits
    <3>5. pages' = [pages EXCEPT ![k] = p]
      BY <1>1, <2>2, <3>3
    <3> HIDE DEF p
    <3> QED
      BY <2>2, <3>3, <3>4, <3>5 DEF PagerInv, PagerTypes
  <2>3. CASE ~known
    BY <1>1, <2>3 DEF PagerInv, PagerTypes
  <2> QED
    BY <2>1, <2>2, <2>3
<1>5. LeasesProtect'
  <2> SUFFICES ASSUME NEW j \in Key, j \notin overlaid
               PROVE  held'[j] = IF pages'[j] # None THEN pages'[j].leases ELSE 0
    BY <1>1 DEF LeasesProtect, Resident
  <2>1. held[j] = IF pages[j] # None THEN pages[j].leases ELSE 0
    BY DEF PagerInv, LeasesProtect, Resident
  <2>2. CASE j # k
    BY <1>2, <1>4, <2>1, <2>2
  <2>3. CASE j = k
    <3>1. known
      BY <1>1, <2>1, <2>3 DEF Resident
    <3>2. \A p \in Page : p # None
      BY ConstantsAssumption
    <3> QED
      BY <1>2, <1>4, <2>1, <2>3, <3>1, <3>2 DEF Resident
  <2> QED
    BY <2>2, <2>3
<1>6. InvalidatedIsGone'
  <2> SUFFICES ASSUME NEW j \in Key, j \notin stale, pages'[j] # None, ~pages'[j].invalidated, ~pages'[j].raced
               PROVE  pages'[j].data = source[j]
    BY <1>1 DEF InvalidatedIsGone, Absent, Resident
  <2>1. /\ pages[j] # None /\ pages'[j].data = pages[j].data /\ pages'[j].raced = pages[j].raced
        /\ pages'[j].invalidated = pages[j].invalidated
    BY <1>4 DEF Resident
  <2> QED
    BY <2>1 DEF PagerInv, InvalidatedIsGone, Absent, Resident
<1> QED
  BY <1>1, <1>2, <1>3, <1>4, <1>5, <1>6 DEF PagerInv, PagerTypes, DigestHonoured

LEMMA InvalidateKeeps == ASSUME PagerInv, NEW ks \in SUBSET Key, Invalidate(ks) PROVE PagerInv'
<1> DEFINE free == {k \in ks \cap Resident : pages[k].leases = 0}
           Flagged(k) == [pages[k] EXCEPT !.invalidated = TRUE]
           Raced(t) == [calls[t] EXCEPT !.raced = TRUE]
<1>1. /\ pages' = [k \in Key |-> IF k \in free THEN None
                                 ELSE IF k \in ks \cap Resident THEN Flagged(k) ELSE pages[k]]
      /\ stale' = stale \ ks
      /\ calls' = [t \in Thread |-> IF K(t) \in ks /\ At(t, "insert") THEN Raced(t) ELSE calls[t]]
      /\ UNCHANGED <<source, flights, held, overlaid, mistaken>>
  BY DEF Invalidate
<1>2. ASSUME NEW k \in Key, k \in Resident
      PROVE  Flagged(k) \in Page /\ Flagged(k).leases = pages[k].leases /\ Flagged(k).invalidated
  <2>1. pages[k] \in Page
    BY <1>2 DEF PagerInv, PagerTypes, Resident
  <2> QED
    BY <2>1, PageEdits
<1>3. ASSUME NEW t \in Thread
      PROVE  /\ Raced(t) \in CallRecord /\ Raced(t).pc = calls[t].pc /\ Raced(t).key = calls[t].key
             /\ Raced(t).expected = calls[t].expected /\ Raced(t).data = calls[t].data /\ Raced(t).raced
  <2>1. calls[t] \in CallRecord
    BY DEF PagerInv, PagerTypes
  <2> QED
    BY <2>1 DEF CallRecord
<1> HIDE DEF Flagged, Raced
<1>4. calls' \in [Thread -> CallRecord]
  BY <1>1, <1>3 DEF PagerInv, PagerTypes
<1>5. ASSUME NEW t \in Thread PROVE GoodCall(t, calls[t])'
  <2>1. PICK c \in CallRecord : c = calls'[t] /\ c = IF K(t) \in ks /\ At(t, "insert") THEN Raced(t) ELSE calls[t]
    BY <1>1, <1>4
  <2>2. GoodCall(t, calls[t])
    BY DEF PagerInv
  <2>3. CASE K(t) \in ks /\ At(t, "insert")
    BY <1>1, <1>3, <2>1, <2>2, <2>3 DEF GoodCall, At, K
  <2>4. CASE ~(K(t) \in ks /\ At(t, "insert"))
    BY <1>1, <2>1, <2>2, <2>4 DEF GoodCall, At, K
  <2> QED
    BY <2>3, <2>4
<1>6. /\ pages' \in [Key -> Page \cup {None}]
      /\ \A k \in Key : \/ k \in free /\ pages'[k] = None
                        \/ k \in ks \cap Resident /\ pages'[k] = Flagged(k)
                        \/ k \notin ks \cap Resident /\ pages'[k] = pages[k]
  BY <1>1, <1>2 DEF PagerInv, PagerTypes
<1>7. LeasesProtect'
  <2> SUFFICES ASSUME NEW j \in Key, j \notin overlaid
               PROVE  held[j] = IF pages'[j] # None THEN pages'[j].leases ELSE 0
    BY <1>1 DEF LeasesProtect, Resident
  <2>1. held[j] = IF pages[j] # None THEN pages[j].leases ELSE 0
    BY DEF PagerInv, LeasesProtect, Resident
  <2>2. \A p \in Page : p # None
    BY ConstantsAssumption
  <2> QED
    BY <1>2, <1>6, <2>1, <2>2 DEF Resident
<1>8. InvalidatedIsGone'
  <2> SUFFICES ASSUME NEW j \in Key, j \notin stale', pages'[j] # None, ~pages'[j].invalidated, ~pages'[j].raced
               PROVE  pages'[j].data = source[j]
    BY <1>1 DEF InvalidatedIsGone, Absent, Resident
  <2>1. pages'[j] = pages[j] /\ j \notin ks
    BY <1>1, <1>2, <1>6 DEF Resident
  <2> QED
    BY <1>1, <2>1 DEF PagerInv, InvalidatedIsGone, Absent, Resident
<1> QED
  BY <1>1, <1>4, <1>5, <1>6, <1>7, <1>8 DEF PagerInv, PagerTypes, DigestHonoured

----------------------------------------------------------------------------

LEMMA InitIsPagerInv == Init => PagerInv
<1> SUFFICES ASSUME Init PROVE PagerInv
  OBVIOUS
<1>1. IdleCall \in CallRecord /\ IdleCall.pc = "idle"
  <2>1. "idle" \in PC /\ "get" \in Op
    BY DEF PC, Op
  <2> QED
    BY <2>1, IdleIsTyped DEF IdleCall
<1>2. PagerTypes
  BY <1>1, ConstantsAssumption DEF Init, PagerTypes
<1>3. \A t \in Thread : GoodCall(t, calls[t])
  BY <1>1 DEF Init, GoodCall
<1>4. LeasesProtect /\ InvalidatedIsGone /\ DigestHonoured
  BY DEF Init, LeasesProtect, InvalidatedIsGone, DigestHonoured, Absent, Resident
<1> QED
  BY <1>2, <1>3, <1>4 DEF PagerInv

LEMMA NextKeepsPagerInv == PagerInv /\ [Next]_vars => PagerInv'
<1> SUFFICES ASSUME PagerInv, [Next]_vars PROVE PagerInv'
  OBVIOUS
<1>1. CASE Begin
  BY <1>1, CallKeeps DEF Begin
<1>2. ASSUME NEW t \in Thread, Step(t) PROVE PagerInv'
  BY <1>2, HitKeeps, MissKeeps, LoadKeeps, InsertKeeps, EndKeeps, WaiterKeeps, GrantKeeps DEF Step
<1>3. ASSUME NEW k \in Key, Release(k) PROVE PagerInv'
  BY <1>3, ReleaseKeeps
<1>4. ASSUME NEW ks \in SUBSET Key, Invalidate(ks) PROVE PagerInv'
  BY <1>4, InvalidateKeeps
<1>5. CASE Edit
  BY <1>5, EditKeeps
<1>6. CASE UNCHANGED vars
  BY <1>6 DEF vars, store, PagerInv, PagerTypes, GoodCall, LeasesProtect, InvalidatedIsGone, DigestHonoured,
             Absent, Resident
<1> QED
  BY <1>1, <1>2, <1>3, <1>4, <1>5, <1>6 DEF Next

(* Leases are counted exactly: but for a page whose leased copy a reload replaced, a page
   has as many leases as open PageLease objects, through evictions, mismatches,
   invalidations and releases in any order.  No two loaders run for one page.  No caller gets
   bytes of another digest than it named, and no page that was invalidated is a hit with the
   bytes of before, but for a load the invalidation overtook (get, lease, release and
   invalidate of pager.py). *)
THEOREM PagerSound == Spec => []PagerIsSound
<1>1. PagerInv => PagerIsSound
  BY PagerIsSafe DEF PagerInv, PagerIsSound, ServedIsFresh
<1> QED
  BY <1>1, InitIsPagerInv, NextKeepsPagerInv, PTL DEF Spec

----------------------------------------------------------------------------
(* What the pages take, as the set of their bytes *)

LEMMA BytesApart ==
    ASSUME NEW ks, NEW js, js \subseteq ks, IsFiniteSet(Bytes(ks))
    PROVE  /\ IsFiniteSet(Bytes(js)) /\ Freed(js) \in Nat
           /\ IsFiniteSet(Bytes(ks \ js)) /\ Freed(ks \ js) \in Nat
           /\ Freed(ks) = Freed(js) + Freed(ks \ js)
<1>1. PICK A, B : A = Bytes(js) /\ B = Bytes(ks \ js)
  OBVIOUS
<1>2. Bytes(ks) = A \cup B
  BY <1>1 DEF Bytes
<1>3. A \cap B = {}
  BY <1>1 DEF Bytes
<1>4. IsFiniteSet(A) /\ IsFiniteSet(B)
  BY <1>2, FS_Subset
<1>5. Cardinality(A \cap B) = 0
  BY <1>3, FS_EmptySet
<1>6. Cardinality(A) \in Nat /\ Cardinality(B) \in Nat
  BY <1>4, FS_CardinalityType
<1>7. Cardinality(A \cup B) = Cardinality(A) + Cardinality(B) - Cardinality(A \cap B)
  BY <1>4, FS_Union
<1> QED
  BY <1>1, <1>2, <1>4, <1>5, <1>6, <1>7 DEF Freed

LEMMA BytesOfOne ==
    ASSUME NEW k, pages'[k].data \in Content
    PROVE  IsFiniteSet(Bytes({k})') /\ Freed({k})' = Size[pages'[k].data]
<1>1. PICK n \in Nat : n = Size[pages'[k].data]
  BY ConstantsAssumption
<1>2. PICK K1, N : K1 = {k} /\ N = 1..n
  OBVIOUS
<1>3. IsFiniteSet(K1) /\ Cardinality(K1) = 1 /\ IsFiniteSet(N) /\ Cardinality(N) = n
  <2>1. IsFiniteSet(K1) /\ Cardinality(K1) = 1
    BY <1>2, FS_Singleton
  <2>2. IsFiniteSet(N) /\ Cardinality(N) = n
    BY <1>2, FS_Interval
  <2> QED
    BY <2>1, <2>2
<1>4. Bytes({k})' = K1 \X N
  BY <1>1, <1>2 DEF Bytes
<1>5. IsFiniteSet(K1 \X N) /\ Cardinality(K1 \X N) = Cardinality(K1) * Cardinality(N)
  BY <1>3, FS_Product
<1>6. Cardinality(K1) * Cardinality(N) = n
  BY <1>3
<1> QED
  BY <1>1, <1>4, <1>5, <1>6 DEF Freed

LEMMA BytesStay ==
    ASSUME NEW ks, \A k \in ks : pages'[k].data = pages[k].data
    PROVE  Bytes(ks)' = Bytes(ks) /\ Freed(ks)' = Freed(ks)
BY DEF Bytes, Freed

----------------------------------------------------------------------------
(* The books of the pager *)

Counted ==
    /\ IsFiniteSet(Resident) /\ IsFiniteSet(Bytes(Resident))
    /\ bytes \in Nat
    /\ Freed(Resident) <= bytes /\ bytes <= MaxBytes
    /\ Cardinality(Resident) <= MaxPages

Ordered ==
    /\ \A j, k \in Key : <<j, k>> \in older => j \in Resident /\ k \in Resident /\ <<k, j>> \notin older
    /\ \A j, k \in Resident : j = k \/ <<j, k>> \in older \/ <<k, j>> \in older
    /\ \A i, j, k \in Key : <<i, j>> \in older /\ <<j, k>> \in older => <<i, k>> \in older

BooksInv ==
    /\ Counted
    /\ older \subseteq Key \X Key
    /\ Ordered
    /\ stale \subseteq Key /\ overlaid \subseteq Key

AccountInv == PagerInv /\ BooksInv

LEMMA AccountIsKept == AccountInv => ResidentsAreAccounted
BY DEF AccountInv, PagerInv, PagerTypes, CallRecord, BooksInv, Counted, Ordered, ResidentsAreAccounted, TypeOK, WithinBudget

(* Pages go, and nothing else: an eviction, an invalidation, the last lease. *)
LEMMA DropCounts ==
    ASSUME Counted, NEW gone, gone \subseteq Resident, Resident' = Resident \ gone,
           \A k \in Resident \ gone : pages'[k].data = pages[k].data, bytes' = bytes - Freed(gone)
    PROVE  Counted'
<1>1. PICK R : R = Resident \ gone
  OBVIOUS
<1>2. /\ IsFiniteSet(Bytes(R)) /\ Freed(gone) \in Nat /\ Freed(R) \in Nat
      /\ Freed(Resident) = Freed(gone) + Freed(R)
  BY <1>1, BytesApart DEF Counted
<1>3. Bytes(R)' = Bytes(R) /\ Freed(R)' = Freed(R)
  BY <1>1, BytesStay
<1>4. IsFiniteSet(R) /\ Cardinality(R) <= Cardinality(Resident) /\ Cardinality(R) \in Nat /\ Cardinality(Resident) \in Nat
  BY <1>1, FS_Subset, FS_CardinalityType DEF Counted
<1>5. Resident' = R
  BY <1>1
<1>6. Bytes(Resident)' = Bytes(R) /\ Freed(Resident)' = Freed(R)
  BY <1>3, <1>5
<1>7. PICK a, b, c \in Nat : a = Freed(gone) /\ b = Freed(R) /\ c = Freed(Resident)
  BY <1>2
<1>8. MaxBytes \in Nat /\ MaxPages \in Nat /\ bytes \in Nat /\ a + b <= bytes /\ bytes <= MaxBytes
  BY <1>2, <1>7, ConstantsAssumption DEF Counted
<1>9. bytes' \in Nat /\ b <= bytes' /\ bytes' <= MaxBytes
  BY <1>7, <1>8
<1>10. Cardinality(R) <= MaxPages
  BY <1>4, <1>8 DEF Counted
<1>11. Freed(Resident)' = b /\ IsFiniteSet(Bytes(Resident)')
  BY <1>2, <1>3, <1>6, <1>7
<1> QED
  BY <1>4, <1>5, <1>9, <1>10, <1>11 DEF Counted

LEMMA DropOrders ==
    ASSUME Ordered, older \subseteq Key \X Key, NEW gone, Resident' = Resident \ gone, older' = OrderWithout(gone)
    PROVE  Ordered' /\ older' \subseteq Key \X Key
<1>1. \A j, k \in Key : <<j, k>> \in older' <=> <<j, k>> \in older /\ j \notin gone /\ k \notin gone
  BY DEF OrderWithout
<1>2. Resident \subseteq Key
  BY DEF Resident
<1> QED
  BY <1>1, <1>2 DEF Ordered, OrderWithout

LEMMA TouchOrders ==
    ASSUME Ordered, older \subseteq Key \X Key, NEW gone, NEW k \in Key, Resident' = (Resident \ gone) \cup {k},
           older' = Touched(k, gone)
    PROVE  Ordered' /\ older' \subseteq Key \X Key
<1>1. Resident \subseteq Key
  BY DEF Resident
<1>2. \A i, j \in Key : <<i, j>> \in older' <=>
        \/ <<i, j>> \in older /\ i \notin gone /\ j \notin gone /\ i # k /\ j # k
        \/ i \in Resident /\ i \notin gone /\ i # k /\ j = k
  BY DEF Touched, OrderWithout
<1>3. older' \subseteq Key \X Key
  BY <1>1 DEF Touched, OrderWithout
<1>4. k \in Resident' /\ k \in Key
  OBVIOUS
<1>5. \A i, j \in Key : <<i, j>> \in older' => i \in Resident' /\ j \in Resident' /\ <<j, i>> \notin older'
  BY <1>1, <1>2, <1>4 DEF Ordered
<1>6. ASSUME NEW i \in Resident', NEW j \in Resident', i # j PROVE <<i, j>> \in older' \/ <<j, i>> \in older'
  <2>1. i \in Key /\ j \in Key
    BY <1>1
  <2>2. CASE i = k
    BY <1>2, <1>6, <2>1, <2>2
  <2>3. CASE j = k
    BY <1>2, <1>6, <2>1, <2>3
  <2>4. CASE i # k /\ j # k
    BY <1>2, <1>6, <2>1, <2>4 DEF Ordered
  <2> QED
    BY <2>2, <2>3, <2>4
<1>7. ASSUME NEW i \in Key, NEW j \in Key, NEW l \in Key, <<i, j>> \in older', <<j, l>> \in older'
      PROVE  <<i, l>> \in older'
  <2>1. /\ <<i, j>> \in older /\ i \notin gone /\ j \notin gone /\ i # k /\ j # k
    BY <1>2, <1>7
  <2>2. CASE l = k
    BY <1>2, <2>1, <2>2 DEF Ordered
  <2>3. CASE l # k
    BY <1>2, <1>7, <2>1, <2>3 DEF Ordered
  <2> QED
    BY <2>2, <2>3
<1> QED
  BY <1>3, <1>5, <1>6, <1>7 DEF Ordered

LEMMA NothingGoes ==
    ASSUME BooksInv, UNCHANGED <<older, bytes, stale, overlaid>>, Resident' = Resident,
           \A k \in Resident : pages'[k].data = pages[k].data
    PROVE  BooksInv'
<1>1. Bytes({}) = {}
  BY DEF Bytes
<1>2. Freed({}) = 0
  BY <1>1, FS_EmptySet DEF Freed
<1>3. Counted'
  BY <1>2, DropCounts DEF BooksInv, Counted
<1>4. Ordered' /\ older' \subseteq Key \X Key
  BY DEF BooksInv, Ordered
<1> QED
  BY <1>3, <1>4 DEF BooksInv

LEMMA PagesGo ==
    ASSUME BooksInv, UNCHANGED overlaid, stale' \subseteq Key, NEW gone, gone \subseteq Resident, Resident' = Resident \ gone,
           \A k \in Resident \ gone : pages'[k].data = pages[k].data,
           bytes' = bytes - Freed(gone), older' = OrderWithout(gone)
    PROVE  BooksInv'
BY DropCounts, DropOrders DEF BooksInv

----------------------------------------------------------------------------
(* One step of the books per action *)

LEMMA HitCounts == ASSUME AccountInv, NEW t \in Thread, Hit(t) PROVE BooksInv'
<1>1. K(t) \in Key /\ K(t) \in Resident /\ older' = Touched(K(t), {}) /\ UNCHANGED <<pages, bytes, stale, overlaid>>
  BY DEF Hit, Resident
<1>2. PICK k \in Key : k = K(t)
  BY <1>1
<1>3. Resident' = (Resident \ {}) \cup {k}
  BY <1>1, <1>2 DEF Resident
<1>4. Ordered' /\ older' \subseteq Key \X Key
  BY <1>1, <1>2, <1>3, TouchOrders DEF AccountInv, BooksInv
<1>5. Counted'
  BY <1>1 DEF AccountInv, BooksInv, Counted, Resident, Freed, Bytes
<1> QED
  BY <1>1, <1>4, <1>5 DEF AccountInv, BooksInv

LEMMA FlaggingCounts ==
    ASSUME AccountInv, NEW t \in Thread, HitMismatch(t) \/ Grant(t)
    PROVE  BooksInv'
<1>1. UNCHANGED <<older, bytes, stale, overlaid>>
  BY DEF HitMismatch, Grant
<1>2. \A k \in Resident : pages[k] \in Page /\ k \in Key
  BY DEF Resident, AccountInv, PagerInv, PagerTypes
<1>3. PICK k : k = K(t)
  OBVIOUS
<1>4. CASE pages' = pages
  BY <1>1, <1>4, NothingGoes DEF AccountInv, Resident
<1>5. CASE pages' # pages
  <2>1. k \in Resident /\ k \in Key /\ pages[k] \in Page
    BY <1>2, <1>3, <1>5 DEF HitMismatch, Grant
  <2>2. PICK p \in Page : pages' = [pages EXCEPT ![k] = p] /\ p.data = pages[k].data
    <3>1. CASE HitMismatch(t)
      <4>1. pages' = [pages EXCEPT ![k] = [pages[k] EXCEPT !.invalidated = TRUE]]
        BY <1>3, <3>1 DEF HitMismatch
      <4>2. [pages[k] EXCEPT !.invalidated = TRUE] \in Page /\ [pages[k] EXCEPT !.invalidated = TRUE].data = pages[k].data
        BY <2>1 DEF Page
      <4> QED
        BY <4>1, <4>2
    <3>2. CASE Grant(t)
      <4>1. pages' = [pages EXCEPT ![k] = [pages[k] EXCEPT !.leases = pages[k].leases + 1]]
        BY <1>3, <1>5, <2>1, <3>2 DEF Grant
      <4>2. PICK n \in Nat : n = pages[k].leases + 1
        BY <2>1 DEF Page
      <4>3. [pages[k] EXCEPT !.leases = n] \in Page /\ [pages[k] EXCEPT !.leases = n].data = pages[k].data
        BY <2>1, PageEdits
      <4> QED
        BY <4>1, <4>2, <4>3
    <3> QED
      BY <3>1, <3>2
  <2>3. /\ pages'[k] = p /\ p # None
        /\ \A j \in Key : j # k => pages'[j] = pages[j]
    BY <2>1, <2>2, ConstantsAssumption DEF AccountInv, PagerInv, PagerTypes
  <2>4. Resident' = Resident
    BY <2>1, <2>3 DEF Resident
  <2>5. \A j \in Resident : pages'[j].data = pages[j].data
    BY <1>2, <2>2, <2>3
  <2> QED
    BY <1>1, <2>4, <2>5, NothingGoes DEF AccountInv
<1> QED
  BY <1>4, <1>5

LEMMA ReleaseCounts == ASSUME AccountInv, NEW k \in Key, Release(k) PROVE BooksInv'
<1> DEFINE known == k \in Resident /\ pages[k].leases > 0
           last == known /\ pages[k].invalidated /\ pages[k].leases = 1
<1>1. PICK gone : gone = IF last THEN {k} ELSE {}
  OBVIOUS
<1>2. /\ pages' = IF last THEN [pages EXCEPT ![k] = None]
                  ELSE IF known THEN [pages EXCEPT ![k].leases = @ - 1] ELSE pages
      /\ older' = OrderWithout(gone) /\ bytes' = bytes - Freed(gone) /\ UNCHANGED <<stale, overlaid>>
  BY <1>1 DEF Release, DropPages
<1>3. /\ gone \subseteq Resident /\ Resident' = Resident \ gone
      /\ \A j \in Resident \ gone : pages'[j].data = pages[j].data
  <2>1. CASE last
    BY <1>1, <1>2, <2>1 DEF Resident, AccountInv, PagerInv, PagerTypes
  <2>2. CASE known /\ ~last
    <3>1. pages[k] \in Page
      BY <2>2 DEF AccountInv, PagerInv, PagerTypes, Resident
    <3>2. PICK n \in Nat : n = pages[k].leases - 1
      BY <2>2, <3>1 DEF Page
    <3>3. [pages[k] EXCEPT !.leases = n] \in Page /\ [pages[k] EXCEPT !.leases = n].data = pages[k].data
      BY <3>1, PageEdits
    <3>4. PICK p \in Page : p = [pages[k] EXCEPT !.leases = n] /\ p.data = pages[k].data /\ p # None
      BY <3>3, ConstantsAssumption
    <3>5. pages' = [pages EXCEPT ![k] = p]
      BY <1>2, <2>2, <3>2, <3>4
    <3> QED
      BY <1>1, <2>2, <3>4, <3>5 DEF Resident, AccountInv, PagerInv, PagerTypes
  <2>3. CASE ~known
    BY <1>1, <1>2, <2>3 DEF Resident
  <2> QED
    BY <2>1, <2>2, <2>3
<1>4. stale' \subseteq Key
  BY <1>2 DEF AccountInv, BooksInv
<1> QED
  BY <1>2, <1>3, <1>4, PagesGo DEF AccountInv

LEMMA InvalidateCounts == ASSUME AccountInv, NEW ks \in SUBSET Key, Invalidate(ks) PROVE BooksInv'
<1>1. PICK gone : gone = {k \in ks \cap Resident : pages[k].leases = 0}
  OBVIOUS
<1> DEFINE Flagged(k) == [pages[k] EXCEPT !.invalidated = TRUE]
<1>2. /\ pages' = [k \in Key |-> IF k \in gone THEN None
                                 ELSE IF k \in ks \cap Resident THEN Flagged(k) ELSE pages[k]]
      /\ older' = OrderWithout(gone) /\ bytes' = bytes - Freed(gone) /\ UNCHANGED overlaid /\ stale' = stale \ ks
  BY <1>1 DEF Invalidate, DropPages
<1>3. \A k \in Resident : k \in Key /\ pages[k] \in Page
  BY DEF Resident, AccountInv, PagerInv, PagerTypes
<1>4. \A k \in Resident : Flagged(k).data = pages[k].data /\ Flagged(k) # None
  <2>1. \A p \in Page : [p EXCEPT !.invalidated = TRUE] \in Page /\ [p EXCEPT !.invalidated = TRUE].data = p.data
    BY DEF Page
  <2> QED
    BY <1>3, <2>1, ConstantsAssumption
<1> HIDE DEF Flagged
<1>5. gone \subseteq Resident
  BY <1>1
<1>6. Resident' = Resident \ gone
  BY <1>2, <1>4, <1>5 DEF Resident
<1>7. \A j \in Resident \ gone : pages'[j].data = pages[j].data
  BY <1>2, <1>3, <1>4
<1>8. stale' \subseteq Key
  BY <1>2 DEF AccountInv, BooksInv
<1> QED
  BY <1>2, <1>5, <1>6, <1>7, <1>8, PagesGo DEF AccountInv

LEMMA InsertCounts == ASSUME AccountInv, NEW t \in Thread, Insert(t) PROVE BooksInv'
<1>1. PICK k \in Key : k = calls[t].key /\ k = K(t)
  BY DEF Insert, At, K, AccountInv, PagerInv, GoodCall
<1>2. PICK data \in Content : data = calls[t].data
  BY DEF Insert, At, AccountInv, PagerInv, GoodCall
<1>3. PICK n : n = IF calls[t].op = "prefetch" THEN 0 ELSE Takes(Size[calls[t].data])
  OBVIOUS
<1>4. PICK gone : gone = Evicted(n)
  OBVIOUS
<1>5. gone \subseteq Resident
  BY <1>4 DEF Evicted, Victims
<1>6. \A j \in Key : Without(gone)[j] = IF j \in gone THEN None ELSE pages[j]
  BY DEF Without
<1>7. CASE After(n, Size[calls[t].data])
  <2>1. pages' = Without(gone) /\ older' = OrderWithout(gone) /\ bytes' = bytes - Freed(gone) /\ UNCHANGED <<stale, overlaid>>
    BY <1>3, <1>4, <1>7 DEF Insert
  <2>2. Resident' = Resident \ gone /\ \A j \in Resident \ gone : pages'[j].data = pages[j].data
    BY <1>6, <2>1 DEF Resident
  <2>3. stale' \subseteq Key
    BY <2>1 DEF AccountInv, BooksInv
  <2> QED
    BY <1>5, <2>1, <2>2, <2>3, PagesGo DEF AccountInv
<1>8. CASE ~After(n, Size[calls[t].data])
  <2>1. PICK page : page = [data |-> data, leases |-> 0, invalidated |-> FALSE, raced |-> calls[t].raced]
    OBVIOUS
  <2>2. /\ pages' = [Without(gone) EXCEPT ![k] = page] /\ older' = Touched(k, gone)
        /\ bytes' = bytes - Freed(gone) + Size[data]
        /\ overlaid' \subseteq overlaid \cup {k} /\ UNCHANGED stale
    BY <1>1, <1>2, <1>3, <1>4, <1>8, <2>1 DEF Insert
  <2>3. page.data = data /\ page # None
    <3>1. page \in Page
      <4>1. calls[t].raced \in BOOLEAN
        BY DEF AccountInv, PagerInv, PagerTypes, CallRecord
      <4> QED
        BY <2>1, <4>1 DEF Page
    <3> QED
      BY <2>1, <3>1, ConstantsAssumption
  <2>4. /\ pages'[k] = page
        /\ \A j \in Key : j # k => pages'[j] = IF j \in gone THEN None ELSE pages[j]
    BY <1>6, <2>2 DEF Without
  <2>5. Resident' = (Resident \ gone) \cup {k}
    BY <2>3, <2>4 DEF Resident
  <2>6. PICK R, Q : R = Resident \ gone /\ Q = R \ {k}
    OBVIOUS
  <2>7. /\ Freed(gone) \in Nat /\ IsFiniteSet(Bytes(R)) /\ Freed(R) \in Nat
        /\ Freed(Resident) = Freed(gone) + Freed(R)
    BY <1>5, <2>6, BytesApart DEF AccountInv, BooksInv, Counted
  <2>8. IsFiniteSet(Bytes(Q)) /\ Freed(Q) \in Nat /\ Freed(Q) <= Freed(R)
    <3>1. Q \subseteq R /\ Freed(R) = Freed(Q) + Freed(R \ Q) /\ Freed(R \ Q) \in Nat
      BY <2>6, <2>7, BytesApart
    <3> QED
      BY <2>6, <2>7, <3>1, BytesApart
  <2>9. Bytes(Q)' = Bytes(Q) /\ Freed(Q)' = Freed(Q)
    <3>1. \A j \in Q : pages'[j].data = pages[j].data
      BY <2>4, <2>6 DEF Resident
    <3> QED
      BY <3>1, BytesStay
  <2>10. PICK N : N = Resident' /\ N = Q \cup {k} /\ k \notin Q
    BY <2>5, <2>6
  <2>11. /\ IsFiniteSet(Bytes(N)') /\ Freed(N)' = Freed(Q) + Size[data]
    <3>1. Bytes(N)' = Bytes(Q)' \cup Bytes({k})' /\ Bytes(Q)' \cap Bytes({k})' = {}
      BY <2>10 DEF Bytes
    <3>2. IsFiniteSet(Bytes({k})') /\ Freed({k})' = Size[data]
      BY <2>3, <2>4, BytesOfOne
    <3>3. PICK A, B : A = Bytes(Q)' /\ B = Bytes({k})'
      OBVIOUS
    <3>4. IsFiniteSet(A) /\ IsFiniteSet(B) /\ Cardinality(A \cap B) = 0
      BY <2>8, <2>9, <3>1, <3>2, <3>3, FS_EmptySet
    <3>5. /\ IsFiniteSet(A \cup B) /\ Cardinality(A \cup B) = Cardinality(A) + Cardinality(B) - Cardinality(A \cap B)
          /\ Cardinality(A) \in Nat /\ Cardinality(B) \in Nat
      BY <3>4, FS_Union, FS_CardinalityType
    <3>6. Cardinality(A) = Freed(Q) /\ Cardinality(B) = Size[data] /\ Freed(N)' = Cardinality(A \cup B)
      BY <2>9, <3>1, <3>2, <3>3 DEF Freed
    <3> QED
      BY <3>1, <3>3, <3>4, <3>5, <3>6
  <2>12. /\ IsFiniteSet(R) /\ Cardinality(R) \in Nat /\ Cardinality(R) < MaxPages
         /\ bytes - Freed(gone) + Size[data] <= MaxBytes
    <3>1. IsFiniteSet(R) /\ Cardinality(R) \in Nat
      BY <2>6, FS_Subset, FS_CardinalityType DEF AccountInv, BooksInv, Counted
    <3>2. {j \in Key : Without(gone)[j] # None} = R
      BY <1>6, <2>6 DEF Resident
    <3>3. PICK b \in Int : b = bytes - Freed(gone)
      BY <2>7 DEF AccountInv, BooksInv, Counted
    <3>4. PICK size \in Nat : size = Size[data]
      BY ConstantsAssumption
    <3>5. ~(b + size > MaxBytes \/ Cardinality(R) >= MaxPages)
      BY <1>2, <1>4, <1>8, <3>2, <3>3, <3>4 DEF After, Exceeds
    <3> QED
      BY <3>1, <3>3, <3>4, <3>5, ConstantsAssumption
  <2>13. IsFiniteSet(N) /\ Cardinality(N) <= MaxPages
    <3>1. N = R \cup {k}
      BY <2>5, <2>6, <2>10
    <3>2. IsFiniteSet(R \cup {k}) /\ Cardinality(R \cup {k}) <= Cardinality(R) + 1 /\ Cardinality(R \cup {k}) \in Nat
      <4>1. IsFiniteSet(R) /\ Cardinality(R) \in Nat
        BY <2>12
      <4>2. IsFiniteSet(R \cup {k})
            /\ Cardinality(R \cup {k}) = IF k \in R THEN Cardinality(R) ELSE Cardinality(R) + 1
        BY <4>1, FS_AddElement
      <4> QED
        BY <4>1, <4>2
    <3> QED
      BY <2>12, <3>1, <3>2, ConstantsAssumption
  <2>14. Counted'
    <3>1. PICK a, b, c, d, size \in Nat : /\ a = Freed(gone) /\ b = Freed(R) /\ c = Freed(Q) /\ d = bytes
                                          /\ size = Size[data]
      BY <2>7, <2>8, ConstantsAssumption DEF AccountInv, BooksInv, Counted
    <3>2. a + b <= d /\ c <= b /\ bytes' = d - a + size /\ d - a + size <= MaxBytes /\ MaxBytes \in Nat
      BY <2>2, <2>7, <2>8, <2>12, <3>1, ConstantsAssumption DEF AccountInv, BooksInv, Counted
    <3>3. bytes' \in Nat /\ c + size <= bytes' /\ bytes' <= MaxBytes
      BY <3>1, <3>2
    <3>4. /\ Freed(Resident)' = c + size /\ IsFiniteSet(Bytes(Resident)')
      BY <2>10, <2>11, <3>1
    <3> QED
      BY <2>10, <2>13, <3>3, <3>4 DEF Counted
  <2>15. Ordered' /\ older' \subseteq Key \X Key
    BY <2>2, <2>5, TouchOrders DEF AccountInv, BooksInv
  <2> QED
    BY <2>2, <2>14, <2>15 DEF AccountInv, BooksInv
<1> QED
  BY <1>7, <1>8

LEMMA InitIsAccountInv == Init => AccountInv
<1> SUFFICES ASSUME Init PROVE AccountInv
  OBVIOUS
<1>1. Resident = {} /\ Bytes(Resident) = {}
  BY DEF Init, Resident, Bytes
<1>2. Counted
  BY <1>1, FS_EmptySet, ConstantsAssumption DEF Init, Counted, Freed
<1>3. Ordered
  BY <1>1 DEF Init, Ordered
<1> QED
  BY <1>2, <1>3, InitIsPagerInv DEF Init, AccountInv, BooksInv

LEMMA BooksStay ==
    ASSUME BooksInv, pages' = pages, older' = older, bytes' = bytes, overlaid' = overlaid, stale' \subseteq Key
    PROVE  BooksInv'
BY DEF BooksInv, Counted, Ordered, Resident, Freed, Bytes

LEMMA NextKeepsAccountInv == AccountInv /\ [Next]_vars => AccountInv'
<1> SUFFICES ASSUME AccountInv, [Next]_vars PROVE AccountInv'
  OBVIOUS
<1>1. PagerInv'
  BY NextKeepsPagerInv DEF AccountInv
<1>2. CASE Begin
  <2>1. pages' = pages /\ older' = older /\ bytes' = bytes /\ overlaid' = overlaid /\ stale' \subseteq Key
    BY <1>2 DEF Begin, Call, store, AccountInv, BooksInv
  <2> QED
    BY <1>1, <2>1, BooksStay DEF AccountInv
<1>3. ASSUME NEW t \in Thread, Step(t) PROVE BooksInv'
  <2>1. CASE Hit(t)
    BY <2>1, HitCounts
  <2>2. CASE HitMismatch(t) \/ Grant(t)
    BY <2>2, FlaggingCounts
  <2>3. CASE Insert(t)
    BY <2>3, InsertCounts
  <2>4. CASE Miss(t) \/ Load(t) \/ LoadFails(t) \/ EndFlight(t) \/ Waiter(t)
    <3>1. pages' = pages /\ older' = older /\ bytes' = bytes /\ overlaid' = overlaid /\ stale' \subseteq Key
      BY <2>4 DEF Miss, Load, LoadFails, EndFlight, Waiter, store, AccountInv, BooksInv
    <3> QED
      BY <3>1, BooksStay DEF AccountInv
  <2> QED
    BY <1>3, <2>1, <2>2, <2>3, <2>4 DEF Step
<1>4. ASSUME NEW k \in Key, Release(k) PROVE BooksInv'
  BY <1>4, ReleaseCounts
<1>5. ASSUME NEW ks \in SUBSET Key, Invalidate(ks) PROVE BooksInv'
  BY <1>5, InvalidateCounts
<1>6. CASE Edit
  <2>1. PICK e \in Edits : stale' = stale \cup {e[1]}
    BY <1>6 DEF Edit
  <2>2. stale' \subseteq Key /\ pages' = pages /\ older' = older /\ bytes' = bytes /\ overlaid' = overlaid
    BY <1>6, <2>1, ConstantsAssumption DEF Edit, store, AccountInv, BooksInv
  <2> QED
    BY <1>1, <2>2, BooksStay DEF AccountInv
<1>7. CASE UNCHANGED vars
  <2>1. pages' = pages /\ older' = older /\ bytes' = bytes /\ overlaid' = overlaid /\ stale' \subseteq Key
    BY <1>7 DEF vars, store, AccountInv, BooksInv
  <2> QED
    BY <1>1, <2>1, BooksStay DEF AccountInv
<1> QED
  BY <1>1, <1>2, <1>3, <1>4, <1>5, <1>6, <1>7 DEF Next, AccountInv

(* The books are right: whatever is inserted, evicted, invalidated or released, and even
   when a reload replaces a page without giving its bytes back, the resident pages take no
   more than _bytes says, that is within max_bytes, they are at most max_pages, and the
   eviction order ranks exactly them (_evict, get, release and invalidate of pager.py). *)
THEOREM PagesAccounted == Spec => []ResidentsAreAccounted
BY AccountIsKept, InitIsAccountInv, NextKeepsAccountInv, PTL DEF Spec

=============================================================================
