---------------------------- MODULE SemanticPager ----------------------------
(***************************************************************************)
(* The bounded working set of semantic pages (SemanticPager of pager.py).  *)
(* Threads get, lease and prefetch pages; a miss is loaded once by its     *)
(* owner while the others wait for the flight; leases keep pages resident, *)
(* eviction is least recently used first, and invalidation drops or flags  *)
(* pages whose source changed.                                             *)
(*                                                                         *)
(* One step is one critical section of the pager's lock; loaders run       *)
(* outside it.  A page's bytes are a member of Content and a digest is the *)
(* bytes it stands for.  The clock of last touches is kept as the order it *)
(* induces on the resident pages.  A call without a loader is a hit or     *)
(* raises and changes nothing; a prefetch of several keys is several calls *)
(* that may not evict.  Pages of another repository, generation or schema  *)
(* are refused before anything changes.                                    *)
(***************************************************************************)
EXTENDS Naturals, FiniteSets

CONSTANTS
    Key, Content,
    Size,          \* bytes of each content
    MaxBytes, MaxPages,
    Thread,
    Requests,      \* what callers ask for: <<operation, expected digest or None>>
    None,
    InitialSource, Edits,   \* the page sources and how they may change
    MaxCalls, MaxEdits, MaxFailures

VARIABLES
    source,    \* what a loader reads
    pages,     \* _pages: the resident page of each key
    older,     \* pairs of resident keys, the first last touched before the second
    bytes,     \* _bytes
    flights,   \* _flights: the owner of the load in progress
    calls,     \* what each thread is doing
    held,      \* how many open PageLease objects each key has
    calling, edits, failures,
    stale,     \* history: keys whose source changed since they were invalidated
    overlaid,  \* history: keys whose leased page was replaced by a reload
    mistaken   \* history: <<expected, data>> of calls answered with other bytes than expected

envVars == <<calling, edits, failures>>
store == <<pages, older, bytes>>
vars == <<source, store, flights, calls, held, envVars, stale, overlaid, mistaken>>

----------------------------------------------------------------------------

Page == [data : Content, leases : Nat, invalidated : BOOLEAN, raced : BOOLEAN]
Op == {"get", "lease", "prefetch"}
PC == {"idle", "get", "load", "insert", "end", "wait", "woken", "grant"}
IdleCall == [pc |-> "idle", op |-> "get", key |-> None, expected |-> None, data |-> None,
             on |-> None, error |-> FALSE, raced |-> FALSE]

ASSUME ConstantsAssumption ==
    /\ Size \in [Content -> Nat \ {0}]
    /\ MaxBytes \in Nat \ {0} /\ MaxPages \in Nat \ {0}
    /\ None \notin Content /\ None \notin Key /\ None \notin Thread /\ None \notin Page
    /\ InitialSource \in [Key -> Content]
    /\ Requests \subseteq Op \X (Content \cup {None})
    /\ Edits \subseteq Key \X Content
    /\ MaxCalls \in Nat /\ MaxEdits \in Nat /\ MaxFailures \in Nat

Resident == {k \in Key : pages[k] # None}
At(t, pc) == calls[t].pc = pc
K(t) == calls[t].key
Goto(t, pc) == [calls[t] EXCEPT !.pc = pc]
Become(t, call) == calls' = [calls EXCEPT ![t] = call]
Raise(t) == Become(t, IdleCall)
Failing(t) == [IdleCall EXCEPT !.pc = "end", !.key = K(t), !.error = TRUE]

Fits(expected, data) == expected \in {None, data}

Answer(t, data) ==
    IF Fits(calls[t].expected, data) THEN mistaken
    ELSE mistaken \cup {<<calls[t].expected, data>>}

Returned(t) ==
    IF calls[t].op = "lease" THEN [IdleCall EXCEPT !.pc = "grant", !.op = "lease", !.key = K(t)]
    ELSE IdleCall

(* a call that has its bytes: get and prefetch return them, lease goes on *)
Deliver(t, data) ==
    /\ mistaken' = Answer(t, data)
    /\ Become(t, Returned(t))

Init ==
    /\ source = InitialSource
    /\ pages = [k \in Key |-> None] /\ older = {} /\ bytes = 0
    /\ flights = [k \in Key |-> None]
    /\ calls = [t \in Thread |-> IdleCall]
    /\ held = [k \in Key |-> 0]
    /\ calling = 0 /\ edits = 0 /\ failures = 0
    /\ stale = {} /\ overlaid = {} /\ mistaken = {}

----------------------------------------------------------------------------
(* get, lease and prefetch *)

Call(t, op, k, expected) ==
    /\ At(t, "idle")
    /\ calling < MaxCalls
    /\ calling' = calling + 1
    /\ Become(t, [IdleCall EXCEPT !.pc = "get", !.op = op, !.key = k, !.expected = expected])
    /\ UNCHANGED <<source, store, flights, held, edits, failures, stale, overlaid, mistaken>>

(* the order once the pages of ks are gone, and once k is the last one touched *)
OrderWithout(ks) == {p \in older : p[1] \notin ks /\ p[2] \notin ks}
Touched(k, gone) ==
    OrderWithout(gone \cup {k}) \cup ((Resident \ (gone \cup {k})) \X {k})

(* a resident page that is not invalidated is a hit *)
Hit(t) ==
    /\ At(t, "get")
    /\ K(t) \in Resident /\ ~pages[K(t)].invalidated
    /\ Fits(calls[t].expected, pages[K(t)].data)
    /\ older' = Touched(K(t), {})
    /\ Deliver(t, pages[K(t)].data)
    /\ UNCHANGED <<source, pages, bytes, flights, held, envVars, stale, overlaid>>

(* ... unless its digest is not the expected one: it is flagged and stays *)
HitMismatch(t) ==
    /\ At(t, "get")
    /\ K(t) \in Resident /\ ~pages[K(t)].invalidated
    /\ ~Fits(calls[t].expected, pages[K(t)].data)
    /\ pages' = [pages EXCEPT ![K(t)].invalidated = TRUE]
    /\ Raise(t)
    /\ UNCHANGED <<source, older, bytes, flights, held, envVars, stale, overlaid, mistaken>>

Absent(k) == k \in Resident => pages[k].invalidated

(* the first caller that misses owns the flight, the others wait for it *)
Miss(t) ==
    /\ At(t, "get")
    /\ Absent(K(t))
    /\ IF flights[K(t)] = None
       THEN /\ flights' = [flights EXCEPT ![K(t)] = t]
            /\ Become(t, Goto(t, "load"))
       ELSE /\ Become(t, [Goto(t, "wait") EXCEPT !.on = flights[K(t)]])
            /\ UNCHANGED flights
    /\ UNCHANGED <<source, store, held, envVars, stale, overlaid, mistaken>>

(* the owner's loader returns bytes, which must have the expected digest *)
Load(t) ==
    /\ At(t, "load")
    /\ LET data == source[K(t)] IN
         IF Fits(calls[t].expected, data)
         THEN Become(t, [Goto(t, "insert") EXCEPT !.data = data])
         ELSE Become(t, Failing(t))
    /\ UNCHANGED <<source, store, flights, held, envVars, stale, overlaid, mistaken>>

LoadFails(t) ==
    /\ At(t, "load")
    /\ failures < MaxFailures
    /\ failures' = failures + 1
    /\ Become(t, Failing(t))
    /\ UNCHANGED <<source, store, flights, held, calling, edits, stale, overlaid, mistaken>>

(* _evict: victims are the unleased pages from the least recently touched on,
   as many as it takes; running out of them raises, and what was evicted by
   then stays evicted *)
ExceedsNow(ps, b, required) ==   \* Mutant: the page that comes is not counted
    b > MaxBytes \/ Cardinality({k \in Key : ps[k] # None}) >= MaxPages

Exceeds(ps, b, required) ==
    b + required > MaxBytes \/ Cardinality({k \in Key : ps[k] # None}) >= MaxPages

Victims == {k \in Resident : pages[k].leases = 0}

Evicted(n) == {v \in Victims : Cardinality({u \in Victims : <<u, v>> \in older}) < n}
Without(ks) == [k \in Key |-> IF k \in ks THEN None ELSE pages[k]]
Bytes(ks) == UNION {{k} \X (1..Size[pages[k].data]) : k \in ks}
Freed(ks) == Cardinality(Bytes(ks))
After(n, required) == Exceeds(Without(Evicted(n)), bytes - Freed(Evicted(n)), required)

(* how many pages _evict takes: the fewest that make room, or all of them *)
Takes(required) ==
    CHOOSE n \in 0..Cardinality(Victims) :
        /\ \A m \in 0..(n - 1) : After(m, required)
        /\ n = Cardinality(Victims) \/ ~After(n, required)

Insert(t) ==
    /\ At(t, "insert")
    /\ LET required == Size[calls[t].data]
           n == IF calls[t].op = "prefetch" THEN 0 ELSE Takes(required)
           gone == Evicted(n)
       IN  IF After(n, required)
           THEN /\ pages' = Without(gone) /\ older' = OrderWithout(gone) /\ bytes' = bytes - Freed(gone)
                /\ Become(t, Failing(t))
                /\ UNCHANGED overlaid
           ELSE /\ pages' = [Without(gone) EXCEPT ![K(t)] =
                      [data |-> calls[t].data, leases |-> 0, invalidated |-> FALSE,
                       raced |-> calls[t].raced]]
                /\ older' = Touched(K(t), gone)
                /\ bytes' = bytes - Freed(gone) + required
                /\ overlaid' = IF K(t) \in Resident \ gone /\ pages[K(t)].leases > 0
                               THEN overlaid \cup {K(t)} ELSE overlaid
                /\ Become(t, [Goto(t, "end") EXCEPT !.raced = FALSE])
    /\ UNCHANGED <<source, flights, held, envVars, stale, mistaken>>

(* Mutant: an error leaves without waking the waiters. *)
EndFlightUnlessError(t) ==
    /\ At(t, "end")
    /\ flights' = [flights EXCEPT ![K(t)] = None]
    /\ LET woken == [u \in Thread |->
               IF At(u, "wait") /\ calls[u].on = t /\ ~calls[t].error
               THEN [calls[u] EXCEPT !.pc = "woken"] ELSE calls[u]]
       IN  calls' = [woken EXCEPT ![t] = IF calls[t].error THEN IdleCall ELSE Returned(t)]
    /\ mistaken' = IF calls[t].error THEN mistaken ELSE Answer(t, calls[t].data)
    /\ UNCHANGED <<source, store, held, envVars, stale, overlaid>>

(* the flight is removed and its event set, error or not *)
EndFlight(t) ==
    /\ At(t, "end")
    /\ flights' = [flights EXCEPT ![K(t)] = None]
    /\ LET woken == [u \in Thread |->
               IF At(u, "wait") /\ calls[u].on = t
               THEN [calls[u] EXCEPT !.pc = "woken", !.error = calls[t].error] ELSE calls[u]]
       IN  calls' = [woken EXCEPT ![t] = IF calls[t].error THEN IdleCall ELSE Returned(t)]
    /\ mistaken' = IF calls[t].error THEN mistaken ELSE Answer(t, calls[t].data)
    /\ UNCHANGED <<source, store, held, envVars, stale, overlaid>>

(* Mutant: a waiter takes the resident page as it is. *)
WaiterTrusting(t) ==
    /\ At(t, "woken")
    /\ IF calls[t].error \/ K(t) \notin Resident THEN Raise(t) /\ UNCHANGED mistaken
       ELSE Deliver(t, pages[K(t)].data)
    /\ UNCHANGED <<source, store, flights, held, envVars, stale, overlaid>>

(* a waiter raises the owner's error or starts over *)
Waiter(t) ==
    /\ At(t, "woken")
    /\ IF calls[t].error THEN Raise(t) ELSE Become(t, [Goto(t, "get") EXCEPT !.on = None])
    /\ UNCHANGED <<source, store, flights, held, envVars, stale, overlaid, mistaken>>

(* lease, second critical section: the page may be gone (KeyError) or be another one *)
Grant(t) ==
    /\ At(t, "grant")
    /\ IF K(t) \notin Resident THEN UNCHANGED <<pages, held>>
       ELSE /\ pages' = [pages EXCEPT ![K(t)].leases = @ + 1]
            /\ held' = [held EXCEPT ![K(t)] = @ + 1]
    /\ Become(t, IdleCall)
    /\ UNCHANGED <<source, older, bytes, flights, envVars, stale, overlaid, mistaken>>

----------------------------------------------------------------------------
(* release and invalidate *)

DropPages(ks) ==
    /\ older' = OrderWithout(ks)
    /\ bytes' = bytes - Freed(ks)

(* PageLease.close: a lease nobody counts any more raises lease_mismatch; the
   last lease of an invalidated page drops it *)
Release(k) ==
    /\ held[k] > 0
    /\ held' = [held EXCEPT ![k] = @ - 1]
    /\ LET known == k \in Resident /\ pages[k].leases > 0
           last == known /\ pages[k].invalidated /\ pages[k].leases = 1
       IN  /\ pages' = IF last THEN [pages EXCEPT ![k] = None]
                       ELSE IF known THEN [pages EXCEPT ![k].leases = @ - 1] ELSE pages
           /\ DropPages(IF last THEN {k} ELSE {})
    /\ UNCHANGED <<source, flights, calls, envVars, stale, overlaid, mistaken>>

(* invalidate: unleased pages are dropped, leased ones flagged; a load that has
   its bytes already is not seen *)
Invalidate(ks) ==
    LET free == {k \in ks \cap Resident : pages[k].leases = 0} IN
    /\ ks # {}
    /\ pages' = [k \in Key |-> IF k \in free THEN None
                               ELSE IF k \in ks \cap Resident THEN [pages[k] EXCEPT !.invalidated = TRUE]
                               ELSE pages[k]]
    /\ DropPages(free)
    /\ stale' = stale \ ks
    /\ calls' = [t \in Thread |-> IF K(t) \in ks /\ At(t, "insert")
                                  THEN [calls[t] EXCEPT !.raced = TRUE] ELSE calls[t]]
    /\ UNCHANGED <<source, flights, held, envVars, overlaid, mistaken>>

(* the source of a page changes *)
Edit ==
    /\ edits < MaxEdits
    /\ edits' = edits + 1
    /\ \E e \in Edits : source[e[1]] # e[2] /\ source' = [source EXCEPT ![e[1]] = e[2]]
                        /\ stale' = stale \cup {e[1]}
    /\ UNCHANGED <<store, flights, calls, held, calling, failures, overlaid, mistaken>>

----------------------------------------------------------------------------

Step(t) ==
    \/ Hit(t) \/ HitMismatch(t) \/ Miss(t) \/ Load(t) \/ LoadFails(t) \/ Insert(t)
    \/ EndFlight(t) \/ Waiter(t) \/ Grant(t)

Begin == \E t \in Thread, r \in Requests, k \in Key : Call(t, r[1], k, r[2])

Next ==
    \/ Begin
    \/ \E t \in Thread : Step(t)
    \/ \E k \in Key : Release(k)
    \/ \E ks \in SUBSET Key : Invalidate(ks)
    \/ Edit

Spec == Init /\ [][Next]_vars

(* Every thread is scheduled and loaders return or raise. *)
FairSpec == Spec /\ \A t \in Thread : WF_vars(Step(t))

----------------------------------------------------------------------------
(* Properties *)

TypeOK ==
    /\ source \in [Key -> Content]
    /\ pages \in [Key -> Page \cup {None}]
    /\ older \subseteq Key \X Key /\ bytes \in Nat
    /\ flights \in [Key -> Thread \cup {None}]
    /\ calls \in [Thread -> [pc : PC, op : Op, key : Key \cup {None}, expected : Content \cup {None},
                             data : Content \cup {None}, on : Thread \cup {None},
                             error : BOOLEAN, raced : BOOLEAN]]
    /\ held \in [Key -> Nat]
    /\ stale \subseteq Key /\ overlaid \subseteq Key

(* The working set stays within both budgets, counted from the pages that are
   really resident, _bytes never counts less than they take, and the eviction order
   is a total order of exactly those pages. *)
WithinBudget ==
    /\ Freed(Resident) <= bytes
    /\ bytes <= MaxBytes
    /\ Cardinality(Resident) <= MaxPages
    /\ \A j, k \in Key : <<j, k>> \in older => j \in Resident /\ k \in Resident /\ <<k, j>> \notin older
    /\ \A j, k \in Resident : j = k \/ <<j, k>> \in older \/ <<k, j>> \in older
    /\ \A i, j, k \in Key : <<i, j>> \in older /\ <<j, k>> \in older => <<i, k>> \in older

(* A leased page stays: unless a reload replaced it while it was held, a page
   has as many leases as it has open PageLease objects, and a page that is not
   resident has none. *)
LeasesProtect ==
    \A k \in Key \ overlaid :
        held[k] = IF k \in Resident THEN pages[k].leases ELSE 0

(* A caller that named a digest only ever gets bytes of that digest, as owner,
   as waiter of somebody else's load, and from a resident page. *)
DigestHonoured == mistaken = {}

(* After an invalidation no page is a hit that was loaded from the older
   source, leased or not, except one whose load it overtook. *)
InvalidatedIsGone ==
    \A k \in Key \ stale :
        ~Absent(k) /\ ~pages[k].raced => pages[k].data = source[k]

(* One loader at a time runs for a page. *)
SingleFlight ==
    \A t, u \in Thread : t # u /\ At(t, "load") /\ At(u, "load") => K(t) # K(u)

(* Every call returns: no waiter is left behind by an owner that failed. *)
CallsReturn == \A t \in Thread : ~At(t, "idle") ~> At(t, "idle")

(* The working set is what the pager counts, and is within both budgets. *)
ResidentsAreAccounted == TypeOK /\ WithinBudget

(* What get returns is neither of another digest than was asked for nor of a source
   that was invalidated since. *)
ServedIsFresh == DigestHonoured /\ InvalidatedIsGone

(* Leases and the sharing of loads are kept, and keep no caller from getting the bytes of
   the digest and of the source it asked for. *)
PagerIsSound == LeasesProtect /\ SingleFlight /\ ServedIsFresh
=============================================================================
