------------------------------ MODULE PageCache ------------------------------
(***************************************************************************)
(* The pager of the slots (semantic_pager.py), on one event loop: a page   *)
(* that is resident is returned, one that is being loaded is awaited, and  *)
(* another one is loaded and made resident, for which pages without a live *)
(* lease are evicted, the least recently used first.                       *)
(***************************************************************************)
EXTENDS Naturals, FiniteSets

CONSTANTS
    PageKey,         \* slot and page
    BytesOf,         \* of the page with the digest that is asked for
    SlotBytes, ResidentBytes,
    NoLoad

VARIABLES
    resident,        \* pages
    recency,         \* lru: pairs of resident pages, the first used before the second
    leases,          \* keys with a lease that has not expired
    counted,         \* metrics["resident_bytes"]
    loading          \* flights: key -> [lease, state], or NoLoad

pageVars == <<resident, recency, leases, counted, loading>>

ASSUME PageAssumption ==
    /\ BytesOf \in [PageKey -> Nat] /\ SlotBytes \in Nat /\ ResidentBytes \in Nat
    /\ NoLoad \notin [lease : BOOLEAN, state : {"loading", "ended"}]

PageInit ==
    /\ resident = {} /\ recency = {} /\ leases = {} /\ counted = 0
    /\ loading = [k \in PageKey |-> NoLoad]

(* the order without the pages that are gone, and with k as the last one used *)
Kept(gone) == {p \in recency : p[1] \notin gone /\ p[2] \notin gone}
LastUsed(k, gone) == Kept(gone \cup {k}) \cup ((resident \ (gone \cup {k})) \X {k})

(* page, for a resident page: neither the digest nor the lease is looked at *)
PageHit(k) ==
    /\ k \in resident
    /\ recency' = LastUsed(k, {})
    /\ UNCHANGED <<resident, leases, counted, loading>>

(* otherwise a flight that is there is awaited, which changes nothing *)
PageMiss(k, lease) ==
    /\ k \notin resident /\ loading[k] = NoLoad
    /\ loading' = [loading EXCEPT ![k] = [lease |-> lease, state |-> "loading"]]
    /\ UNCHANGED <<resident, recency, leases, counted>>

(* prefetch starts a load only while there is no other *)
PagePrefetch(k) == (\A j \in PageKey : loading[j] = NoLoad) /\ PageMiss(k, FALSE)

(* what pages take together: the number of their bytes *)
PageBytes(ks) == UNION {{k} \X (1..BytesOf[k]) : k \in ks}
Sizes(ks) == Cardinality(PageBytes(ks))

PageVictims == resident \ leases
Oldest(n) ==
    {v \in PageVictims : Cardinality({u \in PageVictims : <<u, v>> \in recency}) < n}

(* _evict: as many as are needed, or all that can go before it raises *)
LeavesRoomNow(n, needed) ==   \* Mutant: the page that comes is not counted
    counted - Sizes(Oldest(n)) <= ResidentBytes

LeavesRoom(n, needed) == counted - Sizes(Oldest(n)) + needed <= ResidentBytes
Evictions(needed) ==
    CHOOSE n \in 0..Cardinality(PageVictims) :
        /\ \A i \in 0..(n - 1) : ~ LeavesRoom(i, needed)
        /\ n = Cardinality(PageVictims) \/ LeavesRoom(n, needed)

(* the end of load: a wrong digest or a page that is too large changes nothing *)
LoadEnds(k) ==
    LET needed == BytesOf[k]
        n == Evictions(needed)
        gone == Oldest(n)
        left == counted - Sizes(gone)
    IN  /\ loading[k] # NoLoad /\ loading[k].state = "loading"
        /\ loading' = [loading EXCEPT ![k].state = "ended"]
        /\ \/ UNCHANGED <<resident, recency, leases, counted>>
           \/ /\ needed <= SlotBytes /\ needed <= ResidentBytes
              /\ IF LeavesRoom(n, needed)
                 THEN /\ resident' = (resident \ gone) \cup {k}
                      /\ recency' = LastUsed(k, gone)
                      /\ counted' = left + needed
                      /\ leases' = IF loading[k].lease THEN leases \cup {k} ELSE leases
                 ELSE /\ resident' = resident \ gone /\ recency' = Kept(gone) /\ counted' = left
                      /\ UNCHANGED leases

(* the caller that started the load resumes *)
FlightEnds(k) ==
    /\ loading[k] # NoLoad /\ loading[k].state = "ended"
    /\ loading' = [loading EXCEPT ![k] = NoLoad]
    /\ UNCHANGED <<resident, recency, leases, counted>>

PageLeaseExpires(k) ==
    /\ k \in leases
    /\ leases' = leases \ {k}
    /\ UNCHANGED <<resident, recency, counted, loading>>

PageNext ==
    \E k \in PageKey :
        \/ PageHit(k) \/ PagePrefetch(k) \/ LoadEnds(k) \/ FlightEnds(k) \/ PageLeaseExpires(k)
        \/ \E lease \in BOOLEAN : PageMiss(k, lease)

PageSpec == PageInit /\ [][PageNext]_pageVars

----------------------------------------------------------------------------
(* Properties *)

(* The resident pages keep the budget, by their own sizes and by the counter, also after
   an eviction that made room in vain; the order of eviction is a total order of exactly
   those pages; and a page that was loaded with a lease stays until the lease expires. *)
PagesKeepBudget ==
    /\ counted = Sizes(resident) /\ counted <= ResidentBytes
    /\ \A j, k \in PageKey : <<j, k>> \in recency => {j, k} \subseteq resident /\ <<k, j>> \notin recency
    /\ \A j, k \in resident : j = k \/ <<j, k>> \in recency \/ <<k, j>> \in recency
    /\ \A i, j, k \in PageKey : <<i, j>> \in recency /\ <<j, k>> \in recency => <<i, k>> \in recency
    /\ leases \subseteq resident
=============================================================================
