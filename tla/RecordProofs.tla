----------------------------- MODULE RecordProofs -----------------------------
(***************************************************************************)
(* Proofs about the records the library keeps: the catalog of handles, the *)
(* delivery ledger in memory and in its files, the change journal and the  *)
(* bitemporal facts, the segment and streaming stores, the handoff of the  *)
(* mapper, the derived projections, the traversals of a federation, the    *)
(* packets and views made of them and the ranks of routes, for every set   *)
(* of identities, writers, callers, snapshots and processes and every      *)
(* bound.                                                                  *)
(***************************************************************************)
EXTENDS AddressCatalog, DeliveryLedger, ChangeJournal, Temporal, Segments, MapperPrepare, Projections,
        OperationsProjection, RouteSignals, Packets, ContextViews, Federation,
        SequenceTheorems, FiniteSetTheorems, WellFoundedInduction, TLAPS

----------------------------------------------------------------------------
(* Numbers *)

(* A set of numbers has a least one. *)
LEMMA LeastNumber == ASSUME NEW S \in SUBSET Nat, S # {} PROVE \E x \in S : \A y \in S : x <= y
<1> DEFINE R == OpToRel(<, Nat)
<1>1. IsWellFoundedOn(R, Nat)
  BY NatLessThanWellFounded, Zenon
<1>2. ASSUME NEW x \in Nat, NEW y \in Nat, x < y PROVE <<x, y>> \in R
  BY <1>2 DEF OpToRel
<1> HIDE DEF R
<1>3. PICK x \in S : \A y \in S : <<y, x>> \notin R
  BY <1>1, WFMin
<1>4. ASSUME NEW y \in S PROVE x <= y
  <2>1. x \in Nat /\ y \in Nat /\ ~(y < x)
    BY <1>2, <1>3, Zenon
  <2> QED
    BY <2>1
<1> QED
  BY <1>4

----------------------------------------------------------------------------
(* Listings and loops *)

Ranked(f, rank, n) == \A i, j \in 1..n : i < j => rank[f[i]] < rank[f[j]]

(* A finite set whose elements have ranks of their own can be listed in their order. *)
LEMMA RankedListing ==
    ASSUME NEW T, NEW rank \in [T -> Nat], NEW S \in SUBSET T, IsFiniteSet(S),
           \A x, y \in S : rank[x] = rank[y] => x = y
    PROVE  \E f \in [1..Cardinality(S) -> S] : Ranked(f, rank, Cardinality(S))
<1> DEFINE Lists(A) == \E f \in [1..Cardinality(A) -> A] : Ranked(f, rank, Cardinality(A))
           Bad == {n \in Nat : \E A \in SUBSET S : Cardinality(A) = n /\ ~ Lists(A)}
<1>0. \A A \in SUBSET S : IsFiniteSet(A) /\ Cardinality(A) \in Nat
  BY FS_Subset, FS_CardinalityType
<1> SUFFICES ASSUME Bad # {} PROVE FALSE
  <2>1. Cardinality(S) \in Nat
    BY <1>0
  <2> HIDE DEF Lists
  <2>2. Bad = {} => Lists(S)
    BY <2>1
  <2> QED
    BY <2>2 DEF Lists
<1>1. PICK n \in Bad : \A m \in Bad : n <= m
  <2>1. Bad \in SUBSET Nat
    OBVIOUS
  <2> HIDE DEF Bad
  <2> QED
    BY <2>1, LeastNumber
<1>2. PICK A \in SUBSET S : Cardinality(A) = n /\ ~ Lists(A)
  BY <1>1
<1>3. n \in Nat /\ IsFiniteSet(A)
  BY <1>0, <1>1
<1>4. CASE A = {}
  <2>1. n = 0
    BY <1>2, <1>3, <1>4, FS_EmptySet
  <2>2. [i \in 1..0 |-> i] \in [1..0 -> A] /\ Ranked([i \in 1..0 |-> i], rank, 0)
    BY DEF Ranked
  <2> QED
    BY <1>2, <2>1, <2>2
<1>5. CASE A # {}
  <2>1. PICK x \in A : \A y \in A : rank[x] <= rank[y]
    <3> DEFINE I == {rank[y] : y \in A}
    <3>1. I \in SUBSET Nat /\ I # {}
      BY <1>5
    <3>2. PICK m \in I : \A k \in I : m <= k
      <4> HIDE DEF I
      <4> QED
        BY <3>1, LeastNumber
    <3> QED
      BY <3>2
  <2>2. PICK J : J = A \ {x}
    OBVIOUS
  <2>3. J \in SUBSET S /\ Cardinality(J) = n - 1 /\ n - 1 \in Nat
    <3>1. J \in SUBSET S /\ Cardinality(J) \in Nat
      BY <1>0, <2>2
    <3>2. Cardinality(J) = n - 1
      BY <1>2, <1>3, <2>1, <2>2, FS_RemoveElement
    <3> QED
      BY <3>1, <3>2
  <2>4. Lists(J)
    <3> HIDE DEF Lists
    <3>1. ~(n <= n - 1)
      BY <1>3
    <3>2. n - 1 \notin Bad
      <4> HIDE DEF Bad
      <4> QED
        BY <1>1, <3>1
    <3> QED
      BY <2>3, <3>2
  <2>5. PICK m \in Nat : m = n - 1 /\ n = m + 1
    BY <1>3, <2>3
  <2>6. PICK g \in [1..m -> J] : Ranked(g, rank, m)
    BY <2>3, <2>4, <2>5
  <2> DEFINE f == [i \in 1..n |-> IF i = 1 THEN x ELSE g[i - 1]]
  <2>7. f \in [1..n -> A]
    <3>1. \A i \in 1..n : i # 1 => i - 1 \in 1..m
      BY <1>3, <2>5
    <3> QED
      BY <2>1, <2>2, <2>6, <3>1
  <2>8. ASSUME NEW i \in 1..n, NEW j \in 1..n, i < j PROVE rank[f[i]] < rank[f[j]]
    <3>1. j - 1 \in 1..m /\ j # 1 /\ f[j] = g[j - 1]
      BY <1>3, <2>5, <2>8
    <3>2. g[j - 1] \in J
      BY <2>6, <3>1
    <3>3. rank[g[j - 1]] \in Nat /\ rank[x] \in Nat /\ g[j - 1] \in A /\ g[j - 1] # x
      BY <2>2, <2>3, <3>2
    <3>4. CASE i = 1
      <4>1. rank[x] <= rank[g[j - 1]] /\ rank[x] # rank[g[j - 1]]
        BY <2>1, <3>3
      <4> QED
        BY <3>1, <3>3, <3>4, <4>1
    <3>5. CASE i # 1
      <4>1. i - 1 \in 1..m /\ f[i] = g[i - 1] /\ i - 1 < j - 1
        BY <1>3, <2>5, <2>8, <3>5
      <4> QED
        BY <2>6, <3>1, <4>1 DEF Ranked
    <3> QED
      BY <3>4, <3>5
  <2>9. Ranked(f, rank, n)
    BY <2>8 DEF Ranked
  <2> HIDE DEF f
  <2> QED
    BY <1>2, <2>7, <2>9
<1> QED
  BY <1>4, <1>5

(* A listing with as many places as there are elements, none twice, has them all. *)
LEMMA ListingIsAll ==
    ASSUME NEW S, IsFiniteSet(S), NEW f \in [1..Cardinality(S) -> S],
           \A i, j \in 1..Cardinality(S) : f[i] = f[j] => i = j
    PROVE  \A x \in S : \E i \in 1..Cardinality(S) : f[i] = x
<1>1. PICK n \in Nat : n = Cardinality(S)
  BY FS_CardinalityType
<1>2. f \in Injection(1..n, S)
  BY <1>1 DEF Injection, IsInjective
<1>3. IsFiniteSet(1..n) /\ Cardinality(1..n) = n
  BY FS_Interval
<1>4. f \in Surjection(1..n, S)
  BY <1>1, <1>2, <1>3, FS_Injection
<1> QED
  BY <1>1, <1>4 DEF Surjection

Stepping(g, J, N) == \A n \in 1..N : \A s \in J[n - 1] : g[n][s] \in J[n]

Running(f, start, g, N) == f = [n \in 0..N |-> IF n = 0 THEN start ELSE g[n][f[n - 1]]]

Staying(f, J, N) == \A n \in 0..N : f[n] \in J[n]

(* A loop of N steps runs, if every step can be taken where the ones before lead. *)
LEMMA LoopRuns ==
    ASSUME NEW N \in Nat, NEW J, NEW start, start \in J[0], NEW g, Stepping(g, J, N)
    PROVE  \E f : Running(f, start, g, N) /\ Staying(f, J, N)
<1> USE DEF Stepping, Running, Staying
<1> DEFINE Step(f, n) == IF n = 0 THEN start ELSE g[n][f[n - 1]]
           Good(f, m) == f = [n \in 0..m |-> Step(f, n)] /\ \A n \in 0..m : f[n] \in J[n]
           Bad == {m \in 0..N : ~ \E f : Good(f, m)}
<1> SUFFICES ASSUME Bad # {} PROVE FALSE
  OBVIOUS
<1>1. PICK m \in Bad : \A k \in Bad : m <= k
  <2>1. Bad \in SUBSET Nat
    OBVIOUS
  <2> HIDE DEF Bad
  <2> QED
    BY <2>1, LeastNumber
<1>2. m \in 0..N /\ ~ \E f : Good(f, m)
  BY <1>1
<1>3. CASE m = 0
  <2> DEFINE f == [n \in 0..0 |-> start]
  <2>1. f = [n \in 0..0 |-> Step(f, n)] /\ \A n \in 0..0 : f[n] \in J[n]
    <3>1. \A n \in 0..0 : n = 0
      OBVIOUS
    <3> QED
      BY <3>1
  <2> HIDE DEF f
  <2> QED
    BY <1>2, <1>3, <2>1
<1>4. CASE m # 0
  <2>1. m - 1 \in 0..N /\ m \in 1..N /\ ~(m <= m - 1)
    BY <1>2, <1>4
  <2>2. m - 1 \notin Bad
    <3> HIDE DEF Bad
    <3> QED
      BY <1>1, <2>1
  <2>3. PICK h : Good(h, m - 1)
    <3> HIDE DEF Good
    <3> QED
      BY <2>1, <2>2
  <2>4. h = [n \in 0..(m - 1) |-> Step(h, n)] /\ \A n \in 0..(m - 1) : h[n] \in J[n]
    BY <2>3
  <2> DEFINE f == [n \in 0..m |-> IF n < m THEN h[n] ELSE g[m][h[m - 1]]]
  <2>5. \A n \in 0..m : f[n] = Step(f, n) /\ f[n] \in J[n]
    <3> SUFFICES ASSUME NEW n \in 0..m PROVE f[n] = Step(f, n) /\ f[n] \in J[n]
      OBVIOUS
    <3>1. CASE n < m
      <4>1. n \in 0..(m - 1) /\ f[n] = h[n]
        BY <2>1, <3>1
      <4>2. h[n] = Step(h, n) /\ h[n] \in J[n]
        BY <2>4, <4>1
      <4>3. n # 0 => f[n - 1] = h[n - 1]
        <5>1. n # 0 => n - 1 \in 0..m /\ n - 1 < m
          BY <2>1, <3>1
        <5> QED
          BY <5>1
      <4> QED
        BY <4>1, <4>2, <4>3
    <3>2. CASE ~(n < m)
      <4>1. n = m /\ n # 0 /\ f[n] = g[m][h[m - 1]]
        BY <2>1, <3>2
      <4>2. m - 1 \in 0..m /\ m - 1 < m /\ m - 1 \in 0..(m - 1)
        BY <2>1
      <4>3. f[m - 1] = h[m - 1] /\ h[m - 1] \in J[m - 1]
        BY <2>4, <4>2
      <4>4. g[m][h[m - 1]] \in J[m]
        BY <2>1, <4>3
      <4> QED
        BY <4>1, <4>3, <4>4
    <3> QED
      BY <3>1, <3>2
  <2>6. f = [n \in 0..m |-> f[n]]
    OBVIOUS
  <2>7. Good(f, m)
    <3>1. PICK e : e = f
      OBVIOUS
    <3> HIDE DEF f
    <3>2. \A n \in 0..m : e[n] = Step(e, n) /\ e[n] \in J[n]
      BY <2>5, <3>1
    <3>3. e = [n \in 0..m |-> e[n]]
      BY <2>6, <3>1
    <3>4. e = [n \in 0..m |-> Step(e, n)]
      <4> HIDE DEF Step
      <4> QED
        BY <3>2, <3>3
    <3> QED
      BY <3>1, <3>2, <3>4
  <2> HIDE DEF f, Good
  <2> QED
    BY <1>2, <2>7
<1> QED
  BY <1>3, <1>4

(* What every step keeps holds after all of them. *)
LEMMA LoopKeeps ==
    ASSUME NEW N \in Nat, NEW J, NEW h, h[0] \in J[0], \A n \in 1..N : h[n - 1] \in J[n - 1] => h[n] \in J[n]
    PROVE  \A n \in 0..N : h[n] \in J[n]
<1> DEFINE Bad == {n \in 0..N : h[n] \notin J[n]}
<1> SUFFICES ASSUME Bad # {} PROVE FALSE
  OBVIOUS
<1>1. PICK m \in Bad : \A k \in Bad : m <= k
  <2>1. Bad \in SUBSET Nat
    OBVIOUS
  <2> HIDE DEF Bad
  <2> QED
    BY <2>1, LeastNumber
<1>2. m \in 1..N /\ h[m] \notin J[m] /\ m - 1 \in 0..N /\ ~(m <= m - 1)
  BY <1>1
<1>3. h[m - 1] \in J[m - 1]
  BY <1>1, <1>2
<1> QED
  BY <1>2, <1>3

----------------------------------------------------------------------------
(* The address catalog *)

CatalogTypes ==
    /\ byHandle \in [ShortHandle -> CatalogEntry \cup {NoEntry}]
    /\ byIdentity \in [Identity -> CatalogEntry \cup {NoEntry}]
    /\ catalogFile.entries \in [Identity -> CatalogEntry \cup {NoEntry}]
    /\ withdrawn \subseteq Identity

(* The two tables hold the same entries, each under its own identity and handle. *)
TablesAgree ==
    /\ \A h \in ShortHandle : byHandle[h] # NoEntry =>
          HandleOf[byHandle[h].identity] = h /\ byIdentity[byHandle[h].identity] = byHandle[h]
    /\ \A i \in Identity : byIdentity[i] # NoEntry =>
          byIdentity[i].identity = i /\ byHandle[HandleOf[i]] = byIdentity[i]

(* What was withdrawn is still there, and not active: so it can be neither made anew nor
   resolved. *)
WithdrawnStays(entries, gone) == \A i \in gone : entries[i] # NoEntry /\ entries[i].state # "active"

(* A file can be loaded: no two of its entries share a handle. *)
FileIsLoadable ==
    /\ \A i \in Identity : catalogFile.entries[i] # NoEntry => catalogFile.entries[i].identity = i
    /\ \A i, j \in Identity :
          catalogFile.entries[i] # NoEntry /\ catalogFile.entries[j] # NoEntry /\ HandleOf[i] = HandleOf[j]
          => i = j
    /\ catalogFile.withdrawn \subseteq Identity

CatalogInv ==
    /\ CatalogTypes
    /\ TablesAgree
    /\ WithdrawnStays(byIdentity, withdrawn)
    /\ FileIsLoadable
    /\ WithdrawnStays(catalogFile.entries, catalogFile.withdrawn)

LEMMA CatalogIsSafe == CatalogInv => ResolvesItsOwn
<1> SUFFICES ASSUME CatalogInv PROVE ResolvesItsOwn
  OBVIOUS
<1>1. \A h \in ShortHandle : Resolves(h) => byHandle[h].identity \notin withdrawn
  BY DEF CatalogInv, CatalogTypes, TablesAgree, WithdrawnStays, Resolves
<1> QED
  BY <1>1 DEF CatalogInv, TablesAgree, ResolvesItsOwn

LEMMA HandlesOfIdentities == \A i \in Identity : HandleOf[i] \in ShortHandle
BY DEF ShortHandle

(* Both tables get the same entry of one identity. *)
LEMMA EntryKeeps ==
    ASSUME CatalogInv, NEW i \in Identity, NEW e \in CatalogEntry, e.identity = i,
           byIdentity[i] = NoEntry => byHandle[HandleOf[i]] = NoEntry,
           byHandle' = [byHandle EXCEPT ![HandleOf[i]] = e], byIdentity' = [byIdentity EXCEPT ![i] = e],
           withdrawn' \subseteq withdrawn \cup {i}, UNCHANGED catalogFile,
           i \in withdrawn' => e.state # "active"
    PROVE  CatalogInv'
<1>1. HandleOf[i] \in ShortHandle /\ e # NoEntry
  BY HandlesOfIdentities, CatalogAssumption
<1>2. CatalogTypes'
  BY <1>1 DEF CatalogInv, CatalogTypes
<1>3. /\ byHandle'[HandleOf[i]] = e /\ \A h \in ShortHandle : h # HandleOf[i] => byHandle'[h] = byHandle[h]
      /\ byIdentity'[i] = e /\ \A j \in Identity : j # i => byIdentity'[j] = byIdentity[j]
  BY <1>1 DEF CatalogInv, CatalogTypes
<1>4. \A j \in Identity : j # i /\ byIdentity[j] # NoEntry => HandleOf[j] # HandleOf[i]
  <2> SUFFICES ASSUME NEW j \in Identity, j # i, byIdentity[j] # NoEntry, HandleOf[j] = HandleOf[i] PROVE FALSE
    OBVIOUS
  <2>1. byHandle[HandleOf[i]] = byIdentity[j] /\ byIdentity[j].identity = j
    BY DEF CatalogInv, TablesAgree
  <2>2. byIdentity[i] # NoEntry
    BY <2>1
  <2>3. byHandle[HandleOf[i]] = byIdentity[i] /\ byIdentity[i].identity = i
    BY <2>2 DEF CatalogInv, TablesAgree
  <2> QED
    BY <2>1, <2>3
<1>5. TablesAgree'
  <2>1. ASSUME NEW h \in ShortHandle, byHandle'[h] # NoEntry
        PROVE  HandleOf[byHandle'[h].identity] = h /\ byIdentity'[byHandle'[h].identity] = byHandle'[h]
    <3>1. CASE h = HandleOf[i]
      BY <1>3, <3>1
    <3>2. CASE h # HandleOf[i]
      <4>1. PICK j \in Identity : j = byHandle[h].identity /\ HandleOf[j] = h /\ byIdentity[j] = byHandle[h]
        BY <1>3, <2>1, <3>2 DEF CatalogInv, CatalogTypes, TablesAgree, CatalogEntry
      <4> QED
        BY <1>3, <3>2, <4>1
    <3> QED
      BY <3>1, <3>2
  <2>2. ASSUME NEW j \in Identity, byIdentity'[j] # NoEntry
        PROVE  byIdentity'[j].identity = j /\ byHandle'[HandleOf[j]] = byIdentity'[j]
    <3>1. CASE j = i
      BY <1>3, <3>1
    <3>2. CASE j # i
      <4>1. byIdentity[j] # NoEntry /\ byIdentity'[j] = byIdentity[j]
        BY <1>3, <2>2, <3>2
      <4>2. HandleOf[j] # HandleOf[i] /\ HandleOf[j] \in ShortHandle
        BY <1>4, <3>2, <4>1, HandlesOfIdentities
      <4> QED
        BY <1>3, <4>1, <4>2 DEF CatalogInv, TablesAgree
    <3> QED
      BY <3>1, <3>2
  <2> QED
    BY <2>1, <2>2 DEF TablesAgree
<1>6. WithdrawnStays(byIdentity, withdrawn)'
  BY <1>1, <1>3 DEF CatalogInv, CatalogTypes, WithdrawnStays
<1> QED
  BY <1>2, <1>5, <1>6 DEF CatalogInv, FileIsLoadable, WithdrawnStays

LEMMA RegisterKeeps ==
    ASSUME CatalogInv, NEW i \in Identity, NEW c \in Content, NEW state \in CatalogState,
           Register(i, c, state)
    PROVE  CatalogInv'
<1> DEFINE e == Entered(i, c, state)
<1>1. /\ byIdentity[i] = NoEntry /\ byHandle[HandleOf[i]] # NoEntry => byHandle[HandleOf[i]].identity = i
      /\ byHandle' = [byHandle EXCEPT ![HandleOf[i]] = e] /\ byIdentity' = [byIdentity EXCEPT ![i] = e]
      /\ withdrawn' = IF e.state = "active" THEN withdrawn ELSE withdrawn \cup {i}
      /\ UNCHANGED catalogFile
  BY DEF Register
<1>2. e \in CatalogEntry /\ e.identity = i /\ (byIdentity[i] # NoEntry => e = byIdentity[i])
  BY DEF Entered, NewEntry, CatalogEntry, CatalogInv, CatalogTypes, TablesAgree
<1>3. byIdentity[i] = NoEntry => byHandle[HandleOf[i]] = NoEntry
  BY <1>1, HandlesOfIdentities DEF CatalogInv, TablesAgree
<1> HIDE DEF e
<1>4. i \in withdrawn' => e.state # "active"
  BY <1>1, <1>2 DEF CatalogInv, WithdrawnStays
<1>5. withdrawn' \subseteq withdrawn \cup {i}
  BY <1>1
<1> QED
  BY <1>1, <1>2, <1>3, <1>4, <1>5, EntryKeeps

LEMMA TombstoneKeeps ==
    ASSUME CatalogInv, NEW h \in ShortHandle, NEW state \in CatalogState, Tombstone(h, state)
    PROVE  CatalogInv'
<1> DEFINE e == [byHandle[h] EXCEPT !.state = state]
<1>1. /\ byHandle[h] # NoEntry /\ state # "active" /\ byHandle' = [byHandle EXCEPT ![h] = e]
      /\ byIdentity' = [byIdentity EXCEPT ![e.identity] = e]
      /\ withdrawn' = withdrawn \cup {e.identity} /\ UNCHANGED catalogFile
  BY DEF Tombstone
<1>2. byHandle[h] \in CatalogEntry
  BY <1>1 DEF CatalogInv, CatalogTypes
<1>3. PICK i \in Identity : i = byHandle[h].identity /\ HandleOf[i] = h /\ byIdentity[i] = byHandle[h]
  BY <1>1, <1>2 DEF CatalogInv, TablesAgree, CatalogEntry
<1>4. e \in CatalogEntry /\ e.identity = i /\ e.state = state
  BY <1>2, <1>3 DEF CatalogEntry
<1> HIDE DEF e
<1> QED
  BY <1>1, <1>3, <1>4, EntryKeeps

LEMMA SaveCatalogKeeps == ASSUME CatalogInv, SaveCatalog PROVE CatalogInv'
<1> DEFINE saved == [i \in Identity |->
                       IF byHandle[HandleOf[i]] # NoEntry /\ byHandle[HandleOf[i]].identity = i
                       THEN byHandle[HandleOf[i]] ELSE NoEntry]
<1>1. catalogFile' = [entries |-> saved, withdrawn |-> withdrawn] /\ UNCHANGED <<byHandle, byIdentity, withdrawn>>
  BY DEF SaveCatalog
<1>2. \A i \in Identity : saved[i] = byIdentity[i]
  BY HandlesOfIdentities DEF CatalogInv, TablesAgree
<1>3. \A i, j \in Identity : saved[i] # NoEntry /\ saved[j] # NoEntry /\ HandleOf[i] = HandleOf[j] => i = j
  OBVIOUS
<1>4. saved \in [Identity -> CatalogEntry \cup {NoEntry}]
  BY HandlesOfIdentities DEF CatalogInv, CatalogTypes
<1> HIDE DEF saved
<1>5. catalogFile'.entries = saved /\ catalogFile'.withdrawn = withdrawn
  BY <1>1
<1>6. CatalogTypes' /\ FileIsLoadable'
  BY <1>1, <1>2, <1>3, <1>4, <1>5 DEF CatalogInv, CatalogTypes, TablesAgree, FileIsLoadable
<1>7. WithdrawnStays(catalogFile.entries, catalogFile.withdrawn)'
  BY <1>2, <1>5 DEF CatalogInv, CatalogTypes, WithdrawnStays
<1> QED
  BY <1>1, <1>6, <1>7 DEF CatalogInv, TablesAgree, WithdrawnStays

LEMMA LoadCatalogKeeps == ASSUME CatalogInv, LoadCatalog PROVE CatalogInv'
<1> DEFINE Filed(h, i) == HandleOf[i] = h /\ catalogFile.entries[i] # NoEntry
<1>1. /\ byIdentity' = catalogFile.entries /\ withdrawn' = catalogFile.withdrawn /\ UNCHANGED catalogFile
      /\ byHandle' = [h \in ShortHandle |->
                        IF \E i \in Identity : Filed(h, i)
                        THEN catalogFile.entries[CHOOSE i \in Identity : Filed(h, i)] ELSE NoEntry]
  BY DEF LoadCatalog
<1>2. ASSUME NEW h \in ShortHandle, NEW i \in Identity, Filed(h, i)
      PROVE  byHandle'[h] = catalogFile.entries[i]
  <2>1. PICK j \in Identity : j = (CHOOSE k \in Identity : Filed(h, k)) /\ Filed(h, j)
    BY <1>2
  <2>2. j = i
    BY <1>2, <2>1 DEF CatalogInv, FileIsLoadable
  <2> QED
    BY <1>1, <1>2, <2>1, <2>2
<1>3. \A h \in ShortHandle : (\A i \in Identity : ~Filed(h, i)) => byHandle'[h] = NoEntry
  BY <1>1
<1>4. CatalogTypes'
  <2>1. \A h \in ShortHandle : byHandle'[h] \in CatalogEntry \cup {NoEntry}
    BY <1>2, <1>3 DEF CatalogInv, CatalogTypes
  <2>2. byHandle' \in [ShortHandle -> CatalogEntry \cup {NoEntry}]
    BY <1>1, <2>1
  <2> QED
    BY <1>1, <2>2 DEF CatalogInv, CatalogTypes, FileIsLoadable
<1>5. TablesAgree'
  <2>1. ASSUME NEW h \in ShortHandle, byHandle'[h] # NoEntry
        PROVE  HandleOf[byHandle'[h].identity] = h /\ byIdentity'[byHandle'[h].identity] = byHandle'[h]
    <3>1. PICK i \in Identity : Filed(h, i)
      BY <1>3, <2>1
    <3> QED
      BY <1>1, <1>2, <3>1 DEF CatalogInv, FileIsLoadable
  <2>2. ASSUME NEW i \in Identity, byIdentity'[i] # NoEntry
        PROVE  byIdentity'[i].identity = i /\ byHandle'[HandleOf[i]] = byIdentity'[i]
    BY <1>1, <1>2, <2>2, HandlesOfIdentities DEF CatalogInv, FileIsLoadable
  <2> QED
    BY <2>1, <2>2 DEF TablesAgree
<1> QED
  BY <1>1, <1>4, <1>5 DEF CatalogInv, FileIsLoadable, WithdrawnStays

(* A handle resolves to the identity it was made for and never to one that was withdrawn,
   although two identities may share a handle and what was withdrawn may be registered
   again, saved and loaded (register, tombstone, resolve, to_bytes and from_bytes of
   catalog.py). *)
THEOREM HandlesResolve == CatalogSpec => []ResolvesItsOwn
<1>1. CatalogInit => CatalogInv
  BY DEF CatalogInit, CatalogInv, CatalogTypes, TablesAgree, WithdrawnStays, FileIsLoadable
<1>2. CatalogInv /\ [CatalogNext]_catalogVars => CatalogInv'
  <2> SUFFICES ASSUME CatalogInv, [CatalogNext]_catalogVars PROVE CatalogInv'
    OBVIOUS
  <2>1. CASE \E i \in Identity, c \in Content, state \in CatalogState : Register(i, c, state)
    BY <2>1, RegisterKeeps
  <2>2. CASE \E h \in ShortHandle, state \in CatalogState : Tombstone(h, state)
    BY <2>2, TombstoneKeeps
  <2>3. CASE UNCHANGED catalogVars
    BY <2>3 DEF catalogVars, CatalogInv, CatalogTypes, TablesAgree, WithdrawnStays, FileIsLoadable
  <2> QED
    BY <2>1, <2>2, <2>3, SaveCatalogKeeps, LoadCatalogKeeps DEF CatalogNext
<1> QED
  BY <1>1, <1>2, CatalogIsSafe, PTL DEF CatalogSpec

----------------------------------------------------------------------------
(* The segment store *)

SegmentTypes ==
    /\ manifestFile \in Release \cup {NoManifest}
    /\ previousFile \in Release \cup {NoManifest}
    /\ publishing \in [Publisher -> Publishing \cup {NoManifest}]
    /\ windows = [w \in Release \X Section |-> windows[w]]
    /\ reading \in [PageReader -> (Release \X Section) \cup {NoPage}]

(* A manifest is only kept or swapped in when all its files are there. *)
PublicationIsBacked(p) ==
    publishing[p] # NoManifest =>
        LET at == publishing[p] IN
        /\ at.step = "sections" => FilesOf(at.release) \ at.todo \subseteq segmentFiles
        /\ at.step # "sections" => FilesOf(at.release) \subseteq segmentFiles
        /\ at.step = "backup" => Validates(at.backup) /\ manifestFile # NoManifest

(* Between its check and its load a read finds the manifest it checked, or is marked. *)
ReadsAreSteady ==
    \A r \in PageReader : reading[r] # NoPage => manifestFile = reading[r][1] \/ r \in crossed

SegmentInv ==
    /\ SegmentTypes
    /\ \A p \in Publisher : PublicationIsBacked(p)
    /\ ReadsAreSteady
    /\ SegmentsAreWhole

LEMMA FilesAreTyped ==
    ASSUME NEW g \in Release
    PROVE  FilesOf(g) \subseteq Section \X UNION {{SectionOf[h][s] : s \in Section} : h \in Release}
BY DEF FilesOf

LEMMA SegmentMarkers ==
    /\ \A x \in Publishing : /\ x # NoManifest /\ x.step \in {"sections", "backup", "swap"} /\ x.release \in Release
                             /\ x.backup \in Release \cup {NoManifest}
    /\ NoManifest \notin Release
BY SegmentAssumption DEF Publishing

(* Files are only added, so what validated still does. *)
LEMMA ValidStays ==
    ASSUME segmentFiles \subseteq segmentFiles', NEW m, Validates(m)
    PROVE  Validates(m)'
BY DEF Validates

(* A step of one publisher that leaves both manifests and the readers as they are. *)
LEMMA PublisherMoves ==
    ASSUME SegmentInv, UNCHANGED <<manifestFile, previousFile, windows, reading, crossed, strays>>,
           segmentFiles \subseteq segmentFiles', NEW p \in Publisher, NEW x \in Publishing \cup {NoManifest},
           publishing' = [publishing EXCEPT ![p] = x], PublicationIsBacked(p)'
    PROVE  SegmentInv'
<1>1. /\ publishing' \in [Publisher -> Publishing \cup {NoManifest}] /\ publishing'[p] = x
      /\ \A q \in Publisher : q # p => publishing'[q] = publishing[q]
  BY DEF SegmentInv, SegmentTypes
<1>2. \A q \in Publisher : PublicationIsBacked(q)'
  BY <1>1 DEF SegmentInv, PublicationIsBacked, Validates
<1>3. SegmentsAreWhole'
  BY DEF SegmentInv, SegmentsAreWhole, Validates
<1> QED
  BY <1>1, <1>2, <1>3 DEF SegmentInv, SegmentTypes, ReadsAreSteady

LEMMA PublishStartKeeps ==
    ASSUME SegmentInv, NEW p \in Publisher,
           (\E release \in Release : PublishBegins(p, release)) \/ RecoverBegins(p) \/ PublisherDies(p)
    PROVE  SegmentInv'
<1>1. ASSUME NEW g \in Release, PublishBegins(p, g) PROVE SegmentInv'
  <2> DEFINE x == [step |-> "sections", release |-> g, todo |-> FilesOf(g), backup |-> NoManifest]
  <2>1. /\ publishing' = [publishing EXCEPT ![p] = x]
        /\ UNCHANGED <<segmentFiles, manifestFile, previousFile, windows, reading, crossed, strays>>
    BY <1>1 DEF PublishBegins, readVars
  <2>2. x \in Publishing /\ x.step = "sections" /\ x.release = g /\ x.todo = FilesOf(g)
    BY FilesAreTyped DEF Publishing
  <2> HIDE DEF x
  <2>3. publishing'[p] = x
    BY <2>1 DEF SegmentInv, SegmentTypes
  <2>4. PublicationIsBacked(p)'
    BY <2>2, <2>3 DEF PublicationIsBacked
  <2> QED
    BY <2>1, <2>2, <2>4, PublisherMoves
<1>2. CASE RecoverBegins(p)
  <2> DEFINE x == [step |-> "swap", release |-> previousFile, todo |-> {}, backup |-> NoManifest]
  <2>1. /\ publishing' = [publishing EXCEPT ![p] = x] /\ Validates(previousFile)
        /\ UNCHANGED <<segmentFiles, manifestFile, previousFile, windows, reading, crossed, strays>>
    BY <1>2 DEF RecoverBegins, readVars
  <2>2. x \in Publishing /\ x.step = "swap" /\ x.release = previousFile
    BY <2>1 DEF Publishing, Validates, SegmentInv, SegmentTypes
  <2> HIDE DEF x
  <2>3. publishing'[p] = x
    BY <2>1 DEF SegmentInv, SegmentTypes
  <2>4. PublicationIsBacked(p)'
    BY <2>1, <2>2, <2>3 DEF PublicationIsBacked, Validates
  <2> QED
    BY <2>1, <2>2, <2>4, PublisherMoves
<1>3. CASE PublisherDies(p)
  <2>1. /\ publishing' = [publishing EXCEPT ![p] = NoManifest] /\ publishing'[p] = NoManifest
        /\ UNCHANGED <<segmentFiles, manifestFile, previousFile, windows, reading, crossed, strays>>
    BY <1>3 DEF PublisherDies, readVars, SegmentInv, SegmentTypes
  <2>2. PublicationIsBacked(p)'
    BY <2>1 DEF PublicationIsBacked
  <2> QED
    BY <2>1, <2>2, PublisherMoves
<1> QED
  BY <1>1, <1>2, <1>3

LEMMA WriteSectionKeeps == ASSUME SegmentInv, NEW p \in Publisher, WriteSection(p) PROVE SegmentInv'
<1>1. publishing[p] \in Publishing /\ publishing[p].step = "sections"
  BY DEF WriteSection, readVars, AtStep, SegmentInv, SegmentTypes
<1>2. PICK f \in publishing[p].todo :
         /\ segmentFiles' = segmentFiles \cup {f}
         /\ publishing' = [publishing EXCEPT ![p].todo = @ \ {f}]
  BY DEF WriteSection, readVars
<1> DEFINE x == [publishing[p] EXCEPT !.todo = @ \ {f}]
<1>3. /\ x \in Publishing /\ x.step = "sections" /\ x.release = publishing[p].release
      /\ x.todo = publishing[p].todo \ {f}
  BY <1>1 DEF Publishing
<1>4. publishing' = [publishing EXCEPT ![p] = x]
  BY <1>2
<1> HIDE DEF x
<1>5. publishing'[p] = x
  BY <1>4 DEF SegmentInv, SegmentTypes
<1>6. FilesOf(publishing[p].release) \ publishing[p].todo \subseteq segmentFiles
  BY <1>1, SegmentMarkers DEF SegmentInv, PublicationIsBacked
<1>7. PublicationIsBacked(p)'
  BY <1>2, <1>3, <1>5, <1>6 DEF PublicationIsBacked
<1> QED
  BY <1>2, <1>3, <1>4, <1>7, PublisherMoves DEF WriteSection, readVars

LEMMA CopyManifestKeeps == ASSUME SegmentInv, NEW p \in Publisher, CopyManifest(p) PROVE SegmentInv'
<1>1. /\ publishing[p] \in Publishing /\ publishing[p].step = "sections" /\ publishing[p].todo = {}
      /\ UNCHANGED <<segmentFiles, manifestFile, previousFile, windows, reading, crossed, strays>>
  BY DEF CopyManifest, readVars, AtStep, SegmentInv, SegmentTypes
<1>2. PICK next \in {"swap", "backup"} : next = IF manifestFile = NoManifest THEN "swap" ELSE "backup"
  OBVIOUS
<1>3. PICK m \in Release \cup {NoManifest} : m = manifestFile
  BY DEF SegmentInv, SegmentTypes
<1> DEFINE x == [publishing[p] EXCEPT !.step = next, !.backup = m]
<1>4. x \in Publishing /\ x.step = next /\ x.release = publishing[p].release /\ x.backup = m
  BY <1>1 DEF Publishing
<1>5. publishing' = [publishing EXCEPT ![p] = x]
  BY <1>2, <1>3 DEF CopyManifest, readVars
<1> HIDE DEF x
<1>6. publishing'[p] = x
  BY <1>5 DEF SegmentInv, SegmentTypes
<1>7. FilesOf(publishing[p].release) \subseteq segmentFiles
  BY <1>1, SegmentMarkers DEF SegmentInv, PublicationIsBacked
<1>8. next = "backup" => m # NoManifest /\ Validates(m)
  BY <1>2, <1>3 DEF SegmentInv, SegmentsAreWhole
<1>9. PublicationIsBacked(p)'
  BY <1>1, <1>3, <1>4, <1>6, <1>7, <1>8 DEF PublicationIsBacked, Validates
<1> QED
  BY <1>1, <1>4, <1>5, <1>9, PublisherMoves

LEMMA ReplacePreviousKeeps == ASSUME SegmentInv, NEW p \in Publisher, ReplacePrevious(p) PROVE SegmentInv'
<1>1. /\ publishing[p] \in Publishing /\ publishing[p].step = "backup"
      /\ previousFile' = publishing[p].backup /\ publishing' = [publishing EXCEPT ![p].step = "swap"]
      /\ UNCHANGED <<segmentFiles, manifestFile, windows, reading, crossed, strays>>
  BY DEF ReplacePrevious, readVars, AtStep, SegmentInv, SegmentTypes
<1> DEFINE x == [publishing[p] EXCEPT !.step = "swap"]
<1>2. x \in Publishing /\ x.step = "swap" /\ x.release = publishing[p].release
  BY <1>1 DEF Publishing
<1>3. publishing' = [publishing EXCEPT ![p] = x]
  BY <1>1
<1> HIDE DEF x
<1>4. /\ publishing' \in [Publisher -> Publishing \cup {NoManifest}] /\ publishing'[p] = x
      /\ \A q \in Publisher : q # p => publishing'[q] = publishing[q]
  BY <1>2, <1>3 DEF SegmentInv, SegmentTypes
<1>5. /\ FilesOf(publishing[p].release) \subseteq segmentFiles
      /\ Validates(publishing[p].backup) /\ manifestFile # NoManifest
  BY <1>1, SegmentMarkers DEF SegmentInv, PublicationIsBacked
<1>6. \A q \in Publisher : PublicationIsBacked(q)'
  BY <1>1, <1>2, <1>4, <1>5 DEF SegmentInv, PublicationIsBacked, Validates
<1>7. SegmentsAreWhole'
  BY <1>1, <1>5 DEF SegmentInv, SegmentsAreWhole, Validates
<1>8. previousFile' \in Release \cup {NoManifest}
  BY <1>1, SegmentMarkers
<1> QED
  BY <1>1, <1>4, <1>6, <1>7, <1>8 DEF SegmentInv, SegmentTypes, ReadsAreSteady

LEMMA ReplaceManifestKeeps ==
    ASSUME SegmentInv, NEW p \in Publisher, ReplaceManifest(p)
    PROVE  SegmentInv'
<1>1. /\ publishing[p] \in Publishing /\ publishing[p].step = "swap" /\ crossed' = ReadersAtWork
      /\ manifestFile' = publishing[p].release /\ publishing' = [publishing EXCEPT ![p] = NoManifest]
      /\ UNCHANGED <<segmentFiles, previousFile, windows, reading, strays>>
  BY DEF ReplaceManifest, AtStep, SegmentInv, SegmentTypes
<1>2. /\ publishing' \in [Publisher -> Publishing \cup {NoManifest}] /\ publishing'[p] = NoManifest
      /\ \A q \in Publisher : q # p => publishing'[q] = publishing[q]
  BY <1>1 DEF SegmentInv, SegmentTypes
<1>3. manifestFile' \in Release /\ manifestFile' # NoManifest /\ FilesOf(manifestFile') \subseteq segmentFiles
  BY <1>1, SegmentMarkers DEF SegmentInv, PublicationIsBacked
<1>4. \A q \in Publisher : PublicationIsBacked(q)'
  BY <1>1, <1>2, <1>3 DEF SegmentInv, PublicationIsBacked, Validates
<1>5. SegmentsAreWhole'
  <2>1. \A m : Validates(m) => Validates(m)'
    BY <1>1 DEF Validates
  <2>2. Validates(manifestFile)'
    BY <1>1, <1>3 DEF Validates
  <2>3. previousFile # NoManifest => Validates(previousFile)
    BY DEF SegmentInv, SegmentsAreWhole
  <2>4. previousFile' # NoManifest => Validates(previousFile)'
    BY <1>1, <2>3 DEF Validates
  <2>5. \A m \in {manifestFile', previousFile'} \ {NoManifest} : Validates(m)'
    BY <1>1, <1>3, <2>1, <2>3 DEF Validates
  <2> QED
    BY <1>1, <1>3, <2>5 DEF SegmentInv, SegmentsAreWhole, Validates
<1>6. ReadsAreSteady'
  BY <1>1 DEF ReadersAtWork, ReadsAreSteady
<1> QED
  BY <1>1, <1>2, <1>3, <1>4, <1>5, <1>6 DEF SegmentInv, SegmentTypes

PagesAreOfAGeneration ==
    \A g \in Release, s \in Section :
        windows[<<g, s>>] # NoPage =>
            \E h \in Release : windows[<<g, s>>] = SectionOf[h][s] /\ (h = g \/ <<g, s>> \in strays)

LEMMA PagesAreWhole == ASSUME SegmentInv PROVE PagesAreOfAGeneration
<1>1. SegmentsAreWhole
  BY DEF SegmentInv
<1> QED
  BY ONLY <1>1, Zenon DEF SegmentsAreWhole, PagesAreOfAGeneration

LEMMA ReadsKeep ==
    ASSUME SegmentInv, NEW r \in PageReader,
           (\E g \in Release, s \in Section : ReadChecks(r, g, s)) \/ ReadLoads(r)
    PROVE  SegmentInv'
<1>0. UNCHANGED <<segmentFiles, manifestFile, previousFile, publishing>>
  BY DEF ReadChecks, ReadLoads
<1>1. \A p \in Publisher : PublicationIsBacked(p)'
  BY <1>0 DEF SegmentInv, PublicationIsBacked, Validates
<1>2. ASSUME NEW g \in Release, NEW s \in Section, ReadChecks(r, g, s) PROVE SegmentInv'
  <2>1. manifestFile = g /\ reading' = [reading EXCEPT ![r] = <<g, s>>] /\ UNCHANGED <<windows, crossed, strays>>
    BY <1>2 DEF ReadChecks
  <2>2. ReadsAreSteady' /\ reading' \in [PageReader -> (Release \X Section) \cup {NoPage}]
    BY <1>0, <2>1 DEF SegmentInv, SegmentTypes, ReadsAreSteady
  <2>3. SegmentsAreWhole'
    BY <1>0, <2>1 DEF SegmentInv, SegmentsAreWhole, Validates
  <2> QED
    BY <1>0, <1>1, <2>1, <2>2, <2>3 DEF SegmentInv, SegmentTypes
<1>3. CASE ReadLoads(r)
  <2>1. PICK g \in Release, s \in Section : reading[r] = <<g, s>>
    BY <1>3 DEF ReadLoads, SegmentInv, SegmentTypes
  <2>2. /\ reading' = [reading EXCEPT ![r] = NoPage] /\ crossed' = crossed \ {r}
        /\ \/ UNCHANGED <<windows, strays>>
           \/ /\ Validates(manifestFile)
              /\ windows' = [windows EXCEPT ![<<g, s>>] = SectionOf[manifestFile][s]]
              /\ strays' = strays \cup (IF r \in crossed THEN {<<g, s>>} ELSE {})
    BY <1>3, <2>1, <2>1 DEF ReadLoads
  <2>3. manifestFile = g \/ r \in crossed
    BY <1>3, <2>1 DEF SegmentInv, ReadsAreSteady, ReadLoads
  <2>4. windows' = [w \in Release \X Section |-> windows'[w]] /\ PagesAreOfAGeneration'
    <3>1. CASE UNCHANGED <<windows, strays>>
      BY <3>1, PagesAreWhole DEF SegmentInv, SegmentTypes, PagesAreOfAGeneration
    <3>2. CASE /\ Validates(manifestFile)
               /\ windows' = [windows EXCEPT ![<<g, s>>] = SectionOf[manifestFile][s]]
               /\ strays' = strays \cup (IF r \in crossed THEN {<<g, s>>} ELSE {})
      <4>1. /\ windows' = [w \in Release \X Section |-> windows'[w]]
            /\ windows'[<<g, s>>] = SectionOf[manifestFile][s]
            /\ \A w \in Release \X Section : w # <<g, s>> => windows'[w] = windows[w]
        BY <3>2 DEF SegmentInv, SegmentTypes
      <4>2. /\ manifestFile \in Release
            /\ manifestFile = g \/ <<g, s>> \in strays'
            /\ strays \subseteq strays'
        BY <2>3, <3>2 DEF Validates, SegmentInv, SegmentTypes
      <4>3. ASSUME NEW f \in Release, NEW q \in Section, windows'[<<f, q>>] # NoPage
            PROVE  \E h \in Release : windows'[<<f, q>>] = SectionOf[h][q] /\ (h = f \/ <<f, q>> \in strays')
        <5>1. CASE <<f, q>> = <<g, s>>
          <6>1. f = g /\ q = s
            BY <5>1
          <6> QED
            BY <4>1, <4>2, <6>1
        <5>2. CASE <<f, q>> # <<g, s>>
          BY <4>1, <4>2, <4>3, <5>2, PagesAreWhole DEF PagesAreOfAGeneration
        <5> QED
          BY <5>1, <5>2
      <4> QED
        BY <4>1, <4>3 DEF PagesAreOfAGeneration
    <3> QED
      BY <2>2, <3>1, <3>2
  <2>5. SegmentsAreWhole'
    BY <1>0, <2>4 DEF SegmentInv, SegmentsAreWhole, Validates, PagesAreOfAGeneration
  <2>6. ReadsAreSteady' /\ reading' \in [PageReader -> (Release \X Section) \cup {NoPage}]
    BY <1>0, <2>2 DEF SegmentInv, SegmentTypes, ReadsAreSteady
  <2> QED
    BY <1>0, <1>1, <2>4, <2>5, <2>6 DEF SegmentInv, SegmentTypes
<1> QED
  BY <1>2, <1>3

(* Both manifests can be read in full wherever publishers and recoveries die or overlap,
   and every page holds its section of one generation: the one it was read for, unless the
   manifest was replaced between that read's check and its load (publish,
   recover_previous and read of segments.py). *)
THEOREM SegmentsWhole == SegmentSpec => []SegmentsAreWhole
<1>1. SegmentInit => SegmentInv
  BY SegmentMarkers DEF SegmentInit, SegmentInv, SegmentTypes, PublicationIsBacked, ReadsAreSteady, SegmentsAreWhole
<1>2. SegmentInv /\ [SegmentNext]_segmentVars => SegmentInv'
  <2> SUFFICES ASSUME SegmentInv, [SegmentNext]_segmentVars PROVE SegmentInv'
    OBVIOUS
  <2>1. ASSUME NEW p \in Publisher,
               (\E release \in Release : PublishBegins(p, release)) \/ RecoverBegins(p) \/ PublisherDies(p)
        PROVE  SegmentInv'
    BY <2>1, PublishStartKeeps
  <2>2. ASSUME NEW p \in Publisher,
               WriteSection(p) \/ CopyManifest(p) \/ ReplacePrevious(p) \/ ReplaceManifest(p)
        PROVE  SegmentInv'
    BY <2>2, WriteSectionKeeps, CopyManifestKeeps, ReplacePreviousKeeps, ReplaceManifestKeeps
  <2>3. ASSUME NEW r \in PageReader, (\E g \in Release, s \in Section : ReadChecks(r, g, s)) \/ ReadLoads(r)
        PROVE  SegmentInv'
    BY <2>3, ReadsKeep
  <2>4. CASE UNCHANGED segmentVars
    BY <2>4 DEF segmentVars, SegmentInv, SegmentTypes, PublicationIsBacked, ReadsAreSteady, SegmentsAreWhole,
       Validates
  <2> QED
    BY <2>1, <2>2, <2>3, <2>4 DEF SegmentNext
<1>3. SegmentInv => SegmentsAreWhole
  BY DEF SegmentInv
<1> QED
  BY <1>1, <1>2, <1>3, PTL DEF SegmentSpec

----------------------------------------------------------------------------
(* The delivery ledger in memory *)

LedgerEvent ==
    [kind : {"TEST_EVIDENCE", "WINNER_PROMOTED", "DELIVERY_SEALED"}, delivery : Delivery, candidate : Candidate]
Link == [event : LedgerEvent, sequence : Nat, prev : Seq(LedgerEvent)]

LedgerTypes ==
    /\ chain \in Seq(Link)
    /\ winner \in [Delivery -> Candidate \cup {NoCandidate}]
    /\ asked = [c \in Caller |-> asked[c]]
    /\ \A c \in Caller : asked[c] # <<>> => \E e \in LedgerEvent : asked[c] = <<e>>

(* A promotion or a seal names the winner of its delivery, which never changes again. *)
NamesWinner(e) == e.kind # "TEST_EVIDENCE" => e.candidate = winner[e.delivery]

LedgerInv ==
    /\ LedgerTypes
    /\ VerifyAll
    /\ IsFiniteSet(Links) /\ Cardinality(Links) = Len(chain)
    /\ \A e \in Links : NamesWinner(e)
    /\ \A c \in Caller, e \in LedgerEvent : asked[c] = <<e>> => NamesWinner(e)

LEMMA PrefixesAgree ==
    ASSUME NEW S, NEW s \in Seq(S), NEW t \in Seq(S), NEW n \in Nat, n <= Len(s), n <= Len(t),
           \A i \in 1..n : s[i] = t[i]
    PROVE  SubSeq(s, 1, n) \in Seq(S) /\ SubSeq(s, 1, n) = SubSeq(t, 1, n)
<1>1. /\ SubSeq(s, 1, n) \in Seq(S) /\ Len(SubSeq(s, 1, n)) = n
      /\ \A i \in 1..n : SubSeq(s, 1, n)[i] = s[i]
  BY SubSeqProperties
<1>2. /\ SubSeq(t, 1, n) \in Seq(S) /\ Len(SubSeq(t, 1, n)) = n
      /\ \A i \in 1..n : SubSeq(t, 1, n)[i] = t[i]
  BY SubSeqProperties
<1> QED
  BY <1>1, <1>2, SeqEqual

LEMMA OneOfAtMostOne ==
    ASSUME NEW S, \A x, y \in S : x = y
    PROVE  IsFiniteSet(S) /\ Cardinality(S) <= 1
<1>1. CASE S = {}
  BY <1>1, FS_EmptySet
<1>2. CASE S # {}
  <2>1. PICK x : S = {x}
    BY <1>2
  <2>2. IsFiniteSet({x}) /\ Cardinality({x}) = 1
    BY FS_Singleton
  <2> QED
    BY <2>1, <2>2
<1> QED
  BY <1>1, <1>2

LEMMA LinksAreEvents ==
    ASSUME LedgerTypes
    PROVE  /\ Len(chain) \in Nat /\ \A n \in 1..Len(chain) : chain[n].event \in LedgerEvent
           /\ Links \subseteq LedgerEvent
<1>1. Len(chain) \in Nat /\ \A n \in 1..Len(chain) : chain[n] \in Link
  BY DEF LedgerTypes
<1>2. \A x \in Link : x.event \in LedgerEvent
  BY DEF Link
<1> QED
  BY <1>1, <1>2 DEF Links

LEMMA LedgerIsSafe == LedgerInv => OneWinner
<1> SUFFICES ASSUME LedgerInv PROVE OneWinner
  OBVIOUS
<1>1. ASSUME NEW d \in Delivery PROVE Cardinality(EventsOf("WINNER_PROMOTED", d)) <= 1
  <2>1. \A e, f \in EventsOf("WINNER_PROMOTED", d) : e = f
    BY LinksAreEvents DEF LedgerInv, EventsOf, NamesWinner, LedgerEvent
  <2> QED
    BY <2>1, OneOfAtMostOne
<1>2. ASSUME NEW d \in Delivery, NEW p \in EventsOf("WINNER_PROMOTED", d), NEW s \in EventsOf("DELIVERY_SEALED", d)
      PROVE  s.candidate = p.candidate
  BY <1>2 DEF LedgerInv, EventsOf, NamesWinner
<1> QED
  BY <1>1, <1>2 DEF LedgerInv, OneWinner

(* A chain that is extended by one event, behind the hash of all events before it. *)
LEMMA ChainGrows ==
    ASSUME LedgerTypes, VerifyAll, NEW e \in LedgerEvent,
           chain' = Append(chain, [event |-> e, sequence |-> Len(chain), prev |-> HashOf(Len(chain))])
    PROVE  chain' \in Seq(Link) /\ Len(chain') = Len(chain) + 1 /\ Links' = Links \cup {e} /\ VerifyAll'
<1> DEFINE events == [i \in 1..Len(chain) |-> chain[i].event]
           grown == [i \in 1..Len(chain') |-> chain'[i].event]
           link == [event |-> e, sequence |-> Len(chain), prev |-> HashOf(Len(chain))]
<1>1. events \in Seq(LedgerEvent) /\ Len(events) = Len(chain)
  BY LinksAreEvents
<1>2. link \in Link /\ link.event = e /\ link.sequence = Len(chain) /\ link.prev = HashOf(Len(chain))
  <2>1. HashOf(Len(chain)) \in Seq(LedgerEvent)
    BY <1>1, PrefixesAgree, LinksAreEvents DEF HashOf
  <2> QED
    BY <2>1, LinksAreEvents DEF Link
<1>3. chain' = Append(chain, link)
  OBVIOUS
<1> HIDE DEF link
<1>4. /\ chain' \in Seq(Link) /\ Len(chain') = Len(chain) + 1 /\ Len(chain) \in Nat
      /\ chain'[Len(chain) + 1] = link
      /\ \A i \in 1..Len(chain) : chain'[i] = chain[i]
  BY <1>2, <1>3 DEF LedgerTypes
<1>5. grown \in Seq(LedgerEvent) /\ Len(grown) = Len(chain) + 1
  <2>1. \A i \in 1..Len(chain') : chain'[i].event \in LedgerEvent
    BY <1>2, <1>4, LinksAreEvents
  <2> QED
    BY <1>4, <2>1
<1>6. \A n \in 0..Len(chain) : HashOf(n)' = HashOf(n)
  BY <1>1, <1>4, <1>5, PrefixesAgree DEF HashOf
<1>7. VerifyAll'
  BY <1>2, <1>4, <1>6 DEF VerifyAll
<1>8. Links' = Links \cup {e}
  BY <1>2, <1>4 DEF Links
<1> QED
  BY <1>4, <1>7, <1>8

(* append_event, of an event that names the winner *)
LEMMA AppendKeeps ==
    ASSUME LedgerInv, NEW e \in LedgerEvent, NamesWinner(e), AppendEvent(e), UNCHANGED winner,
           asked' = [c \in Caller |-> asked'[c]],
           \A c \in Caller : asked'[c] \in {asked[c], <<>>}
    PROVE  LedgerInv'
<1>0. /\ \A c \in Caller : asked'[c] # <<>> => asked'[c] = asked[c]
      /\ \A f : NamesWinner(f) => NamesWinner(f)'
      /\ \A f : <<f>> # <<>>
  BY DEF NamesWinner
<1>1. CASE e \in Links
  <2>1. UNCHANGED chain
    BY <1>1 DEF AppendEvent
  <2>2. UNCHANGED Links /\ VerifyAll' = VerifyAll
    BY <2>1 DEF Links, VerifyAll, HashOf
  <2> QED
    BY <1>0, <2>1, <2>2 DEF LedgerInv, LedgerTypes
<1>2. CASE e \notin Links
  <2>1. chain' \in Seq(Link) /\ Len(chain') = Len(chain) + 1 /\ Links' = Links \cup {e} /\ VerifyAll'
    BY <1>2, ChainGrows DEF AppendEvent, LedgerInv
  <2>2. IsFiniteSet(Links)' /\ Cardinality(Links)' = Cardinality(Links) + 1
    BY <1>2, <2>1, FS_AddElement DEF LedgerInv
  <2>3. Len(chain) \in Nat /\ NamesWinner(e)'
    BY <1>0, LinksAreEvents DEF LedgerInv
  <2>4. LedgerTypes'
    BY <1>0, <2>1 DEF LedgerInv, LedgerTypes
  <2>5. Cardinality(Links)' = Len(chain)' /\ \A f \in Links' : NamesWinner(f)'
    BY <1>0, <2>1, <2>2, <2>3 DEF LedgerInv
  <2> QED
    BY <1>0, <2>1, <2>2, <2>4, <2>5 DEF LedgerInv
<1> QED
  BY <1>1, <1>2


(* An action that appends nothing, lets one caller ask and leaves what is named named. *)
LEMMA AskingKeeps ==
    ASSUME LedgerInv, UNCHANGED chain, winner' \in [Delivery -> Candidate \cup {NoCandidate}],
           \A d \in Delivery : winner[d] # NoCandidate => winner'[d] = winner[d],
           NEW c \in Caller, NEW e \in LedgerEvent, NamesWinner(e)', asked' = [asked EXCEPT ![c] = <<e>>]
    PROVE  LedgerInv'
<1>1. UNCHANGED Links /\ VerifyAll' = VerifyAll
  BY DEF Links, VerifyAll, HashOf
<1>2. ASSUME NEW f \in LedgerEvent, NamesWinner(f) PROVE NamesWinner(f)'
  <2>1. f.delivery \in Delivery /\ f.candidate # NoCandidate
    BY LedgerAssumption DEF LedgerEvent
  <2> QED
    BY <1>2, <2>1 DEF NamesWinner
<1>3. \A f \in Links' : NamesWinner(f)'
  BY <1>1, <1>2, LinksAreEvents DEF LedgerInv
<1>4. /\ asked' = [b \in Caller |-> asked'[b]] /\ asked'[c] = <<e>>
      /\ \A b \in Caller : b # c => asked'[b] = asked[b]
  BY DEF LedgerInv, LedgerTypes
<1>5. \A f \in LedgerEvent : <<f>> = <<e>> => f = e
  OBVIOUS
<1>6. \A b \in Caller, f \in LedgerEvent : asked'[b] = <<f>> => NamesWinner(f)'
  BY <1>2, <1>4, <1>5 DEF LedgerInv
<1>7. LedgerTypes'
  BY <1>4 DEF LedgerInv, LedgerTypes
<1>8. IsFiniteSet(Links)' /\ Cardinality(Links)' = Len(chain)'
  BY <1>1 DEF LedgerInv
<1> QED
  BY <1>1, <1>3, <1>6, <1>7, <1>8 DEF LedgerInv

(* However promotions and seals of one attempt race between the lock and the append, the
   chain verifies, has no event twice, names one winner per delivery, and every seal names
   that one (promote_winner, seal_delivery and append_event of ledger.py). *)
THEOREM WinnerIsOne == LedgerSpec => []OneWinner
<1>1. LedgerInit => LedgerInv
  <2> SUFFICES ASSUME LedgerInit PROVE LedgerInv
    OBVIOUS
  <2>1. chain = <<>> /\ Len(chain) = 0 /\ Links = {}
    BY DEF LedgerInit, Links
  <2>2. VerifyAll /\ IsFiniteSet(Links) /\ Cardinality(Links) = Len(chain)
    BY <2>1, FS_EmptySet DEF VerifyAll
  <2>3. LedgerTypes
    BY <2>1 DEF LedgerInit, LedgerTypes
  <2> QED
    BY <2>1, <2>2, <2>3 DEF LedgerInit, LedgerInv
<1>2. LedgerInv /\ [LedgerNext]_ledgerVars => LedgerInv'
  <2> SUFFICES ASSUME LedgerInv, [LedgerNext]_ledgerVars PROVE LedgerInv'
    OBVIOUS
  <2>1. ASSUME NEW d \in Delivery, NEW candidate \in Candidate, Evidence(d, candidate) PROVE LedgerInv'
    <3> DEFINE e == Event("TEST_EVIDENCE", d, candidate)
    <3>1. e \in LedgerEvent /\ NamesWinner(e)
      BY DEF Event, LedgerEvent, NamesWinner
    <3> QED
      BY <2>1, <3>1, AppendKeeps DEF Evidence, LedgerInv, LedgerTypes
  <2>2. ASSUME NEW c \in Caller, NEW d \in Delivery, NEW candidate \in Candidate, PromoteBegin(c, d, candidate)
        PROVE  LedgerInv'
    <3> DEFINE e == Event("WINNER_PROMOTED", d, candidate)
    <3>1. e \in LedgerEvent /\ e.delivery = d /\ e.candidate = candidate
      BY DEF Event, LedgerEvent
    <3>2. /\ winner' \in [Delivery -> Candidate \cup {NoCandidate}] /\ winner'[d] = candidate
          /\ \A b \in Delivery : winner[b] # NoCandidate => winner'[b] = winner[b]
      BY <2>2 DEF PromoteBegin, LedgerInv, LedgerTypes
    <3>3. UNCHANGED chain /\ asked' = [asked EXCEPT ![c] = <<e>>]
      BY <2>2 DEF PromoteBegin
    <3> HIDE DEF e
    <3>4. NamesWinner(e)'
      BY <3>1, <3>2 DEF NamesWinner
    <3> QED
      BY <3>1, <3>2, <3>3, <3>4, AskingKeeps
  <2>3. ASSUME NEW c \in Caller, NEW d \in Delivery, SealBegin(c, d) PROVE LedgerInv'
    <3>1. PICK candidate \in Candidate : candidate = winner[d]
      BY <2>3 DEF SealBegin, LedgerInv, LedgerTypes
    <3> DEFINE e == Event("DELIVERY_SEALED", d, candidate)
    <3>2. e \in LedgerEvent /\ e.delivery = d /\ e.candidate = winner[d]
      BY <3>1 DEF Event, LedgerEvent
    <3>3. UNCHANGED <<chain, winner>> /\ asked' = [asked EXCEPT ![c] = <<e>>]
      BY <2>3, <3>1 DEF SealBegin
    <3> HIDE DEF e
    <3>4. NamesWinner(e)'
      BY <3>2, <3>3 DEF NamesWinner
    <3> QED
      BY <3>2, <3>3, <3>4, AskingKeeps DEF LedgerInv, LedgerTypes
  <2>4. ASSUME NEW c \in Caller, Finish(c) PROVE LedgerInv'
    <3>1. PICK e \in LedgerEvent : asked[c] = <<e>>
      BY <2>4 DEF Finish, LedgerInv, LedgerTypes
    <3>2. Head(<<e>>) = e
      OBVIOUS
    <3>3. NamesWinner(e) /\ AppendEvent(e) /\ UNCHANGED winner /\ asked' = [asked EXCEPT ![c] = <<>>]
      BY <2>4, <3>1, <3>2 DEF Finish, LedgerInv
    <3>4. asked' = [b \in Caller |-> asked'[b]] /\ \A b \in Caller : asked'[b] \in {asked[b], <<>>}
      BY <3>3 DEF LedgerInv, LedgerTypes
    <3> QED
      BY <3>3, <3>4, AppendKeeps
  <2>5. CASE UNCHANGED ledgerVars
    <3>1. UNCHANGED <<chain, winner, asked>>
      BY <2>5 DEF ledgerVars
    <3>2. UNCHANGED Links /\ VerifyAll' = VerifyAll
      BY <3>1 DEF Links, VerifyAll, HashOf
    <3>3. \A e : NamesWinner(e) => NamesWinner(e)'
      BY <3>1 DEF NamesWinner
    <3> QED
      BY <3>1, <3>2, <3>3 DEF LedgerInv, LedgerTypes
  <2> QED
    BY <2>1, <2>2, <2>3, <2>4, <2>5 DEF LedgerNext
<1> QED
  BY <1>1, <1>2, LedgerIsSafe, PTL DEF LedgerSpec

----------------------------------------------------------------------------
(* The ledger's files *)

StoredEvent == [ledger : Source, sequence : Nat]
IndexEntry == [sequence : Nat, offset : Nat, event : StoredEvent]

StoreTypes ==
    /\ body \in Seq(StoredEvent \cup {Torn})
    /\ index \in Seq(IndexEntry)
    /\ acked \subseteq StoredEvent

(* Every entry names the record it was written for, and it is the one of its place. *)
EntriesHold ==
    \A n \in 1..Len(index) : index[n].sequence = n - 1 /\ index[n].event.sequence = n - 1 /\ Matches(index[n])
HeaderHolds == acked # {} => hbi = "whole"
AckedHold == \A e \in acked : e.sequence < Len(index) /\ index[e.sequence + 1].event = e

(* The holder of the lock is about to index the record it wrote, or to cut the body behind
   the records of a contiguous index. *)
StepIsDue ==
    \/ step = <<>>
    \/ \E entry \in IndexEntry :
          /\ step = <<"index", entry>> /\ entry.sequence = Len(index) /\ entry.event.sequence = Len(index)
          /\ Matches(entry)
    \/ step = <<"body", Len(index)>> /\ Contiguous

StoredInv == StoreTypes /\ EntriesHold /\ AckedHold /\ StepIsDue /\ HeaderHolds

LEMMA IndexIsTyped ==
    ASSUME StoreTypes
    PROVE  /\ Len(index) \in Nat /\ Len(body) \in Nat
           /\ \A n \in 1..Len(index) : index[n] \in IndexEntry /\ index[n].offset \in Nat
                                       /\ index[n].event \in StoredEvent
<1>1. Len(index) \in Nat /\ Len(body) \in Nat /\ \A n \in 1..Len(index) : index[n] \in IndexEntry
  BY DEF StoreTypes
<1>2. \A x \in IndexEntry : x.offset \in Nat /\ x.event \in StoredEvent
  BY DEF IndexEntry
<1> QED
  BY <1>1, <1>2

(* Where every event has its place as sequence, following is naming the same ledger. *)
LEMMA OneLedger ==
    ASSUME StoreTypes, EntriesHold, \A n \in 1..Len(index) : Follows(n)
    PROVE  \A n \in 1..Len(index) : index[n].event.ledger = index[1].event.ledger
<1> DEFINE Odd == {n \in 1..Len(index) : index[n].event.ledger # index[1].event.ledger}
<1> SUFFICES ASSUME Odd # {} PROVE FALSE
  OBVIOUS
<1>1. PICK n \in Odd : \A m \in Odd : n <= m
  <2>1. Odd \in SUBSET Nat
    BY IndexIsTyped
  <2> QED
    BY <2>1, LeastNumber
<1>2. n \in 2..Len(index) /\ n - 1 \in 1..Len(index) /\ n - 1 \notin Odd
  BY <1>1, IndexIsTyped
<1>3. index[n].event.sequence = n - 1 /\ Follows(n)
  BY <1>2 DEF EntriesHold
<1> QED
  BY <1>1, <1>2, <1>3, IndexIsTyped DEF Follows

LEMMA StoredIsSafe == StoredInv => StoreSpeaksTrue
<1> SUFFICES ASSUME StoredInv PROVE StoreSpeaksTrue
  OBVIOUS
<1>1. AckedIsRead
  <2> SUFFICES ASSUME NEW e \in acked
               PROVE  /\ e.sequence < Len(index) /\ index[e.sequence + 1].event = e
                      /\ Matches(index[e.sequence + 1])
                      /\ Readable(e.sequence + 1) \/ (half /\ (Recoverable \/ ~ Contiguous))
    BY DEF AckedIsRead
  <2>1. PICK n \in 1..Len(index) : n = e.sequence + 1 /\ e.sequence < Len(index)
    <3>1. e.sequence \in Nat
      BY DEF StoredInv, StoreTypes, StoredEvent
    <3> QED
      BY <3>1, IndexIsTyped DEF StoredInv, AckedHold
  <2>2. index[n].event = e /\ Matches(index[n]) /\ index[n].sequence = n - 1
    BY <2>1 DEF StoredInv, EntriesHold, AckedHold
  <2>3. CASE half
    BY <2>1, <2>2, <2>3 DEF StoredInv, HeaderHolds, EntriesHold, Recoverable
  <2>4. CASE ~ half
    BY <2>1, <2>2, <2>4, IndexIsTyped DEF StoredInv, Readable
  <2> QED
    BY <2>1, <2>2, <2>3, <2>4
<1>2. ASSUME VerifyStore, NEW n \in 1..Len(index)
      PROVE  index[n].event = EventOf(index[1].event.ledger, n - 1)
  <2>1. index[n].event.ledger = index[1].event.ledger
    BY <1>2, OneLedger DEF StoredInv, VerifyStore
  <2>2. index[n].event \in StoredEvent /\ index[n].event.sequence = n - 1
    BY IndexIsTyped DEF StoredInv, EntriesHold
  <2> QED
    BY <2>1, <2>2 DEF StoredEvent, EventOf
<1> QED
  BY <1>1, <1>2 DEF StoreSpeaksTrue, ValidIsOneChain


(* A body that keeps the records the index names keeps what the index holds. *)
LEMMA RecordsStay ==
    ASSUME StoreTypes, NEW x \in StoredEvent \cup {Torn}, body' = Append(body, x)
    PROVE  /\ body' \in Seq(StoredEvent \cup {Torn}) /\ Len(body') = Len(body) + 1 /\ body'[Len(body) + 1] = x
           /\ \A entry \in IndexEntry : Matches(entry) => Matches(entry)'
<1>1. /\ body' \in Seq(StoredEvent \cup {Torn}) /\ Len(body') = Len(body) + 1 /\ body'[Len(body) + 1] = x
      /\ \A n \in 1..Len(body) : body'[n] = body[n]
  BY DEF StoreTypes
<1>2. \A entry \in IndexEntry : entry.offset \in Nat
  BY DEF IndexEntry
<1> QED
  BY <1>1, <1>2, IndexIsTyped DEF Matches

LEMMA AppendBodyKeeps == ASSUME StoredInv, NEW l \in Source, AppendBody(l) PROVE StoredInv'
<1> DEFINE event == EventOf(l, Len(index))
           entry == [sequence |-> Len(index), offset |-> Len(body), event |-> event]
<1>1. /\ body' = Append(body, event) /\ step' = <<"index", entry>> /\ UNCHANGED <<index, acked, hbi>>
  BY DEF AppendBody
<1>2. PICK n \in Nat, o \in Nat : n = Len(index) /\ o = Len(body)
  BY IndexIsTyped DEF StoredInv
<1> DEFINE e == EventOf(l, n)
           x == [sequence |-> n, offset |-> o, event |-> e]
<1>3. e \in StoredEvent /\ x \in IndexEntry /\ e.sequence = n /\ x.sequence = n /\ x.offset = o /\ x.event = e
  BY DEF EventOf, StoredEvent, IndexEntry
<1>4. body' = Append(body, e) /\ step' = <<"index", x>>
  BY <1>1, <1>2
<1> HIDE DEF event, entry, e, x
<1>5. /\ body' \in Seq(StoredEvent \cup {Torn}) /\ Len(body') = Len(body) + 1 /\ body'[Len(body) + 1] = e
      /\ \A f \in IndexEntry : Matches(f) => Matches(f)'
  BY <1>3, <1>4, RecordsStay DEF StoredInv
<1>6. Matches(x)'
  BY <1>2, <1>3, <1>5 DEF Matches
<1>7. EntriesHold'
  BY <1>1, <1>5, IndexIsTyped DEF StoredInv, EntriesHold
<1>8. StepIsDue'
  BY <1>1, <1>2, <1>3, <1>4, <1>6 DEF StepIsDue
<1> QED
  BY <1>1, <1>5, <1>7, <1>8 DEF StoredInv, StoreTypes, AckedHold, HeaderHolds

(* The entry that is due is written. *)
LEMMA EntryWrittenKeeps ==
    ASSUME StoredInv, step # <<>>, step[1] = "index", index' = Append(index, step[2]), UNCHANGED body,
           acked' \in {acked, acked \cup {step[2].event}}, hbi' = "whole", step' = <<>>
    PROVE  StoredInv'
<1>1. PICK entry \in IndexEntry :
         /\ step = <<"index", entry>> /\ entry.sequence = Len(index) /\ entry.event.sequence = Len(index)
         /\ Matches(entry)
  BY DEF StoredInv, StepIsDue
<1>2. step[2] = entry
  BY <1>1
<1>3. entry.event \in StoredEvent
  BY DEF IndexEntry
<1>4. /\ index' \in Seq(IndexEntry) /\ Len(index') = Len(index) + 1 /\ index'[Len(index) + 1] = entry
      /\ \A n \in 1..Len(index) : index'[n] = index[n]
  BY <1>2 DEF StoredInv, StoreTypes
<1>5. StoreTypes'
  BY <1>2, <1>3, <1>4 DEF StoredInv, StoreTypes
<1>6. \A f : Matches(f)' <=> Matches(f)
  BY DEF Matches
<1>7. EntriesHold'
  BY <1>1, <1>4, <1>6, IndexIsTyped DEF StoredInv, EntriesHold
<1>8. AckedHold'
  <2> SUFFICES ASSUME NEW e \in acked' PROVE e.sequence < Len(index') /\ index'[e.sequence + 1].event = e
    BY DEF AckedHold
  <2>1. e \in acked \/ e = entry.event
    BY <1>2
  <2>2. e.sequence \in Nat
    BY <1>5 DEF StoreTypes, StoredEvent
  <2> QED
    BY <1>1, <1>4, <2>1, <2>2, IndexIsTyped DEF StoredInv, AckedHold
<1> QED
  BY <1>5, <1>7, <1>8 DEF StoredInv, StepIsDue, HeaderHolds

LEMMA DieKeeps == ASSUME StoredInv, Die PROVE StoredInv'
<1>0. step' = <<>> /\ UNCHANGED acked
  BY DEF Die
<1>1. CASE TornBody
  <2>1. body' = Append(body, Torn) /\ UNCHANGED <<index, hbi>>
    BY <1>1 DEF TornBody
  <2>2. body' \in Seq(StoredEvent \cup {Torn}) /\ \A entry \in IndexEntry : Matches(entry) => Matches(entry)'
    BY <2>1, RecordsStay DEF StoredInv
  <2>3. EntriesHold'
    BY <2>1, <2>2, IndexIsTyped DEF StoredInv, EntriesHold
  <2> QED
    BY <1>0, <2>1, <2>2, <2>3 DEF StoredInv, StoreTypes, AckedHold, StepIsDue, HeaderHolds
<1>2. CASE UNCHANGED <<body, index>> /\ (hbi' = "whole" \/ UNCHANGED hbi \/ hbi = "empty")
  <2>1. HeaderHolds'
    BY <1>0, <1>2 DEF StoredInv, HeaderHolds
  <2> QED
    BY <1>0, <1>2, <2>1 DEF StoredInv, StoreTypes, EntriesHold, Matches, AckedHold, StepIsDue
<1>3. CASE step # <<>> /\ step[1] = "index" /\ index' = Append(index, step[2]) /\ hbi' = "whole" /\ UNCHANGED body
  BY <1>0, <1>3, EntryWrittenKeeps
<1> QED
  BY <1>1, <1>2, <1>3 DEF Die, TornIndex

(* What is cut away behind a contiguous index is named by none of its entries. *)
LEMMA RecoverBodyKeeps == ASSUME StoredInv, RecoverBody PROVE StoredInv'
<1>1. /\ step = <<"body", Len(index)>> /\ Contiguous
  BY DEF RecoverBody, StoredInv, StepIsDue
<1>2. step[2] = Len(index)
  BY <1>1
<1>3. body' = SubSeq(body, 1, Len(index)) /\ step' = <<>> /\ UNCHANGED <<index, acked, hbi>>
  BY <1>2 DEF RecoverBody
<1>4. Len(index) <= Len(body)
  <2>1. CASE Len(index) = 0
    BY <2>1, IndexIsTyped DEF StoredInv
  <2>2. CASE Len(index) # 0
    <3>1. Len(index) \in 1..Len(index)
      BY <2>2, IndexIsTyped DEF StoredInv
    <3> QED
      BY <1>1, <3>1, IndexIsTyped DEF StoredInv, EntriesHold, Matches, Contiguous
  <2> QED
    BY <2>1, <2>2
<1>5. /\ body' \in Seq(StoredEvent \cup {Torn}) /\ Len(body') = Len(index)
      /\ \A n \in 1..Len(index) : body'[n] = body[n]
  <2>1. \A n \in 1..Len(index) : body[n] \in StoredEvent \cup {Torn}
    BY <1>4, IndexIsTyped DEF StoredInv, StoreTypes
  <2> QED
    BY <1>3, <2>1, SubSeqProperties, IndexIsTyped DEF StoredInv
<1>6. EntriesHold'
  BY <1>1, <1>3, <1>5, IndexIsTyped DEF StoredInv, EntriesHold, Matches, Contiguous
<1> QED
  BY <1>3, <1>5, <1>6 DEF StoredInv, StoreTypes, AckedHold, StepIsDue, HeaderHolds

(* Through deaths between any two writes, torn and orphaned records and recoveries, an
   event append returned for stays in the files under its sequence and is read back
   unless the index ends in half an entry, which recover_tail cuts off as long as no
   orphan lies among the indexed records; and verify answers valid only for a prefix of
   one ledger's chain (append, recover_tail and verify of ledger_store.py). *)
THEOREM StoreIsTrue == LedgerStoreSpec => []StoreSpeaksTrue
<1>1. LedgerStoreInit => StoredInv
  BY DEF LedgerStoreInit, StoredInv, StoreTypes, EntriesHold, AckedHold, StepIsDue, HeaderHolds
<1>2. StoredInv /\ [LedgerStoreNext]_storedVars => StoredInv'
  <2> SUFFICES ASSUME StoredInv, [LedgerStoreNext]_storedVars PROVE StoredInv'
    OBVIOUS
  <2>1. CASE AppendIndex
    BY <2>1, EntryWrittenKeeps DEF AppendIndex
  <2>2. CASE RecoverIndex
    BY <2>2 DEF RecoverIndex, Recoverable, StoredInv, StoreTypes, EntriesHold, Matches, AckedHold, StepIsDue, Contiguous,
       HeaderHolds
  <2>3. CASE UNCHANGED storedVars
    BY <2>3 DEF storedVars, StoredInv, StoreTypes, EntriesHold, Matches, AckedHold, StepIsDue, Contiguous, HeaderHolds
  <2> QED
    BY <2>1, <2>2, <2>3, AppendBodyKeeps, DieKeeps, RecoverBodyKeeps DEF LedgerStoreNext
<1> QED
  BY <1>1, <1>2, StoredIsSafe, PTL DEF LedgerStoreSpec

----------------------------------------------------------------------------
(* The projection store *)

ProjectionTypes ==
    /\ envelopes \in [Stable -> Envelope \cup {NoEnvelope}]
    /\ storeFile.envelopes \in [Stable -> Envelope \cup {NoEnvelope}]

(* Every envelope that is held is of the generation the store is of, but those a swap
   did not name. *)
OneEra(held, generation, behind) ==
    \A s \in Stable : held[s] # NoEnvelope /\ s \notin behind => held[s].era = generation

ProjectionInv ==
    /\ ProjectionTypes
    /\ OneEra(envelopes, era, unnamed)
    /\ OneEra(storeFile.envelopes, storeFile.era, savedUnnamed)
    /\ era = NoEra => Held = {}
    /\ storeFile.era = NoEra => \A s \in Stable : storeFile.envelopes[s] = NoEnvelope

LEMMA ProjectionIsSafe == ProjectionInv => NeverMixed
<1> SUFFICES ASSUME ProjectionInv PROVE NeverMixed
  OBVIOUS
<1>1. ASSUME NEW s \in Stable, storeFile.envelopes[s] # NoEnvelope, savedUnnamed = {} PROVE StoreLoads(storeFile)
  <2> DEFINE eras == {storeFile.envelopes[t].era : t \in {u \in Stable : storeFile.envelopes[u] # NoEnvelope}}
  <2>1. storeFile.envelopes[s].era \in Era /\ storeFile.envelopes[s].era = storeFile.era
    BY <1>1 DEF ProjectionInv, ProjectionTypes, OneEra, Envelope
  <2>2. eras = {storeFile.era}
    BY <1>1, <2>1 DEF ProjectionInv, OneEra
  <2> QED
    BY <2>1, <2>2, ProjectionAssumption DEF StoreLoads
<1>2. \A s \in Held \ unnamed : envelopes[s].era = era
  BY DEF ProjectionInv, OneEra, Held
<1> QED
  BY <1>1, <1>2 DEF NeverMixed

LEMMA PublishEnvelopeKeeps ==
    ASSUME ProjectionInv, NEW s \in Stable, NEW e \in Envelope, PublishEnvelope(s, e)
    PROVE  ProjectionInv'
<1>1. /\ era \in {NoEra, e.era} /\ era' = e.era /\ UNCHANGED <<storeFile, savedUnnamed>>
      /\ envelopes' = [envelopes EXCEPT ![s] = e] /\ unnamed' = unnamed \ {s}
  BY DEF PublishEnvelope
<1>2. e.era \in Era /\ e.era # NoEra
  BY ProjectionAssumption DEF Envelope
<1>3. \A t \in Stable : envelopes[t] # NoEnvelope /\ t \notin unnamed => envelopes[t].era = e.era
  BY <1>1 DEF ProjectionInv, OneEra, Held
<1>4. OneEra(envelopes, era, unnamed)'
  BY <1>1, <1>3 DEF ProjectionInv, ProjectionTypes, OneEra
<1> QED
  BY <1>1, <1>2, <1>4 DEF ProjectionInv, ProjectionTypes, OneEra

LEMMA ApplyChangesKeeps ==
    ASSUME ProjectionInv, NEW next \in Era, NEW base \in Era \cup {NoEra},
           NEW names \in SUBSET Stable, NEW deleted \in SUBSET Stable, NEW changed \in [names -> Payload],
           ApplyChanges(next, base, changed, deleted)
    PROVE  ProjectionInv'
<1>1. /\ era' = next /\ UNCHANGED <<storeFile, savedUnnamed>> /\ DOMAIN changed = names /\ next # NoEra
      /\ unnamed' = (unnamed \cup IF era # NoEra /\ next # era THEN Held ELSE {}) \ (names \cup deleted)
      /\ envelopes' = [s \in Stable |->
            IF s \in deleted THEN NoEnvelope
            ELSE IF s \in names THEN [era |-> next, payload |-> changed[s]] ELSE envelopes[s]]
  BY ProjectionAssumption DEF ApplyChanges
<1>2. \A s \in names : /\ [era |-> next, payload |-> changed[s]] \in Envelope
                       /\ [era |-> next, payload |-> changed[s]].era = next
  BY DEF Envelope
<1>3. \A s \in Stable \ (names \cup deleted) :
         envelopes[s] # NoEnvelope => s \in unnamed' \/ envelopes[s].era = next
  BY <1>1 DEF ProjectionInv, OneEra, Held
<1>4. envelopes' \in [Stable -> Envelope \cup {NoEnvelope}]
  BY <1>1, <1>2 DEF ProjectionInv, ProjectionTypes
<1>5. OneEra(envelopes, era, unnamed)'
  BY <1>1, <1>2, <1>3 DEF OneEra
<1> QED
  BY <1>1, <1>4, <1>5 DEF ProjectionInv, ProjectionTypes

(* An envelope of another generation than the store's was left behind by a swap that did
   not name it: no publication, no delta that names what it finds, no save and no load
   mixes two generations; and what was saved with nothing left behind can be loaded
   (publish, apply_delta, save and load of projection.py). *)
THEOREM ErasNeverMix == ProjectionSpec => []NeverMixed
<1>1. ProjectionInit => ProjectionInv
  BY DEF ProjectionInit, ProjectionInv, ProjectionTypes, OneEra, Held
<1>2. ProjectionInv /\ [ProjectionNext]_projectionVars => ProjectionInv'
  <2> SUFFICES ASSUME ProjectionInv, [ProjectionNext]_projectionVars PROVE ProjectionInv'
    OBVIOUS
  <2>1. CASE SaveStore
    <3>1. /\ storeFile'.envelopes = envelopes /\ storeFile'.era = era /\ savedUnnamed' = unnamed
          /\ UNCHANGED <<envelopes, era, unnamed>>
      BY <2>1 DEF SaveStore
    <3> QED
      BY <3>1 DEF ProjectionInv, ProjectionTypes, OneEra, Held
  <2>2. CASE LoadStore
    <3>1. /\ StoreLoads(storeFile) /\ UNCHANGED <<storeFile, savedUnnamed>>
          /\ envelopes' = storeFile.envelopes /\ era' = storeFile.era
      BY <2>2 DEF LoadStore
    <3>2. \A s \in Stable : storeFile.envelopes[s] # NoEnvelope => storeFile.envelopes[s].era = storeFile.era
      BY <3>1 DEF StoreLoads
    <3> QED
      BY <3>1, <3>2 DEF ProjectionInv, ProjectionTypes, OneEra, Held
  <2>3. CASE UNCHANGED projectionVars
    BY <2>3 DEF projectionVars, ProjectionInv, ProjectionTypes, OneEra, Held
  <2> QED
    BY <2>1, <2>2, <2>3, PublishEnvelopeKeeps, ApplyChangesKeeps DEF ProjectionNext
<1> QED
  BY <1>1, <1>2, ProjectionIsSafe, PTL DEF ProjectionSpec


----------------------------------------------------------------------------
(* The Mapper's handoff *)

PrepareStep == {"again", "payload", "compare", "match", "compile", "sidecar", "open"}

Pin == Revision \cup {NoSidecar}

(* The snapshot names a, and holds its facts unless it was compiled while the Mapper wrote. *)
SnapshotIs(a) == \E b \in Pin : projection = [pin |-> a, facts |-> b] /\ (b = a \/ mixed)

MapperTypes ==
    /\ preparing = [p \in Preparer |-> preparing[p]]
    /\ artifacts \in Revision /\ tree \in Revision
    /\ projection = NoSnapshot \/ \E a \in Pin : SnapshotIs(a)

(* What a preparation has read is the Mapper's last run, unless there was one since; and the
   snapshot it will open is its own handoff's, unless another preparation replaced it. *)
Reads(p, h, f) == p \in rewritten \/ (h = artifacts /\ f = artifacts)
Opens(p, s, h) == s \in {"sidecar", "open"} => \E a \in Pin : SnapshotIs(a) /\ (a = h \/ p \in overtaken)

PreparesItsOwn(p) ==
    preparing[p] # <<>> =>
        \E s \in PrepareStep, h, f \in Revision :
            preparing[p] = <<s, h, f>> /\ Reads(p, h, f) /\ Opens(p, s, h)

MapperInv ==
    /\ MapperTypes
    /\ \A p \in Preparer : PreparesItsOwn(p)
    /\ PreparedIsPinned

(* A preparation goes on to a step at which it has read, and will open, what it must. *)
LEMMA PreparationMoves ==
    ASSUME MapperInv, NEW p \in Preparer, NEW s \in PrepareStep, NEW h \in Revision, NEW f \in Revision,
           preparing' = [preparing EXCEPT ![p] = <<s, h, f>>],
           UNCHANGED <<tree, artifacts, projection, prepared, overtaken, rewritten, mixed>>,
           Reads(p, h, f), Opens(p, s, h)
    PROVE  MapperInv'
<1>1. /\ preparing' = [q \in Preparer |-> preparing'[q]] /\ preparing'[p] = <<s, h, f>>
      /\ \A q \in Preparer : q # p => preparing'[q] = preparing[q]
  BY DEF MapperInv, MapperTypes
<1>2. /\ \A a \in Pin : SnapshotIs(a)' = SnapshotIs(a)
      /\ \A q, t, u, v : Reads(q, u, v)' = Reads(q, u, v) /\ Opens(q, t, u)' = Opens(q, t, u)
  BY DEF SnapshotIs, Reads, Opens
<1>3. \A q \in Preparer : PreparesItsOwn(q)'
  BY <1>1, <1>2 DEF MapperInv, PreparesItsOwn
<1>4. MapperTypes'
  BY <1>1, <1>2 DEF MapperInv, MapperTypes
<1> QED
  BY <1>3, <1>4 DEF MapperInv, PreparedIsPinned

LEMMA PreparationEnds ==
    ASSUME MapperInv, NEW p \in Preparer, Leaves(p),
           UNCHANGED <<tree, artifacts, projection>>, PreparedIsPinned'
    PROVE  MapperInv'
<1>1. /\ preparing' = [q \in Preparer |-> preparing'[q]] /\ preparing'[p] = <<>>
      /\ \A q \in Preparer : q # p => preparing'[q] = preparing[q]
  BY DEF Leaves, MapperInv, MapperTypes
<1>2. /\ \A a \in Pin : SnapshotIs(a)' = SnapshotIs(a)
      /\ \A q, t, u, v : q # p => Reads(q, u, v)' = Reads(q, u, v) /\ Opens(q, t, u)' = Opens(q, t, u)
  BY DEF Leaves, SnapshotIs, Reads, Opens
<1>3. \A q \in Preparer : PreparesItsOwn(q)'
  BY <1>1, <1>2 DEF MapperInv, PreparesItsOwn
<1>4. MapperTypes'
  BY <1>1, <1>2 DEF MapperInv, MapperTypes
<1> QED
  BY <1>3, <1>4 DEF MapperInv

(* What a preparation finds, said of the fields its steps read. *)
LEMMA PreparationIs ==
    ASSUME MapperInv, NEW p \in Preparer, preparing[p] # <<>>
    PROVE  \E s \in PrepareStep, h, f \in Revision :
               /\ preparing[p] = <<s, h, f>> /\ Reads(p, h, f) /\ Opens(p, s, h)
               /\ Handoff(p) = h /\ Facts(p) = f
               /\ \A t : InStep(p, t) <=> t = s
               /\ \A next : Proceed(p, next) => preparing' = [preparing EXCEPT ![p] = <<next, h, f>>]
<1>1. PICK s \in PrepareStep, h \in Revision, f \in Revision :
         preparing[p] = <<s, h, f>> /\ Reads(p, h, f) /\ Opens(p, s, h)
  BY DEF MapperInv, PreparesItsOwn
<1>2. <<s, h, f>>[1] = s /\ <<s, h, f>>[2] = h /\ <<s, h, f>>[3] = f
  OBVIOUS
<1>3. \A next : [<<s, h, f>> EXCEPT ![1] = next] = <<next, h, f>>
  OBVIOUS
<1>4. \A next : Proceed(p, next) => preparing' = [preparing EXCEPT ![p] = [preparing[p] EXCEPT ![1] = next]]
  BY DEF Proceed
<1>5. Handoff(p) = h /\ Facts(p) = f /\ \A t : InStep(p, t) <=> t = s
  BY <1>1, <1>2 DEF Handoff, Facts, InStep
<1> QED
  BY <1>1, <1>3, <1>4, <1>5

(* The snapshot is replaced: every other preparation at work is overtaken by that. *)
LEMMA SnapshotReplaced ==
    ASSUME MapperInv, NEW a \in Pin, SnapshotIs(a)', UNCHANGED <<tree, artifacts, prepared, rewritten>>,
           preparing' = [q \in Preparer |-> preparing'[q]],
           \A q \in Preparer : \/ PreparesItsOwn(q)'
                               \/ preparing'[q] = preparing[q] /\ (q \in Working => q \in overtaken')
    PROVE  MapperInv'
<1>1. ASSUME NEW q \in Preparer, preparing'[q] = preparing[q], q \in Working => q \in overtaken',
             preparing'[q] # <<>>
      PROVE  PreparesItsOwn(q)'
  <2>1. PICK s \in PrepareStep, h \in Revision, f \in Revision :
           preparing[q] = <<s, h, f>> /\ Reads(q, h, f)
    BY <1>1 DEF MapperInv, PreparesItsOwn
  <2>2. q \in overtaken'
    BY <1>1 DEF Working
  <2>3. Reads(q, h, f)' /\ Opens(q, s, h)'
    BY <2>1, <2>2 DEF Reads, Opens
  <2> QED
    BY <1>1, <2>1, <2>3 DEF PreparesItsOwn
<1>2. \A q \in Preparer : PreparesItsOwn(q)'
  BY <1>1 DEF PreparesItsOwn
<1>3. MapperTypes'
  BY DEF MapperInv, MapperTypes
<1> QED
  BY <1>2, <1>3 DEF MapperInv, PreparedIsPinned

LEMMA CompileSnapshotKeeps ==
    ASSUME MapperInv, NEW p \in Preparer, CompileSnapshot(p) PROVE MapperInv'
<1>1. PICK s \in PrepareStep, h \in Revision, f \in Revision :
         /\ preparing[p] = <<s, h, f>> /\ Reads(p, h, f) /\ Handoff(p) = h /\ Facts(p) = f
         /\ \A next : Proceed(p, next) => preparing' = [preparing EXCEPT ![p] = <<next, h, f>>]
  BY PreparationIs DEF CompileSnapshot, InStep
<1>2. /\ projection' = [pin |-> h, facts |-> f] /\ mixed' = (p \in rewritten)
      /\ preparing' = [preparing EXCEPT ![p] = <<"sidecar", h, f>>]
      /\ overtaken' = overtaken \cup (Working \ {p}) /\ UNCHANGED <<tree, artifacts, prepared, rewritten>>
  BY <1>1 DEF CompileSnapshot
<1>3. /\ preparing' = [q \in Preparer |-> preparing'[q]] /\ preparing'[p] = <<"sidecar", h, f>>
      /\ \A q \in Preparer : q # p => preparing'[q] = preparing[q]
  BY <1>2 DEF MapperInv, MapperTypes
<1>4. f = h \/ mixed'
  BY <1>1, <1>2 DEF Reads
<1>5. h \in Pin /\ f \in Pin /\ SnapshotIs(h)'
  BY <1>2, <1>4 DEF SnapshotIs, Pin
<1>6. Reads(p, h, f)' /\ Opens(p, "sidecar", h)'
  BY <1>1, <1>2, <1>5 DEF Reads, Opens
<1>7. PreparesItsOwn(p)'
  BY <1>3, <1>6 DEF PreparesItsOwn, PrepareStep
<1>8. \A q \in Preparer : q \in Working => q = p \/ q \in overtaken'
  BY <1>2
<1> QED
  BY <1>2, <1>3, <1>5, <1>7, <1>8, SnapshotReplaced

LEMMA PreparationKeeps ==
    ASSUME MapperInv, NEW p \in Preparer,
           \/ \E h \in Revision : ValidateHandoff(p, h)
           \/ ValidateAgain(p) \/ BuildPayload(p) \/ CompareSidecar(p) \/ CompareSnapshot(p)
           \/ WriteSidecar(p) \/ OpenSnapshot(p) \/ PrepareFails(p)
    PROVE  MapperInv'
<1>1. ASSUME NEW h \in Revision, ValidateHandoff(p, h) PROVE MapperInv'
  <2>1. /\ h = artifacts /\ preparing' = [preparing EXCEPT ![p] = <<"again", h, h>>]
        /\ UNCHANGED <<tree, artifacts, projection, prepared, overtaken, rewritten, mixed>>
    BY <1>1 DEF ValidateHandoff, histories
  <2>2. Reads(p, h, h) /\ Opens(p, "again", h)
    BY <2>1 DEF Reads, Opens
  <2> QED
    BY <2>1, <2>2, PreparationMoves DEF PrepareStep
<1>2. ASSUME preparing[p] # <<>>, ~PrepareFails(p), ~OpenSnapshot(p), \A h \in Revision : ~ValidateHandoff(p, h)
      PROVE  MapperInv'
  <2>1. PICK s \in PrepareStep, h \in Revision, f \in Revision :
           /\ preparing[p] = <<s, h, f>> /\ Reads(p, h, f) /\ Opens(p, s, h)
           /\ Handoff(p) = h /\ Facts(p) = f
           /\ \A t : InStep(p, t) <=> t = s
           /\ \A next : Proceed(p, next) => preparing' = [preparing EXCEPT ![p] = <<next, h, f>>]
    BY <1>2, PreparationIs
  <2>2. UNCHANGED <<tree, artifacts, projection, prepared, overtaken, rewritten, mixed>>
    BY <1>2 DEF ValidateAgain, BuildPayload, CompareSidecar, CompareSnapshot, WriteSidecar, histories
  <2>3. CASE ValidateAgain(p) \/ CompareSidecar(p)
    <3>1. PICK next \in {"payload", "match", "compile"} : Proceed(p, next)
      BY <2>3 DEF ValidateAgain, CompareSidecar
    <3>2. Opens(p, next, h)
      BY DEF Opens
    <3> QED
      BY <2>1, <2>2, <3>1, <3>2, PreparationMoves DEF PrepareStep
  <2>4. CASE BuildPayload(p)
    <3>1. preparing' = [preparing EXCEPT ![p] = <<"compare", h, artifacts>>] /\ artifacts \in Revision
      BY <2>1, <2>4 DEF BuildPayload, MapperInv, MapperTypes
    <3>2. Reads(p, h, artifacts) /\ Opens(p, "compare", h)
      BY <2>1 DEF Reads, Opens
    <3> QED
      BY <2>2, <3>1, <3>2, PreparationMoves DEF PrepareStep
  <2>5. CASE CompareSnapshot(p)
    <3>1. PICK next \in {"open", "compile"} : Proceed(p, next) /\ (next = "open" => MatchesMapper(h))
      BY <2>1, <2>5 DEF CompareSnapshot
    <3>2. ASSUME next = "open" PROVE SnapshotIs(h)
      <4>1. projection # NoSnapshot /\ projection.pin = h
        BY <3>1, <3>2 DEF MatchesMapper
      <4>2. PICK a \in Pin : SnapshotIs(a)
        BY <4>1 DEF MapperInv, MapperTypes
      <4>3. a = h
        BY <4>1, <4>2 DEF SnapshotIs
      <4> QED
        BY <4>2, <4>3
    <3>3. Opens(p, next, h)
      BY <3>1, <3>2 DEF Opens, Pin
    <3> QED
      BY <2>1, <2>2, <3>1, <3>3, PreparationMoves DEF PrepareStep
  <2>6. CASE WriteSidecar(p)
    <3>1. s = "sidecar" /\ Proceed(p, "open")
      BY <2>1, <2>6 DEF WriteSidecar
    <3>2. Opens(p, "open", h)
      BY <2>1, <3>1 DEF Opens
    <3> QED
      BY <2>1, <2>2, <3>1, <3>2, PreparationMoves DEF PrepareStep
  <2> QED
    BY <1>2, <2>3, <2>4, <2>5, <2>6
<1>3. CASE OpenSnapshot(p)
  <2>1. PICK s \in PrepareStep, h \in Revision, f \in Revision :
           Opens(p, s, h) /\ Handoff(p) = h /\ \A t : InStep(p, t) <=> t = s
    BY <1>3, PreparationIs DEF OpenSnapshot, InStep
  <2>2. PICK a \in Pin : SnapshotIs(a) /\ (a = h \/ p \in overtaken)
    BY <1>3, <2>1 DEF OpenSnapshot, Opens
  <2>3. PICK b \in Pin : projection = [pin |-> a, facts |-> b] /\ (b = a \/ mixed)
    BY <2>2 DEF SnapshotIs
  <2>4. prepared' = [handoff |-> h, snapshot |-> [pin |-> a, facts |-> b],
                     overtaken |-> p \in overtaken, mixed |-> mixed]
    BY <1>3, <2>1, <2>3 DEF OpenSnapshot
  <2>5. /\ prepared'.handoff = h /\ prepared'.snapshot.pin = a /\ prepared'.snapshot.facts = b
        /\ prepared'.overtaken = (p \in overtaken) /\ prepared'.mixed = mixed
    BY <2>4
  <2>6. PreparedIsPinned'
    BY <2>2, <2>3, <2>5 DEF PreparedIsPinned
  <2> QED
    BY <1>3, <2>6, PreparationEnds DEF OpenSnapshot
<1>4. CASE PrepareFails(p)
  BY <1>4, PreparationEnds DEF PrepareFails, MapperInv, PreparedIsPinned
<1> QED
  BY <1>1, <1>2, <1>3, <1>4 DEF ValidateAgain, BuildPayload, CompareSidecar, CompareSnapshot, WriteSidecar, InStep

(* A run of the Mapper: every preparation at work may hold what it wrote before. *)
LEMMA MapperRunsKeeps ==
    ASSUME MapperInv, MapperRuns PROVE MapperInv'
<1>1. /\ artifacts' = tree /\ rewritten' = Working
      /\ UNCHANGED <<tree, projection, preparing, prepared, overtaken, mixed>>
  BY DEF MapperRuns
<1>2. (\A a \in Pin : SnapshotIs(a)' = SnapshotIs(a)) /\ \A q, s, h : Opens(q, s, h)' = Opens(q, s, h)
  BY <1>1 DEF SnapshotIs, Opens
<1>3. \A q \in Preparer : preparing[q] # <<>> => \A h, f : Reads(q, h, f)'
  BY <1>1 DEF Reads, Working
<1>4. \A q \in Preparer : PreparesItsOwn(q)'
  BY <1>1, <1>2, <1>3 DEF MapperInv, PreparesItsOwn
<1>5. MapperTypes'
  BY <1>1, <1>2 DEF MapperInv, MapperTypes
<1> QED
  BY <1>1, <1>4, <1>5 DEF MapperInv, PreparedIsPinned

LEMMA PrepareBootstrapKeeps ==
    ASSUME MapperInv, PrepareBootstrap PROVE MapperInv'
<1>1. /\ projection' = [pin |-> NoSidecar, facts |-> NoSidecar] /\ overtaken' = Working
      /\ UNCHANGED <<tree, artifacts, preparing, prepared, rewritten>>
  BY DEF PrepareBootstrap, Bootstrap
<1>2. NoSidecar \in Pin /\ SnapshotIs(NoSidecar)'
  BY <1>1 DEF SnapshotIs, Pin
<1> QED
  BY <1>1, <1>2, SnapshotReplaced DEF MapperInv, MapperTypes

(* Whatever moves the checkout, runs the Mapper or dies, and however many preparations are
   at work: what prepare answers for a handoff names it unless another preparation replaced
   the snapshot in between, and holds the facts of the handoff it names unless the Mapper
   wrote while it was compiled (prepare and compile_mapper_payload of delivery.py and
   mapper.py). *)
THEOREM PreparedArePinned == MapperSpec => []PreparedIsPinned
<1>1. MapperInit => MapperInv
  BY DEF MapperInit, MapperInv, MapperTypes, PreparesItsOwn, PreparedIsPinned
<1>2. MapperInv /\ [MapperNext]_mapperVars => MapperInv'
  <2> SUFFICES ASSUME MapperInv, [MapperNext]_mapperVars PROVE MapperInv'
    OBVIOUS
  <2>1. ASSUME UNCHANGED <<artifacts, projection, preparing, prepared, overtaken, rewritten, mixed>>,
               tree' \in Revision
        PROVE  MapperInv'
    BY <2>1 DEF MapperInv, MapperTypes, PreparesItsOwn, Reads, Opens, SnapshotIs, PreparedIsPinned
  <2>2. ASSUME NEW r \in Revision, MoveTree(r) PROVE MapperInv'
    BY <2>1, <2>2 DEF MoveTree, histories
  <2>3. CASE UNCHANGED mapperVars
    BY <2>1, <2>3 DEF mapperVars, MapperInv, MapperTypes
  <2> QED
    BY <2>2, <2>3, PreparationKeeps, CompileSnapshotKeeps, MapperRunsKeeps, PrepareBootstrapKeeps
       DEF MapperNext
<1>3. MapperInv => PreparedIsPinned
  BY DEF MapperInv
<1> QED
  BY <1>1, <1>2, <1>3, PTL DEF MapperSpec

----------------------------------------------------------------------------
(* The knowledge projection *)

KnowledgeInv == HiddenForItself /\ IsFiniteSet(Known(known))

(* What apply_delta leaves when the tombstones are applied last. *)
LEMMA BuryKeeps ==
    ASSUME NEW k, NEW c, NEW b, NEW deleted \in SUBSET Subject, NEW room, IsFiniteSet(room),
           Known(k) \ deleted \subseteq room, Cardinality(room) <= MaxFacts,
           c \subseteq Known(k), b \cap Known(k) = {}, Bury(k, c, b, deleted)
    PROVE  KnowledgeInv'
<1>1. Known(known') = Known(k) \ deleted
  BY DEF Bury, Known
<1>2. IsFiniteSet(Known(known')) /\ Cardinality(Known(known')) <= Cardinality(room)
  BY <1>1, FS_Subset
<1>3. Cardinality(Known(known')) \in Nat /\ Cardinality(room) \in Nat
  BY <1>2, FS_CardinalityType
<1>4. conflicts' \subseteq Known(known') /\ buried' \cap Known(known') = {}
  BY <1>1 DEF Bury
<1> QED
  BY <1>2, <1>3, <1>4, KnowledgeAssumption DEF KnowledgeInv, HiddenForItself

LEMMA DeltaKeeps ==
    ASSUME KnowledgeInv, NEW s \in Subject, NEW fact, NEW deleted \in SUBSET Subject, ApplyDelta(s, fact, deleted)
    PROVE  KnowledgeInv'
<1> DEFINE room == (Known(known) \cup {s}) \ deleted
           given == [known EXCEPT ![s] = fact]
<1>1. Cardinality(room) <= MaxFacts
  BY DEF ApplyDelta
<1>2. IsFiniteSet(room)
  <2>1. IsFiniteSet(Known(known) \cup {s})
    BY FS_AddElement DEF KnowledgeInv
  <2> QED
    BY <2>1, FS_Subset
<1>3. Known(given) \subseteq Known(known) \cup {s} /\ Known(known) \ {s} \subseteq Known(given)
  <2> SUFFICES \A x \in Subject : x # s => given[x] = known[x]
    BY DEF Known
  <2> QED
    OBVIOUS
<1> HIDE DEF given, room
<1>4. Known(given) \ deleted \subseteq room /\ Known(known) \ deleted \subseteq room
  BY <1>3 DEF room
<1>5. conflicts \subseteq Known(known) /\ buried \cap Known(known) = {}
  BY DEF KnowledgeInv, HiddenForItself
<1>6. CASE known[s] = NoFact /\ Bury(given, conflicts, buried \ {s}, deleted)
  <2>1. s \notin Known(known)
    BY <1>6 DEF Known
  <2>2. conflicts \subseteq Known(given) /\ (buried \ {s}) \cap Known(given) = {}
    BY <1>3, <1>5, <2>1
  <2> QED
    BY <1>1, <1>2, <1>4, <1>6, <2>2, BuryKeeps
<1>7. CASE Repeats(s, fact) /\ Bury(given, conflicts \ {s}, buried, deleted)
  <2>1. s \in Known(known)
    BY <1>7 DEF Repeats, Known
  <2>2. conflicts \ {s} \subseteq Known(given) /\ buried \cap Known(given) = {}
    BY <1>3, <1>5, <2>1
  <2> QED
    BY <1>1, <1>2, <1>4, <1>7, <2>2, BuryKeeps
<1>8. CASE Bury(known, conflicts, buried \ {s}, deleted)
  <2>1. (buried \ {s}) \cap Known(known) = {}
    BY <1>5
  <2> QED
    BY <1>1, <1>2, <1>4, <1>5, <1>8, <2>1, BuryKeeps
<1>9. CASE Contradicts(s, fact) /\ Bury(known, conflicts \cup {s}, buried, deleted)
  <2>1. conflicts \cup {s} \subseteq Known(known)
    BY <1>5, <1>9 DEF Contradicts, Known
  <2> QED
    BY <1>1, <1>2, <1>4, <1>5, <1>9, <2>1, BuryKeeps
<1> QED
  BY <1>6, <1>7, <1>8, <1>9 DEF ApplyDelta, given

(* A conflict is recorded and a tombstone kept only for what the index holds now, and does
   not: a fact that is deleted and created again is not hidden by its earlier life. *)
THEOREM KnowledgeIsHiddenForItself == KnowledgeSpec => []HiddenForItself
<1>1. KnowledgeInit => KnowledgeInv
  <2> SUFFICES ASSUME KnowledgeInit PROVE KnowledgeInv
    OBVIOUS
  <2>1. Known(known) = {}
    BY DEF KnowledgeInit, Known
  <2> QED
    BY <2>1, FS_EmptySet, KnowledgeAssumption DEF KnowledgeInit, KnowledgeInv, HiddenForItself
<1>2. KnowledgeInv /\ [KnowledgeNext]_knowledgeVars => KnowledgeInv'
  <2> SUFFICES ASSUME KnowledgeInv, [KnowledgeNext]_knowledgeVars PROVE KnowledgeInv'
    OBVIOUS
  <2>1. CASE UNCHANGED knowledgeVars
    BY <2>1 DEF knowledgeVars, KnowledgeInv, HiddenForItself, Known
  <2>2. ASSUME NEW deleted \in SUBSET Subject, Tombstones(deleted) PROVE KnowledgeInv'
    BY <2>2, BuryKeeps DEF Tombstones, KnowledgeInv, HiddenForItself
  <2> QED
    BY <2>1, <2>2, DeltaKeeps DEF KnowledgeNext, ApplyHandoff
<1>3. KnowledgeInv => HiddenForItself
  BY DEF KnowledgeInv
<1> QED
  BY <1>1, <1>2, <1>3, PTL DEF KnowledgeSpec

----------------------------------------------------------------------------
(* The streaming store *)

Blocks == Seq(Nat \ {TornBlock})

(* What a build that runs has written so far. *)
BuildIsDue ==
    build # <<NoFile>> =>
        /\ build \in {"truncate", "block", "checkpoint", "current", "unlink"} \X Input
        /\ checkpoint # <<NoFile>>
        /\ build[1] # "truncate" => checkpoint \in Blocks /\ IsInitial(checkpoint, Fed)
        /\ build[1] = "block" => segment = checkpoint
        /\ build[1] = "checkpoint" =>
              Len(checkpoint) < Len(Fed) /\ segment = SubSeq(Fed, 1, Len(checkpoint) + 1)
        /\ build[1] \in {"current", "unlink"} => segment = Fed /\ checkpoint = Fed /\ manifest = Fed
        /\ build[1] = "unlink" => latest = Fed

StreamInv ==
    /\ BuildIsDue
    /\ checkpoint # <<NoFile>> => checkpoint \in Blocks
    /\ PublishedReads

(* Blocks are not the mark of a file that is missing. *)
LEMMA InitialBlocks ==
    ASSUME NEW s \in Input, NEW n \in 0..Len(s)
    PROVE  /\ SubSeq(s, 1, n) \in Blocks /\ SubSeq(s, 1, n) # <<NoFile>> /\ Len(SubSeq(s, 1, n)) = n
           /\ IsInitial(SubSeq(s, 1, n), s)
           /\ n < Len(s) => Append(SubSeq(s, 1, n), s[n + 1]) = SubSeq(s, 1, n + 1)
           /\ s \in Blocks /\ SubSeq(s, 1, Len(s)) = s /\ s # <<NoFile>>
<1>1. s \in Seq(Nat \ {TornBlock}) /\ NoFile \notin Nat \ {TornBlock}
  BY StreamAssumption
<1>2. SubSeq(s, 1, n) \in Seq(Nat \ {TornBlock}) /\ Len(SubSeq(s, 1, n)) = n
  BY <1>1
<1>3. ASSUME NEW t \in Seq(Nat \ {TornBlock}) PROVE t # <<NoFile>>
  <2>1. ASSUME t = <<NoFile>> PROVE FALSE
    <3>1. Len(t) = 1 /\ t[1] = NoFile
      BY <2>1
    <3>2. t[1] \in Nat \ {TornBlock}
      <4>1. 1 \in 1..Len(t)
        BY <3>1
      <4> QED
        BY <4>1, ElementOfSeq
    <3> QED
      BY <1>1, <3>1, <3>2
  <2> QED
    BY <2>1
<1>4. n < Len(s) => Append(SubSeq(s, 1, n), s[n + 1]) = SubSeq(s, 1, n + 1)
  BY <1>1
<1>5. SubSeq(s, 1, Len(s)) = s
  BY <1>1
<1>6. IsInitial(SubSeq(s, 1, n), s)
  <2> DEFINE t == SubSeq(s, 1, n)
  <2> HIDE DEF t
  <2>1. Len(t) = n /\ t = SubSeq(s, 1, n) /\ Len(s) \in Nat
    BY <1>1, <1>2 DEF t
  <2>2. Len(t) <= Len(s) /\ SubSeq(s, 1, Len(t)) = t
    BY <2>1
  <2> QED
    BY <2>2 DEF IsInitial, t
<1>7. SubSeq(s, 1, n) # <<NoFile>> /\ s # <<NoFile>>
  BY <1>1, <1>2, <1>3
<1> QED
  BY <1>1, <1>2, <1>4, <1>5, <1>6, <1>7 DEF Blocks

LEMMA StreamSteps == StreamInv /\ [StreamNext]_streamVars => StreamInv'
<1> SUFFICES ASSUME StreamInv, [StreamNext]_streamVars PROVE StreamInv'
  OBVIOUS
<1> USE DEF StreamInv
<1> DEFINE Idle == build = <<NoFile>>
<1>1. CASE UNCHANGED streamVars
  BY <1>1 DEF streamVars, BuildIsDue, PublishedReads, ReadAll, Fed
<1>2. ASSUME NEW s \in Input, BuildFresh(s) PROVE StreamInv'
  <2>1. checkpoint' = <<>> /\ <<>> # <<NoFile>> /\ <<>> \in Blocks /\ build' = <<"truncate", s>>
    BY <1>2 DEF BuildFresh, Blocks
  <2> QED
    BY <2>1 DEF BuildIsDue, PublishedReads, Fed
<1>3. ASSUME NEW s \in Input, BuildResume(s) PROVE StreamInv'
  <2>1. /\ checkpoint # <<NoFile>> /\ segment = checkpoint /\ IsInitial(checkpoint, s)
        /\ build' = <<"block", s>> /\ UNCHANGED <<segment, checkpoint, manifest, latest>>
    BY <1>3 DEF BuildResume
  <2> QED
    BY <2>1 DEF BuildIsDue, PublishedReads, Fed
<1>4. CASE TruncateSegment
  <2>1. /\ build \in {"truncate"} \X Input /\ segment' = <<>> /\ checkpoint' = <<>> /\ build' = <<"block", Fed>>
        /\ Fed \in Input
    BY <1>4 DEF TruncateSegment, Reached, Move, BuildIsDue, Fed
  <2>2. <<>> \in Blocks /\ <<>> # <<NoFile>> /\ SubSeq(Fed, 1, 0) = <<>> /\ IsInitial(<<>>, Fed)
    BY <2>1, StreamAssumption DEF Blocks, IsInitial
  <2>3. Fed' = Fed
    BY <2>1 DEF Fed
  <2> QED
    BY <2>1, <2>2, <2>3 DEF BuildIsDue, PublishedReads
<1>5. CASE WriteBlock
  <2> DEFINE n == Len(checkpoint)
  <2>1. /\ Fed \in Input /\ checkpoint \in Blocks /\ IsInitial(checkpoint, Fed) /\ segment = checkpoint
        /\ checkpoint # <<NoFile>> /\ n < Len(Fed) /\ segment' = Append(segment, Fed[n + 1])
        /\ build' = <<"checkpoint", Fed>> /\ UNCHANGED <<checkpoint, manifest, latest>>
    BY <1>5 DEF WriteBlock, Reached, Move, BuildIsDue, Fed
  <2>2. checkpoint = SubSeq(Fed, 1, n) /\ n \in 0..Len(Fed)
    BY <2>1 DEF IsInitial, Blocks
  <2>3. segment' = SubSeq(Fed, 1, n + 1)
    BY <2>1, <2>2, InitialBlocks
  <2>4. Fed' = Fed
    BY <2>1 DEF Fed
  <2> QED
    BY <2>1, <2>3, <2>4 DEF BuildIsDue, PublishedReads
<1>6. CASE WriteCheckpoint
  <2> DEFINE n == Len(checkpoint)
  <2>1. /\ Fed \in Input /\ checkpoint \in Blocks /\ n < Len(Fed) /\ segment = SubSeq(Fed, 1, n + 1)
        /\ checkpoint' = SubSeq(Fed, 1, n + 1)
        /\ build' = <<"block", Fed>> /\ UNCHANGED <<segment, manifest, latest>>
    BY <1>6 DEF WriteCheckpoint, Reached, Move, BuildIsDue, Fed
  <2>2. n + 1 \in 0..Len(Fed)
    BY <2>1, StreamAssumption DEF Blocks
  <2>3. checkpoint' \in Blocks /\ checkpoint' # <<NoFile>> /\ IsInitial(checkpoint', Fed)
    BY <2>1, <2>2, InitialBlocks
  <2>4. Fed' = Fed
    BY <2>1 DEF Fed
  <2> QED
    BY <2>1, <2>3, <2>4 DEF BuildIsDue, PublishedReads
<1>7. CASE PublishManifest
  <2>1. /\ Fed \in Input /\ checkpoint \in Blocks /\ IsInitial(checkpoint, Fed) /\ segment = checkpoint
        /\ checkpoint # <<NoFile>> /\ Len(checkpoint) = Len(Fed) /\ manifest' = Fed
        /\ build' = <<"current", Fed>> /\ UNCHANGED <<segment, checkpoint, latest>>
    BY <1>7 DEF PublishManifest, Reached, Move, BuildIsDue, Fed
  <2>2. checkpoint = Fed
    <3>1. Len(Fed) \in 0..Len(Fed)
      BY <2>1, StreamAssumption
    <3> QED
      BY <2>1, <3>1, InitialBlocks DEF IsInitial
  <2>4. Fed' = Fed
    BY <2>1 DEF Fed
  <2> QED
    BY <2>1, <2>2, <2>4 DEF BuildIsDue, PublishedReads
<1>8. CASE PublishCurrent
  <2>1. /\ Fed \in Input /\ checkpoint \in Blocks /\ IsInitial(checkpoint, Fed) /\ segment = Fed /\ checkpoint = Fed
        /\ manifest = Fed /\ checkpoint # <<NoFile>> /\ latest' = Fed
        /\ build' = <<"unlink", Fed>> /\ UNCHANGED <<segment, checkpoint, manifest>>
    BY <1>8 DEF PublishCurrent, Reached, Move, BuildIsDue, Fed
  <2>4. Fed' = Fed
    BY <2>1 DEF Fed
  <2> QED
    BY <2>1, <2>4 DEF BuildIsDue, PublishedReads
<1>9. CASE UnlinkCheckpoint
  <2>1. segment = Fed /\ manifest = Fed /\ latest = Fed
    BY <1>9 DEF UnlinkCheckpoint, Reached, BuildIsDue
  <2> QED
    BY <1>9, <2>1 DEF UnlinkCheckpoint, BuildIsDue, PublishedReads, ReadAll
<1>10. CASE BuildDies
  BY <1>10 DEF BuildDies, BuildIsDue, PublishedReads
<1> QED
  BY <1>1, <1>2, <1>3, <1>4, <1>5, <1>6, <1>7, <1>8, <1>9, <1>10 DEF StreamNext

(* What was published reads back in full unless a checkpoint says that a build has begun,
   however often builds of any sources died, were started again or resumed. *)
THEOREM StreamsArePublishedWhole == StreamSpec => []PublishedReads
<1>1. StreamInit => StreamInv
  BY DEF StreamInit, StreamInv, BuildIsDue, PublishedReads
<1>2. StreamInv => PublishedReads
  BY DEF StreamInv
<1> QED
  BY <1>1, <1>2, StreamSteps, PTL DEF StreamSpec

----------------------------------------------------------------------------
(* The change journal *)

Line == [by : Writer, prev : Seq(Writer)] \cup {TornLine, Garbled}
Whole(line) == line \notin {TornLine, Garbled}
Stages == {"header", "create", "write"} \X Seq(Writer)

(* Where nobody wrote over the file, a record that was returned is still in it, or behind
   half a record, and a chain holds every record where its predecessors say. *)
Kept(r, ls) ==
    \/ \E n \in 1..Len(ls) : ls[n] = Garbled
    \/ \E n \in 1..Len(ls) : Whole(ls[n]) /\ r = Append(ls[n].prev, ls[n].by)

JournalTypes ==
    /\ lines \in Seq(Line)
    /\ \A w \in Writer : doing[w] = <<>> \/ doing[w] \in Stages
    /\ DOMAIN doing = Writer
    /\ returned \subseteq Seq(Writer)
    /\ emptied \in BOOLEAN

FileComesFirst ==
    file = "none" => returned = {} /\ \A w \in Writer : doing[w] # <<>> => doing[w][1] # "write"

RecoveryDropsTorn ==
    recovering # <<>> =>
        /\ recovering[1] \in Seq(Line) /\ recovering[1] # <<>>
        /\ recovering[1][Len(recovering[1])] = TornLine
        /\ recovering[2] = SubSeq(recovering[1], 1, Len(recovering[1]) - 1)
        /\ \A n \in 1..Len(recovering[1]) : recovering[1][n] # Garbled

JournalInv ==
    /\ JournalTypes
    /\ FileComesFirst
    /\ RecoveryDropsTorn
    /\ ~emptied => \A r \in returned : Kept(r, lines)

LEMMA LineFacts ==
    /\ TornLine \in Line /\ Garbled \in Line /\ TornLine # Garbled
    /\ \A w \in Writer, p \in Seq(Writer) : [by |-> w, prev |-> p] \in Line /\ Whole([by |-> w, prev |-> p])
<1>1. <<>> \in Seq(Writer)
  OBVIOUS
<1>2. TornLine \in Line /\ Garbled \in Line
  BY <1>1 DEF TornLine, Garbled, Line
<1>3. TornLine.by = "torn" /\ Garbled.by = "garbled"
  BY DEF TornLine, Garbled
<1>4. ASSUME NEW w \in Writer, NEW p \in Seq(Writer)
      PROVE  [by |-> w, prev |-> p] \in Line /\ [by |-> w, prev |-> p].by = w
  BY DEF Line
<1> QED
  BY <1>2, <1>3, <1>4, JournalAssumption DEF Whole, TornLine, Garbled

(* Behind keeps every record, or half of one hides what comes behind it. *)
LEMMA BehindKeeps ==
    ASSUME NEW ls \in Seq(Line), NEW line \in Line, line # Garbled
    PROVE  /\ Behind(ls, line) \in Seq(Line)
           /\ \A r : Kept(r, ls) => Kept(r, Behind(ls, line))
           /\ Whole(line) => Kept(Append(line.prev, line.by), Behind(ls, line))
<1> DEFINE m == Behind(ls, line)
<1>1. CASE ls # <<>> /\ ls[Len(ls)] = TornLine
  <2> DEFINE last == IF line = TornLine THEN TornLine ELSE Garbled
  <2>1. m = [ls EXCEPT ![Len(ls)] = last]
    BY <1>1 DEF Behind
  <2>2. last \in Line /\ Len(ls) \in 1..Len(ls)
    BY <1>1, LineFacts
  <2> HIDE DEF last
  <2>3. m \in Seq(Line) /\ Len(m) = Len(ls) /\ m[Len(ls)] = last /\ \A n \in 1..Len(ls) : n # Len(ls) => m[n] = ls[n]
    BY <2>1, <2>2
  <2>4. ASSUME NEW r, Kept(r, ls) PROVE Kept(r, m)
    BY <1>1, <2>2, <2>3, <2>4, LineFacts DEF Kept, Whole
  <2>5. Whole(line) => Kept(Append(line.prev, line.by), m)
    BY <2>2, <2>3 DEF Whole, Kept, last
  <2> QED
    BY <2>3, <2>4, <2>5
<1>2. CASE ~(ls # <<>> /\ ls[Len(ls)] = TornLine)
  <2>1. m = Append(ls, line)
    BY <1>2 DEF Behind
  <2>2. m \in Seq(Line) /\ Len(m) = Len(ls) + 1 /\ m[Len(ls) + 1] = line /\ \A n \in 1..Len(ls) : m[n] = ls[n]
    BY <2>1
  <2> HIDE DEF m
  <2>3. Len(ls) + 1 \in 1..Len(m) /\ \A n \in 1..Len(ls) : n \in 1..Len(m)
    BY <2>2
  <2>4. ASSUME NEW r, Kept(r, ls) PROVE Kept(r, m)
    BY <2>2, <2>3, <2>4 DEF Kept
  <2>5. Whole(line) => Kept(Append(line.prev, line.by), m)
    BY <2>2, <2>3 DEF Kept
  <2> QED
    BY <2>2, <2>4, <2>5 DEF m
<1> QED
  BY <1>1, <1>2

(* In a chain that read accepts, a record is where its predecessors say. *)
LEMMA KeptIsRead ==
    ASSUME NEW ls \in Seq(Line), Chained(ls), NEW r, Kept(r, ls)
    PROVE  Len(r) <= Len(ls) /\ Chain(SubSeq(ls, 1, Len(r))) = r
<1>1. PICK n \in 1..Len(ls) : Whole(ls[n]) /\ r = Append(ls[n].prev, ls[n].by)
  BY DEF Kept, Chained
<1>2. ls[n].prev = Chain(SubSeq(ls, 1, n - 1))
  BY DEF Chained
<1>3. ASSUME NEW k \in 0..Len(ls)
      PROVE  /\ SubSeq(ls, 1, k) \in Seq(Line) /\ Len(SubSeq(ls, 1, k)) = k
             /\ \A i \in 1..k : SubSeq(ls, 1, k)[i] = ls[i]
  OBVIOUS
<1>4. ASSUME NEW k \in 0..Len(ls) PROVE Chain(SubSeq(ls, 1, k)) = [i \in 1..k |-> ls[i].by]
  BY <1>3 DEF Chain
<1>5. n - 1 \in 0..Len(ls) /\ n \in 0..Len(ls)
  OBVIOUS
<1>6. r = Append([i \in 1..(n - 1) |-> ls[i].by], ls[n].by)
  BY <1>1, <1>2, <1>4, <1>5
<1>7. r = [i \in 1..n |-> ls[i].by] /\ Len(r) = n
  <2>1. \A i \in 1..Len(ls) : ls[i].by \in Writer \cup {"torn", "garbled"}
    <3>1. \A i \in 1..Len(ls) : ls[i] \in Line
      OBVIOUS
    <3> QED
      BY <3>1 DEF Line, TornLine, Garbled
  <2>2. [i \in 1..(n - 1) |-> ls[i].by] \in Seq(Writer \cup {"torn", "garbled"})
    BY <2>1
  <2>3. Len([i \in 1..(n - 1) |-> ls[i].by]) = n - 1
    BY <2>2
  <2> QED
    BY <1>6, <2>2, <2>3
<1> QED
  BY <1>4, <1>5, <1>7

LEMMA SubSeqIsLines ==
    ASSUME NEW ls \in Seq(Line), NEW k \in 0..Len(ls)
    PROVE  /\ SubSeq(ls, 1, k) \in Seq(Line) /\ Len(SubSeq(ls, 1, k)) = k
           /\ \A i \in 1..k : SubSeq(ls, 1, k)[i] = ls[i]
OBVIOUS

(* The chain of a journal that read accepts is one of writers. *)
LEMMA ChainIsOfWriters == ASSUME NEW ls \in Seq(Line), Chained(ls) PROVE Chain(ls) \in Seq(Writer)
<1>1. ASSUME NEW n \in 1..Len(ls) PROVE ls[n].by \in Writer
  <2>1. ls[n] \in Line /\ ls[n] # TornLine /\ ls[n] # Garbled
    BY DEF Chained
  <2> QED
    BY <2>1 DEF Line
<1> QED
  BY <1>1 DEF Chain

LEMMA JournalInitially == JournalInit => JournalInv
<1>1. lines = <<>> => lines \in Seq(Line)
  OBVIOUS
<1> QED
  BY <1>1 DEF JournalInit, JournalInv, JournalTypes, FileComesFirst, RecoveryDropsTorn

(* A step of one writer that leaves the others alone keeps what they are about to do typed. *)
LEMMA DoingStep ==
    ASSUME JournalTypes, NEW w \in Writer, NEW d, d = <<>> \/ d \in Stages, doing' = [doing EXCEPT ![w] = d]
    PROVE  /\ DOMAIN doing' = Writer /\ doing'[w] = d
           /\ \A v \in Writer : (v # w => doing'[v] = doing[v]) /\ (doing'[v] = <<>> \/ doing'[v] \in Stages)
BY DEF JournalTypes

LEMMA JournalSteps == JournalInv /\ [JournalNext]_journalVars => JournalInv'
<1> SUFFICES ASSUME JournalInv, [JournalNext]_journalVars PROVE JournalInv'
  OBVIOUS
<1> USE DEF JournalInv
<1>1. CASE UNCHANGED journalVars
  BY <1>1 DEF journalVars, JournalTypes, FileComesFirst, RecoveryDropsTorn
<1>2. ASSUME NEW w \in Writer, AppendRead(w) PROVE JournalInv'
  <2>1. <<"header", Chain(lines)>> \in Stages
    BY <1>2, ChainIsOfWriters DEF AppendRead, Accepts, JournalTypes, Stages
  <2>2. doing' = [doing EXCEPT ![w] = <<"header", Chain(lines)>>]
    BY <1>2 DEF AppendRead
  <2>3. /\ DOMAIN doing' = Writer /\ doing'[w] = <<"header", Chain(lines)>>
        /\ \A v \in Writer : (v # w => doing'[v] = doing[v]) /\ (doing'[v] = <<>> \/ doing'[v] \in Stages)
    BY <2>1, <2>2, DoingStep
  <2>4. JournalTypes'
    BY <1>2, <2>3 DEF AppendRead, JournalTypes
  <2>5. FileComesFirst'
    BY <1>2, <2>3 DEF AppendRead, FileComesFirst
  <2>6. RecoveryDropsTorn'
    BY <1>2 DEF AppendRead, RecoveryDropsTorn
  <2> QED
    BY <1>2, <2>4, <2>5, <2>6 DEF AppendRead
<1>3. ASSUME NEW w \in Writer, HeaderCheck(w) PROVE JournalInv'
  <2> DEFINE d == <<IF file = "none" THEN "create" ELSE "write", doing[w][2]>>
  <2>1. doing[w] \in Stages
    BY <1>3 DEF HeaderCheck, JournalTypes
  <2>2. d \in Stages
    BY <2>1 DEF Stages
  <2>3. doing' = [doing EXCEPT ![w] = d]
    BY <1>3 DEF HeaderCheck
  <2>4. /\ DOMAIN doing' = Writer /\ doing'[w] = d
        /\ \A v \in Writer : (v # w => doing'[v] = doing[v]) /\ (doing'[v] = <<>> \/ doing'[v] \in Stages)
    BY <2>2, <2>3, DoingStep
  <2>5. JournalTypes'
    BY <1>3, <2>4 DEF HeaderCheck, JournalTypes
  <2>6. FileComesFirst'
    <3>1. file = "none" => d[1] = "create"
      OBVIOUS
    <3> QED
      BY <1>3, <2>4, <3>1 DEF HeaderCheck, FileComesFirst
  <2>7. RecoveryDropsTorn'
    BY <1>3 DEF HeaderCheck, RecoveryDropsTorn
  <2> QED
    BY <1>3, <2>5, <2>6, <2>7 DEF HeaderCheck
<1>4. ASSUME NEW w \in Writer, HeaderCreate(w) PROVE JournalInv'
  <2> DEFINE d == <<"write", doing[w][2]>>
  <2>1. doing[w] \in Stages
    BY <1>4 DEF HeaderCreate, JournalTypes
  <2>2. d \in Stages
    BY <2>1 DEF Stages
  <2>3. doing' = [doing EXCEPT ![w] = d]
    BY <1>4 DEF HeaderCreate
  <2>4. /\ DOMAIN doing' = Writer
        /\ \A v \in Writer : doing'[v] = <<>> \/ doing'[v] \in Stages
    BY <2>2, <2>3, DoingStep
  <2>5. JournalTypes'
    BY <1>4, <2>4 DEF HeaderCreate, JournalTypes
  <2>6. FileComesFirst' /\ RecoveryDropsTorn'
    BY <1>4 DEF HeaderCreate, FileComesFirst, RecoveryDropsTorn
  <2>7. ~emptied' => returned' = {}
    BY <1>4 DEF HeaderCreate, FileComesFirst
  <2> QED
    BY <2>5, <2>6, <2>7
<1>5. ASSUME NEW w \in Writer, AppendWrite(w) PROVE JournalInv'
  <2> DEFINE line == [by |-> w, prev |-> doing[w][2]]
  <2>1. doing[w] \in Stages
    BY <1>5 DEF AppendWrite, JournalTypes
  <2>2. doing[w][2] \in Seq(Writer)
    BY <2>1 DEF Stages
  <2>3. line \in Line /\ Whole(line) /\ line # Garbled /\ line.by = w /\ line.prev = doing[w][2]
    BY <2>2, LineFacts DEF Whole
  <2>4. lines' = Behind(lines, line) /\ returned' = returned \cup {Append(line.prev, line.by)}
    BY <1>5, <2>3 DEF AppendWrite
  <2> HIDE DEF line
  <2>5. lines' \in Seq(Line) /\ (\A r : Kept(r, lines) => Kept(r, lines')) /\ Kept(Append(line.prev, line.by), lines')
    BY <2>3, <2>4, BehindKeeps DEF JournalTypes
  <2>6. Append(line.prev, line.by) \in Seq(Writer)
    BY <2>2, <2>3
  <2>7. doing' = [doing EXCEPT ![w] = <<>>]
    BY <1>5 DEF AppendWrite
  <2>8. DOMAIN doing' = Writer /\ \A v \in Writer : doing'[v] = <<>> \/ doing'[v] \in Stages
    BY <2>7, DoingStep
  <2>9. JournalTypes'
    BY <1>5, <2>4, <2>5, <2>6, <2>8 DEF AppendWrite, JournalTypes
  <2>10. FileComesFirst' /\ RecoveryDropsTorn'
    BY <1>5 DEF AppendWrite, FileComesFirst, RecoveryDropsTorn
  <2>11. ~emptied' => \A r \in returned' : Kept(r, lines')
    BY <1>5, <2>4, <2>5 DEF AppendWrite
  <2> QED
    BY <2>9, <2>10, <2>11
<1>6. ASSUME NEW w \in Writer, Tear(w) PROVE JournalInv'
  <2>1. doing' = [doing EXCEPT ![w] = <<>>]
    BY <1>6 DEF Tear
  <2>2. /\ DOMAIN doing' = Writer /\ doing'[w] = <<>>
        /\ \A v \in Writer : (v # w => doing'[v] = doing[v]) /\ (doing'[v] = <<>> \/ doing'[v] \in Stages)
    BY <2>1, DoingStep
  <2>3. RecoveryDropsTorn'
    BY <1>6 DEF Tear, RecoveryDropsTorn
  <2>4. CASE file' = "headless" /\ lines' = <<>> /\ emptied' = (emptied \/ file # "none")
    <3>1. JournalTypes' /\ FileComesFirst'
      BY <1>6, <2>2, <2>4 DEF Tear, JournalTypes, FileComesFirst
    <3>2. ~emptied' => returned' = {}
      BY <1>6, <2>4 DEF Tear, FileComesFirst
    <3> QED
      BY <2>3, <3>1, <3>2
  <2>5. CASE lines' = Behind(lines, TornLine) /\ UNCHANGED <<file, emptied>>
    <3>1. lines' \in Seq(Line) /\ \A r : Kept(r, lines) => Kept(r, lines')
      BY <2>5, BehindKeeps, LineFacts DEF JournalTypes
    <3>2. JournalTypes' /\ FileComesFirst'
      BY <1>6, <2>2, <2>5, <3>1 DEF Tear, JournalTypes, FileComesFirst
    <3> QED
      BY <1>6, <2>3, <2>5, <3>1, <3>2 DEF Tear
  <2> QED
    BY <1>6, <2>4, <2>5 DEF Tear
<1>7. CASE RecoverRead
  <2>1. /\ lines \in Seq(Line) /\ lines # <<>> /\ lines[Len(lines)] = TornLine
        /\ Chained(SubSeq(lines, 1, Len(lines) - 1))
        /\ recovering' = <<lines, SubSeq(lines, 1, Len(lines) - 1)>>
    BY <1>7 DEF RecoverRead, JournalTypes
  <2>2. ASSUME NEW n \in 1..Len(lines) PROVE lines[n] # Garbled
    <3> DEFINE head == SubSeq(lines, 1, Len(lines) - 1)
    <3>1. n # Len(lines) => n \in 1..Len(head) /\ head[n] = lines[n]
      BY <2>1
    <3>2. n # Len(lines) => head[n] # Garbled
      BY <2>1, <3>1 DEF Chained
    <3> QED
      BY <2>1, <3>1, <3>2, LineFacts
  <2>3. RecoveryDropsTorn'
    BY <2>1, <2>2, <1>7 DEF RecoverRead, RecoveryDropsTorn
  <2>4. JournalTypes' /\ FileComesFirst'
    BY <1>7 DEF RecoverRead, JournalTypes, FileComesFirst
  <2> QED
    BY <1>7, <2>3, <2>4 DEF RecoverRead
<1>8. CASE RecoverWrite
  <2> DEFINE before == recovering[1]
  <2>1. /\ before \in Seq(Line) /\ before # <<>> /\ before[Len(before)] = TornLine
        /\ lines' = SubSeq(before, 1, Len(before) - 1)
        /\ \A n \in 1..Len(before) : before[n] # Garbled
    BY <1>8 DEF RecoverWrite, RecoveryDropsTorn
  <2>2. emptied' = (emptied \/ lines # before)
    BY <1>8 DEF RecoverWrite
  <2> HIDE DEF before
  <2>3. lines' \in Seq(Line) /\ Len(lines') = Len(before) - 1 /\ \A n \in 1..(Len(before) - 1) : lines'[n] = before[n]
    <3>1. Len(before) - 1 \in 0..Len(before)
      BY <2>1
    <3> QED
      BY <2>1, <3>1, SubSeqIsLines
  <2>4. ASSUME NEW r, Kept(r, before) PROVE Kept(r, lines')
    <3>1. PICK n \in 1..Len(before) : Whole(before[n]) /\ r = Append(before[n].prev, before[n].by)
      BY <2>1, <2>4 DEF Kept
    <3>2. n # Len(before)
      BY <2>1, <3>1 DEF Whole
    <3>3. n \in 1..Len(lines') /\ lines'[n] = before[n]
      BY <2>1, <2>3, <3>2
    <3> QED
      BY <3>1, <3>3 DEF Kept
  <2>5. ~emptied' => \A r \in returned' : Kept(r, lines')
    BY <1>8, <2>2, <2>4 DEF RecoverWrite
  <2>6. JournalTypes'
    BY <1>8, <2>2, <2>3 DEF RecoverWrite, JournalTypes
  <2>7. FileComesFirst' /\ RecoveryDropsTorn'
    BY <1>8 DEF RecoverWrite, FileComesFirst, RecoveryDropsTorn
  <2> QED
    BY <2>5, <2>6, <2>7
<1>9. CASE RecoverDies
  <2>1. recovering[2] \in Seq(Line)
    <3> DEFINE before == recovering[1]
    <3>1. before \in Seq(Line) /\ before # <<>> /\ recovering[2] = SubSeq(before, 1, Len(before) - 1)
      BY <1>9 DEF RecoverDies, RecoveryDropsTorn
    <3> HIDE DEF before
    <3>2. Len(before) - 1 \in 0..Len(before)
      BY <3>1
    <3> QED
      BY <3>1, <3>2, SubSeqIsLines
  <2>2. lines' \in Seq(Line)
    <3> DEFINE rest == recovering[2]
    <3>1. lines' = <<>> \/ \E n \in 0..Len(rest) : lines' = SubSeq(rest, 1, n)
      BY <1>9 DEF RecoverDies
    <3>2. <<>> \in Seq(Line)
      OBVIOUS
    <3> HIDE DEF rest
    <3> QED
      BY <2>1, <3>1, <3>2, SubSeqIsLines DEF rest
  <2>3. JournalTypes'
    BY <1>9, <2>2 DEF RecoverDies, JournalTypes
  <2>4. FileComesFirst' /\ RecoveryDropsTorn'
    BY <1>9 DEF RecoverDies, FileComesFirst, RecoveryDropsTorn
  <2> QED
    BY <1>9, <2>3, <2>4 DEF RecoverDies
<1> QED
  BY <1>1, <1>2, <1>3, <1>4, <1>5, <1>6, <1>7, <1>8, <1>9 DEF JournalNext

(* What append returned is in the journal that read accepts, for every number of writers,
   crashes and recoveries, unless somebody wrote the file over. *)
THEOREM AckedAreRead == JournalSpec => []AckedOrRefused
<1>1. JournalInv => AckedOrRefused
  BY KeptIsRead DEF JournalInv, JournalTypes, AckedOrRefused, Accepts
<1> QED
  BY <1>1, JournalInitially, JournalSteps, PTL DEF JournalSpec

----------------------------------------------------------------------------
(* Bitemporal facts *)

FactStates == {"active", "superseded", "tombstoned", "held"}
Digests == {NoDigest} \cup (Nat \X Nat \X Artifact \X FactStates \X Nat)
Version == [from : Nat, to : Nat, artifact : Artifact, state : FactStates, observed : Nat,
            dependencies : SUBSET Id, predecessor : Digests]

(* The versions of one id in an overlay that has come to world w and observation o: all but
   the last are closed, each before the next begins, and each names the one before it. *)
History(fs, w, o) ==
    /\ fs \in Seq(Version)
    /\ \A n \in 1..Len(fs) :
          fs[n].from \in 1..w /\ fs[n].observed \in 1..o /\ (fs[n].to = Open <=> n = Len(fs))
    /\ \A m, n \in 1..Len(fs) : m < n => fs[m].from < fs[m].to /\ fs[m].to <= fs[n].from
    /\ \A n \in 1..Len(fs) : n > 1 => fs[n - 1].to = fs[n].from /\ fs[n].predecessor = Digest(fs[n - 1])

TemporalInv ==
    /\ world \in Nat /\ observed \in Nat /\ DOMAIN facts = Id
    /\ \A i \in Id : History(facts[i], world, observed)
    /\ world > 0 => \E i \in Id : \E n \in 1..Len(facts[i]) : facts[i][n].from = world
    /\ observed > 0 => \E i \in Id : \E n \in 1..Len(facts[i]) : facts[i][n].observed = observed

LEMMA HistoryStays ==
    ASSUME NEW fs, NEW w \in Nat, NEW o \in Nat, NEW u \in Nat, NEW p \in Nat, History(fs, w, o), w <= u, o <= p
    PROVE  History(fs, u, p)
BY DEF History

(* append closes the last version and adds one, and changes nothing about the past. *)
Extends(gs, fs, w, o, u, p, at, obs) ==
    /\ History(gs, u, p)
    /\ Len(gs) = Len(fs) + 1 /\ gs[Len(gs)].from = at /\ gs[Len(gs)].observed = obs
    /\ \A n \in 1..Len(fs) :
          gs[n].artifact = fs[n].artifact /\ \A v \in 0..w : ValidAt(gs[n], v) <=> ValidAt(fs[n], v)

LEMMA AppendedIsHistory ==
    ASSUME NEW fs, NEW w \in Nat, NEW o \in Nat, History(fs, w, o),
           NEW u \in Nat, NEW p \in Nat, NEW at \in (w + 1)..u, NEW obs \in (o + 1)..p,
           NEW a \in Artifact, NEW s \in FactStates, NEW d \in SUBSET Id, NEW pre \in Digests
    PROVE  Extends(Appended(fs, at, obs, a, s, d, pre), fs, w, o, u, p, at, obs)
<1> DEFINE closed == Closed(Current(fs), at, s)
           kept == IF HasCurrent(fs) THEN [fs EXCEPT ![Len(fs)] = closed] ELSE fs
           new == [from |-> at, to |-> Open, artifact |-> a, state |-> s, observed |-> obs, dependencies |-> d,
                   predecessor |-> IF HasCurrent(fs) THEN Digest(closed) ELSE pre]
           gs == Append(kept, new)
<1>1. HasCurrent(fs) <=> fs # <<>>
  <2>1. fs # <<>> => Len(fs) \in 1..Len(fs)
    BY DEF History
  <2>2. fs # <<>> => fs[Len(fs)].to = Open
    BY <2>1 DEF History
  <2> QED
    BY <2>2 DEF HasCurrent
<1>2. ASSUME fs # <<>>
      PROVE  /\ closed \in Version /\ closed.from = fs[Len(fs)].from /\ closed.to = at
             /\ closed.artifact = fs[Len(fs)].artifact /\ closed.observed = fs[Len(fs)].observed
             /\ closed.predecessor = fs[Len(fs)].predecessor
             /\ Digest(closed) \in Digests
  <2>1. Len(fs) \in 1..Len(fs) /\ fs[Len(fs)] \in Version
    BY <1>2 DEF History
  <2> DEFINE v == fs[Len(fs)]
             st == IF s = "active" THEN "superseded" ELSE v.state
  <2>2. closed = [v EXCEPT !.to = at, !.state = st]
    BY DEF Closed, Current
  <2>3. st \in FactStates
    BY <2>1 DEF FactStates, Version
  <2> HIDE DEF v, st
  <2>4. v \in Version /\ v = fs[Len(fs)]
    BY <2>1 DEF v
  <2>5. /\ closed.from = v.from /\ closed.to = at /\ closed.artifact = v.artifact
        /\ closed.observed = v.observed /\ closed.state = st /\ closed.predecessor = v.predecessor
    BY <2>2, <2>4 DEF Version
  <2>6. closed \in Version
    <3>1. at \in Nat
      OBVIOUS
    <3> HIDE DEF Version
    <3>2. closed = [from |-> v.from, to |-> at, artifact |-> v.artifact, state |-> st, observed |-> v.observed,
                    dependencies |-> v.dependencies, predecessor |-> v.predecessor]
      BY <2>2, <2>4 DEF Version
    <3>3. /\ v.from \in Nat /\ v.artifact \in Artifact /\ v.observed \in Nat /\ v.dependencies \in SUBSET Id
          /\ v.predecessor \in Digests
      BY <2>4 DEF Version
    <3> HIDE DEF closed
    <3> QED
      BY <2>3, <3>1, <3>2, <3>3 DEF Version
  <2> HIDE DEF closed
  <2>7. closed.from \in Nat /\ closed.to \in Nat /\ closed.artifact \in Artifact /\ closed.state \in FactStates
        /\ closed.observed \in Nat
    BY <2>6 DEF Version
  <2>8. Digest(closed) \in Digests
    BY <2>7 DEF Digest, Digests
  <2> QED
    BY <2>4, <2>5, <2>6, <2>8
<1>3. /\ new \in Version /\ new.from = at /\ new.to = Open /\ new.observed = obs
      /\ fs # <<>> => new.predecessor = Digest(closed)
  <2> DEFINE q == IF HasCurrent(fs) THEN Digest(closed) ELSE pre
  <2>1. q \in Digests /\ (fs # <<>> => q = Digest(closed))
    BY <1>1, <1>2
  <2> HIDE DEF q, closed
  <2> QED
    BY <2>1 DEF Version, Open, q
<1>4. Appended(fs, at, obs, a, s, d, pre) = gs
  BY DEF Appended
<1> HIDE DEF new, closed
<1>5. /\ kept \in Seq(Version) /\ Len(kept) = Len(fs) /\ Len(fs) \in Nat
      /\ \A n \in 1..Len(fs) : n # Len(fs) => kept[n] = fs[n]
      /\ fs # <<>> => kept[Len(fs)] = closed
  <2>1. CASE fs = <<>>
    BY <1>1, <2>1 DEF History
  <2>2. CASE fs # <<>>
    <3>1. kept = [fs EXCEPT ![Len(fs)] = closed] /\ Len(fs) \in 1..Len(fs) /\ fs \in Seq(Version)
      BY <1>1, <2>2 DEF History
    <3> HIDE DEF kept
    <3> QED
      BY <1>2, <2>2, <3>1
  <2> QED
    BY <2>1, <2>2
<1> HIDE DEF kept
<1>6. /\ gs \in Seq(Version) /\ Len(gs) = Len(fs) + 1 /\ gs[Len(fs) + 1] = new
      /\ \A n \in 1..Len(fs) : gs[n] = kept[n]
  BY <1>3, <1>5
<1> HIDE DEF gs
<1>7. ASSUME NEW n \in 1..Len(fs)
      PROVE  /\ gs[n].from = fs[n].from /\ gs[n].artifact = fs[n].artifact /\ gs[n].observed = fs[n].observed
             /\ gs[n].to = IF n = Len(fs) THEN at ELSE fs[n].to
  <2>1. CASE n = Len(fs)
    BY <1>2, <1>5, <1>6, <2>1
  <2>2. CASE n # Len(fs)
    BY <1>5, <1>6, <2>2
  <2> QED
    BY <2>1, <2>2
<1>8. ASSUME NEW n \in 1..Len(fs)
      PROVE  /\ fs[n].from \in 1..w /\ fs[n].observed \in 1..o /\ (fs[n].to = Open <=> n = Len(fs))
             /\ n # Len(fs) => fs[n].from < fs[n].to /\ fs[n].to \in 1..w
  <2>1. n # Len(fs) => n < Len(fs) /\ Len(fs) \in 1..Len(fs) /\ n + 1 \in 1..Len(fs)
    BY <1>5
  <2>2. fs[n] \in Version
    BY DEF History
  <2>3. fs[n].to \in Nat
    BY <2>2 DEF Version
  <2>4. fs[n].from \in 1..w /\ fs[n].observed \in 1..o /\ (fs[n].to = Open <=> n = Len(fs))
    BY DEF History
  <2>5. n # Len(fs) => fs[n].from < fs[n].to /\ fs[n].to <= fs[Len(fs)].from /\ fs[Len(fs)].from \in 1..w
    BY <2>1 DEF History
  <2> QED
    BY <2>3, <2>4, <2>5
<1>9. ASSUME NEW n \in 1..Len(fs) PROVE \A v \in 0..w : ValidAt(gs[n], v) <=> ValidAt(fs[n], v)
  BY <1>7, <1>8 DEF ValidAt, Open
<1>10. History(gs, u, p)
  <2>1. ASSUME NEW n \in 1..Len(gs)
        PROVE  gs[n].from \in 1..u /\ gs[n].observed \in 1..p /\ (gs[n].to = Open <=> n = Len(gs))
    <3>1. CASE n = Len(fs) + 1
      BY <1>3, <1>6, <3>1
    <3>2. CASE n # Len(fs) + 1
      <4>1. n \in 1..Len(fs)
        BY <1>5, <1>6, <3>2
      <4>2. gs[n].from \in 1..w /\ gs[n].observed \in 1..o /\ (n # Len(fs) => gs[n].to = fs[n].to /\ fs[n].to # Open)
        BY <1>7, <1>8, <4>1
      <4>3. gs[n].to # Open
        BY <1>7, <4>1, <4>2 DEF Open
      <4> QED
        BY <1>5, <1>6, <3>2, <4>1, <4>2, <4>3
    <3> QED
      BY <3>1, <3>2
  <2>2. ASSUME NEW m \in 1..Len(gs), NEW n \in 1..Len(gs), m < n
        PROVE  gs[m].from < gs[m].to /\ gs[m].to <= gs[n].from
    <3>1. m \in 1..Len(fs)
      BY <1>5, <1>6, <2>2
    <3>2. CASE n = Len(fs) + 1
      BY <1>3, <1>6, <1>7, <1>8, <3>1, <3>2
    <3>3. CASE n # Len(fs) + 1
      <4>1. n \in 1..Len(fs) /\ m # Len(fs)
        BY <1>5, <1>6, <2>2, <3>3
      <4> QED
        BY <1>7, <2>2, <3>1, <4>1 DEF History
    <3> QED
      BY <3>2, <3>3
  <2>3. ASSUME NEW n \in 1..Len(gs), n > 1
        PROVE  gs[n - 1].to = gs[n].from /\ gs[n].predecessor = Digest(gs[n - 1])
    <3>1. n - 1 \in 1..Len(fs)
      BY <1>5, <1>6, <2>3
    <3>2. CASE n = Len(fs) + 1
      <4>1. fs # <<>> /\ n - 1 = Len(fs)
        BY <1>5, <3>1, <3>2
      <4>2. gs[n - 1] = closed /\ gs[n] = new
        BY <1>5, <1>6, <3>1, <3>2, <4>1
      <4> QED
        BY <1>2, <1>3, <4>1, <4>2
    <3>3. CASE n # Len(fs) + 1
      <4>1. n \in 1..Len(fs) /\ n - 1 # Len(fs)
        BY <1>5, <1>6, <2>3, <3>3
      <4>2. gs[n - 1] = fs[n - 1]
        BY <1>5, <1>6, <3>1, <4>1
      <4>3. fs[n - 1].to = fs[n].from /\ fs[n].predecessor = Digest(fs[n - 1])
        BY <2>3, <4>1 DEF History
      <4>4. gs[n].predecessor = fs[n].predecessor
        <5>1. fs # <<>> /\ gs[n] = IF n = Len(fs) THEN closed ELSE fs[n]
          BY <1>5, <1>6, <4>1
        <5> QED
          BY <1>2, <5>1
      <4> QED
        BY <1>7, <4>1, <4>2, <4>3, <4>4
    <3> QED
      BY <3>2, <3>3
  <2> QED
    BY <1>6, <2>1, <2>2, <2>3 DEF History
<1> QED
  BY <1>3, <1>4, <1>6, <1>7, <1>9, <1>10 DEF Extends

Grown(i) ==
    \/ facts'[i] = facts[i]
    \/ \E at \in (world + 1)..world', obs \in (observed + 1)..observed', a \in Artifact, s \in FactStates,
          d \in SUBSET Id, pre \in Digests : facts'[i] = Appended(facts[i], at, obs, a, s, d, pre)

HasVersion(fs, at, obs) == \E n \in 1..Len(fs) : fs[n].from = at /\ fs[n].observed = obs

PastStays(i) ==
    \A v \in 1..world :
        LET valid(fs) == {n \in 1..Len(fs) : ValidAt(fs[n], v)}
        IN  /\ valid(facts[i]) = valid(facts'[i])
            /\ \A n \in valid(facts[i]) : facts'[i][n].artifact = facts[i][n].artifact

LEMMA GrownIsHistory ==
    ASSUME TemporalInv, world' \in Nat, observed' \in Nat, world <= world', observed <= observed',
           NEW i \in Id, Grown(i)
    PROVE  History(facts'[i], world', observed') /\ PastStays(i)
<1>1. History(facts[i], world, observed) /\ world \in Nat /\ observed \in Nat
  BY DEF TemporalInv
<1>2. CASE facts'[i] = facts[i]
  BY <1>1, <1>2, HistoryStays DEF PastStays
<1>3. CASE facts'[i] # facts[i]
  <2>1. PICK at \in (world + 1)..world', obs \in (observed + 1)..observed', a \in Artifact, s \in FactStates,
             d \in SUBSET Id, pre \in Digests : facts'[i] = Appended(facts[i], at, obs, a, s, d, pre)
    BY <1>3 DEF Grown
  <2>2. /\ History(facts'[i], world', observed')
        /\ Len(facts'[i]) = Len(facts[i]) + 1 /\ facts'[i][Len(facts'[i])].from = at
        /\ \A n \in 1..Len(facts[i]) :
              /\ facts'[i][n].artifact = facts[i][n].artifact
              /\ \A v \in 0..world : ValidAt(facts'[i][n], v) <=> ValidAt(facts[i][n], v)
    <3>1. PICK fs, v, p, u, q, gs :
                 fs = facts[i] /\ v = world /\ p = observed /\ u = world' /\ q = observed' /\ gs = facts'[i]
      OBVIOUS
    <3>2. /\ History(fs, v, p) /\ v \in Nat /\ p \in Nat /\ u \in Nat /\ q \in Nat
          /\ at \in (v + 1)..u /\ obs \in (p + 1)..q
      BY <1>1, <2>1, <3>1
    <3>3. gs = Appended(fs, at, obs, a, s, d, pre)
      BY <2>1, <3>1
    <3>4. Extends(Appended(fs, at, obs, a, s, d, pre), fs, v, p, u, q, at, obs)
      BY <2>1, <3>2, AppendedIsHistory
    <3> QED
      BY <3>1, <3>3, <3>4 DEF Extends
  <2>3. Len(facts[i]) \in Nat
    BY <1>1 DEF History
  <2>4. ASSUME NEW v \in 1..world
        PROVE  {n \in 1..Len(facts[i]) : ValidAt(facts[i][n], v)} = {n \in 1..Len(facts'[i]) : ValidAt(facts'[i][n], v)}
    <3>1. v \in 0..world /\ ~(at <= v)
      BY <1>1
    <3>2. ~ValidAt(facts'[i][Len(facts[i]) + 1], v)
      BY <2>2, <3>1 DEF ValidAt
    <3>3. \A n \in 1..Len(facts'[i]) : n \in 1..Len(facts[i]) \/ n = Len(facts[i]) + 1
      BY <2>2, <2>3
    <3>4. \A n \in 1..Len(facts[i]) : n \in 1..Len(facts'[i])
      BY <2>2, <2>3
    <3> QED
      BY <2>2, <3>1, <3>2, <3>3, <3>4
  <2>5. PastStays(i)
    BY <2>2, <2>4 DEF PastStays
  <2> QED
    BY <2>2, <2>5
<1> QED
  BY <1>2, <1>3

LEMMA GrowingKeeps ==
    ASSUME TemporalInv, world' \in Nat, observed' \in Nat, world < world', observed < observed',
           DOMAIN facts' = Id, \A i \in Id : Grown(i),
           \E i \in Id : \E n \in 1..Len(facts'[i]) : facts'[i][n].from = world',
           \E i \in Id : \E n \in 1..Len(facts'[i]) : facts'[i][n].observed = observed'
    PROVE  TemporalInv' /\ \A i \in Id : PastStays(i)
<1>1. \A i \in Id : History(facts'[i], world', observed') /\ PastStays(i)
  BY GrownIsHistory DEF TemporalInv
<1> QED
  BY <1>1 DEF TemporalInv

(* The last version an append makes. *)
LEMMA AppendedEnds ==
    ASSUME TemporalInv, NEW i \in Id, NEW at \in Nat, at > world, NEW obs \in Nat, obs > observed,
           NEW a \in Artifact, NEW s \in FactStates, NEW d \in SUBSET Id, NEW pre \in Digests
    PROVE  HasVersion(Appended(facts[i], at, obs, a, s, d, pre), at, obs)
<1>1. PICK fs, v, p : fs = facts[i] /\ v = world /\ p = observed
  OBVIOUS
<1>2. History(fs, v, p) /\ v \in Nat /\ p \in Nat /\ at \in (v + 1)..at /\ obs \in (p + 1)..obs
  BY <1>1 DEF TemporalInv
<1> DEFINE gs == Appended(fs, at, obs, a, s, d, pre)
<1>3. Extends(gs, fs, v, p, at, obs, at, obs)
  BY <1>2, AppendedIsHistory
<1>4. Len(gs) \in 1..Len(gs)
  BY <1>2, <1>3 DEF Extends, History
<1> QED
  BY <1>1, <1>3, <1>4 DEF Extends, HasVersion

LEMMA FactIsTyped ==
    ASSUME TemporalInv, NEW i \in Id, HasCurrent(facts[i])
    PROVE  /\ Current(facts[i]).artifact \in Artifact /\ Digest(Current(facts[i])) \in Digests
<1>1. facts[i] \in Seq(Version) /\ facts[i] # <<>>
  BY DEF TemporalInv, History, HasCurrent
<1>2. Current(facts[i]) \in Version
  <2>1. Len(facts[i]) \in 1..Len(facts[i])
    BY <1>1
  <2> QED
    BY <1>1, <2>1, ElementOfSeq DEF Current
<1> DEFINE c == Current(facts[i])
<1>3. c.from \in Nat /\ c.to \in Nat /\ c.artifact \in Artifact /\ c.state \in FactStates /\ c.observed \in Nat
  BY <1>2 DEF Version
<1> HIDE DEF c
<1>4. Digest(c) \in Digests
  BY <1>3 DEF Digest, Digests
<1> QED
  BY <1>3, <1>4 DEF c

LEMMA AppendFactKeeps ==
    ASSUME TemporalInv, NEW i \in Id, NEW a \in Artifact, NEW at, NEW d \in SUBSET Id, AppendFact(i, a, d, at)
    PROVE  TemporalInv' /\ \A j \in Id : PastStays(j)
<1>1. world \in Nat /\ observed \in Nat /\ world' \in Nat /\ observed' = observed + 1 /\ world < world' /\ at = world'
  BY DEF AppendFact, InOrder, TemporalInv
<1>2. facts' = [facts EXCEPT ![i] = Appended(facts[i], at, observed + 1, a, "active", d, NoDigest)]
  BY DEF AppendFact
<1>3. NoDigest \in Digests /\ "active" \in FactStates
  BY DEF Digests, FactStates
<1>4. at \in (world + 1)..world' /\ observed + 1 \in (observed + 1)..observed'
  BY <1>1
<1>5. facts'[i] = Appended(facts[i], at, observed + 1, a, "active", d, NoDigest) /\ \A j \in Id : j # i => facts'[j] = facts[j]
  BY <1>2 DEF TemporalInv
<1>6. \A j \in Id : Grown(j)
  BY <1>3, <1>4, <1>5 DEF Grown
<1>7. HasVersion(facts'[i], at, observed + 1)
  <2>1. PICK p \in Nat : p = observed + 1
    BY <1>1
  <2>2. HasVersion(Appended(facts[i], at, p, a, "active", d, NoDigest), at, p)
    BY <1>1, <1>3, <2>1, AppendedEnds
  <2> QED
    BY <1>5, <2>1, <2>2
<1> QED
  BY <1>1, <1>2, <1>6, <1>7, GrowingKeeps DEF HasVersion, TemporalInv


LEMMA TombstoneFactKeeps ==
    ASSUME TemporalInv, NEW i \in Id, TombstoneFact(i)
    PROVE  TemporalInv' /\ \A j \in Id : PastStays(j)
<1> DEFINE a == Current(facts[i]).artifact
<1>1. /\ world \in Nat /\ observed \in Nat /\ world' = world + 1 /\ observed' = observed + 1
      /\ facts' = [facts EXCEPT ![i] = Appended(facts[i], world + 1, observed + 1, a, "tombstoned", {}, NoDigest)]
  BY DEF TombstoneFact, TemporalInv
<1>2. a \in Artifact /\ NoDigest \in Digests /\ "tombstoned" \in FactStates /\ {} \in SUBSET Id
  BY FactIsTyped DEF TombstoneFact, ActiveNow, Digests, FactStates
<1> HIDE DEF a
<1>3. PICK w \in Nat, p \in Nat : w = world + 1 /\ p = observed + 1
  BY <1>1
<1>4. /\ facts'[i] = Appended(facts[i], w, p, a, "tombstoned", {}, NoDigest)
      /\ \A j \in Id : j # i => facts'[j] = facts[j]
      /\ DOMAIN facts' = Id
  BY <1>1, <1>3 DEF TemporalInv
<1>5. \A j \in Id : Grown(j)
  BY <1>1, <1>2, <1>3, <1>4 DEF Grown
<1>6. HasVersion(facts'[i], w, p)
  BY <1>1, <1>2, <1>3, <1>4, AppendedEnds
<1> QED
  BY <1>1, <1>3, <1>4, <1>5, <1>6, GrowingKeeps DEF HasVersion

LEMMA RenameFactKeeps ==
    ASSUME TemporalInv, NEW old \in Id, NEW new \in Id, NEW artifact \in Artifact, RenameFact(old, new, artifact)
    PROVE  TemporalInv' /\ \A j \in Id : PastStays(j)
<1> DEFINE a == Current(facts[old]).artifact
           pre == Digest(Current(facts[old]))
<1>1. /\ world \in Nat /\ observed \in Nat /\ world' = world + 1 /\ observed' = observed + 2 /\ old # new
      /\ facts' = [facts EXCEPT
            ![new] = Appended(facts[new], world + 1, observed + 1, artifact, "active", {}, pre),
            ![old] = Appended(facts[old], world + 1, observed + 2, a, "tombstoned", {}, NoDigest)]
  BY DEF RenameFact, TemporalInv
<1>2. /\ a \in Artifact /\ pre \in Digests /\ NoDigest \in Digests
      /\ "tombstoned" \in FactStates /\ "active" \in FactStates /\ {} \in SUBSET Id
  BY FactIsTyped DEF RenameFact, ActiveNow, Digests, FactStates
<1> HIDE DEF a, pre
<1>3. PICK w \in Nat, p \in Nat, q \in Nat : w = world + 1 /\ p = observed + 1 /\ q = observed + 2
  BY <1>1
<1>4. /\ facts'[new] = Appended(facts[new], w, p, artifact, "active", {}, pre)
      /\ facts'[old] = Appended(facts[old], w, q, a, "tombstoned", {}, NoDigest)
      /\ \A j \in Id : j # old /\ j # new => facts'[j] = facts[j]
      /\ DOMAIN facts' = Id
  BY <1>1, <1>3 DEF TemporalInv
<1>5. \A j \in Id : Grown(j)
  <2>1. Grown(new)
    BY <1>1, <1>2, <1>3, <1>4 DEF Grown
  <2>2. Grown(old)
    BY <1>1, <1>2, <1>3, <1>4 DEF Grown
  <2>3. \A j \in Id : j # old /\ j # new => Grown(j)
    BY <1>4 DEF Grown
  <2> QED
    BY <2>1, <2>2, <2>3
<1>6. HasVersion(facts'[old], w, q)
  BY <1>1, <1>2, <1>3, <1>4, AppendedEnds
<1> QED
  BY <1>1, <1>3, <1>4, <1>5, <1>6, GrowingKeeps DEF HasVersion

(* The facts that are invalidated together are numbered from one to their number. *)
LEMMA RanksAreAll ==
    ASSUME NEW S \in SUBSET Id, S # {}
    PROVE  /\ Cardinality(S) \in Nat /\ Cardinality(S) > 0
           /\ \A i \in S : Cardinality({j \in S : j <= i}) \in 1..Cardinality(S)
           /\ \E i \in S : Cardinality({j \in S : j <= i}) = Cardinality(S)
<1> DEFINE rank(i) == Cardinality({j \in S : j <= i})
<1>1. IsFiniteSet(S) /\ S \subseteq Nat
  BY FS_Subset, TemporalAssumption
<1>2. Cardinality(S) \in Nat /\ Cardinality(S) # 0
  BY <1>1, FS_CardinalityType, FS_EmptySet
<1>3. ASSUME NEW T \in SUBSET S
      PROVE  IsFiniteSet(T) /\ Cardinality(T) \in 0..Cardinality(S) /\ (T # {} => Cardinality(T) # 0)
             /\ (Cardinality(T) = Cardinality(S) => T = S)
  <2>1. IsFiniteSet(T) /\ Cardinality(T) <= Cardinality(S) /\ (Cardinality(S) = Cardinality(T) => S = T)
    BY <1>1, FS_Subset
  <2>2. Cardinality(T) \in Nat /\ (T # {} => Cardinality(T) # 0)
    BY <2>1, FS_CardinalityType, FS_EmptySet
  <2> QED
    BY <1>2, <2>1, <2>2
<1>4. ASSUME NEW i \in S PROVE rank(i) \in 1..Cardinality(S)
  <2>1. {j \in S : j <= i} \in SUBSET S /\ i \in {j \in S : j <= i}
    BY <1>1
  <2>2. rank(i) \in 0..Cardinality(S) /\ rank(i) # 0
    BY <1>3, <2>1
  <2> QED
    BY <1>2, <2>2
<1>5. \E i \in S : rank(i) = Cardinality(S)
  <2> DEFINE Short == {Cardinality(S) - rank(i) : i \in S}
  <2>1. Short \in SUBSET Nat /\ Short # {}
    <3>1. \A i \in S : Cardinality(S) - rank(i) \in Nat
      BY <1>2, <1>4
    <3> HIDE DEF rank
    <3> QED
      BY <3>1
  <2>2. PICK x \in Short : \A y \in Short : x <= y
    BY <2>1, LeastNumber
  <2>3. PICK i \in S : x = Cardinality(S) - rank(i)
    BY <2>2
  <2>4. {j \in S : j <= i} = S
    <3>1. SUFFICES ASSUME NEW k \in S, ~(k <= i) PROVE FALSE
      OBVIOUS
    <3>2. i \in Nat /\ k \in Nat /\ i < k
      BY <1>1, <3>1
    <3>3. {j \in S : j <= i} \in SUBSET {j \in S : j <= k}
      <4>1. ASSUME NEW j \in S, j <= i PROVE j <= k
        <5>1. j \in Nat
          BY <1>1
        <5> QED
          BY <3>2, <4>1, <5>1
      <4> QED
        BY <4>1
    <3>4. IsFiniteSet({j \in S : j <= k}) /\ {j \in S : j <= i} # {j \in S : j <= k}
      <4>1. {j \in S : j <= k} \in SUBSET S
        OBVIOUS
      <4>2. k \in {j \in S : j <= k} /\ k \notin {j \in S : j <= i}
        BY <3>2
      <4> QED
        BY <1>3, <4>1, <4>2
    <3>5. rank(i) <= rank(k) /\ rank(i) # rank(k)
      BY <3>3, <3>4, FS_Subset
    <3>6. Cardinality(S) - rank(k) \in Short
      OBVIOUS
    <3>7. rank(i) \in 1..Cardinality(S) /\ rank(k) \in 1..Cardinality(S)
      BY <1>4
    <3>8. Cardinality(S) - rank(i) <= Cardinality(S) - rank(k)
      BY <2>2, <2>3, <3>6
    <3> HIDE DEF rank
    <3> QED
      BY <1>2, <3>5, <3>7, <3>8
  <2> QED
    BY <2>4
<1>6. Cardinality(S) > 0
  BY <1>2
<1>7. \A i \in S : Cardinality({j \in S : j <= i}) \in 1..Cardinality(S)
  BY <1>4, Zenon
<1>8. \E i \in S : Cardinality({j \in S : j <= i}) = Cardinality(S)
  BY <1>5, Zenon
<1> QED
  BY <1>2, <1>6, <1>7, <1>8, Zenon

LEMMA InvalidateDependenciesKeeps ==
    ASSUME TemporalInv, NEW changed, InvalidateDependencies(changed)
    PROVE  TemporalInv' /\ \A j \in Id : PastStays(j)
<1>1. PICK S : S = Affected(changed)
  OBVIOUS
<1> DEFINE rank(i) == Cardinality({j \in S : j <= i})
           held(i) == Appended(facts[i], world + rank(i), observed + rank(i), Current(facts[i]).artifact, "held", {}, NoDigest)
<1>2. /\ S \in SUBSET Id /\ S # {} /\ world' = world + Cardinality(S) /\ observed' = observed + Cardinality(S)
      /\ facts' = [i \in Id |-> IF i \in S THEN held(i) ELSE facts[i]]
      /\ \A i \in S : HasCurrent(facts[i])
  BY <1>1 DEF InvalidateDependencies, Affected, ActiveNow
<1>3. world \in Nat /\ observed \in Nat /\ Cardinality(S) \in Nat /\ Cardinality(S) > 0
  BY <1>2, RanksAreAll DEF TemporalInv
<1>4. ASSUME NEW i \in S
      PROVE  /\ world + rank(i) \in (world + 1)..world' /\ observed + rank(i) \in (observed + 1)..observed'
             /\ Current(facts[i]).artifact \in Artifact /\ NoDigest \in Digests /\ "held" \in FactStates
             /\ {} \in SUBSET Id
             /\ facts'[i] = held(i)
  <2>1. rank(i) \in 1..Cardinality(S)
    BY <1>2, RanksAreAll
  <2>2. Current(facts[i]).artifact \in Artifact
    BY <1>2, FactIsTyped
  <2>3. facts'[i] = held(i)
    BY <1>2
  <2> QED
    BY <1>2, <1>3, <2>1, <2>2, <2>3 DEF Digests, FactStates
<1>5. ASSUME NEW i \in Id PROVE Grown(i)
  <2>1. CASE i \in S
    <3> DEFINE w == world + rank(i)
               p == observed + rank(i)
               a == Current(facts[i]).artifact
    <3>1. /\ w \in (world + 1)..world' /\ p \in (observed + 1)..observed' /\ a \in Artifact
          /\ NoDigest \in Digests /\ "held" \in FactStates /\ {} \in SUBSET Id
          /\ facts'[i] = Appended(facts[i], w, p, a, "held", {}, NoDigest)
      BY <1>4, <2>1
    <3> HIDE DEF w, p, a
    <3> QED
      BY <3>1 DEF Grown
  <2>2. CASE i \notin S
    BY <1>2, <2>2 DEF Grown
  <2> QED
    BY <2>1, <2>2
<1>6. PICK i \in S : rank(i) = Cardinality(S)
  BY <1>2, RanksAreAll
<1>7. HasVersion(facts'[i], world', observed')
  <2> DEFINE a == Current(facts[i]).artifact
  <2>1. PICK w \in Nat, p \in Nat : w = world' /\ p = observed'
    BY <1>2, <1>3
  <2>2. w = world + rank(i) /\ p = observed + rank(i) /\ w > world /\ p > observed
    BY <1>2, <1>3, <1>6, <2>1
  <2>3. /\ facts'[i] = Appended(facts[i], w, p, a, "held", {}, NoDigest)
        /\ a \in Artifact /\ NoDigest \in Digests /\ "held" \in FactStates /\ {} \in SUBSET Id /\ i \in Id
    BY <1>2, <1>4, <2>2
  <2> HIDE DEF a
  <2> QED
    BY <2>1, <2>2, <2>3, AppendedEnds
<1>8. DOMAIN facts' = Id /\ i \in Id /\ world' \in Nat /\ observed' \in Nat /\ world < world' /\ observed < observed'
  BY <1>2, <1>3
<1> QED
  BY <1>5, <1>7, <1>8, GrowingKeeps DEF HasVersion

LEMMA TemporalSteps ==
    TemporalInv /\ [TemporalNext]_temporalVars => TemporalInv' /\ (~UNCHANGED temporalVars => \A i \in Id : PastStays(i))
<1> SUFFICES ASSUME TemporalInv, [TemporalNext]_temporalVars
             PROVE  TemporalInv' /\ (~UNCHANGED temporalVars => \A i \in Id : PastStays(i))
  OBVIOUS
<1>1. CASE UNCHANGED temporalVars
  BY <1>1 DEF temporalVars, TemporalInv
<1>2. ASSUME NEW i \in Id, NEW a \in Artifact, NEW at, NEW d \in {{}} \cup {{j} : j \in Id \ {i}}, AppendFact(i, a, d, at)
      PROVE  TemporalInv' /\ \A j \in Id : PastStays(j)
  <2>1. d \in SUBSET Id
    OBVIOUS
  <2> QED
    BY <1>2, <2>1, AppendFactKeeps
<1> QED
  BY <1>1, <1>2, TombstoneFactKeeps, InvalidateDependenciesKeeps, RenameFactKeeps DEF TemporalNext

LEMMA LatestIs ==
    ASSUME NEW S \in SUBSET Nat, NEW w \in Nat, \A x \in S : x <= w, w > 0 => w \in S, w = 0 => S = {}
    PROVE  Latest(S) = w
<1>1. CASE w = 0
  BY <1>1 DEF Latest
<1>2. CASE w > 0
  <2>1. w \in S /\ \A y \in S : y <= w
    BY <1>2
  <2>2. PICK m : m = CHOOSE x \in S : \A y \in S : y <= x
    OBVIOUS
  <2>3. m \in S /\ \A y \in S : y <= m
    BY <2>1, <2>2
  <2>4. m = w
    BY <2>1, <2>3
  <2> QED
    BY <2>1, <2>2, <2>4 DEF Latest
<1> QED
  BY <1>1, <1>2

LEMMA TemporalIsLoadable == TemporalInv => AlwaysLoads
<1> SUFFICES ASSUME TemporalInv PROVE AlwaysLoads
  OBVIOUS
<1> DEFINE Starts == {v.from : v \in Versions(facts)}
           Seen == {v.observed : v \in Versions(facts)}
<1>1. \A v \in Versions(facts) : \E i \in Id : \E n \in 1..Len(facts[i]) : v = facts[i][n]
  BY DEF Versions
<1>2. \A i \in Id : \A n \in 1..Len(facts[i]) : facts[i][n] \in Versions(facts)
  BY DEF Versions
<1>3. \A v \in Versions(facts) : v.from \in 1..world /\ v.observed \in 1..observed
  BY <1>1 DEF TemporalInv, History
<1>4. world = Latest(Starts)
  <2>1. /\ Starts \in SUBSET Nat /\ world \in Nat /\ \A x \in Starts : x <= world
        /\ world > 0 => world \in Starts
        /\ world = 0 => Starts = {}
    BY <1>2, <1>3 DEF TemporalInv
  <2> HIDE DEF Starts
  <2> QED
    BY <2>1, LatestIs
<1>5. observed = Latest(Seen)
  <2>1. /\ Seen \in SUBSET Nat /\ observed \in Nat /\ \A x \in Seen : x <= observed
        /\ observed > 0 => observed \in Seen
        /\ observed = 0 => Seen = {}
    BY <1>2, <1>3 DEF TemporalInv
  <2> HIDE DEF Seen
  <2> QED
    BY <2>1, LatestIs
<1>6. ASSUME NEW i \in Id, NEW n \in 1..Len(facts[i])
      PROVE  /\ facts[i][n].to = Open \/ facts[i][n].to > facts[i][n].from
             /\ n > 1 => /\ facts[i][n - 1].to \in {Open, facts[i][n].from}
                         /\ facts[i][n].predecessor = Digest(facts[i][n - 1])
  <2>1. History(facts[i], world, observed)
    BY DEF TemporalInv
  <2>2. n # Len(facts[i]) => n < Len(facts[i]) /\ Len(facts[i]) \in 1..Len(facts[i])
    BY <2>1 DEF History
  <2>3. n # Len(facts[i]) => facts[i][n].from < facts[i][n].to
    BY <2>1, <2>2 DEF History
  <2>4. n = Len(facts[i]) => facts[i][n].to = Open
    BY <2>1 DEF History
  <2>5. facts[i][n].from \in Nat
    BY <2>1 DEF History, TemporalInv
  <2>6. facts[i][n] \in Version
    BY <2>1 DEF History
  <2>7. facts[i][n].to \in Nat
    BY <2>6 DEF Version
  <2> QED
    BY <2>1, <2>3, <2>4, <2>5, <2>7 DEF History
<1> QED
  BY <1>4, <1>5, <1>6 DEF AlwaysLoads, Loads, Verified

(* However facts were appended, deleted, invalidated and renamed, the overlay loads again:
   its sequences are the latest of its versions, which follow each other in the world and
   name each other. *)
THEOREM OverlayLoads == TemporalSpec => []AlwaysLoads
<1>1. TemporalInit => TemporalInv
  BY DEF TemporalInit, TemporalInv, History
<1> QED
  BY <1>1, TemporalSteps, TemporalIsLoadable, PTL DEF TemporalSpec

LEMMA PastIsKnown ==
    ASSUME TemporalInv, \A i \in Id : PastStays(i)
    PROVE  \A w \in 1..world :
              /\ AsOf(facts, w, TRUE) \subseteq AsOf(facts', w, TRUE)
              /\ \A i \in AsOf(facts, w, TRUE) : ArtifactAsOf(facts', w, i) = ArtifactAsOf(facts, w, i)
<1> SUFFICES ASSUME NEW w \in 1..world, NEW i \in AsOf(facts, w, TRUE)
             PROVE  i \in AsOf(facts', w, TRUE) /\ ArtifactAsOf(facts', w, i) = ArtifactAsOf(facts, w, i)
  OBVIOUS
<1> DEFINE valid(fs) == {n \in 1..Len(fs) : ValidAt(fs[n], w)}
<1>1. i \in Id /\ \E n \in 1..Len(facts[i]) : ValidAt(facts[i][n], w)
  BY DEF AsOf
<1>2. valid(facts[i]) = valid(facts'[i]) /\ \A n \in valid(facts[i]) : facts'[i][n].artifact = facts[i][n].artifact
  BY <1>1 DEF PastStays
<1>3. \E n \in 1..Len(facts'[i]) : ValidAt(facts'[i][n], w)
  BY <1>1, <1>2
<1>4. History(facts[i], world, observed)
  BY <1>1 DEF TemporalInv
<1>5. PICK n \in valid(facts[i]) : TRUE
  BY <1>1
<1>6. ASSUME NEW m \in valid(facts[i]), m < n \/ n < m PROVE FALSE
  <2>1. ASSUME NEW x \in valid(facts[i]), NEW y \in valid(facts[i]), x < y PROVE FALSE
    <3>1. x \in 1..Len(facts[i]) /\ y \in 1..Len(facts[i]) /\ ValidAt(facts[i][x], w) /\ ValidAt(facts[i][y], w)
      OBVIOUS
    <3>2. facts[i][x].to <= facts[i][y].from /\ facts[i][y].from \in 1..world
      BY <1>4, <2>1, <3>1 DEF History
    <3>3. facts[i][x].to # Open
      <4>1. x # Len(facts[i])
        BY <1>4, <2>1, <3>1 DEF History
      <4> QED
        BY <1>4, <3>1, <4>1 DEF History
    <3>4. facts[i][x] \in Version
      BY <1>4, <3>1 DEF History
    <3>5. facts[i][x].to \in Nat /\ world \in Nat
      BY <3>4 DEF Version, TemporalInv
    <3> QED
      BY <3>1, <3>2, <3>3, <3>5 DEF ValidAt
  <2> QED
    BY <1>6, <2>1
<1>7. \A m \in valid(facts[i]) : m <= n
  BY <1>6
<1>8. \A m \in valid(facts[i]) : (\A k \in valid(facts[i]) : k <= m) => m = n
  BY <1>6, <1>7
<1>9. PICK c : c = CHOOSE m \in valid(facts[i]) : \A k \in valid(facts[i]) : k <= m
  OBVIOUS
<1>10. c \in valid(facts[i])
  BY <1>5, <1>7, <1>9
<1>11. ArtifactAsOf(facts, w, i) = facts[i][c].artifact /\ ArtifactAsOf(facts', w, i) = facts'[i][c].artifact
  BY <1>2, <1>9 DEF ArtifactAsOf
<1> QED
  BY <1>1, <1>2, <1>3, <1>10, <1>11 DEF AsOf

(* No call forgets or rewrites what was known of an earlier world. *)
THEOREM EvidenceIsKept == TemporalSpec => EvidenceStays
<1>1. TemporalInit => TemporalInv
  BY DEF TemporalInit, TemporalInv, History
<1>2. TemporalInv /\ [TemporalNext]_temporalVars =>
        [\A w \in 1..world :
            /\ AsOf(facts, w, TRUE) \subseteq AsOf(facts', w, TRUE)
            /\ \A i \in AsOf(facts, w, TRUE) : ArtifactAsOf(facts', w, i) = ArtifactAsOf(facts, w, i)]_temporalVars
  BY TemporalSteps, PastIsKnown
<1> QED
  BY <1>1, <1>2, TemporalSteps, PTL DEF TemporalSpec, EvidenceStays

(* So the temporal overlay can be loaded, and asked about the past, after any calls. *)
THEOREM OverlayKept == TemporalSpec => TemporalIsKept
  BY OverlayLoads, EvidenceIsKept, PTL DEF TemporalIsKept

----------------------------------------------------------------------------
(* Ranks of routes *)

LEMMA MaxMeans ==
    ASSUME NEW S \in SUBSET Int, NEW x \in S, \A y \in S : y <= x
    PROVE  Max(S) = x
<1>1. Max(S) = CHOOSE z \in S : \A y \in S : z >= y
  BY DEF Max
<1>2. \A y \in S : x >= y
  OBVIOUS
<1>3. PICK m : m = CHOOSE z \in S : \A y \in S : z >= y
  OBVIOUS
<1>4. m \in S /\ \A y \in S : m >= y
  BY <1>2, <1>3
<1> QED
  BY <1>1, <1>3, <1>4

(* The three ranks, by what calls for them. *)
CallsForFull(r) == IsSensitive(r) \/ DiffRank(r) = FullPath
CallsForReview(r) == IsVague(r) \/ IsHub(r) \/ IsUnmapped(r) \/ DiffRank(r) = Review

LEMMA RankMeans ==
    ASSUME NEW r
    PROVE  OwnRank(r) = IF CallsForFull(r) THEN FullPath ELSE IF CallsForReview(r) THEN Review ELSE FastPath
<1> DEFINE S == {FastPath, DiffRank(r)}
                \cup (IF IsVague(r) \/ IsHub(r) \/ IsUnmapped(r) THEN {Review} ELSE {})
                \cup (IF IsSensitive(r) THEN {FullPath} ELSE {})
<1>1. OwnRank(r) = Max(S)
  BY DEF OwnRank
<1>2. FastPath = 1 /\ Review = 2 /\ FullPath = 3
  BY DEF FastPath, Review, FullPath
<1>3. DiffRank(r) \in {FastPath, Review, FullPath}
  BY DEF DiffRank
<1>4. S \subseteq Int /\ \A y \in S : y \in {1, 2, 3}
  BY <1>2, <1>3
<1>5. CASE CallsForFull(r)
  <2>1. 3 \in S
    BY <1>2, <1>5 DEF CallsForFull
  <2>2. \A y \in S : y <= 3
    BY <1>4
  <2> HIDE DEF S
  <2> QED
    BY <1>1, <1>2, <1>4, <1>5, <2>1, <2>2, MaxMeans
<1>6. CASE ~ CallsForFull(r) /\ CallsForReview(r)
  <2>1. 2 \in S /\ 3 \notin S
    BY <1>2, <1>3, <1>6 DEF CallsForFull, CallsForReview
  <2>2. \A y \in S : y <= 2
    BY <1>4, <2>1
  <2> HIDE DEF S
  <2> QED
    BY <1>1, <1>2, <1>4, <1>6, <2>1, <2>2, MaxMeans
<1>7. CASE ~ CallsForFull(r) /\ ~ CallsForReview(r)
  <2>1. 1 \in S /\ 2 \notin S /\ 3 \notin S
    BY <1>2, <1>3, <1>7 DEF CallsForFull, CallsForReview
  <2>2. \A y \in S : y <= 1
    BY <1>4, <2>1
  <2> HIDE DEF S
  <2> QED
    BY <1>1, <1>2, <1>4, <1>7, <2>1, <2>2, MaxMeans
<1> QED
  BY <1>5, <1>6, <1>7

(* Naming one more concrete target leaves everything that is found. *)
LEMMA MoreTargetsMoreRank ==
    ASSUME NEW r \in RouteRequest, r.targets # {}, NEW t \in Target \ Vague
    PROVE  OwnRank(r) <= OwnRank([r EXCEPT !.targets = @ \cup {t}])
<1>1. PICK q : q = [r EXCEPT !.targets = @ \cup {t}]
  OBVIOUS
<1>2. q.targets = r.targets \cup {t} /\ q.hub = r.hub /\ q.diff = r.diff /\ q.packet = r.packet /\ q.phase = r.phase
  BY <1>1 DEF RouteRequest
<1>3. IsVague(q) <=> IsVague(r)
  BY <1>2 DEF IsVague
<1>4. DiffRank(q) = DiffRank(r) /\ (IsHub(q) <=> IsHub(r)) /\ (IsSensitive(r) => IsSensitive(q))
  BY <1>2, <1>3 DEF DiffRank, IsHub, IsSensitive
<1>5. IsUnmapped(r) => IsUnmapped(q)
  <2>1. IsFiniteSet(q.targets) /\ r.targets \subseteq q.targets
    BY <1>2, RouteAssumption, FS_Subset DEF RouteRequest
  <2>2. Cardinality(r.targets) <= Cardinality(q.targets) /\ IsFiniteSet(r.targets)
    BY <2>1, FS_Subset
  <2>3. Cardinality(r.targets) \in Nat /\ Cardinality(q.targets) \in Nat
    BY <2>1, <2>2, FS_CardinalityType
  <2> QED
    BY <1>2, <2>2, <2>3 DEF IsUnmapped
<1>6. (CallsForFull(r) => CallsForFull(q)) /\ (CallsForReview(r) => CallsForReview(q))
  BY <1>3, <1>4, <1>5 DEF CallsForFull, CallsForReview
<1>7. OwnRank(r) <= OwnRank(q)
  BY <1>6, RankMeans DEF FastPath, Review, FullPath
<1> QED
  BY <1>1, <1>7

RouteInv ==
    /\ evidence \subseteq {FastPath, Review, FullPath} /\ promoted \in Nat
    /\ IF evidence = {} THEN promoted = 0 ELSE promoted \in evidence /\ \A x \in evidence : x <= promoted

LEMMA SignalsKeep == ASSUME RouteInv, NEW r, CompileSignals(r) PROVE RouteInv'
<1>1. PICK n : n = OwnRank(r)
  OBVIOUS
<1>2. n \in {1, 2, 3} /\ FastPath = 1 /\ Review = 2 /\ FullPath = 3
  BY <1>1, RankMeans DEF FastPath, Review, FullPath
<1>3. promoted' = (IF n < promoted THEN promoted ELSE n) /\ evidence' = evidence \cup {n}
  BY <1>1 DEF CompileSignals
<1>4. evidence \subseteq {1, 2, 3} /\ promoted \in Nat
  BY <1>2 DEF RouteInv
<1>5. promoted' \in evidence' /\ \A x \in evidence' : x <= promoted'
  <2>1. CASE evidence = {}
    BY <1>2, <1>3, <2>1 DEF RouteInv
  <2>2. CASE evidence # {}
    BY <1>2, <1>3, <1>4, <2>2 DEF RouteInv
  <2> QED
    BY <2>1, <2>2
<1> QED
  BY <1>2, <1>3, <1>4, <1>5 DEF RouteInv

(* The promotion rank that a caller hands back is the highest any request called for, and
   naming one more concrete target never lowers what a request calls for (_promotion and
   compile_route_signals of plugin_route_signals.py). *)
THEOREM RanksRise == RouteSpec => []RanksOnlyRise
<1>1. RouteInit => RouteInv
  BY DEF RouteInit, RouteInv
<1>2. RouteInv /\ [RouteNext]_routeVars => RouteInv'
  <2> SUFFICES ASSUME RouteInv, [RouteNext]_routeVars PROVE RouteInv'
    OBVIOUS
  <2>1. CASE UNCHANGED routeVars
    BY <2>1 DEF routeVars, RouteInv
  <2> QED
    BY <2>1, SignalsKeep DEF RouteNext
<1>3. RouteInv => RanksOnlyRise
  <2> SUFFICES ASSUME RouteInv, evidence # {} PROVE promoted = Max(evidence)
    BY MoreTargetsMoreRank DEF RanksOnlyRise
  <2>1. promoted \in evidence /\ \A x \in evidence : x <= promoted
    BY DEF RouteInv
  <2>2. evidence \subseteq {1, 2, 3}
    BY DEF RouteInv, FastPath, Review, FullPath
  <2>3. evidence \subseteq Int
    BY <2>2
  <2> QED
    BY <2>1, <2>3, MaxMeans
<1> QED
  BY <1>1, <1>2, <1>3, PTL DEF RouteSpec

----------------------------------------------------------------------------
(* The receipts of operations, ingested batch by batch *)

Views ==
    [receipts : [Handle -> Receipt \cup {NoReceipt}], tombstones : [Handle -> Receipt \cup {NoReceipt}],
     last : [Handle -> Int], forks : SUBSET Handle, ok : BOOLEAN]

(* One receipt makes a view of a view. *)
LEMMA TakeMeans == ASSUME NEW v \in Views, NEW r \in Receipt PROVE Take(v, r) \in Views
<1>1. PICK h, s : h = r.handle /\ s = r.sequence
  OBVIOUS
<1>2. h \in Handle /\ s \in Int /\ v.last[h] \in Int
  BY <1>1 DEF Receipt, Views
<1>3. CASE ~ v.ok \/ r.generation # "pinned" \/ s < v.last[h]
  <2>1. Take(v, r) = v \/ Take(v, r) = [v EXCEPT !.ok = FALSE]
    BY <1>1, <1>2, <1>3 DEF Take
  <2>2. [v EXCEPT !.ok = FALSE] \in Views
    BY DEF Views
  <2> QED
    BY <2>1, <2>2
<1>4. CASE v.ok /\ r.generation = "pinned" /\ s = v.last[h]
  <2>1. Take(v, r) = v \/ Take(v, r) = [v EXCEPT !.forks = @ \cup {h}, !.ok = FALSE]
    BY <1>1, <1>2, <1>4 DEF Take
  <2>2. [v EXCEPT !.forks = @ \cup {h}, !.ok = FALSE] \in Views
    BY <1>2 DEF Views
  <2> QED
    BY <2>1, <2>2
<1>5. CASE v.ok /\ r.generation = "pinned" /\ s > v.last[h]
  <2>1. Take(v, r) = [v EXCEPT !.last[h] = s,
                               !.receipts[h] = IF r.tombstone THEN NoReceipt ELSE r,
                               !.tombstones[h] = IF r.tombstone THEN r ELSE NoReceipt]
    BY <1>1, <1>2, <1>5 DEF Take
  <2>2. PICK a, b : /\ a \in Receipt \cup {NoReceipt} /\ a = IF r.tombstone THEN NoReceipt ELSE r
                    /\ b \in Receipt \cup {NoReceipt} /\ b = IF r.tombstone THEN r ELSE NoReceipt
    OBVIOUS
  <2>3. [v EXCEPT !.last[h] = s, !.receipts[h] = a, !.tombstones[h] = b] \in Views
    BY <1>2, <2>2 DEF Views
  <2> QED
    BY <2>1, <2>2, <2>3
<1> QED
  BY <1>2, <1>3, <1>4, <1>5 DEF Views

(* So does a batch. *)
LEMMA TakenMeans == ASSUME View \in Views, NEW batch \in Seq(Receipt) PROVE Taken(batch) \in Views
<1>1. PICK N \in Nat : N = Len(batch)
  OBVIOUS
<1>2. \A n \in 1..N : batch[n] \in Receipt
  BY <1>1
<1> DEFINE J == [n \in 0..N |-> Views]
           g == [n \in 1..N |-> [v \in Views |-> Take(v, batch[n])]]
           IsLoop(f) == f = [n \in 0..N |-> IF n = 0 THEN View ELSE Take(f[n - 1], batch[n])]
<1>3. Stepping(g, J, N) /\ View \in J[0]
  BY <1>2, TakeMeans DEF Stepping
<1>4. PICK f : Running(f, View, g, N) /\ Staying(f, J, N)
  <2> HIDE DEF J, g
  <2> QED
    BY <1>3, LoopRuns
<1>5. IsLoop(f)
  <2>1. \A n \in 0..N : f[n] = IF n = 0 THEN View ELSE Take(f[n - 1], batch[n])
    <3> SUFFICES ASSUME NEW n \in 0..N, n # 0 PROVE f[n] = Take(f[n - 1], batch[n])
      BY <1>4 DEF Running
    <3>1. n \in 1..N /\ n - 1 \in 0..N
      OBVIOUS
    <3>2. f[n - 1] \in Views /\ f[n] = g[n][f[n - 1]]
      BY <1>4, <3>1 DEF Running, Staying
    <3> QED
      BY <3>1, <3>2
  <2>2. f = [n \in 0..N |-> f[n]]
    BY <1>4 DEF Running
  <2> QED
    BY <2>1, <2>2
<1>6. PICK a : a = CHOOSE h : IsLoop(h)
  OBVIOUS
<1>7. IsLoop(a)
  BY <1>5, <1>6
<1>8. a[0] \in J[0]
  BY <1>7
<1>9. \A n \in 1..N : a[n - 1] \in J[n - 1] => a[n] \in J[n]
  <2> SUFFICES ASSUME NEW n \in 1..N, a[n - 1] \in J[n - 1] PROVE a[n] \in J[n]
    OBVIOUS
  <2>1. a[n] = Take(a[n - 1], batch[n])
    BY <1>7
  <2> QED
    BY <1>2, <2>1, TakeMeans
<1>10. a[N] \in J[N]
  <2> HIDE DEF J, IsLoop
  <2>1. N \in 0..N
    OBVIOUS
  <2> QED
    BY <1>8, <1>9, <2>1, LoopKeeps
<1>11. Taken(batch) = a[N]
  BY <1>1, <1>6 DEF Taken
<1> QED
  BY <1>10, <1>11

(* Where no refused batch changed a receipt or its parent, the gaps are those of the view. *)
GapsAreOfView ==
    \A h \in Handle : h \notin unsettled /\ (receipts[h] = NoReceipt \/ receipts[h].parent \notin unsettled) =>
        (h \in gaps <=> h \in GapsOf(receipts))

OperationInv == View \in Views /\ GapsAreOfView

LEMMA IngestKeeps ==
    ASSUME OperationInv, NEW batch \in Batch, Ingest(batch)
    PROVE  OperationInv'
<1>1. PICK v \in Views : v = Taken(batch)
  BY TakenMeans, OperationsAssumption DEF OperationInv
<1>2. /\ receipts' = v.receipts /\ tombstones' = v.tombstones /\ lastSequence' = v.last /\ forks' = v.forks
      /\ gaps' = (IF v.ok THEN GapsOf(v.receipts) ELSE gaps)
      /\ unsettled' = (IF v.ok THEN {} ELSE unsettled \cup {h \in Handle : v.receipts[h] # receipts[h]})
  BY <1>1 DEF Ingest
<1>3. View' \in Views
  BY <1>2 DEF View, Views
<1>4. GapsAreOfView'
  <2>1. CASE v.ok
    BY <1>2, <2>1 DEF GapsAreOfView, GapsOf
  <2>2. CASE ~ v.ok
    <3> SUFFICES ASSUME NEW h \in Handle, h \notin unsettled',
                        receipts'[h] = NoReceipt \/ receipts'[h].parent \notin unsettled'
                 PROVE  h \in gaps' <=> h \in GapsOf(receipts)'
      BY DEF GapsAreOfView
    <3>1. /\ h \notin unsettled /\ receipts'[h] = receipts[h] /\ gaps' = gaps
          /\ \A p \in Handle : p \notin unsettled' => p \notin unsettled /\ receipts'[p] = receipts[p]
      BY <1>2, <2>2
    <3>2. receipts[h] = NoReceipt \/ receipts[h].parent \notin unsettled
      BY <1>2, <2>2, <3>1
    <3>3. h \in gaps <=> h \in GapsOf(receipts)
      BY <3>1, <3>2 DEF OperationInv, GapsAreOfView
    <3>4. h \in GapsOf(receipts) <=> h \in GapsOf(receipts)'
      <4>1. CASE receipts[h] = NoReceipt \/ receipts[h].parent = NoParent
        BY <3>1, <4>1 DEF GapsOf
      <4>2. CASE receipts[h] # NoReceipt /\ receipts[h].parent # NoParent
        <5>1. PICK p \in Handle : p = receipts[h].parent
          BY <4>2 DEF OperationInv, View, Views, Receipt
        <5>2. receipts'[p] = receipts[p]
          BY <3>1, <4>2, <5>1
        <5> QED
          BY <3>1, <5>1, <5>2 DEF GapsOf
      <4> QED
        BY <4>1, <4>2
    <3> QED
      BY <3>1, <3>3, <3>4
  <2> QED
    BY <2>1, <2>2
<1> QED
  BY <1>3, <1>4 DEF OperationInv

(* A receipt is only reported complete without an older receipt that it depends on where a
   batch that was refused midway had changed one of the two, whatever is ingested, replaced
   and deleted (ingest, _refresh_consistency and query of operations_projection.py). *)
THEOREM CompleteAreCausal == OperationsSpec => []CompleteIsCausal
<1>1. OperationsInit => OperationInv
  BY DEF OperationsInit, OperationInv, GapsAreOfView, View, Views, GapsOf
<1>2. OperationInv /\ [OperationsNext]_operationVars => OperationInv'
  <2> SUFFICES ASSUME OperationInv, [OperationsNext]_operationVars PROVE OperationInv'
    OBVIOUS
  <2>1. CASE UNCHANGED operationVars
    BY <2>1 DEF operationVars, OperationInv, View, GapsAreOfView, GapsOf
  <2> QED
    BY <2>1, IngestKeeps DEF OperationsNext
<1>3. OperationInv => CompleteIsCausal
  <2> SUFFICES ASSUME OperationInv, NEW h \in Handle, receipts[h] # NoReceipt, h \notin gaps,
                      h \notin unsettled, receipts[h].parent \notin unsettled, receipts[h].parent # NoParent
               PROVE  /\ receipts[receipts[h].parent] # NoReceipt
                      /\ receipts[receipts[h].parent].sequence < receipts[h].sequence
    BY DEF CompleteIsCausal, QueryComplete, AfterParent
  <2>1. h \notin GapsOf(receipts)
    BY DEF OperationInv, GapsAreOfView
  <2>2. PICK p \in Handle : p = receipts[h].parent
    BY DEF OperationInv, View, Views, Receipt
  <2>3. receipts[p] # NoReceipt /\ ~ (receipts[p].sequence >= receipts[h].sequence)
    BY <2>1, <2>2 DEF GapsOf
  <2>4. receipts[p].sequence \in Int /\ receipts[h].sequence \in Int
    BY <2>3, OperationsAssumption DEF OperationInv, View, Views, Receipt
  <2> QED
    BY <2>2, <2>3, <2>4
<1> QED
  BY <1>1, <1>2, <1>3, PTL DEF OperationsSpec

----------------------------------------------------------------------------
(* Packets for plugins *)

(* What a key and ranges determine: the spans of the files that are named in the key. *)
SpansWith(key, ranges) ==
    [n \in 1..(IF Len(key.asked) < key.items THEN Len(key.asked) ELSE key.items) |->
        [path |-> key.asked[n], text |-> key.files[key.asked[n]], range |-> ranges[key.asked[n]]]]

BodyWith(key, ranges) ==
    [session |-> key.session, edition |-> key.edition, patch |-> key.patch, asked |-> key.asked, items |-> key.items,
     spans |-> SpansWith(key, ranges), truncated |-> key.items < Len(key.asked), status |-> "cold"]

RangesOf(key) == editions[key.edition].ranges

PacketFits(e) ==
    /\ e.key.edition \in Edition /\ editions[e.key.edition] # Lost
    /\ \E ranges : /\ e.packet = [body |-> BodyWith(e.key, ranges), hash |-> BodyWith(e.key, ranges)]
                   /\ ranges = RangesOf(e.key) \/ e.packet.hash \in aged

(* A cached packet is what its key makes of the ranges its generation has, or had before it
   was loaded again. *)
PacketInv ==
    /\ editions \in [Edition -> {Lost} \cup [files : [PathName -> Text], ranges : Layout]]
    /\ sessionPins = [s \in Session |-> sessionPins[s]]
    /\ \A s \in Session : sessionPins[s] \in Edition => editions[sessionPins[s]] # Lost
    /\ \A e \in packets : PacketFits(e)

(* What a packet shows when it is returned. *)
ShowsCurrent(p, hash) ==
    LET now == Spans(p.edition, p.patch, p.asked, p.items)
    IN  /\ sessionPins[p.session] = p.edition
        /\ TextsOf(p.spans) = TextsOf(now)
        /\ p.spans = now \/ hash \in aged
        /\ ~ p.truncated => Len(p.spans) = Len(p.asked)

LEMMA KeyMeans ==
    ASSUME NEW s, NEW g, NEW o, NEW wanted, NEW items, NEW key, key = PacketKey(s, g, o, wanted, items)
    PROVE  /\ key.session = s /\ key.edition = g /\ key.patch = o /\ key.asked = wanted /\ key.items = items
           /\ SpansWith(key, RangesOf(key)) = Spans(g, o, wanted, items)
<1>1. key = [session |-> s, edition |-> g, patch |-> o, asked |-> wanted, items |-> items, files |-> ViewFiles(g, o)]
  BY DEF PacketKey
<1>2. key.session = s /\ key.edition = g /\ key.patch = o /\ key.asked = wanted /\ key.items = items
      /\ key.files = ViewFiles(g, o)
  BY <1>1
<1> QED
  BY <1>2 DEF SpansWith, RangesOf, Spans

(* Other ranges change no text. *)
LEMMA TextsAreOfKey ==
    ASSUME NEW key, NEW ranges, NEW others
    PROVE  TextsOf(SpansWith(key, ranges)) = TextsOf(SpansWith(key, others))
<1>1. PICK D : D = 1..(IF Len(key.asked) < key.items THEN Len(key.asked) ELSE key.items)
  OBVIOUS
<1>2. ASSUME NEW rs PROVE TextsOf(SpansWith(key, rs)) = [n \in D |-> <<key.asked[n], key.files[key.asked[n]]>>]
  <2>1. PICK spans : spans = SpansWith(key, rs)
    OBVIOUS
  <2>2. spans = [n \in D |-> [path |-> key.asked[n], text |-> key.files[key.asked[n]], range |-> rs[key.asked[n]]]]
    BY <1>1, <2>1 DEF SpansWith
  <2>3. DOMAIN spans = D /\ \A n \in D : spans[n].path = key.asked[n] /\ spans[n].text = key.files[key.asked[n]]
    BY <2>2
  <2>4. TextsOf(spans) = [n \in D |-> <<key.asked[n], key.files[key.asked[n]]>>]
    BY <2>3 DEF TextsOf
  <2> QED
    BY <2>1, <2>4
<1> QED
  BY <1>2

LEMMA CompileKeeps ==
    ASSUME PacketInv, NEW s \in Session, NEW g \in Edition, NEW o, NEW wanted \in Asked, NEW items \in 1..MaxItems,
           CompilePacket(s, g, o, wanted, items)
    PROVE  /\ PacketInv'
           /\ ShowsCurrent(packet'.body, packet'.hash)
<1>1. PICK key : key = PacketKey(s, g, o, wanted, items)
  OBVIOUS
<1>2. PICK ranges : ranges = RangesOf(key)
  OBVIOUS
<1>3. /\ key.session = s /\ key.edition = g /\ key.patch = o /\ key.asked = wanted /\ key.items = items
      /\ SpansWith(key, ranges) = Spans(g, o, wanted, items)
  BY <1>1, <1>2, KeyMeans
<1>4. sessionPins[s] = g /\ UNCHANGED <<editions, patches, sessionPins, aged>>
  BY DEF CompilePacket
<1>5. editions[g] # Lost
  BY <1>4 DEF PacketInv
<1>6. PICK fresh : fresh = Packet(s, g, o, wanted, items)
  OBVIOUS
<1>7. fresh = BodyWith(key, ranges)
  BY <1>3, <1>6 DEF Packet, BodyWith
<1>8. Len(wanted) \in Nat /\ items \in Nat
  BY PacketAssumption
<1>9. ASSUME NEW rs, NEW b, NEW c, b = [BodyWith(key, rs) EXCEPT !.status = c],
             NEW hash, rs = ranges \/ hash \in aged
      PROVE  ShowsCurrent(b, hash)
  <2>1. b.session = s /\ b.edition = g /\ b.patch = o /\ b.asked = wanted /\ b.items = items
        /\ b.spans = SpansWith(key, rs) /\ b.truncated = (items < Len(wanted))
    BY <1>3, <1>9 DEF BodyWith
  <2>2. TextsOf(b.spans) = TextsOf(Spans(g, o, wanted, items))
    BY <1>3, <2>1, TextsAreOfKey
  <2>3. b.spans = Spans(g, o, wanted, items) \/ hash \in aged
    BY <1>3, <1>9, <2>1
  <2>4. ~ (items < Len(wanted)) => Len(SpansWith(key, rs)) = Len(wanted)
    <3>1. ~ (items < Len(wanted)) => (IF Len(wanted) < items THEN Len(wanted) ELSE items) = Len(wanted)
      BY <1>8
    <3>2. PICK files : files = key.files
      OBVIOUS
    <3>3. ~ (items < Len(wanted)) => SpansWith(key, rs) \in [1..Len(wanted) ->
                     {[path |-> wanted[n], text |-> files[wanted[n]], range |-> rs[wanted[n]]] : n \in 1..Len(wanted)}]
      BY <1>3, <3>1, <3>2 DEF SpansWith
    <3> QED
      BY <1>8, <3>3
  <2> QED
    BY <1>4, <2>1, <2>2, <2>3, <2>4 DEF ShowsCurrent
<1>10. ASSUME NEW e \in packets, e.key = key, packet' = [e.packet EXCEPT !.body.status = "warm"]
       PROVE  ShowsCurrent(packet'.body, packet'.hash)
  <2>1. PICK rs : /\ e.packet = [body |-> BodyWith(key, rs), hash |-> BodyWith(key, rs)]
                  /\ rs = ranges \/ e.packet.hash \in aged
    BY <1>2, <1>10 DEF PacketInv, PacketFits
  <2>2. PICK b : b = BodyWith(key, rs)
    OBVIOUS
  <2>3. packet'.body = [b EXCEPT !.status = "warm"] /\ packet'.hash = b /\ e.packet.hash = b
    BY <1>10, <2>1, <2>2
  <2> QED
    BY <1>9, <2>1, <2>2, <2>3
<1>11. ASSUME packet' = [body |-> fresh, hash |-> fresh] PROVE ShowsCurrent(packet'.body, packet'.hash)
  <2>1. PICK b : b = BodyWith(key, ranges)
    OBVIOUS
  <2>2. packet'.body = b /\ b = [b EXCEPT !.status = "cold"]
    BY <1>7, <1>11, <2>1 DEF BodyWith
  <2> QED
    BY <1>9, <2>1, <2>2
<1>12. \/ packets' = packets /\ \E e \in packets : e.key = key /\ packet' = [e.packet EXCEPT !.body.status = "warm"]
       \/ /\ packet' = [body |-> fresh, hash |-> fresh]
          /\ packets' = packets \cup {[key |-> key, packet |-> [body |-> fresh, hash |-> fresh]]}
  <2> DEFINE warm == {e \in packets : e.key = key}
  <2>1. \/ /\ warm # {} /\ packets' = packets
           /\ packet' = LET e == CHOOSE e \in warm : TRUE IN [e.packet EXCEPT !.body.status = "warm"]
        \/ /\ packet' = [body |-> fresh, hash |-> fresh]
           /\ packets' = packets \cup {[key |-> key, packet |-> [body |-> fresh, hash |-> fresh]]}
    BY <1>1, <1>6 DEF CompilePacket
  <2> QED
    BY <2>1
<1>13. PacketInv'
  <2>1. ASSUME NEW e \in packets' PROVE PacketFits(e)'
    <3>1. CASE e \in packets
      BY <1>4, <3>1 DEF PacketInv, PacketFits, RangesOf
    <3>2. CASE e.key = key /\ e.packet = [body |-> BodyWith(key, ranges), hash |-> BodyWith(key, ranges)]
      BY <1>2, <1>3, <1>4, <1>5, <3>2 DEF PacketFits, RangesOf
    <3> QED
      BY <1>7, <1>12, <3>1, <3>2
  <2> QED
    BY <1>4, <2>1 DEF PacketInv
<1> QED
  BY <1>10, <1>11, <1>12, <1>13

(* A cached packet fits as long as its generation keeps its ranges, or it is aged. *)
LEMMA OldPacketsFit ==
    ASSUME PacketInv, packets' \subseteq packets,
           \A g \in Edition : editions[g] # Lost => editions'[g] # Lost,
           \A e \in packets' : /\ e.packet.hash \in aged => e.packet.hash \in aged'
                               /\ RangesOf(e.key)' = RangesOf(e.key) \/ e.packet.hash \in aged'
    PROVE  \A e \in packets' : PacketFits(e)'
<1> SUFFICES ASSUME NEW e \in packets' PROVE PacketFits(e)'
  OBVIOUS
<1>1. PICK k : k = e.key
  OBVIOUS
<1>2. PacketFits(e)
  BY DEF PacketInv
<1>3. PICK rs : /\ e.packet = [body |-> BodyWith(k, rs), hash |-> BodyWith(k, rs)]
                /\ rs = RangesOf(k) \/ e.packet.hash \in aged
  BY <1>1, <1>2 DEF PacketFits
<1>4. k.edition \in Edition /\ editions'[k.edition] # Lost
  BY <1>1, <1>2 DEF PacketFits
<1>5. rs = RangesOf(k)' \/ e.packet.hash \in aged'
  BY <1>1, <1>3
<1> QED
  BY <1>1, <1>3, <1>4, <1>5 DEF PacketFits

LEMMA LoadKeeps ==
    ASSUME PacketInv, NEW g \in Edition, NEW files \in [PathName -> Text], NEW ranges \in Layout,
           LoadEdition(g, files, ranges)
    PROVE  PacketInv'
<1>1. PICK r : r = [files |-> files, ranges |-> ranges]
  OBVIOUS
<1>2. r \in [files : [PathName -> Text], ranges : Layout] /\ r # Lost /\ r.ranges = ranges
  BY <1>1, PacketAssumption
<1>3. editions' = [editions EXCEPT ![g] = r] /\ packets' = packets /\ sessionPins' = sessionPins
  BY <1>1 DEF LoadEdition
<1>4. /\ \A h \in aged : h \in aged'
      /\ \A e \in packets : e.key.edition = g /\ editions[g].ranges # ranges => e.packet.hash \in aged'
  BY DEF LoadEdition
<1>5. \A h \in Edition : editions[h] # Lost => editions'[h] # Lost
  BY <1>2, <1>3 DEF PacketInv
<1>6. ASSUME NEW e \in packets' PROVE RangesOf(e.key)' = RangesOf(e.key) \/ e.packet.hash \in aged'
  <2>1. e.key.edition \in Edition
    BY <1>3 DEF PacketInv, PacketFits
  <2>2. CASE e.key.edition = g
    BY <1>2, <1>3, <1>4, <2>1, <2>2 DEF PacketInv, RangesOf
  <2>3. CASE e.key.edition # g
    BY <1>3, <2>1, <2>3 DEF PacketInv, RangesOf
  <2> QED
    BY <2>2, <2>3
<1>7. \A e \in packets' : PacketFits(e)'
  BY <1>3, <1>4, <1>5, <1>6, OldPacketsFit
<1> QED
  BY <1>2, <1>3, <1>5, <1>7 DEF PacketInv

LEMMA PacketStepKeeps ==
    ASSUME PacketInv, [PacketNext]_packetVars
    PROVE  PacketInv' /\ (packet' # packet => ShowsCurrent(packet'.body, packet'.hash))
<1>1. ASSUME NEW g \in Edition, NEW files \in [PathName -> Text], NEW ranges \in Layout,
             LoadEdition(g, files, ranges)
      PROVE  PacketInv' /\ packet' = packet
  BY <1>1, LoadKeeps DEF LoadEdition
<1>2. ASSUME packets' \subseteq packets, editions' = editions, \A e \in packets' : e.packet.hash \in aged => e.packet.hash \in aged'
      PROVE  \A e \in packets' : PacketFits(e)'
  <2>1. \A k : RangesOf(k)' = RangesOf(k)
    BY <1>2 DEF RangesOf
  <2> QED
    BY <1>2, <2>1, OldPacketsFit
<1>3. ASSUME NEW s \in Session, NEW g \in Edition, PinEdition(s, g) PROVE PacketInv' /\ packet' = packet
  <2>1. editions[g] # Lost /\ sessionPins' = [sessionPins EXCEPT ![s] = g]
        /\ UNCHANGED <<editions, packets, packet, aged>>
    BY <1>3 DEF PinEdition
  <2>2. \A e \in packets' : PacketFits(e)'
    BY <1>2, <2>1
  <2> QED
    BY <2>1, <2>2 DEF PacketInv
<1>4. ASSUME NEW g \in Edition, NEW o \in Patch, NEW p \in PathName, NEW content, ApplyPatch(g, o, p, content)
      PROVE  PacketInv' /\ packet' = packet
  BY <1>2, <1>4 DEF ApplyPatch, PacketInv
<1>5. ASSUME NEW p \in PathName, InvalidatePaths({p}) PROVE PacketInv' /\ packet' = packet
  <2>1. /\ packets' \subseteq packets /\ UNCHANGED <<editions, sessionPins, packet>>
        /\ aged' = {h \in aged : \E e \in packets' : e.packet.hash = h}
    BY <1>5 DEF InvalidatePaths
  <2>2. \A e \in packets' : PacketFits(e)'
    BY <1>2, <2>1
  <2> QED
    BY <2>1, <2>2 DEF PacketInv
<1>6. CASE UNCHANGED packetVars
  BY <1>2, <1>6 DEF packetVars, PacketInv
<1> QED
  BY <1>1, <1>3, <1>4, <1>5, <1>6, CompileKeeps DEF PacketNext

(* Every packet compile returns, from the cache or not, shows the text of its session's
   pinned generation under its overlay and, unless truncated, all that was asked for; its
   ranges are the generation's unless that was loaded again with others since the packet
   was cached (compile, load_generation, pin, apply_overlay and invalidate of
   plugin_context_packet.py). *)
THEOREM PacketsAreCurrent == PacketSpec => PacketIsCurrent
<1>1. PacketInit => PacketInv
  BY PacketAssumption DEF PacketInit, PacketInv
<1>2. PacketInv /\ [PacketNext]_packetVars => PacketInv'
  BY PacketStepKeeps
<1>3. PacketInv /\ [PacketNext]_packetVars =>
         [packet' # packet =>
            LET p == packet'.body
                now == Spans(p.edition, p.patch, p.asked, p.items)
            IN
            /\ sessionPins[p.session] = p.edition
            /\ TextsOf(p.spans) = TextsOf(now)
            /\ p.spans = now \/ packet'.hash \in aged
            /\ ~ p.truncated => Len(p.spans) = Len(p.asked)]_packetVars
  BY PacketStepKeeps DEF ShowsCurrent
<1> QED
  BY <1>1, <1>2, <1>3, PTL DEF PacketSpec, PacketIsCurrent

----------------------------------------------------------------------------
(* Context views *)

SelectionOf(key) == SelectFor(key.request.stage, key.request.nodes, key.request.tokens, key.items)

ViewEntry ==
    [key : {CacheKey(request, items) : request \in ContextRequest, items \in Offer},
     selection : {Select(request, items) : request \in ContextRequest, items \in Offer},
     expires : Nat]

Fresh(es) == es \in Seq(ViewEntry) /\ \A n \in 1..Len(es) : es[n].selection = SelectionOf(es[n].key)

(* Every entry is what selecting for its key gives: the key leaves out nothing of the
   request that the selection depends on. *)
ViewInv == Fresh(cachedViews) /\ clock \in Nat /\ ViewIsFresh

LEMMA KeyDecides ==
    ASSUME NEW request \in ContextRequest, NEW items
    PROVE  SelectionOf(CacheKey(request, items)) = Select(request, items)
<1>1. PICK key : key = CacheKey(request, items)
  OBVIOUS
<1>2. key.items = items /\ key.request = [r \in DOMAIN request \ {"task"} |-> request[r]]
  BY <1>1 DEF CacheKey
<1>3. {"stage", "nodes", "tokens"} \subseteq DOMAIN request \ {"task"}
  BY ViewAssumption
<1>4. key.request.stage = request.stage /\ key.request.nodes = request.nodes /\ key.request.tokens = request.tokens
  BY <1>2, <1>3
<1> QED
  BY <1>1, <1>2, <1>4 DEF SelectionOf, Select

(* What is in a concatenation was in one of the two. *)
FromEither(h, f, g) ==
    \A i \in 1..Len(h) : (\E j \in 1..Len(f) : h[i] = f[j]) \/ (\E j \in 1..Len(g) : h[i] = g[j])

LEMMA JoinedFrom ==
    ASSUME NEW S, NEW f \in Seq(S), NEW g \in Seq(S)
    PROVE  f \o g \in Seq(S) /\ FromEither(f \o g, f, g)
<1>1. /\ f \o g \in Seq(S) /\ Len(f \o g) = Len(f) + Len(g)
      /\ \A i \in 1..(Len(f) + Len(g)) : (f \o g)[i] = IF i <= Len(f) THEN f[i] ELSE g[i - Len(f)]
  BY ConcatProperties
<1>2. Len(f) \in Nat /\ Len(g) \in Nat
  OBVIOUS
<1>3. \A i \in 1..(Len(f) + Len(g)) : i <= Len(f) => i \in 1..Len(f)
  BY <1>2
<1>4. \A i \in 1..(Len(f) + Len(g)) : ~ (i <= Len(f)) => i - Len(f) \in 1..Len(g)
  BY <1>2
<1> QED
  BY <1>1, <1>3, <1>4 DEF FromEither

LEMMA FreshWithout == ASSUME Fresh(cachedViews), NEW key PROVE Fresh(Without(key))
<1>1. CASE Places(key) = {}
  BY <1>1 DEF Without
<1>2. CASE Places(key) # {}
  <2>1. PICK n \in 1..Len(cachedViews) : Without(key) = RemoveAt(cachedViews, n)
    <3>1. PICK n : n = CHOOSE i \in Places(key) : TRUE
      OBVIOUS
    <3>2. n \in Places(key)
      BY <3>1, <1>2
    <3>3. n \in 1..Len(cachedViews)
      BY <3>2 DEF Places, Fresh
    <3>4. Without(key) = RemoveAt(cachedViews, n)
      BY <3>1, <1>2, Zenon DEF Without
    <3> QED
      BY <3>3, <3>4
  <2>2. RemoveAt(cachedViews, n) = SubSeq(cachedViews, 1, n - 1) \o SubSeq(cachedViews, n + 1, Len(cachedViews))
    BY DEF RemoveAt
  <2>3. /\ SubSeq(cachedViews, 1, n - 1) \in Seq(ViewEntry)
        /\ Len(SubSeq(cachedViews, 1, n - 1)) = n - 1
        /\ \A i \in 1..(n - 1) : SubSeq(cachedViews, 1, n - 1)[i] = cachedViews[i]
    BY DEF Fresh
  <2>4. /\ SubSeq(cachedViews, n + 1, Len(cachedViews)) \in Seq(ViewEntry)
        /\ Len(SubSeq(cachedViews, n + 1, Len(cachedViews))) = Len(cachedViews) - n
        /\ \A i \in 1..(Len(cachedViews) - n) : SubSeq(cachedViews, n + 1, Len(cachedViews))[i] = cachedViews[n + i]
    BY DEF Fresh
  <2>5. PICK f, g : f = SubSeq(cachedViews, 1, n - 1) /\ g = SubSeq(cachedViews, n + 1, Len(cachedViews))
    OBVIOUS
  <2>6. f \in Seq(ViewEntry) /\ g \in Seq(ViewEntry) /\ Len(f) = n - 1 /\ Len(g) = Len(cachedViews) - n
    BY <2>3, <2>4, <2>5
  <2>7. Len(cachedViews) \in Nat
    BY DEF Fresh
  <2>8. ASSUME NEW j \in 1..Len(f) PROVE f[j].selection = SelectionOf(f[j].key)
    <3>1. j \in 1..(n - 1) /\ j \in 1..Len(cachedViews)
      BY <2>6, <2>7
    <3>2. f[j] = cachedViews[j]
      BY <3>1, <2>3, <2>5
    <3> QED
      BY <3>1, <3>2 DEF Fresh
  <2>9. ASSUME NEW j \in 1..Len(g) PROVE g[j].selection = SelectionOf(g[j].key)
    <3>1. j \in 1..(Len(cachedViews) - n) /\ n + j \in 1..Len(cachedViews)
      BY <2>6, <2>7
    <3>2. g[j] = cachedViews[n + j]
      BY <3>1, <2>4, <2>5
    <3> QED
      BY <3>1, <3>2 DEF Fresh
  <2>10. Without(key) = f \o g
    BY <2>1, <2>2, <2>5
  <2>11. f \o g \in Seq(ViewEntry) /\ FromEither(f \o g, f, g)
    BY <2>6, JoinedFrom
  <2>12. \A i \in 1..Len(f \o g) : (f \o g)[i].selection = SelectionOf((f \o g)[i].key)
    BY <2>8, <2>9, <2>11 DEF FromEither
  <2> QED
    BY <2>10, <2>11, <2>12 DEF Fresh
<1> QED
  BY <1>1, <1>2

LEMMA FreshAppended ==
    ASSUME NEW es, Fresh(es), NEW e \in ViewEntry, e.selection = SelectionOf(e.key)
    PROVE  Fresh(Append(es, e))
BY DEF Fresh

LEMMA FreshBounded == ASSUME NEW es, Fresh(es) PROVE Fresh(Bounded(es))
<1>1. CASE Len(es) > MaxViews
  <2>1. PICK m \in Nat : m = Len(es) - MaxViews
    BY <1>1, ViewAssumption DEF Fresh
  <2>2. Bounded(es) = SubSeq(es, m + 1, Len(es)) /\ m \in 1..Len(es)
    BY <1>1, <2>1, ViewAssumption DEF Bounded, Fresh
  <2>3. /\ SubSeq(es, m + 1, Len(es)) \in Seq(ViewEntry) /\ Len(SubSeq(es, m + 1, Len(es))) = Len(es) - m
        /\ \A i \in 1..(Len(es) - m) : SubSeq(es, m + 1, Len(es))[i] = es[m + i]
    BY <2>2 DEF Fresh
  <2> QED
    BY <2>2, <2>3 DEF Fresh
<1>2. CASE ~ (Len(es) > MaxViews)
  BY <1>2 DEF Bounded
<1> QED
  BY <1>1, <1>2

LEMMA MaterializeKeeps ==
    ASSUME ViewInv, NEW request \in ContextRequest, NEW authority, NEW items \in Offer,
           Materialize(request, authority, items)
    PROVE  ViewInv'
<1>1. PICK key : key = CacheKey(request, items)
  OBVIOUS
<1>2. SelectionOf(key) = Select(request, items)
  BY <1>1, KeyDecides
<1>3. PICK selection : selection = Select(request, items)
  OBVIOUS
<1>4. clock' = clock /\ clock' \in Nat
  BY DEF Materialize, ViewInv
<1>5. CASE \E n \in Places(key) :
              /\ cachedViews' = Append(Without(key), cachedViews[n])
              /\ Serve(request, items, cachedViews[n].selection, "hit")
  <2>1. PICK n \in 1..Len(cachedViews) :
           /\ cachedViews[n].key = key
           /\ cachedViews' = Append(Without(key), cachedViews[n])
           /\ Serve(request, items, cachedViews[n].selection, "hit")
    BY <1>5 DEF Places, ViewInv, Fresh
  <2>2. cachedViews[n] \in ViewEntry /\ cachedViews[n].selection = SelectionOf(cachedViews[n].key)
    BY DEF ViewInv, Fresh
  <2>3. Fresh(cachedViews)'
    <3>1. Fresh(Append(Without(key), cachedViews[n]))
      BY <2>2, FreshWithout, FreshAppended DEF ViewInv
    <3> QED
      BY <3>1, <2>1 DEF Fresh
  <2>4. cachedViews[n].selection = selection
    BY <2>1, <2>2, <1>2, <1>3
  <2>5. view'.request = request /\ view'.items = items /\ view'.selection = selection
    BY <2>1, <2>4 DEF Serve
  <2>6. ViewIsFresh'
    BY <2>5, <1>3 DEF ViewIsFresh, Select
  <2> QED
    BY <2>3, <2>6, <1>4 DEF ViewInv
<1>6. CASE /\ cachedViews' = Bounded(Append(Without(key),
                 [key |-> key, selection |-> selection, expires |-> clock + TimeToLive]))
           /\ Serve(request, items, selection, "miss")
  <2>1. PICK e : e = [key |-> key, selection |-> selection, expires |-> clock + TimeToLive]
    OBVIOUS
  <2>2. e \in ViewEntry /\ e.selection = SelectionOf(e.key)
    BY <2>1, <1>1, <1>2, <1>3, ViewAssumption DEF ViewEntry, ViewInv
  <2>3. Fresh(cachedViews)'
    <3>1. Fresh(Bounded(Append(Without(key), e)))
      BY <2>2, FreshWithout, FreshAppended, FreshBounded DEF ViewInv
    <3> QED
      BY <3>1, <2>1, <1>6 DEF Fresh
  <2>4. view'.request = request /\ view'.items = items /\ view'.selection = selection
    BY <1>6 DEF Serve
  <2>5. ViewIsFresh'
    BY <2>4, <1>3 DEF ViewIsFresh, Select
  <2> QED
    BY <2>3, <2>5, <1>4 DEF ViewInv
<1> QED
  BY <1>1, <1>3, <1>5, <1>6 DEF Materialize

(* A view says what selecting afresh for its request would say, also when it comes from the
   cache, for every cache size, life time, request and set of items: what _cache_key of
   context_view.py leaves out of the key is nothing that _select looks at. *)
THEOREM ViewsAreFresh == ViewSpec => []ViewIsFresh
<1>1. ViewInit => ViewInv
  BY DEF ViewInit, ViewInv, Fresh, ViewIsFresh
<1>2. ViewInv /\ [ViewNext]_viewVars => ViewInv'
  <2> SUFFICES ASSUME ViewInv, [ViewNext]_viewVars PROVE ViewInv'
    OBVIOUS
  <2>1. CASE \E request \in ContextRequest, authority \in Authority, items \in Offer : Materialize(request, authority, items)
    BY <2>1, MaterializeKeeps
  <2>2. CASE ViewTick
    BY <2>2 DEF ViewTick, ViewInv, Fresh, ViewIsFresh, Select
  <2>3. CASE ClearViews
    BY <2>3 DEF ClearViews, ViewInv, Fresh, ViewIsFresh, Select
  <2>4. CASE RestartViews
    <3>1. view' = <<>> /\ clock' = clock /\ (cachedViews' = cachedViews \/ cachedViews' = <<>>)
      BY <2>4 DEF RestartViews
    <3>2. Fresh(<<>>) /\ Fresh(cachedViews)
      BY DEF ViewInv, Fresh
    <3>3. Fresh(cachedViews')
      BY <3>1, <3>2
    <3> QED
      BY <3>1, <3>3 DEF ViewInv, ViewIsFresh, Fresh
  <2>5. CASE UNCHANGED viewVars
    BY <2>5 DEF viewVars, ViewInv, Fresh, ViewIsFresh, Select
  <2> QED
    BY <2>1, <2>2, <2>3, <2>4, <2>5 DEF ViewNext
<1>3. ViewInv => ViewIsFresh
  BY DEF ViewInv
<1> QED
  BY <1>1, <1>2, <1>3, PTL DEF ViewSpec

----------------------------------------------------------------------------
(* What a view selects *)

Selecting(E, q, nodes, tokens, n) ==
    {s \in [selected : Seq(E), nodes : Nat, tokens : Nat, rejected : Nat] :
        /\ Len(s.selected) = s.nodes /\ s.nodes <= nodes /\ s.tokens <= tokens
        /\ s.nodes + s.rejected = n
        /\ s.rejected = 0 => \A i \in 1..n : s.selected[i] = q[i]}

SelectionIsWithin(s, E, nodes, tokens) ==
    /\ s.selected \in Seq(E) /\ Len(s.selected) <= nodes /\ s.tokens <= tokens
    /\ s.rejected \in Nat /\ Len(s.selected) + s.rejected = Cardinality(E)
    /\ s.rejected = 0 => ToSet(s.selected) = E
    /\ s.fidelity = "complete" => s.rejected = 0

LEMMA SelectingMade ==
    ASSUME NEW E, NEW q, NEW nodes, NEW tokens, NEW n, NEW w \in Seq(E), NEW a \in Nat, NEW b \in Nat, NEW c \in Nat,
           Len(w) = a, a <= nodes, b <= tokens, a + c = n, c = 0 => \A i \in 1..n : w[i] = q[i]
    PROVE  [selected |-> w, nodes |-> a, tokens |-> b, rejected |-> c] \in Selecting(E, q, nodes, tokens, n)
<1>1. PICK s : s = [selected |-> w, nodes |-> a, tokens |-> b, rejected |-> c]
  OBVIOUS
<1>2. s.selected = w /\ s.nodes = a /\ s.tokens = b /\ s.rejected = c
  BY <1>1
<1>3. s \in [selected : Seq(E), nodes : Nat, tokens : Nat, rejected : Nat]
  BY <1>1
<1>4. s \in Selecting(E, q, nodes, tokens, n)
  BY <1>2, <1>3 DEF Selecting
<1> QED
  BY <1>1, <1>4

(* An item is taken with all that is counted of it, or it is counted as rejected. *)
LEMMA ConsiderKeeps ==
    ASSUME NEW E, \A i \in E : i.tokens \in Nat, NEW q, NEW nodes \in Nat, NEW tokens \in Nat, NEW n \in Nat,
           NEW s \in Selecting(E, q, nodes, tokens, n), q[n + 1] \in E
    PROVE  Consider(s, q[n + 1], nodes, tokens) \in Selecting(E, q, nodes, tokens, n + 1)
<1>1. PICK selected \in Seq(E), a, b, c \in Nat :
         s = [selected |-> selected, nodes |-> a, tokens |-> b, rejected |-> c]
  BY DEF Selecting
<1>2. /\ Len(selected) = a /\ a <= nodes /\ b <= tokens /\ a + c = n
      /\ c = 0 => \A i \in 1..n : selected[i] = q[i]
  BY <1>1 DEF Selecting
<1>3. PICK item \in E, t \in Nat : item = q[n + 1] /\ t = item.tokens
  OBVIOUS
<1>4. CASE a + 1 > nodes \/ b + t > tokens
  <2>1. Consider(s, item, nodes, tokens) = [selected |-> selected, nodes |-> a, tokens |-> b, rejected |-> c + 1]
    BY <1>1, <1>3, <1>4 DEF Consider
  <2>2. a + (c + 1) = n + 1 /\ c + 1 # 0 /\ c + 1 \in Nat
    BY <1>2
  <2>3. [selected |-> selected, nodes |-> a, tokens |-> b, rejected |-> c + 1] \in Selecting(E, q, nodes, tokens, n + 1)
    BY <1>2, <2>2, SelectingMade
  <2> QED
    BY <1>3, <2>1, <2>3
<1>5. CASE ~(a + 1 > nodes \/ b + t > tokens)
  <2>1. PICK more : more = Append(selected, item)
    OBVIOUS
  <2>2. Consider(s, item, nodes, tokens) = [selected |-> more, nodes |-> a + 1, tokens |-> b + t, rejected |-> c]
    BY <1>1, <1>3, <1>5, <2>1 DEF Consider
  <2>3. /\ more \in Seq(E) /\ Len(more) = a + 1 /\ more[a + 1] = item
        /\ \A i \in 1..a : more[i] = selected[i]
    BY <1>2, <2>1
  <2>4. a + 1 + c = n + 1 /\ a + 1 <= nodes /\ b + t <= tokens
    BY <1>2, <1>5
  <2>5. ASSUME c = 0, NEW i \in 1..(n + 1) PROVE more[i] = q[i]
    <3>1. a = n
      BY <1>2, <2>5
    <3>2. CASE i = n + 1
      BY <1>3, <2>3, <3>1, <3>2
    <3>3. CASE i # n + 1
      <4>1. i \in 1..n
        BY <3>3
      <4> QED
        BY <1>2, <2>3, <2>5, <3>1, <4>1
    <3> QED
      BY <3>2, <3>3
  <2>6. [selected |-> more, nodes |-> a + 1, tokens |-> b + t, rejected |-> c] \in Selecting(E, q, nodes, tokens, n + 1)
    <3>1. a + 1 \in Nat /\ b + t \in Nat
      OBVIOUS
    <3> QED
      BY <2>3, <2>4, <2>5, <3>1, SelectingMade
  <2> QED
    BY <1>3, <2>2, <2>6
<1> QED
  BY <1>4, <1>5

LEMMA SelectMeans ==
    ASSUME NEW items \in Offer, NEW stage, NEW nodes \in Nat, NEW tokens \in Nat
    PROVE  SelectionIsWithin(SelectFor(stage, nodes, tokens, items), {i \in items : VisibleTo(stage, i)}, nodes, tokens)
<1>1. PICK E : E = {i \in items : VisibleTo(stage, i)}
  OBVIOUS
<1>2. E \subseteq ContextItem /\ IsFiniteSet(E) /\ \A i, j \in E : i.rank = j.rank => i = j
  BY <1>1, FS_Subset, ViewAssumption
<1>3. \A i \in E : i.tokens \in Nat /\ i.rank \in Nat
  BY <1>2, ViewAssumption
<1>4. PICK c \in Nat : c = Cardinality(E)
  BY <1>2, FS_CardinalityType
<1>5. PICK q : q = ByRank(E)
  OBVIOUS
<1>6. q \in [1..c -> E] /\ \A i, j \in 1..c : i < j => q[i].rank < q[j].rank
  <2>1. PICK rank : rank = [i \in ContextItem |-> i.rank]
    OBVIOUS
  <2>2. rank \in [ContextItem -> Nat] /\ \A i \in E : rank[i] = i.rank
    BY <1>2, <2>1, ViewAssumption
  <2>3. PICK f \in [1..c -> E] : Ranked(f, rank, c)
    BY <1>2, <1>4, <2>2, RankedListing
  <2>4. \A i, j \in 1..c : i < j => f[i].rank < f[j].rank
    BY <2>2, <2>3 DEF Ranked
  <2> QED
    BY <1>4, <1>5, <2>4 DEF ByRank
<1>7. \A x \in E : \E i \in 1..c : q[i] = x
  <2>1. ASSUME NEW i \in 1..c, NEW j \in 1..c, q[i] = q[j] PROVE i = j
    <3>1. q[i].rank \in Nat
      BY <1>3, <1>6
    <3> QED
      BY <1>6, <2>1, <3>1
  <2>2. q \in [1..Cardinality(E) -> E]
    BY <1>4, <1>6
  <2>3. \A i, j \in 1..Cardinality(E) : q[i] = q[j] => i = j
    BY <1>4, <2>1
  <2>4. IsFiniteSet(E)
    BY <1>2
  <2>5. \A x \in E : \E i \in 1..Cardinality(E) : q[i] = x
    BY ONLY <2>2, <2>3, <2>4, ListingIsAll, Zenon
  <2> QED
    BY <1>4, <2>5
<1>8. PICK start : start = [selected |-> <<>>, nodes |-> 0, tokens |-> 0, rejected |-> 0]
  OBVIOUS
<1>9. PICK J : J = [n \in 0..c |-> Selecting(E, q, nodes, tokens, n)]
  OBVIOUS
<1>10. start \in J[0]
  BY <1>8, <1>9 DEF Selecting
<1>11. ASSUME NEW n \in 1..c, NEW s \in J[n - 1] PROVE Consider(s, q[n], nodes, tokens) \in J[n]
  <2>1. PICK m \in Nat : m = n - 1 /\ n = m + 1 /\ m \in 0..c
    OBVIOUS
  <2>2. s \in Selecting(E, q, nodes, tokens, m) /\ q[m + 1] \in E
    BY <1>6, <1>9, <1>11, <2>1
  <2>3. Consider(s, q[m + 1], nodes, tokens) \in Selecting(E, q, nodes, tokens, m + 1)
    BY <1>3, <2>2, ConsiderKeeps
  <2> QED
    BY <1>9, <2>1, <2>3
<1> DEFINE F(f) == [n \in 0..c |-> IF n = 0 THEN start ELSE Consider(f[n - 1], q[n], nodes, tokens)]
<1>12. \E f : f = F(f)
  <2>1. PICK g : g = [n \in 1..c |-> [s \in J[n - 1] |-> Consider(s, q[n], nodes, tokens)]]
    OBVIOUS
  <2>2. \A n \in 1..c : \A s \in J[n - 1] : g[n][s] = Consider(s, q[n], nodes, tokens) /\ g[n][s] \in J[n]
    BY <1>11, <2>1
  <2>3. PICK f : f = [n \in 0..c |-> IF n = 0 THEN start ELSE g[n][f[n - 1]]] /\ \A n \in 0..c : f[n] \in J[n]
    <3>1. Stepping(g, J, c)
      BY <2>2 DEF Stepping
    <3>2. \E f : Running(f, start, g, c) /\ Staying(f, J, c)
      BY <1>10, <3>1, LoopRuns
    <3> QED
      BY <3>2 DEF Running, Staying
  <2>4. \A n \in 0..c : n # 0 => n \in 1..c /\ n - 1 \in 0..c
    BY <1>4
  <2>5. \A n \in 0..c : (IF n = 0 THEN start ELSE g[n][f[n - 1]]) = IF n = 0 THEN start ELSE Consider(f[n - 1], q[n], nodes, tokens)
    BY <2>2, <2>3, <2>4
  <2> QED
    BY <2>3, <2>5
<1>13. PICK after : after = CHOOSE f : f = F(f)
  OBVIOUS
<1>14. after = F(after)
  BY <1>12, <1>13
<1>15. \A n \in 0..c : after[n] \in J[n]
  <2>1. after[0] \in J[0]
    BY <1>4, <1>10, <1>14
  <2>2. \A n \in 1..c : after[n] = Consider(after[n - 1], q[n], nodes, tokens)
    BY <1>4, <1>14
  <2>3. \A n \in 1..c : after[n - 1] \in J[n - 1] => after[n] \in J[n]
    BY <1>11, <2>2
  <2> QED
    BY <1>4, <2>1, <2>3, LoopKeeps
<1>16. PICK s : s = after[c]
  OBVIOUS
<1>17. s \in Selecting(E, q, nodes, tokens, c)
  BY <1>4, <1>9, <1>15, <1>16
<1>18. PICK sel : sel = SelectFor(stage, nodes, tokens, items)
  OBVIOUS
<1>19. /\ sel.selected = s.selected /\ sel.tokens = s.tokens /\ sel.rejected = s.rejected
       /\ sel.fidelity = "complete" => s.rejected = 0
  BY <1>1, <1>4, <1>5, <1>8, <1>13, <1>16, <1>18 DEF SelectFor
<1>20. /\ s.selected \in Seq(E) /\ Len(s.selected) <= nodes /\ s.tokens <= tokens /\ s.rejected \in Nat
       /\ Len(s.selected) + s.rejected = c
  BY <1>17 DEF Selecting
<1>21. s.rejected = 0 => ToSet(s.selected) = E
  <2> SUFFICES ASSUME s.rejected = 0 PROVE ToSet(s.selected) = E
    OBVIOUS
  <2>1. Len(s.selected) = c /\ \A i \in 1..c : s.selected[i] = q[i]
    BY <1>17, <1>20 DEF Selecting
  <2>2. ToSet(s.selected) = {s.selected[i] : i \in 1..c}
    BY <1>20, <2>1 DEF ToSet
  <2> QED
    BY <1>6, <1>7, <2>1, <2>2
<1>22. SelectionIsWithin(sel, E, nodes, tokens)
  BY <1>4, <1>19, <1>20, <1>21 DEF SelectionIsWithin
<1> QED
  BY <1>1, <1>18, <1>22


LEMMA SequenceOfSet == ASSUME NEW S, IsFiniteSet(S) PROVE Len(SetToSeq(S)) = Cardinality(S)
<1>1. PICK n : n = Cardinality(S)
  OBVIOUS
<1>2. n \in Nat /\ ExistsBijection(1..n, S)
  BY <1>1, FS_CardinalityType
<1>3. PICK f \in [1..n -> S] : \A a, b \in 1..n : f[a] = f[b] => a = b
  BY <1>2 DEF ExistsBijection, Bijection, Injection, IsInjective
<1>4. PICK s : s = SetToSeq(S)
  OBVIOUS
<1>5. IsInjective(f)
  BY <1>3 DEF IsInjective
<1>6. s \in [1..n -> S]
  BY <1>1, <1>3, <1>4, <1>5 DEF SetToSeq
<1>7. Len(s) = n
  BY <1>2, <1>6
<1> QED
  BY <1>1, <1>4, <1>7

(* What was authorized when the view was made *)
ViewAllowed ==
    view # <<>> =>
        /\ view.request \in ContextRequest /\ view.items \in Offer
        /\ \A i \in view.items : i.scope \in {BaseScope, view.request.scope}

LEMMA FreshIsOwn == ASSUME ViewIsFresh, ViewAllowed PROVE ViewIsItsOwn
<1> SUFFICES ASSUME view # <<>>
             PROVE  LET request == view.request
                        s == view.selection
                        shown == ToSet(s.selected)
                    IN  /\ Len(s.selected) <= request.nodes /\ s.tokens <= request.tokens
                        /\ \A i \in shown : VisibleTo(request.stage, i) /\ i.scope \in {BaseScope, request.scope}
                        /\ s.fidelity = "complete" => shown = {i \in view.items : VisibleTo(request.stage, i)}
                        /\ (\A i \in view.items : VisibleTo(request.stage, i)) => LegacyAccepted(SetToSeq(view.items), s)
  BY DEF ViewIsItsOwn
<1>1. PICK request \in ContextRequest, items \in Offer : request = view.request /\ items = view.items
  BY DEF ViewAllowed
<1>2. PICK s : s = view.selection
  OBVIOUS
<1>3. PICK E : E = {i \in items : VisibleTo(request.stage, i)}
  OBVIOUS
<1>4. request.nodes \in Nat /\ request.tokens \in Nat
  BY ViewAssumption
<1>5. SelectionIsWithin(s, E, request.nodes, request.tokens)
  <2>1. s = SelectFor(request.stage, request.nodes, request.tokens, items)
    BY <1>1, <1>2 DEF ViewIsFresh, Select
  <2>2. SelectionIsWithin(SelectFor(request.stage, request.nodes, request.tokens, items), E, request.nodes, request.tokens)
    BY <1>3, <1>4, SelectMeans
  <2> QED
    BY <2>1, <2>2
<1>6. ToSet(s.selected) \subseteq E
  <2>1. s.selected \in Seq(E)
    BY <1>5 DEF SelectionIsWithin
  <2> QED
    BY <2>1 DEF ToSet
<1>7. \A i \in ToSet(s.selected) : VisibleTo(request.stage, i) /\ i.scope \in {BaseScope, request.scope}
  BY <1>1, <1>3, <1>6 DEF ViewAllowed
<1>8. s.fidelity = "complete" => ToSet(s.selected) = E
  BY <1>5 DEF SelectionIsWithin
<1>9. ASSUME \A i \in items : VisibleTo(request.stage, i) PROVE LegacyAccepted(SetToSeq(items), s)
  <2>1. E = items
    BY <1>3, <1>9
  <2>2. IsFiniteSet(items)
    BY ViewAssumption
  <2>3. PICK n \in Nat : n = Cardinality(items)
    BY <2>2, FS_CardinalityType
  <2>4. Len(SetToSeq(items)) = n
    BY <2>2, <2>3, SequenceOfSet
  <2>5. PICK m \in Nat, r \in Nat : m = Len(s.selected) /\ r = s.rejected /\ m + r = n
    BY <1>5, <2>1, <2>3 DEF SelectionIsWithin
  <2>6. m < n <=> r > 0
    BY <2>5
  <2> QED
    BY <2>4, <2>5, <2>6 DEF LegacyAccepted, LegacyTruncated
<1>10. Len(s.selected) <= request.nodes /\ s.tokens <= request.tokens
  BY <1>5 DEF SelectionIsWithin
<1> QED
  BY <1>1, <1>2, <1>3, <1>7, <1>8, <1>9, <1>10

(* A view holds only what its stage and overlay may see, stays within its budget, is called
   complete only when nothing was left out, and is accepted in the legacy envelope: for every
   set of items, budget, cache size and life time, when it is made and when the cache serves
   it (_select, materialize and _validate_item of context_view.py). *)
THEOREM ViewsAreTheirOwn == ViewSpec => []ViewIsItsOwn
<1>1. ViewInit => ViewAllowed
  BY DEF ViewInit, ViewAllowed
<1>2. ViewAllowed /\ [ViewNext]_viewVars => ViewAllowed'
  <2> SUFFICES ASSUME ViewAllowed, [ViewNext]_viewVars PROVE ViewAllowed'
    OBVIOUS
  <2>1. ASSUME NEW request \in ContextRequest, NEW authority \in Authority, NEW items \in Offer,
               Materialize(request, authority, items)
        PROVE  ViewAllowed'
    <3>1. view'.request = request /\ view'.items = items
      BY <2>1 DEF Materialize, Serve
    <3>2. \A i \in items : i.scope \in {BaseScope, request.scope}
      BY <2>1 DEF Materialize, ItemAllowed
    <3> QED
      BY <3>1, <3>2 DEF ViewAllowed
  <2>2. CASE ViewTick \/ ClearViews \/ UNCHANGED viewVars
    <3>1. view' = view
      BY <2>2 DEF ViewTick, ClearViews, viewVars
    <3> QED
      BY <3>1 DEF ViewAllowed
  <2>3. CASE RestartViews
    BY <2>3 DEF RestartViews, ViewAllowed
  <2> QED
    BY <2>1, <2>2, <2>3 DEF ViewNext
<1>3. ViewSpec => []ViewAllowed
  BY <1>1, <1>2, PTL DEF ViewSpec
<1> QED
  BY <1>3, ViewsAreFresh, FreshIsOwn, PTL

----------------------------------------------------------------------------
(* Traversals of a federation *)

FederationInv == members \subseteq Member /\ edges \subseteq Edge /\ Within(edges, members)

StaysIn(S, start) == start \in S /\ \A e \in edges : e[1] \in S => e[2] \in S

LEMMA ReachableIsClosed ==
    ASSUME edges \subseteq Edge, NEW p \in Place
    PROVE  Reachable(p) \subseteq Place /\ StaysIn(Reachable(p), p)
<1>1. PICK closed : closed = {S \in SUBSET Place : p \in S /\ \A e \in edges : e[1] \in S => e[2] \in S}
  OBVIOUS
<1>2. PICK reach : reach = {x \in Place : \A S \in closed : x \in S} /\ reach = Reachable(p)
  BY <1>1 DEF Reachable
<1>3. reach \subseteq Place /\ p \in reach
  BY <1>1, <1>2
<1>4. ASSUME NEW e \in edges, e[1] \in reach PROVE e[2] \in reach
  <2>1. e[2] \in Place
    BY DEF Edge
  <2>2. ASSUME NEW S \in closed PROVE e[2] \in S
    BY <1>1, <1>2, <1>4, <2>2
  <2> QED
    BY <1>2, <2>1, <2>2
<1> QED
  BY <1>2, <1>3, <1>4 DEF StaysIn

LEMMA ReachableIsLeast ==
    ASSUME NEW p \in Place, NEW S \in SUBSET Place, StaysIn(S, p)
    PROVE  Reachable(p) \subseteq S
BY DEF Reachable, StaysIn

LEMMA InTurnIsAll ==
    ASSUME NEW S \in SUBSET Place
    PROVE  /\ Cardinality(S) \in Nat
           /\ InTurn(S) \in [1..Cardinality(S) -> S]
           /\ \A x \in S : \E i \in 1..Cardinality(S) : InTurn(S)[i] = x
<1>1. IsFiniteSet(S) /\ Place \subseteq Nat
  BY FS_Subset, FederationAssumption
<1>2. PICK c \in Nat : c = Cardinality(S)
  BY <1>1, FS_CardinalityType
<1>3. PICK q : q = InTurn(S)
  OBVIOUS
<1>4. q \in [1..c -> S] /\ \A i, j \in 1..c : i < j => q[i] < q[j]
  <2>1. PICK rank : rank = [x \in Place |-> x]
    OBVIOUS
  <2>2. rank \in [Place -> Nat] /\ \A x \in S : rank[x] = x
    BY <1>1, <2>1
  <2>3. PICK f \in [1..c -> S] : Ranked(f, rank, c)
    <3>1. \A x, y \in S : rank[x] = rank[y] => x = y
      BY <2>2
    <3> QED
      BY <1>1, <1>2, <2>2, <3>1, RankedListing
  <2>4. \A i, j \in 1..c : i < j => f[i] < f[j]
    BY <2>2, <2>3 DEF Ranked
  <2> QED
    BY <1>2, <1>3, <2>4 DEF InTurn
<1>5. \A i, j \in 1..Cardinality(S) : q[i] = q[j] => i = j
  <2> SUFFICES ASSUME NEW i \in 1..c, NEW j \in 1..c, q[i] = q[j] PROVE i = j
    BY <1>2
  <2>1. q[i] \in Nat
    BY <1>1, <1>4
  <2> QED
    BY <1>4, <2>1
<1>6. q \in [1..Cardinality(S) -> S]
  BY <1>2, <1>4
<1>7. \A x \in S : \E i \in 1..Cardinality(S) : q[i] = x
  BY ONLY <1>1, <1>5, <1>6, ListingIsAll, Zenon
<1> QED
  BY <1>2, <1>3, <1>6, <1>7

Queued(q) == {q[i][1] : i \in 1..Len(q)}

(* A traversal on its way: what it found is reachable, waits or was visited, and what was
   visited has all its targets found unless there is a reason. *)
Roaming(p, depth) ==
    {t \in [visited : SUBSET Place, found : SUBSET Place, queue : Seq(Place \X (0..depth)), reasons : SUBSET {"max_depth"}] :
        /\ p \in t.found /\ t.found \subseteq Reachable(p)
        /\ t.found = t.visited \cup Queued(t.queue)
        /\ t.reasons = {} => \A e \in edges : e[1] \in t.visited => e[2] \in t.found}

LEMMA VisitKeeps ==
    ASSUME edges \subseteq Edge, NEW p \in Place, NEW depth \in Nat, NEW t \in Roaming(p, depth), t.queue # <<>>
    PROVE  Visit(t, depth) \in Roaming(p, depth)
<1>1. PICK visited \in SUBSET Place, found \in SUBSET Place, queue \in Seq(Place \X (0..depth)), reasons \in SUBSET {"max_depth"} :
         t = [visited |-> visited, found |-> found, queue |-> queue, reasons |-> reasons]
  BY DEF Roaming
<1>2. /\ p \in found /\ found \subseteq Reachable(p)
      /\ found = visited \cup Queued(queue)
      /\ reasons = {} => \A e \in edges : e[1] \in visited => e[2] \in found
      /\ queue # <<>>
  BY <1>1 DEF Roaming
<1>3. PICK x \in Place, d \in 0..depth : queue[1] = <<x, d>> /\ 1 \in 1..Len(queue)
  <2>1. Len(queue) \in Nat /\ Len(queue) # 0
    BY <1>2
  <2>2. queue[1] \in Place \X (0..depth)
    BY <2>1
  <2> QED
    BY <2>1, <2>2
<1>4. x \in found
  BY <1>2, <1>3 DEF Queued
<1>5. PICK new : new = IF d < depth THEN Outgoing(x) \ found ELSE {}
  OBVIOUS
<1>6. PICK out : out = Outgoing(x) /\ out = {e[2] : e \in {y \in edges : y[1] = x}} /\ out \subseteq Place
  <2>1. PICK out : out = Outgoing(x)
    OBVIOUS
  <2>2. out = {e[2] : e \in {y \in edges : y[1] = x}}
    BY <2>1 DEF Outgoing
  <2>3. \A e \in edges : e[2] \in Place
    BY DEF Edge
  <2>4. out \subseteq Place
    BY <2>2, <2>3
  <2> QED
    BY <2>1, <2>2, <2>4
<1>7. PICK k, l : /\ k = Cardinality(new) /\ l = InTurn(new) /\ k \in Nat /\ l \in [1..k -> new]
                  /\ \A y \in new : \E i \in 1..k : l[i] = y
  <2>1. new \in SUBSET Place
    BY <1>5, <1>6
  <2> QED
    BY <2>1, InTurnIsAll
<1>8. PICK more : more = [n \in 1..k |-> <<l[n], d + 1>>]
  OBVIOUS
<1>9. PICK why : why = IF d = depth /\ out # {} THEN {"max_depth"} ELSE {}
  OBVIOUS
<1>10. Visit(t, depth) = [visited |-> visited \cup {x}, found |-> found \cup new,
                          queue |-> Tail(queue) \o more, reasons |-> reasons \cup why]
  <2>1. /\ t.visited = visited /\ t.found = found /\ t.queue = queue /\ t.reasons = reasons
        /\ t.queue[1][1] = x /\ t.queue[1][2] = d
    BY <1>1, <1>3
  <2>2. more = [n \in 1..Cardinality(new) |-> <<InTurn(new)[n], d + 1>>]
    BY <1>7, <1>8
  <2> QED
    BY <1>5, <1>6, <1>9, <2>1, <2>2 DEF Visit
<1>11. new \subseteq Reachable(p)
  <2>1. ASSUME NEW y \in new PROVE y \in Reachable(p)
    <3>1. PICK e \in edges : e[1] = x /\ e[2] = y
      BY <1>5, <1>6
    <3> QED
      BY <1>2, <1>4, <3>1, ReachableIsClosed DEF StaysIn
  <2> QED
    BY <2>1
<1>12. more \in Seq(Place \X (0..depth)) /\ Len(more) = k
  <2>1. ASSUME NEW n \in 1..k PROVE <<l[n], d + 1>> \in Place \X (0..depth)
    <3>1. l[n] \in new /\ d < depth
      BY <1>5, <1>7
    <3>2. l[n] \in Place /\ d + 1 \in 0..depth
      BY <1>5, <1>6, <3>1
    <3> QED
      BY <3>2
  <2> QED
    BY <1>7, <1>8, <2>1
<1>13. PICK waiting \in Seq(Place \X (0..depth)) : waiting = Tail(queue) \o more
  <2>1. Tail(queue) \in Seq(Place \X (0..depth))
    BY <1>2
  <2>2. Tail(queue) \o more \in Seq(Place \X (0..depth))
    BY <1>12, <2>1
  <2> QED
    BY <2>2
<1>14. Queued(waiting) \cup {x} = Queued(queue) \cup new \cup {x}
  <2>1. PICK m \in Nat : Len(queue) = m + 1 /\ Len(Tail(queue)) = m /\ \A i \in 1..m : Tail(queue)[i] = queue[i + 1]
    <3>1. Len(queue) \in Nat /\ Len(queue) # 0 /\ Len(queue) - 1 \in Nat
      BY <1>2, <1>3
    <3>2. \E m \in Nat : m = Len(queue) - 1 /\ Len(queue) = m + 1
      <4>1. PICK b \in Nat : b = Len(queue)
        BY <3>1
      <4>2. b - 1 \in Nat /\ b = (b - 1) + 1
        BY <3>1, <4>1
      <4> QED
        BY <4>1, <4>2
    <3>3. PICK m \in Nat : m = Len(queue) - 1 /\ Len(queue) = m + 1
      BY <3>2
    <3>4. Len(Tail(queue)) = m /\ \A i \in 1..m : Tail(queue)[i] = queue[i + 1]
      BY <1>2, <3>1, <3>3
    <3> QED
      BY <3>3, <3>4
  <2>2. /\ Len(waiting) = m + k
        /\ \A i \in 1..m : waiting[i] = queue[i + 1]
        /\ \A i \in 1..k : waiting[m + i] = <<l[i], d + 1>>
    <3>1. PICK rest \in Seq(Place \X (0..depth)) : rest = Tail(queue)
      BY <1>2, HeadTailProperties
    <3>2. Len(rest) = m /\ waiting = rest \o more /\ \A i \in 1..m : rest[i] = queue[i + 1]
      BY <1>13, <2>1, <3>1
    <3>3. Len(waiting) = m + k
      BY <1>12, <3>2, ConcatProperties
    <3>4. \A i \in 1..m : waiting[i] = rest[i]
      BY <1>7, <1>12, <3>2
    <3>5. \A i \in 1..k : waiting[m + i] = more[i]
      BY <1>7, <1>12, <3>2
    <3>6. \A i \in 1..k : more[i] = <<l[i], d + 1>>
      BY <1>8
    <3> QED
      BY <3>2, <3>3, <3>4, <3>5, <3>6
  <2>3. ASSUME NEW i \in 1..(m + k) PROVE waiting[i][1] \in Queued(queue) \cup new
    <3>1. CASE i \in 1..m
      <4>1. i + 1 \in 1..Len(queue) /\ waiting[i] = queue[i + 1]
        BY <2>1, <2>2, <3>1
      <4> QED
        BY <4>1 DEF Queued
    <3>2. CASE i \notin 1..m
      <4>1. PICK j \in 1..k : i = m + j
        <5>1. i - m \in 1..k /\ i = m + (i - m)
          BY <1>7, <3>2
        <5> QED
          BY <5>1
      <4>2. waiting[i] = <<l[j], d + 1>> /\ l[j] \in new
        BY <1>7, <2>2, <4>1
      <4> QED
        BY <4>2
    <3> QED
      BY <3>1, <3>2
  <2>4. ASSUME NEW i \in 1..(m + 1) PROVE queue[i][1] \in Queued(waiting) \cup {x}
    <3>1. CASE i = 1
      BY <1>3, <3>1
    <3>2. CASE i # 1
      <4>1. PICK j \in 1..m : i = j + 1
        <5>1. i - 1 \in 1..m /\ i = (i - 1) + 1
          BY <3>2
        <5> QED
          BY <5>1
      <4>2. waiting[j] = queue[i] /\ j \in 1..Len(waiting)
        BY <1>7, <2>2, <4>1
      <4> QED
        BY <4>2 DEF Queued
    <3> QED
      BY <3>1, <3>2
  <2>5. ASSUME NEW y \in new PROVE y \in Queued(waiting)
    <3>1. PICK i \in 1..k : l[i] = y
      BY <1>7
    <3>2. m + i \in 1..Len(waiting) /\ waiting[m + i] = <<y, d + 1>>
      BY <1>7, <2>2, <3>1
    <3>3. waiting[m + i][1] = y
      BY <3>2
    <3> QED
      BY <3>2, <3>3 DEF Queued
  <2>6. Queued(waiting) \subseteq Queued(queue) \cup new
    <3>1. \A i \in 1..Len(waiting) : waiting[i][1] \in Queued(queue) \cup new
      BY <2>2, <2>3
    <3>2. Queued(waiting) = {waiting[i][1] : i \in 1..Len(waiting)}
      BY DEF Queued
    <3> QED
      BY <3>1, <3>2
  <2>7. Queued(queue) \subseteq Queued(waiting) \cup {x}
    BY <2>1, <2>4 DEF Queued
  <2> QED
    BY <2>5, <2>6, <2>7
<1>15. PICK r : r = [visited |-> visited \cup {x}, found |-> found \cup new, queue |-> waiting, reasons |-> reasons \cup why]
  OBVIOUS
<1>16. r.visited = visited \cup {x} /\ r.found = found \cup new /\ r.queue = waiting /\ r.reasons = reasons \cup why
  BY <1>15
<1>17. r \in [visited : SUBSET Place, found : SUBSET Place, queue : Seq(Place \X (0..depth)), reasons : SUBSET {"max_depth"}]
  <2>1. visited \cup {x} \in SUBSET Place /\ found \cup new \in SUBSET Place /\ reasons \cup why \in SUBSET {"max_depth"}
    BY <1>5, <1>6, <1>9
  <2> QED
    BY <1>15, <2>1
<1>18. found \cup new = visited \cup {x} \cup Queued(waiting)
  BY <1>2, <1>4, <1>14
<1>19. ASSUME reasons \cup why = {}, NEW e \in edges, e[1] \in visited \cup {x} PROVE e[2] \in found \cup new
  <2>1. CASE e[1] \in visited
    BY <1>2, <1>19, <2>1
  <2>2. CASE e[1] = x
    <3>1. e[2] \in out
      BY <1>6, <2>2
    <3>2. d # depth
      BY <1>9, <1>19, <3>1
    <3>3. d < depth
      BY <3>2
    <3> QED
      BY <1>5, <1>6, <3>1, <3>3
  <2> QED
    BY <1>19, <2>1, <2>2
<1>20. r \in Roaming(p, depth)
  BY <1>2, <1>11, <1>16, <1>17, <1>18, <1>19 DEF Roaming
<1> QED
  BY <1>10, <1>13, <1>15, <1>20

LEMMA TraverseRoams ==
    ASSUME edges \subseteq Edge, NEW p \in Place, NEW depth \in Nat, NEW nodes \in Nat
    PROVE  Traverse(p, depth, nodes) \in Roaming(p, depth)
<1>1. PICK c : c = Cardinality(Place) /\ c \in Nat
  BY FS_CardinalityType, FederationAssumption
<1>2. PICK start : start = [visited |-> {}, found |-> {p}, queue |-> <<<<p, 0>>>>, reasons |-> {}]
  OBVIOUS
<1>3. start \in Roaming(p, depth)
  <2>1. <<<<p, 0>>>> \in Seq(Place \X (0..depth)) /\ Queued(<<<<p, 0>>>>) = {p}
    BY DEF Queued
  <2>2. start.visited = {} /\ start.found = {p} /\ start.queue = <<<<p, 0>>>> /\ start.reasons = {}
    BY <1>2
  <2>3. start \in [visited : SUBSET Place, found : SUBSET Place, queue : Seq(Place \X (0..depth)), reasons : SUBSET {"max_depth"}]
    BY <1>2, <2>1
  <2> QED
    BY <2>1, <2>2, <2>3, ReachableIsClosed DEF Roaming, StaysIn
<1> DEFINE Step(t) == IF t.queue # <<>> /\ Cardinality(t.visited) < nodes THEN Visit(t, depth) ELSE t
           F(f) == [n \in 0..c |-> IF n = 0 THEN start ELSE Step(f[n - 1])]
<1>4. PICK J : J = [n \in 0..c |-> Roaming(p, depth)]
  OBVIOUS
<1>5. PICK g : g = [n \in 1..c |-> [t \in Roaming(p, depth) |-> Step(t)]]
  OBVIOUS
<1>6. \A n \in 1..c : n - 1 \in 0..c /\ n \in 0..c
  BY <1>1
<1>7. \A n \in 1..c : \A t \in Roaming(p, depth) : g[n][t] = Step(t) /\ Step(t) \in Roaming(p, depth)
  <2>1. \A t \in Roaming(p, depth) : Step(t) \in Roaming(p, depth)
    BY VisitKeeps
  <2> HIDE DEF Step
  <2> QED
    BY <1>5, <2>1
<1> HIDE DEF Step
<1>8. PICK f : Running(f, start, g, c) /\ Staying(f, J, c)
  <2>1. Stepping(g, J, c)
    BY <1>4, <1>6, <1>7 DEF Stepping
  <2>2. start \in J[0]
    BY <1>1, <1>3, <1>4
  <2> QED
    BY <1>1, <2>1, <2>2, LoopRuns
<1>9. f = F(f)
  <2>1. \A n \in 0..c : f[n] \in Roaming(p, depth)
    BY <1>4, <1>8 DEF Staying
  <2>2. f = [n \in 0..c |-> IF n = 0 THEN start ELSE g[n][f[n - 1]]]
    BY <1>8 DEF Running
  <2>3. \A n \in 0..c : n # 0 => n \in 1..c
    BY <1>1
  <2>4. \A n \in 0..c : (IF n = 0 THEN start ELSE g[n][f[n - 1]]) = (IF n = 0 THEN start ELSE Step(f[n - 1]))
    BY <1>6, <1>7, <2>1, <2>3
  <2> QED
    BY <2>2, <2>4
<1>10. PICK after : after = CHOOSE h : h = F(h)
  OBVIOUS
<1>11. after = F(after)
  <2> HIDE DEF F
  <2> QED
    BY <1>9, <1>10
<1>12. \A n \in 0..c : after[n] \in J[n]
  <2>1. after[0] \in J[0]
    BY <1>1, <1>3, <1>4, <1>11
  <2>2. \A n \in 1..c : after[n] = Step(after[n - 1])
    BY <1>1, <1>11
  <2>3. \A n \in 1..c : after[n - 1] \in J[n - 1] => after[n] \in J[n]
    BY <1>4, <1>6, <1>7, <2>2
  <2> QED
    BY <1>1, <2>1, <2>3, LoopKeeps
<1>13. Traverse(p, depth, nodes) = after[c]
  BY <1>1, <1>2, <1>10 DEF Traverse, Step
<1> QED
  BY <1>1, <1>4, <1>12, <1>13

LEMMA CompleteTraversal ==
    ASSUME FederationInv PROVE CompleteIsReachable
<1> SUFFICES ASSUME NEW p \in Place, NEW depth \in 0..MaxDepth, NEW nodes \in 1..MaxNodes
             PROVE  LET t == Traverse(p, depth, nodes) IN
                    /\ t.visited \subseteq Reachable(p)
                    /\ Reasons(t) = {} => t.visited = Reachable(p)
                    /\ MemberOf[p] \in members => \A q \in t.visited : MemberOf[q] \in members
  BY DEF CompleteIsReachable
<1>1. depth \in Nat /\ nodes \in Nat
  BY FederationAssumption
<1>2. edges \subseteq Edge
  BY DEF FederationInv
<1>3. PICK t \in Roaming(p, depth) : t = Traverse(p, depth, nodes)
  BY <1>1, <1>2, TraverseRoams
<1>4. /\ t.visited \subseteq Place /\ p \in t.found /\ t.found \subseteq Reachable(p)
      /\ t.found = t.visited \cup Queued(t.queue)
      /\ t.reasons = {} => \A e \in edges : e[1] \in t.visited => e[2] \in t.found
  BY DEF Roaming
<1>5. ASSUME Reasons(t) = {} PROVE t.visited = Reachable(p)
  <2>1. t.reasons = {} /\ t.queue = <<>>
    BY <1>5 DEF Reasons
  <2>2. Queued(t.queue) = {}
    BY <2>1 DEF Queued
  <2>3. t.visited \in SUBSET Place /\ StaysIn(t.visited, p)
    BY <1>4, <2>1, <2>2 DEF StaysIn
  <2> QED
    BY <1>4, <2>3, ReachableIsLeast
<1>6. ASSUME MemberOf[p] \in members, NEW q \in t.visited PROVE MemberOf[q] \in members
  <2>1. PICK S \in SUBSET Place : S = {x \in Place : MemberOf[x] \in members}
    OBVIOUS
  <2>2. \A e \in edges : MemberOf[e[2]] \in members /\ e[2] \in Place
    BY <1>2 DEF FederationInv, Within, Edge
  <2>3. StaysIn(S, p)
    BY <1>6, <2>1, <2>2 DEF StaysIn
  <2>4. Reachable(p) \subseteq S
    BY <2>3, ReachableIsLeast
  <2> QED
    BY <1>4, <2>1, <2>4
<1> QED
  BY <1>3, <1>4, <1>5, <1>6

(* A traversal that gives no reason has visited all that can be reached, none visits more or
   leaves the members: for every set of handles, depth and number of nodes, whatever deltas
   built the federation (apply_delta and traverse of federation.py). *)
THEOREM CompleteTraversalsReach == FederationSpec => []CompleteIsReachable
<1>1. FederationInit => FederationInv
  BY DEF FederationInit, FederationInv, Within
<1>2. FederationInv /\ [FederationNext]_federationVars => FederationInv'
  <2> SUFFICES ASSUME FederationInv, [FederationNext]_federationVars PROVE FederationInv'
    OBVIOUS
  <2>1. ASSUME NEW changed \in SUBSET Member, NEW tombstoned \in SUBSET Member,
               NEW added \in {{}} \cup {{e} : e \in Edge}, NEW removed,
               FederationDelta(changed, tombstoned, added, removed)
        PROVE  FederationInv'
    <3>1. members' \subseteq Member /\ edges' \subseteq Edge
      BY <2>1 DEF FederationDelta, FederationInv
    <3>2. \A e \in edges' : MemberOf[e[1]] \in members' /\ MemberOf[e[2]] \in members'
      BY <2>1 DEF FederationDelta, Within
    <3> QED
      BY <3>1, <3>2 DEF FederationInv, Within
  <2>2. CASE UNCHANGED federationVars
    BY <2>2 DEF federationVars, FederationInv, Within
  <2> QED
    BY <2>1, <2>2 DEF FederationNext
<1> QED
  BY <1>1, <1>2, CompleteTraversal, PTL DEF FederationSpec

----------------------------------------------------------------------------
(* What a compiled packet holds *)

SourceItem == [type : ProjectionType, id : FactId, fact : Fact, domain : Domain \cup {AnyScope},
             scope : Scope, payloadScope : Scope, origin : Origin]

SourcesInv == sources \in Seq(SourceItem)

LEMMA SourceKeys == \A e \in SourceItem : e.type \in Nat /\ e.id \in Nat
<1> SUFFICES ASSUME NEW e \in SourceItem PROVE e.type \in Nat /\ e.id \in Nat
  OBVIOUS
<1>1. e.type \in {1, 2, 3} /\ e.id \in FactId
  BY DEF SourceItem, ProjectionType
<1>2. FactId \subseteq Nat
  BY ContextAssumption
<1>3. e.type \in Nat
  BY <1>1
<1> QED
  BY <1>1, <1>2, <1>3

(* The sort puts every place of the list at its rank. *)
LEMMA SortRanks ==
    ASSUME NEW list \in Seq(SourceItem), NEW c \in Nat, c = Len(list)
    PROVE  \E at \in [1..c -> 1..c] :
              /\ InOrderOf(list) = [n \in 1..c |-> list[at[n]]]
              /\ \A n \in 1..c : Cardinality({k \in 1..c : SortsBefore(list, k, at[n])}) = n - 1
              /\ \A m \in 1..c : \E n \in 1..c : at[n] = m
<1>1. \A m \in 1..c : list[m] \in SourceItem /\ list[m].type \in Nat /\ list[m].id \in Nat
  <2>1. \A m \in 1..c : list[m] \in SourceItem
    OBVIOUS
  <2> QED
    BY <2>1, SourceKeys
<1>2. PICK below : below = [m \in 1..c |-> {k \in 1..c : SortsBefore(list, k, m)}]
  OBVIOUS
<1>3. \A m \in 1..c : below[m] = {k \in 1..c : SortsBefore(list, k, m)} /\ below[m] \subseteq 1..c
  BY <1>2
<1>4. \A k, m \in 1..c : k # m => SortsBefore(list, k, m) \/ SortsBefore(list, m, k)
  BY <1>1 DEF SortsBefore
<1>5. \A m \in 1..c : ~ SortsBefore(list, m, m)
  BY <1>1 DEF SortsBefore
<1>6. \A i, k, m \in 1..c : SortsBefore(list, i, k) /\ SortsBefore(list, k, m) => SortsBefore(list, i, m)
  BY <1>1 DEF SortsBefore
<1>7. IsFiniteSet(1..c) /\ Cardinality(1..c) = c
  <2>1. 1 \in Int /\ c \in Int /\ (1 > c => c = 0) /\ c - 1 + 1 = c
    OBVIOUS
  <2> QED
    BY ONLY c \in Nat, <2>1, FS_Interval
<1>8. \A m \in 1..c : IsFiniteSet(below[m]) /\ Cardinality(below[m]) \in Nat
  BY <1>3, <1>7, FS_Subset, FS_CardinalityType
<1>9. PICK rank : rank = [m \in 1..c |-> Cardinality(below[m])]
  OBVIOUS
<1>10. \A k, m \in 1..c : SortsBefore(list, k, m) => rank[k] < rank[m]
  <2> SUFFICES ASSUME NEW k \in 1..c, NEW m \in 1..c, SortsBefore(list, k, m) PROVE rank[k] < rank[m]
    OBVIOUS
  <2>1. below[k] \subseteq below[m] /\ k \in below[m] /\ k \notin below[k]
    BY <1>3, <1>5, <1>6
  <2>2. Cardinality(below[k]) <= Cardinality(below[m]) /\ Cardinality(below[k]) # Cardinality(below[m])
    BY <1>8, <2>1, FS_Subset
  <2> QED
    BY <1>8, <1>9, <2>2
<1>11. \A m \in 1..c : rank[m] \in Nat /\ rank[m] < c
  <2> SUFFICES ASSUME NEW m \in 1..c PROVE rank[m] \in Nat /\ rank[m] < c
    OBVIOUS
  <2>1. below[m] \subseteq 1..c /\ m \notin below[m]
    BY <1>3, <1>5
  <2>2. Cardinality(below[m]) <= c /\ Cardinality(below[m]) # c
    BY <1>7, <2>1, FS_Subset
  <2> QED
    BY <1>8, <1>9, <2>2
<1>12. \A k, m \in 1..c : rank[k] = rank[m] => k = m
  BY <1>4, <1>10, <1>11
<1>13. \A n \in 1..c : \E m \in 1..c : rank[m] = n - 1
  <2>1. PICK f : f = [m \in 1..c |-> rank[m] + 1]
    OBVIOUS
  <2>2. f \in [1..c -> 1..c] /\ \A k, m \in 1..c : f[k] = f[m] => k = m
    BY <1>11, <1>12, <2>1
  <2>3. f \in [1..Cardinality(1..c) -> 1..c] /\ \A k, m \in 1..Cardinality(1..c) : f[k] = f[m] => k = m
    BY <1>7, <2>2
  <2>4. \A n \in 1..c : \E m \in 1..Cardinality(1..c) : f[m] = n
    <3>1. f \in [1..Cardinality(1..c) -> 1..c]
      BY <2>3
    <3>2. \A k, m \in 1..Cardinality(1..c) : f[k] = f[m] => k = m
      BY <2>3
    <3>3. IsFiniteSet(1..c)
      BY <1>7
    <3> QED
      BY ONLY <3>1, <3>2, <3>3, ListingIsAll, Zenon
  <2>5. \A n \in 1..c : \E m \in 1..c : f[m] = n
    BY <1>7, <2>4
  <2>6. \A n, m \in 1..c : f[m] = n => rank[m] = n - 1
    BY <1>11, <2>1
  <2> QED
    BY <2>5, <2>6
<1>14. PICK at : at = [n \in 1..c |-> CHOOSE m \in 1..c : rank[m] = n - 1]
  OBVIOUS
<1>15. \A n \in 1..c : at[n] \in 1..c /\ rank[at[n]] = n - 1
  BY <1>13, <1>14
<1>16. InOrderOf(list) = [n \in 1..c |-> list[at[n]]]
  <2>1. rank = [m \in 1..Len(list) |-> Cardinality({k \in 1..Len(list) : SortsBefore(list, k, m)})]
    BY <1>3, <1>9
  <2>2. InOrderOf(list) = [n \in 1..Len(list) |-> list[CHOOSE m \in 1..Len(list) : rank[m] = n - 1]]
    BY <2>1 DEF InOrderOf
  <2> QED
    BY <1>14, <2>2
<1>17. ASSUME NEW n \in 1..c PROVE Cardinality({k \in 1..c : SortsBefore(list, k, at[n])}) = n - 1
  BY <1>3, <1>9, <1>15
<1>18. ASSUME NEW m \in 1..c PROVE \E n \in 1..c : at[n] = m
  <2>1. PICK n : n = rank[m] + 1 /\ n \in 1..c
    BY <1>11
  <2>2. rank[at[n]] = n - 1 /\ at[n] \in 1..c
    BY <1>15, <2>1
  <2>3. rank[m] = n - 1
    BY <1>11, <2>1
  <2>4. at[n] = m
    BY <1>12, <2>2, <2>3
  <2> QED
    BY <2>1, <2>4
<1>19. at \in [1..c -> 1..c]
  BY <1>14, <1>15
<1> QED
  BY <1>16, <1>17, <1>18, <1>19

(* Sorting keeps what there is. *)
LEMMA SortedIsAll ==
    ASSUME NEW list \in Seq(SourceItem), NEW c \in Nat, c = Len(list)
    PROVE  /\ InOrderOf(list) \in [1..c -> {list[m] : m \in 1..c}]
           /\ \A m \in 1..c : \E n \in 1..c : InOrderOf(list)[n] = list[m]
<1>1. PICK at \in [1..c -> 1..c] :
         /\ InOrderOf(list) = [n \in 1..c |-> list[at[n]]]
         /\ \A m \in 1..c : \E n \in 1..c : at[n] = m
  BY SortRanks
<1>2. ASSUME NEW m \in 1..c PROVE \E n \in 1..c : InOrderOf(list)[n] = list[m]
  <2>1. PICK n \in 1..c : at[n] = m
    BY <1>1
  <2>2. [i \in 1..c |-> list[at[i]]][n] = list[m]
    BY <2>1
  <2> QED
    BY <1>1, <2>2
<1> QED
  BY <1>1, <1>2

(* The places of a list whose envelopes sort before one, and not behind it *)
Earlier(d, e) == d.type < e.type \/ (d.type = e.type /\ d.id < e.id)
PlacesBefore(list, e) == {m \in 1..Len(list) : Earlier(list[m], e)}
PlacesUpTo(list, e) == {m \in 1..Len(list) : ~ Earlier(e, list[m])}

LEMMA PlacesAreFinite ==
    ASSUME NEW list \in Seq(SourceItem), NEW e
    PROVE  /\ IsFiniteSet(PlacesBefore(list, e)) /\ Cardinality(PlacesBefore(list, e)) \in Nat
           /\ IsFiniteSet(PlacesUpTo(list, e)) /\ Cardinality(PlacesUpTo(list, e)) \in Nat
<1>1. PICK c \in Nat : c = Len(list)
  OBVIOUS
<1>2. IsFiniteSet(1..c)
  <2>1. 1 \in Int /\ c \in Int
    OBVIOUS
  <2> QED
    BY ONLY <2>1, FS_Interval
<1>3. PlacesBefore(list, e) \in SUBSET (1..c) /\ PlacesUpTo(list, e) \in SUBSET (1..c)
  BY <1>1 DEF PlacesBefore, PlacesUpTo
<1> QED
  BY <1>2, <1>3, FS_Subset, FS_CardinalityType

(* Where an envelope is in the sorted list: behind all that sort before it, and before all
   that sort behind it. *)
LEMMA SortedPlaces ==
    ASSUME NEW list \in Seq(SourceItem), NEW n \in 1..Len(list), NEW e, e = InOrderOf(list)[n]
    PROVE  /\ e \in SourceItem
           /\ Cardinality(PlacesBefore(list, e)) <= n - 1
           /\ n <= Cardinality(PlacesUpTo(list, e))
<1>1. PICK c \in Nat : c = Len(list)
  OBVIOUS
<1>2. PICK at \in [1..c -> 1..c] :
         /\ InOrderOf(list) = [i \in 1..c |-> list[at[i]]]
         /\ \A i \in 1..c : Cardinality({k \in 1..c : SortsBefore(list, k, at[i])}) = i - 1
  BY <1>1, SortRanks
<1>3. PICK m \in 1..c : m = at[n]
  BY <1>1
<1>4. e = list[m] /\ e \in SourceItem
  BY <1>1, <1>2, <1>3
<1>5. \A k \in 1..c : list[k].type \in Nat /\ list[k].id \in Nat
  BY <1>1, SourceKeys
<1>6. PICK before : before = {k \in 1..c : SortsBefore(list, k, m)}
  OBVIOUS
<1>7. Cardinality(before) = n - 1
  BY <1>1, <1>2, <1>3, <1>6
<1>8. PlacesBefore(list, e) \subseteq before /\ before \subseteq PlacesUpTo(list, e) /\ m \in PlacesUpTo(list, e) /\ m \notin before
  <2>1. \A k \in 1..c : Earlier(list[k], e) => SortsBefore(list, k, m)
    BY <1>4 DEF Earlier, SortsBefore
  <2>2. ASSUME NEW k \in 1..c, SortsBefore(list, k, m) PROVE ~ Earlier(list[m], list[k])
    <3>1. PICK s, t, x, y \in Nat : s = list[k].type /\ t = list[m].type /\ x = list[k].id /\ y = list[m].id
      BY <1>5
    <3>2. s < t \/ (s = t /\ x < y) \/ (s = t /\ x = y)
      BY <2>2, <3>1 DEF SortsBefore
    <3>3. ~(t < s) /\ ~(t = s /\ y < x)
      BY <3>2
    <3> QED
      BY <3>1, <3>3 DEF Earlier
  <2>3. ~ SortsBefore(list, m, m) /\ ~ Earlier(list[m], list[m])
    <3>1. PICK s, x \in Nat : s = list[m].type /\ x = list[m].id
      BY <1>5
    <3>2. ~(s < s) /\ ~(x < x) /\ ~(m < m)
      OBVIOUS
    <3> QED
      BY <3>1, <3>2 DEF Earlier, SortsBefore
  <2> QED
    BY <1>1, <1>4, <1>6, <2>1, <2>2, <2>3 DEF PlacesBefore, PlacesUpTo
<1>9. /\ IsFiniteSet(PlacesUpTo(list, e)) /\ Cardinality(PlacesUpTo(list, e)) \in Nat
  BY PlacesAreFinite
<1>10. /\ IsFiniteSet(before) /\ Cardinality(before) <= Cardinality(PlacesUpTo(list, e))
       /\ Cardinality(before) # Cardinality(PlacesUpTo(list, e))
  BY <1>8, <1>9, FS_Subset
<1>11. Cardinality(PlacesBefore(list, e)) <= Cardinality(before)
  BY <1>8, <1>10, FS_Subset
<1>12. PICK a, b \in Int : a = Cardinality(before) /\ b = Cardinality(PlacesUpTo(list, e))
  <2>1. Cardinality(before) \in Nat
    BY <1>10, FS_CardinalityType
  <2> QED
    BY <1>9, <2>1
<1>13. n \in Nat /\ a = n - 1 /\ a <= b /\ a # b
  BY <1>1, <1>7, <1>10, <1>12
<1>14. n <= b
  BY <1>13
<1> QED
  BY <1>4, <1>7, <1>11, <1>12, <1>14

LEMMA EarlierApart ==
    ASSUME NEW list \in Seq(SourceItem), NEW d \in SourceItem, NEW e \in SourceItem, Earlier(d, e)
    PROVE  Cardinality(PlacesUpTo(list, d)) <= Cardinality(PlacesBefore(list, e))
<1>1. \A x \in SourceItem : ~ Earlier(d, x) => Earlier(x, e)
  BY SourceKeys DEF Earlier
<1>2. \A m \in 1..Len(list) : list[m] \in SourceItem
  OBVIOUS
<1>3. PlacesUpTo(list, d) \subseteq PlacesBefore(list, e)
  BY <1>1, <1>2 DEF PlacesUpTo, PlacesBefore
<1> QED
  BY <1>3, PlacesAreFinite, FS_Subset

LEMMA SortedInTurn ==
    ASSUME NEW list \in Seq(SourceItem), NEW q, q = InOrderOf(list), NEW i \in 1..Len(list), NEW j \in 1..Len(list), i <= j
    PROVE  ~ Earlier(q[j], q[i])
<1> SUFFICES ASSUME Earlier(q[j], q[i]) PROVE FALSE
  OBVIOUS
<1>1. PICK d, e : d = q[j] /\ e = q[i]
  OBVIOUS
<1>2. d \in SourceItem /\ j <= Cardinality(PlacesUpTo(list, d))
  BY <1>1, SortedPlaces
<1>3. e \in SourceItem /\ Cardinality(PlacesBefore(list, e)) <= i - 1
  BY <1>1, SortedPlaces
<1>4. Cardinality(PlacesUpTo(list, d)) <= Cardinality(PlacesBefore(list, e))
  BY <1>1, <1>2, <1>3, EarlierApart
<1>5. Cardinality(PlacesUpTo(list, d)) \in Nat /\ Cardinality(PlacesBefore(list, e)) \in Nat
  BY PlacesAreFinite
<1> QED
  BY <1>2, <1>3, <1>4, <1>5

(* As many places are turned round as there are. *)
LEMMA TurnedPlaces ==
    ASSUME NEW c \in Nat, NEW S \in SUBSET (1..c), NEW T, T = {m \in 1..c : (c - m) + 1 \in S}
    PROVE  Cardinality(T) = Cardinality(S)
<1>1. IsFiniteSet(S)
  <2>1. 1 \in Int /\ c \in Int
    OBVIOUS
  <2>2. IsFiniteSet(1..c)
    BY ONLY <2>1, FS_Interval
  <2> QED
    BY <2>2, FS_Subset
<1>2. PICK f : f = [m \in S |-> (c - m) + 1]
  OBVIOUS
<1>3. \A m \in S : f[m] \in T /\ (c - f[m]) + 1 = m
  BY <1>2
<1>4. \A m \in T : (c - m) + 1 \in S /\ f[(c - m) + 1] = m
  BY <1>2
<1>5. f \in Bijection(S, T)
  <2>1. f \in [S -> T]
    BY <1>2, <1>3
  <2>2. \A t \in T : \E m \in S : f[m] = t
    BY <1>4
  <2>3. \A j, k \in S : f[j] = f[k] => j = k
    BY <1>3
  <2> QED
    BY <2>1, <2>2, <2>3 DEF Bijection, Injection, Surjection, IsInjective
<1> QED
  BY <1>1, <1>5, FS_Bijection DEF ExistsBijection

(* A list and its reverse are sorted into lists with the same types and handles. *)
LEMMA SortedAlike ==
    ASSUME NEW list \in Seq(SourceItem), NEW turned, turned = Reverse(list), NEW n \in 1..Len(list),
           NEW d, d = InOrderOf(list)[n], NEW e, e = InOrderOf(turned)[n]
    PROVE  d \in SourceItem /\ e \in SourceItem /\ d.type = e.type /\ d.id = e.id
<1>1. PICK c \in Nat : c = Len(list)
  OBVIOUS
<1>2. turned \in Seq(SourceItem) /\ Len(turned) = c /\ \A m \in 1..c : turned[m] = list[(c - m) + 1]
  BY <1>1 DEF Reverse
<1>3. /\ d \in SourceItem /\ Cardinality(PlacesBefore(list, d)) <= n - 1 /\ n <= Cardinality(PlacesUpTo(list, d))
  BY SortedPlaces
<1>4. /\ e \in SourceItem /\ Cardinality(PlacesBefore(turned, e)) <= n - 1 /\ n <= Cardinality(PlacesUpTo(turned, e))
  BY <1>1, <1>2, SortedPlaces
<1>5. ASSUME NEW x PROVE /\ Cardinality(PlacesBefore(turned, x)) = Cardinality(PlacesBefore(list, x))
                         /\ Cardinality(PlacesUpTo(turned, x)) = Cardinality(PlacesUpTo(list, x))
  <2>1. \A m \in 1..c : (c - m) + 1 \in 1..c
    OBVIOUS
  <2>2. /\ PlacesBefore(list, x) \in SUBSET (1..c)
        /\ PlacesBefore(turned, x) = {m \in 1..c : (c - m) + 1 \in PlacesBefore(list, x)}
    BY <1>1, <1>2, <2>1 DEF PlacesBefore
  <2>3. /\ PlacesUpTo(list, x) \in SUBSET (1..c)
        /\ PlacesUpTo(turned, x) = {m \in 1..c : (c - m) + 1 \in PlacesUpTo(list, x)}
    BY <1>1, <1>2, <2>1 DEF PlacesUpTo
  <2>4. \A S \in SUBSET (1..c) : Cardinality({m \in 1..c : (c - m) + 1 \in S}) = Cardinality(S)
    BY TurnedPlaces
  <2> QED
    BY <2>2, <2>3, <2>4
<1>6. \A x : /\ Cardinality(PlacesBefore(list, x)) \in Nat /\ Cardinality(PlacesUpTo(list, x)) \in Nat
  BY PlacesAreFinite
<1>7. ~ Earlier(d, e)
  <2> SUFFICES ASSUME Earlier(d, e) PROVE FALSE
    OBVIOUS
  <2>1. Cardinality(PlacesUpTo(list, d)) <= Cardinality(PlacesBefore(list, e))
    BY <1>3, <1>4, EarlierApart
  <2> QED
    BY <1>1, <1>3, <1>4, <1>5, <1>6, <2>1
<1>8. ~ Earlier(e, d)
  <2> SUFFICES ASSUME Earlier(e, d) PROVE FALSE
    OBVIOUS
  <2>1. Cardinality(PlacesUpTo(list, e)) <= Cardinality(PlacesBefore(list, d))
    BY <1>3, <1>4, EarlierApart
  <2> QED
    BY <1>1, <1>3, <1>4, <1>5, <1>6, <2>1
<1>9. d.type \in Nat /\ d.id \in Nat /\ e.type \in Nat /\ e.id \in Nat
  BY <1>3, <1>4, SourceKeys
<1> QED
  BY <1>3, <1>4, <1>7, <1>8, <1>9 DEF Earlier

PairsOf(w) == {<<w[k].id, w[k].fact>> : k \in 1..Len(w)}

(* What is selected of the first n envelopes q, of E, unless there was an error *)
Compiled(q, limit, n, w, seen, bytes, reasons, stopped) ==
    /\ bytes <= limit
    /\ \A k \in 1..Len(w) : BoundToHome(w[k]) /\ w[k] \in seen
    /\ \A j, k \in 1..Len(w) : w[j].id = w[k].id => j = k
    /\ stopped => reasons # {}
    /\ reasons = {} => \A x \in seen \cup {q[i] : i \in 1..n} : <<x.id, x.fact>> \in PairsOf(w)

Packing(E) ==
    [selected : Seq(E), seen : SUBSET E, bytes : Nat, reasons : SUBSET {"domain_budget", "trust_floor", "byte_budget"},
     stopped : BOOLEAN, error : {"none", "context_scope_mismatch", "context_conflict"}]

Compiling(E, q, limit, n) ==
    {s \in Packing(E) :
        s.error = "none" => Compiled(q, limit, n, s.selected, s.seen, s.bytes, s.reasons, s.stopped)}

LEMMA CompilingMade ==
    ASSUME NEW E, NEW q, NEW limit, NEW n, NEW w \in Seq(E), NEW seen \in SUBSET E, NEW bytes \in Nat,
           NEW reasons \in SUBSET {"domain_budget", "trust_floor", "byte_budget"}, NEW stopped \in BOOLEAN,
           NEW error \in {"none", "context_scope_mismatch", "context_conflict"},
           error = "none" => Compiled(q, limit, n, w, seen, bytes, reasons, stopped)
    PROVE  [selected |-> w, seen |-> seen, bytes |-> bytes, reasons |-> reasons, stopped |-> stopped, error |-> error]
               \in Compiling(E, q, limit, n)
<1>1. PICK s : s = [selected |-> w, seen |-> seen, bytes |-> bytes, reasons |-> reasons, stopped |-> stopped, error |-> error]
  OBVIOUS
<1>2. s.selected = w /\ s.seen = seen /\ s.bytes = bytes /\ s.reasons = reasons /\ s.stopped = stopped /\ s.error = error
  BY <1>1
<1>3. s \in Packing(E)
  BY <1>1 DEF Packing
<1>4. s \in Compiling(E, q, limit, n)
  BY <1>2, <1>3 DEF Compiling
<1> QED
  BY <1>1, <1>4

(* One envelope: it is refused, was there before, is left out for a reason, or is taken. *)
LEMMA CompileStepKeeps ==
    ASSUME NEW E \in SUBSET SourceItem, NEW q, NEW budget, budget.bytes \in Nat, NEW n \in Nat,
           NEW s \in Compiling(E, q, budget.bytes, n), q[n + 1] \in E
    PROVE  CompileStep(s, q[n + 1], budget) \in Compiling(E, q, budget.bytes, n + 1)
<1>1. PICK w \in Seq(E), seen \in SUBSET E, bytes \in Nat, reasons \in SUBSET {"domain_budget", "trust_floor", "byte_budget"},
           stopped \in BOOLEAN, error \in {"none", "context_scope_mismatch", "context_conflict"} :
         s = [selected |-> w, seen |-> seen, bytes |-> bytes, reasons |-> reasons, stopped |-> stopped, error |-> error]
  BY DEF Compiling, Packing
<1>2. PICK limit \in Nat : limit = budget.bytes
  OBVIOUS
<1>3. error = "none" => Compiled(q, limit, n, w, seen, bytes, reasons, stopped)
  BY <1>1, <1>2 DEF Compiling
<1>4. PICK e \in E : e = q[n + 1]
  OBVIOUS
<1>5. PICK size \in Nat : size = ItemSize(e)
  <2>1. PICK i : i = [type |-> e.type, id |-> e.id, fact |-> e.fact, payloadScope |-> e.payloadScope, origin |-> e.origin]
    OBVIOUS
  <2>2. i \in Item
    BY <2>1 DEF SourceItem, Item
  <2>3. SizeOf[i] \in Nat
    BY <2>2, ContextAssumption
  <2> QED
    BY <2>1, <2>3 DEF ItemSize
<1>6. PICK m \in Nat : m = n + 1
  OBVIOUS
<1>7. PICK r : r = CompileStep(s, e, budget)
  OBVIOUS
<1>8. \A i \in 1..m : i \in 1..n \/ i = m
  BY <1>6
<1>9. {q[i] : i \in 1..m} = {q[i] : i \in 1..n} \cup {e}
  <2>1. m \in 1..m /\ \A i \in 1..n : i \in 1..m
    BY <1>6
  <2> QED
    BY <1>4, <1>6, <1>8, <2>1
<1>10. PICK before : before = {x \in seen : x.id = e.id}
  OBVIOUS
<1>11. /\ s.selected = w /\ s.seen = seen /\ s.bytes = bytes /\ s.reasons = reasons
       /\ s.stopped = stopped /\ s.error = error
  BY <1>1
<1>12. CASE stopped \/ error # "none"
  <2>1. r = s
    BY <1>7, <1>11, <1>12 DEF CompileStep
  <2>2. error = "none" => Compiled(q, limit, m, w, seen, bytes, reasons, stopped)
    BY <1>3, <1>12 DEF Compiled
  <2>3. s \in Compiling(E, q, limit, m)
    BY <1>1, <2>2, CompilingMade
  <2> QED
    BY <1>2, <1>4, <1>6, <1>7, <2>1, <2>3
<1>13. CASE ~ stopped /\ error = "none" /\ ~ BoundToHome(e)
  <2>1. r = [selected |-> w, seen |-> seen, bytes |-> bytes, reasons |-> reasons, stopped |-> stopped, error |-> "context_scope_mismatch"]
    BY <1>1, <1>7, <1>11, <1>13 DEF CompileStep
  <2>2. r \in Compiling(E, q, limit, m)
    BY <2>1, CompilingMade
  <2> QED
    BY <1>2, <1>4, <1>6, <1>7, <2>2
<1>14. CASE ~ stopped /\ error = "none" /\ BoundToHome(e) /\ before # {}
  <2>1. CASE \E x \in before : ~ Same(x, e)
    <3>1. r = [selected |-> w, seen |-> seen, bytes |-> bytes, reasons |-> reasons, stopped |-> stopped, error |-> "context_conflict"]
      BY <1>1, <1>7, <1>10, <1>11, <1>14, <2>1 DEF CompileStep
    <3>2. r \in Compiling(E, q, limit, m)
      BY <3>1, CompilingMade
    <3> QED
      BY <1>2, <1>4, <1>6, <1>7, <3>2
  <2>2. CASE ~ \E x \in before : ~ Same(x, e)
    <3>1. r = s
      BY <1>7, <1>10, <1>11, <1>14, <2>2 DEF CompileStep
    <3>2. PICK x \in seen : x.id = e.id /\ x.fact = e.fact
      BY <1>10, <1>14, <2>2 DEF Same
    <3>3. Compiled(q, limit, m, w, seen, bytes, reasons, stopped)
      <4>1. ASSUME reasons = {}, NEW y \in seen \cup {q[i] : i \in 1..m} PROVE <<y.id, y.fact>> \in PairsOf(w)
        <5>1. <<x.id, x.fact>> \in PairsOf(w)
          BY <1>3, <1>14, <4>1 DEF Compiled
        <5>2. CASE y = e
          BY <3>2, <5>1, <5>2
        <5>3. CASE y # e
          BY <1>3, <1>9, <1>14, <4>1, <5>3 DEF Compiled
        <5> QED
          BY <5>2, <5>3
      <4> QED
        BY <1>3, <1>14, <4>1 DEF Compiled
    <3>4. s \in Compiling(E, q, limit, m)
      BY <1>1, <3>3, CompilingMade
    <3> QED
      BY <1>2, <1>4, <1>6, <1>7, <3>1, <3>4
  <2> QED
    BY <2>1, <2>2
<1>15. CASE ~ stopped /\ error = "none" /\ BoundToHome(e) /\ before = {}
  <2>1. PICK more : more = seen \cup {e}
    OBVIOUS
  <2>2. more \in SUBSET E /\ \A k \in 1..Len(w) : w[k] \in more
    BY <1>3, <1>15, <2>1 DEF Compiled
  <2>3. ASSUME NEW why \in SUBSET {"domain_budget", "trust_floor", "byte_budget"}, why # {}, NEW end \in BOOLEAN
        PROVE  [selected |-> w, seen |-> more, bytes |-> bytes, reasons |-> why, stopped |-> end, error |-> "none"]
                   \in Compiling(E, q, limit, m)
    <3>1. Compiled(q, limit, m, w, more, bytes, why, end)
      BY <1>3, <1>15, <2>2, <2>3 DEF Compiled
    <3> QED
      BY <2>2, <3>1, CompilingMade
  <2>4. CASE DomainOf(e) = budget.capped /\ Cardinality({k \in 1..Len(w) : DomainOf(w[k]) = DomainOf(e)}) >= 1
    <3>1. r = [selected |-> w, seen |-> more, bytes |-> bytes, reasons |-> reasons \cup {"domain_budget"}, stopped |-> stopped, error |-> "none"]
      BY <1>1, <1>7, <1>10, <1>11, <1>15, <2>1, <2>4 DEF CompileStep
    <3>2. r \in Compiling(E, q, limit, m)
      BY <2>3, <3>1
    <3> QED
      BY <1>2, <1>4, <1>6, <1>7, <3>2
  <2>5. CASE /\ ~(DomainOf(e) = budget.capped /\ Cardinality({k \in 1..Len(w) : DomainOf(w[k]) = DomainOf(e)}) >= 1)
             /\ TrustOf[e.fact] < budget.floor
    <3>1. r = [selected |-> w, seen |-> more, bytes |-> bytes, reasons |-> reasons \cup {"trust_floor"}, stopped |-> stopped, error |-> "none"]
      BY <1>1, <1>7, <1>10, <1>11, <1>15, <2>1, <2>5 DEF CompileStep
    <3>2. r \in Compiling(E, q, limit, m)
      BY <2>3, <3>1
    <3> QED
      BY <1>2, <1>4, <1>6, <1>7, <3>2
  <2>6. CASE /\ ~(DomainOf(e) = budget.capped /\ Cardinality({k \in 1..Len(w) : DomainOf(w[k]) = DomainOf(e)}) >= 1)
             /\ ~(TrustOf[e.fact] < budget.floor) /\ bytes + size > limit
    <3>1. r = [selected |-> w, seen |-> more, bytes |-> bytes, reasons |-> reasons \cup {"byte_budget"}, stopped |-> TRUE, error |-> "none"]
      BY <1>1, <1>2, <1>5, <1>7, <1>10, <1>11, <1>15, <2>1, <2>6 DEF CompileStep, Ended
    <3>2. r \in Compiling(E, q, limit, m)
      BY <2>3, <3>1
    <3> QED
      BY <1>2, <1>4, <1>6, <1>7, <3>2
  <2>7. CASE /\ ~(DomainOf(e) = budget.capped /\ Cardinality({k \in 1..Len(w) : DomainOf(w[k]) = DomainOf(e)}) >= 1)
             /\ ~(TrustOf[e.fact] < budget.floor) /\ ~(bytes + size > limit)
    <3>1. PICK v : v = Append(w, e)
      OBVIOUS
    <3>2. PICK l \in Nat : l = Len(w)
      OBVIOUS
    <3>3. v \in Seq(E) /\ Len(v) = l + 1 /\ v[l + 1] = e /\ \A k \in 1..l : v[k] = w[k]
      BY <3>1, <3>2
    <3>4. r = [selected |-> v, seen |-> more, bytes |-> bytes + size, reasons |-> reasons, stopped |-> stopped, error |-> "none"]
      BY <1>1, <1>2, <1>5, <1>7, <1>10, <1>11, <1>15, <2>1, <2>7, <3>1 DEF CompileStep
    <3>5. \A k \in 1..(l + 1) : k \in 1..l \/ k = l + 1
      OBVIOUS
    <3>6. \A k \in 1..l : BoundToHome(w[k]) /\ w[k] \in seen /\ w[k].id # e.id
      BY <1>3, <1>10, <1>15, <3>2 DEF Compiled
    <3>7. ASSUME NEW j \in 1..(l + 1), NEW k \in 1..(l + 1), v[j].id = v[k].id PROVE j = k
      <4>1. \A a, b \in 1..l : w[a].id = w[b].id => a = b
        BY <1>3, <1>15, <3>2 DEF Compiled
      <4> QED
        BY <3>3, <3>5, <3>6, <3>7, <4>1
    <3>8. PairsOf(w) \subseteq PairsOf(v) /\ <<e.id, e.fact>> \in PairsOf(v)
      <4>1. l + 1 \in 1..Len(v) /\ \A k \in 1..l : k \in 1..Len(v)
        BY <3>3
      <4> QED
        BY <3>2, <3>3, <4>1 DEF PairsOf
    <3>9. ASSUME reasons = {}, NEW y \in more \cup {q[i] : i \in 1..m} PROVE <<y.id, y.fact>> \in PairsOf(v)
      <4>1. CASE y = e
        BY <3>8, <4>1
      <4>2. CASE y # e
        <5>1. y \in seen \cup {q[i] : i \in 1..n}
          BY <1>9, <2>1, <3>9, <4>2
        <5> QED
          BY <1>3, <1>15, <3>8, <3>9, <5>1 DEF Compiled
      <4> QED
        BY <4>1, <4>2
    <3>10. \A k \in 1..Len(v) : BoundToHome(v[k]) /\ v[k] \in more
      BY <1>15, <2>1, <3>3, <3>5, <3>6
    <3>11. bytes + size \in Nat /\ bytes + size <= limit
      BY <2>7
    <3>12. Compiled(q, limit, m, v, more, bytes + size, reasons, stopped)
      BY <1>15, <3>3, <3>7, <3>9, <3>10, <3>11 DEF Compiled
    <3>13. r \in Compiling(E, q, limit, m)
      BY <2>2, <3>3, <3>4, <3>11, <3>12, CompilingMade
    <3> QED
      BY <1>2, <1>4, <1>6, <1>7, <3>13
  <2> QED
    BY <2>4, <2>5, <2>6, <2>7
<1> QED
  BY <1>12, <1>13, <1>14, <1>15

(* How a packet comes about: one state after each envelope of the sorted list *)
CompileTrace(after, E, q, budget, c) ==
    /\ after[0] = Start
    /\ \A n \in 1..c : after[n] = CompileStep(after[n - 1], q[n], budget)
    /\ \A n \in 0..c : after[n] \in Compiling(E, q, budget.bytes, n)

CompilesBy(list, E, q, budget, c) ==
    \E after : CompileTrace(after, E, q, budget, c) /\ CompileContext(list, budget) = after[c]

LEMMA CompileRuns ==
    ASSUME NEW list \in Seq(SourceItem), NEW c \in Nat, c = Len(list), NEW budget, budget.bytes \in Nat,
           NEW E, E = {list[m] : m \in 1..c}, NEW q, q = InOrderOf(list)
    PROVE  CompilesBy(list, E, q, budget, c)
<1>1. q \in [1..c -> E] /\ E \in SUBSET SourceItem
  <2>1. \A m \in 1..c : list[m] \in SourceItem
    OBVIOUS
  <2>2. InOrderOf(list) \in [1..c -> {list[m] : m \in 1..c}]
    BY SortedIsAll
  <2> QED
    BY <2>1, <2>2
<1>2. PICK limit \in Nat : limit = budget.bytes
  OBVIOUS
<1>3. Start \in Compiling(E, q, limit, 0)
  <2>1. <<>> \in Seq(E) /\ {} \in SUBSET E /\ Compiled(q, limit, 0, <<>>, {}, 0, {}, FALSE)
    <3>1. \A i \in 1..0 : FALSE
      OBVIOUS
    <3> QED
      BY <3>1 DEF Compiled
  <2> QED
    BY <2>1, CompilingMade DEF Start
<1> DEFINE F(f) == [n \in 0..c |-> IF n = 0 THEN Start ELSE CompileStep(f[n - 1], q[n], budget)]
<1>4. PICK J : J = [n \in 0..c |-> Compiling(E, q, limit, n)]
  OBVIOUS
<1>5. \A n \in 1..c : n - 1 \in Nat /\ n - 1 \in 0..c /\ n \in 0..c /\ (n - 1) + 1 = n
  OBVIOUS
<1>6. \A n \in 1..c : \A s \in J[n - 1] : CompileStep(s, q[n], budget) \in J[n]
  <2> SUFFICES ASSUME NEW n \in 1..c, NEW s \in J[n - 1] PROVE CompileStep(s, q[n], budget) \in J[n]
    OBVIOUS
  <2>1. PICK m \in Nat : m = n - 1 /\ m + 1 = n
    BY <1>5
  <2>2. s \in Compiling(E, q, budget.bytes, m) /\ q[m + 1] \in E
    BY <1>1, <1>2, <1>4, <1>5, <2>1
  <2>3. CompileStep(s, q[m + 1], budget) \in Compiling(E, q, budget.bytes, m + 1)
    BY <1>1, <2>2, CompileStepKeeps
  <2> QED
    BY <1>2, <1>4, <1>5, <2>1, <2>3
<1>7. PICK g : g = [n \in 1..c |-> [s \in J[n - 1] |-> CompileStep(s, q[n], budget)]]
  OBVIOUS
<1>8. \A n \in 1..c : \A s \in J[n - 1] : g[n][s] = CompileStep(s, q[n], budget)
  BY <1>7
<1>9. PICK f : Running(f, Start, g, c) /\ Staying(f, J, c)
  <2>1. Stepping(g, J, c)
    BY <1>6, <1>8 DEF Stepping
  <2>2. Start \in J[0]
    BY <1>3, <1>4
  <2> QED
    BY <2>1, <2>2, LoopRuns
<1>10. f = F(f)
  <2>1. f = [n \in 0..c |-> IF n = 0 THEN Start ELSE g[n][f[n - 1]]]
    BY <1>9 DEF Running
  <2>2. \A n \in 0..c : n # 0 => n \in 1..c
    OBVIOUS
  <2>3. \A n \in 1..c : g[n][f[n - 1]] = CompileStep(f[n - 1], q[n], budget)
    BY <1>5, <1>8, <1>9 DEF Staying
  <2>4. \A n \in 0..c : (IF n = 0 THEN Start ELSE g[n][f[n - 1]]) = (IF n = 0 THEN Start ELSE CompileStep(f[n - 1], q[n], budget))
    BY <2>2, <2>3
  <2> QED
    BY <2>1, <2>4
<1>11. PICK after : after = CHOOSE h : h = F(h)
  OBVIOUS
<1>12. after = F(after)
  <2> HIDE DEF F
  <2> QED
    BY <1>10, <1>11
<1>13. \A n \in 0..c : after[n] \in J[n]
  <2>1. after[0] \in J[0]
    BY <1>3, <1>4, <1>12
  <2>2. \A n \in 1..c : after[n] = CompileStep(after[n - 1], q[n], budget)
    BY <1>12
  <2>3. \A n \in 1..c : after[n - 1] \in J[n - 1] => after[n] \in J[n]
    BY <1>6, <2>2
  <2> QED
    BY <2>1, <2>3, LoopKeeps
<1>14. CompileContext(list, budget) = after[c]
  BY <1>11 DEF CompileContext
<1>15. CompileTrace(after, E, q, budget, c)
  BY <1>2, <1>4, <1>12, <1>13 DEF CompileTrace
<1> QED
  BY <1>14, <1>15 DEF CompilesBy

LEMMA DistinctAreCounted ==
    ASSUME NEW W, NEW w \in Seq(W), \A j, k \in 1..Len(w) : w[j].id = w[k].id => j = k
    PROVE  Cardinality({x[1] : x \in PairsOf(w)}) = Len(w)
<1>1. PICK l \in Nat : l = Len(w)
  OBVIOUS
<1>2. PICK T : T = {x[1] : x \in PairsOf(w)}
  OBVIOUS
<1>3. PICK f : f = [k \in 1..l |-> w[k].id]
  OBVIOUS
<1>4. ASSUME NEW k \in 1..l PROVE w[k].id \in T
  <2>1. PICK x : x = <<w[k].id, w[k].fact>>
    OBVIOUS
  <2>2. x \in PairsOf(w) /\ x[1] = w[k].id
    BY <1>1, <2>1 DEF PairsOf
  <2> QED
    BY <1>2, <2>2
<1>5. ASSUME NEW t \in T PROVE \E k \in 1..l : w[k].id = t
  <2>1. PICK x \in PairsOf(w) : x[1] = t
    BY <1>2
  <2>2. PICK k \in 1..l : x = <<w[k].id, w[k].fact>>
    BY <1>1, <2>1 DEF PairsOf
  <2> QED
    BY <2>1, <2>2
<1>6. f \in Bijection(1..l, T)
  <2>1. f \in [1..l -> T] /\ \A t \in T : \E k \in 1..l : f[k] = t
    BY <1>3, <1>4, <1>5
  <2>2. \A j, k \in 1..l : f[j] = f[k] => j = k
    BY <1>1, <1>3
  <2> QED
    BY <2>1, <2>2 DEF Bijection, Injection, Surjection, IsInjective
<1>7. ExistsBijection(1..l, T)
  BY <1>6 DEF ExistsBijection
<1>8. Cardinality(T) = l
  BY <1>7, FS_CountingElements
<1> QED
  BY <1>1, <1>2, <1>8

LEMMA CompiledIsComplete == ASSUME SourcesInv PROVE PacketIsComplete
<1> SUFFICES ASSUME NEW budget \in PacketBudget
             PROVE  LET s == CompileContext(sources, budget)
                    IN  s.error = "none" =>
                        /\ s.bytes <= budget.bytes
                        /\ Cardinality({f[1] : f \in FactsOf(s)}) = Len(s.selected)
                        /\ \A n \in 1..Len(s.selected) : BoundToHome(s.selected[n])
                        /\ s.reasons = {} => FactsOf(s) = {<<sources[n].id, sources[n].fact>> : n \in 1..Len(sources)}
  BY DEF PacketIsComplete
<1>1. PICK list \in Seq(SourceItem) : list = sources
  BY DEF SourcesInv
<1>2. PICK c \in Nat : c = Len(list)
  OBVIOUS
<1>3. PICK E : E = {list[m] : m \in 1..c}
  OBVIOUS
<1>4. PICK q : q = InOrderOf(list)
  OBVIOUS
<1>5. PICK limit \in Nat : limit = budget.bytes
  BY ContextAssumption DEF PacketBudget
<1>6. PICK s : s = CompileContext(list, budget)
  OBVIOUS
<1>7. s \in Compiling(E, q, limit, c)
  <2>1. PICK after : CompileTrace(after, E, q, budget, c) /\ CompileContext(list, budget) = after[c]
    <3>1. CompilesBy(list, E, q, budget, c)
      BY <1>2, <1>3, <1>4, <1>5, CompileRuns
    <3> QED
      BY <3>1 DEF CompilesBy
  <2>2. after[c] \in Compiling(E, q, budget.bytes, c)
    BY <2>1 DEF CompileTrace
  <2> QED
    BY <1>5, <1>6, <2>1, <2>2
<1>8. SUFFICES ASSUME s.error = "none"
               PROVE  /\ s.bytes <= limit
                      /\ Cardinality({f[1] : f \in FactsOf(s)}) = Len(s.selected)
                      /\ \A n \in 1..Len(s.selected) : BoundToHome(s.selected[n])
                      /\ s.reasons = {} => FactsOf(s) = {<<list[n].id, list[n].fact>> : n \in 1..c}
  BY <1>1, <1>2, <1>5, <1>6
<1>9. PICK w \in Seq(E) : w = s.selected
  BY <1>7 DEF Compiling, Packing
<1>10. Compiled(q, limit, c, w, s.seen, s.bytes, s.reasons, s.stopped)
  BY <1>7, <1>8, <1>9 DEF Compiling
<1>11. FactsOf(s) = PairsOf(w)
  BY <1>9 DEF FactsOf, PairsOf
<1>12. Cardinality({f[1] : f \in FactsOf(s)}) = Len(w)
  <2>1. \A j, k \in 1..Len(w) : w[j].id = w[k].id => j = k
    BY <1>10 DEF Compiled
  <2> QED
    BY <1>11, <2>1, DistinctAreCounted
<1>13. ASSUME s.reasons = {} PROVE PairsOf(w) = {<<list[n].id, list[n].fact>> : n \in 1..c}
  <2>1. \A k \in 1..Len(w) : \E n \in 1..c : w[k] = list[n]
    BY <1>3, <1>9
  <2>2. \A i \in 1..c : <<q[i].id, q[i].fact>> \in PairsOf(w)
    BY <1>10, <1>13 DEF Compiled
  <2>3. \A n \in 1..c : \E i \in 1..c : q[i] = list[n]
    BY <1>2, <1>4, SortedIsAll
  <2>4. \A n \in 1..c : <<list[n].id, list[n].fact>> \in PairsOf(w)
    BY <2>2, <2>3
  <2>5. PairsOf(w) \subseteq {<<list[n].id, list[n].fact>> : n \in 1..c}
    BY <2>1 DEF PairsOf
  <2> QED
    BY <2>4, <2>5
<1> QED
  BY <1>9, <1>10, <1>11, <1>12, <1>13 DEF Compiled

(* What the adapters append are envelopes of the universal context. *)
LEMMA SourcesAreEnvelopes == ContextSpec => []SourcesInv
<1>1. ContextInit => SourcesInv
  BY DEF ContextInit, SourcesInv
<1>2. SourcesInv /\ [ContextNext]_contextVars => SourcesInv'
  <2> SUFFICES ASSUME SourcesInv, [ContextNext]_contextVars PROVE SourcesInv'
    OBVIOUS
  <2>1. ASSUME NEW e \in SourceItem, sources' = Append(sources, e) PROVE SourcesInv'
    BY <2>1 DEF SourcesInv
  <2>2. ASSUME NEW type \in ProjectionType, NEW id \in FactId, NEW fact \in Fact, NEW c \in Claim,
               AddEnvelope(type, id, fact, c)
        PROVE  SourcesInv'
    <3>1. [type |-> type, id |-> id, fact |-> fact, domain |-> c.domain, scope |-> c.scope,
           payloadScope |-> c.payloadScope, origin |-> c.origin] \in SourceItem
      BY DEF SourceItem, Claim
    <3> QED
      BY <2>1, <2>2, <3>1 DEF AddEnvelope
  <2>3. ASSUME NEW origin \in Origin PROVE Bound(origin) \in Claim
    BY DEF Bound, Claim, Scope
  <2>4. {1, 2, 3} = ProjectionType
    BY DEF ProjectionType
  <2>5. CASE UNCHANGED contextVars
    BY <2>5 DEF contextVars, SourcesInv
  <2>6. ASSUME NEW id \in FactId, NEW fact \in Fact, NEW c \in CodeClaim, AdaptCode(id, fact, c) PROVE SourcesInv'
    <3>1. c \in Claim /\ AddEnvelope(1, id, fact, c)
      BY <2>6, ContextAssumption DEF AdaptCode
    <3> QED
      BY <2>2, <2>4, <3>1
  <2>7. ASSUME NEW id \in FactId, NEW fact \in Fact, NEW origin \in Origin, NEW type \in {2, 3},
               AddEnvelope(type, id, fact, Bound(origin))
        PROVE  SourcesInv'
    BY <2>2, <2>3, <2>4, <2>7
  <2> QED
    BY <2>5, <2>6, <2>7 DEF ContextNext, AdaptKnowledge, AdaptOperations
<1> QED
  BY <1>1, <1>2, PTL DEF ContextSpec

(* A packet that the universal compiler makes is within its budget, has a handle once and
   only what is of the repository, and without a reason it has every fact of its sources:
   for every list of envelopes, trust floor, capped domain and number of bytes
   (compile_context of universal_context.py). *)
THEOREM CompiledPacketsComplete == ContextSpec => []PacketIsComplete
  BY CompiledIsComplete, SourcesAreEnvelopes, PTL

----------------------------------------------------------------------------
(* A packet does not depend on the order of its sources *)

(* SourcesAgree, of the envelopes of a list *)
AgreeOn(E) ==
    \A d, e \in E : d.id = e.id => Same(d, e) /\ (d.type = e.type => ItemSize(d) = ItemSize(e))

HandlesIn(seen) == {x.id : x \in seen}

(* An envelope whose handle is new: taken, left out for its trust, or the end of the packet *)
TakenUp(s, r, e, budget) ==
    LET trusted == ~(TrustOf[e.fact] < budget.floor)
        fits == ~(s.bytes + ItemSize(e) > budget.bytes)
    IN  /\ HandlesIn(r.seen) = HandlesIn(s.seen) \cup {e.id}
        /\ r.error = "none"
        /\ r.stopped <=> trusted /\ ~ fits
        /\ r.bytes = IF trusted /\ fits THEN s.bytes + ItemSize(e) ELSE s.bytes
        /\ PairsOf(r.selected) = PairsOf(s.selected) \cup (IF trusted /\ fits THEN {<<e.id, e.fact>>} ELSE {})

LEMMA PairsAppend ==
    ASSUME NEW E, NEW w \in Seq(E), NEW e \in E
    PROVE  PairsOf(Append(w, e)) = PairsOf(w) \cup {<<e.id, e.fact>>}
<1>1. PICK v : v = Append(w, e)
  OBVIOUS
<1>2. PICK l \in Nat : l = Len(w)
  OBVIOUS
<1>3. v \in Seq(E) /\ Len(v) = l + 1 /\ v[l + 1] = e /\ \A k \in 1..l : v[k] = w[k]
  BY <1>1, <1>2
<1>4. \A k \in 1..(l + 1) : k \in 1..l \/ k = l + 1
  OBVIOUS
<1>5. l + 1 \in 1..(l + 1) /\ \A k \in 1..l : k \in 1..(l + 1)
  OBVIOUS
<1>6. PairsOf(v) = {<<v[k].id, v[k].fact>> : k \in 1..(l + 1)} /\ PairsOf(w) = {<<w[k].id, w[k].fact>> : k \in 1..l}
  BY <1>2, <1>3 DEF PairsOf
<1>7. PairsOf(v) = PairsOf(w) \cup {<<e.id, e.fact>>}
  BY <1>3, <1>4, <1>5, <1>6
<1> QED
  BY <1>1, <1>7

(* One envelope while the packet is open, where no domain is capped *)
LEMMA UncappedStep ==
    ASSUME NEW E \in SUBSET SourceItem, AgreeOn(E), NEW s \in Packing(E), s.error = "none", ~ s.stopped,
           NEW e \in E, NEW budget, budget.capped = Home, NEW r, r = CompileStep(s, e, budget)
    PROVE  /\ ~ BoundToHome(e) => r.error # "none" /\ r.selected = s.selected
           /\ BoundToHome(e) /\ e.id \in HandlesIn(s.seen) => r = s
           /\ BoundToHome(e) /\ e.id \notin HandlesIn(s.seen) => TakenUp(s, r, e, budget)
<1>1. PICK w \in Seq(E), seen \in SUBSET E, bytes \in Nat, reasons \in SUBSET {"domain_budget", "trust_floor", "byte_budget"},
           stopped \in BOOLEAN, error \in {"none", "context_scope_mismatch", "context_conflict"} :
         s = [selected |-> w, seen |-> seen, bytes |-> bytes, reasons |-> reasons, stopped |-> stopped, error |-> error]
  BY DEF Packing
<1>2. s.selected = w /\ s.seen = seen /\ s.bytes = bytes /\ s.reasons = reasons /\ s.stopped = stopped /\ s.error = error
  BY <1>1
<1>3. stopped = FALSE /\ error = "none"
  BY <1>2
<1>4. DomainOf(e) # budget.capped
  <2>1. e.type \in {1, 2, 3} /\ (e.domain = AnyScope \/ e.domain \in Domain)
    BY DEF SourceItem, ProjectionType
  <2>2. DomainOf(e) \in Domain \cup {1, 2, 3}
    BY <2>1 DEF DomainOf
  <2> QED
    BY <2>2, ContextAssumption
<1>5. PICK before : before = {x \in seen : x.id = e.id}
  OBVIOUS
<1>6. CASE ~ BoundToHome(e)
  <2>1. r = [s EXCEPT !.error = "context_scope_mismatch"]
    BY <1>2, <1>3, <1>6 DEF CompileStep
  <2>2. r.error = "context_scope_mismatch" /\ r.selected = w
    BY <1>1, <2>1
  <2> QED
    BY <1>2, <1>6, <2>2
<1>7. CASE BoundToHome(e) /\ before # {}
  <2>1. \A x \in before : Same(x, e)
    BY <1>5 DEF AgreeOn
  <2>2. r = s
    BY <1>2, <1>3, <1>5, <1>7, <2>1 DEF CompileStep
  <2>3. e.id \in HandlesIn(s.seen)
    BY <1>2, <1>5, <1>7 DEF HandlesIn
  <2> QED
    BY <1>7, <2>2, <2>3
<1>8. CASE BoundToHome(e) /\ before = {}
  <2>1. e.id \notin HandlesIn(s.seen)
    BY <1>2, <1>5, <1>8 DEF HandlesIn
  <2>2. PICK more : more = seen \cup {e}
    OBVIOUS
  <2>3. HandlesIn(more) = HandlesIn(seen) \cup {e.id}
    BY <2>2 DEF HandlesIn
  <2>4. PICK size : size = ItemSize(e)
    OBVIOUS
  <2>5. CASE TrustOf[e.fact] < budget.floor
    <3>1. r = [selected |-> w, seen |-> more, bytes |-> bytes, reasons |-> reasons \cup {"trust_floor"}, stopped |-> FALSE, error |-> "none"]
      BY <1>1, <1>2, <1>3, <1>4, <1>5, <1>8, <2>2, <2>5 DEF CompileStep
    <3>2. r.selected = w /\ r.seen = more /\ r.bytes = bytes /\ r.stopped = FALSE /\ r.error = "none"
      BY <3>1
    <3>3. TakenUp(s, r, e, budget)
      BY <1>2, <2>3, <2>5, <3>2 DEF TakenUp
    <3> QED
      BY <1>8, <2>1, <3>3
  <2>6. CASE ~(TrustOf[e.fact] < budget.floor) /\ bytes + size > budget.bytes
    <3>1. r = [selected |-> w, seen |-> more, bytes |-> bytes, reasons |-> reasons \cup {"byte_budget"}, stopped |-> TRUE, error |-> "none"]
      BY <1>1, <1>2, <1>3, <1>4, <1>5, <1>8, <2>2, <2>4, <2>6 DEF CompileStep, Ended
    <3>2. r.selected = w /\ r.seen = more /\ r.bytes = bytes /\ r.stopped = TRUE /\ r.error = "none"
      BY <3>1
    <3>3. TakenUp(s, r, e, budget)
      BY <1>2, <2>3, <2>4, <2>6, <3>2 DEF TakenUp
    <3> QED
      BY <1>8, <2>1, <3>3
  <2>7. CASE ~(TrustOf[e.fact] < budget.floor) /\ ~(bytes + size > budget.bytes)
    <3>1. PICK v : v = Append(w, e)
      OBVIOUS
    <3>2. r = [selected |-> v, seen |-> more, bytes |-> bytes + size, reasons |-> reasons, stopped |-> FALSE, error |-> "none"]
      BY <1>1, <1>2, <1>3, <1>4, <1>5, <1>8, <2>2, <2>4, <2>7, <3>1 DEF CompileStep
    <3>3. r.selected = v /\ r.seen = more /\ r.bytes = bytes + size /\ r.stopped = FALSE /\ r.error = "none"
      BY <3>2
    <3>4. PairsOf(v) = PairsOf(w) \cup {<<e.id, e.fact>>}
      BY <3>1, PairsAppend
    <3>5. TakenUp(s, r, e, budget)
      BY <1>2, <2>3, <2>4, <2>7, <3>3, <3>4 DEF TakenUp
    <3> QED
      BY <1>8, <2>1, <3>5
  <2> QED
    BY <2>5, <2>6, <2>7
<1> QED
  BY <1>6, <1>7, <1>8

(* Two compilations of the same handles in the same order, of which the first has no error *)
Alongside(s, t) ==
    /\ PairsOf(s.selected) = PairsOf(t.selected)
    /\ t.error # "none" => s.stopped
    /\ t.error = "none" =>
          /\ s.stopped <=> t.stopped
          /\ ~ s.stopped => s.bytes = t.bytes /\ HandlesIn(s.seen) = HandlesIn(t.seen)

LEMMA StepAlongside ==
    ASSUME NEW E \in SUBSET SourceItem, AgreeOn(E), NEW s \in Packing(E), NEW t \in Packing(E),
           NEW d \in E, NEW e \in E, d.type = e.type, d.id = e.id, NEW budget, budget.capped = Home,
           NEW r, r = CompileStep(s, d, budget), NEW u, u = CompileStep(t, e, budget),
           s.error = "none", r.error = "none", Alongside(s, t), ~ BoundToHome(e) /\ ~ s.stopped => r.stopped
    PROVE  Alongside(r, u)
<1>1. d.fact = e.fact /\ ItemSize(d) = ItemSize(e)
  BY DEF AgreeOn, Same
<1>2. CASE s.stopped
  <2>1. r = s
    BY <1>2 DEF CompileStep
  <2>2. u = t
    BY <1>2 DEF CompileStep, Alongside
  <2> QED
    BY <2>1, <2>2
<1>3. CASE ~ s.stopped
  <2>1. t.error = "none" /\ ~ t.stopped /\ s.bytes = t.bytes /\ HandlesIn(s.seen) = HandlesIn(t.seen)
    BY <1>3 DEF Alongside
  <2>2. PairsOf(s.selected) = PairsOf(t.selected)
    BY DEF Alongside
  <2>3. /\ ~ BoundToHome(d) => r.error # "none"
        /\ BoundToHome(d) /\ d.id \in HandlesIn(s.seen) => r = s
        /\ BoundToHome(d) /\ d.id \notin HandlesIn(s.seen) => TakenUp(s, r, d, budget)
    BY <1>3, UncappedStep
  <2>4. /\ ~ BoundToHome(e) => u.error # "none" /\ u.selected = t.selected
        /\ BoundToHome(e) /\ e.id \in HandlesIn(t.seen) => u = t
        /\ BoundToHome(e) /\ e.id \notin HandlesIn(t.seen) => TakenUp(t, u, e, budget)
    BY <2>1, UncappedStep
  <2>5. CASE d.id \in HandlesIn(s.seen)
    <3>1. r = s
      BY <2>3, <2>5
    <3>2. u = t
      BY <1>3, <2>1, <2>4, <2>5, <3>1
    <3> QED
      BY <3>1, <3>2
  <2>6. CASE d.id \notin HandlesIn(s.seen) /\ ~ BoundToHome(e)
    <3>1. TakenUp(s, r, d, budget) /\ r.stopped
      BY <1>3, <2>3, <2>6
    <3>2. PairsOf(r.selected) = PairsOf(s.selected)
      BY <3>1 DEF TakenUp
    <3> QED
      BY <2>2, <2>4, <2>6, <3>1, <3>2 DEF Alongside
  <2>7. CASE d.id \notin HandlesIn(s.seen) /\ BoundToHome(e)
    <3>1. TakenUp(s, r, d, budget) /\ TakenUp(t, u, e, budget)
      BY <2>1, <2>3, <2>4, <2>7
    <3>2. PairsOf(r.selected) = PairsOf(u.selected) /\ r.bytes = u.bytes
      BY <1>1, <2>1, <2>2, <3>1 DEF TakenUp
    <3>3. (r.stopped <=> u.stopped) /\ u.error = "none" /\ HandlesIn(r.seen) = HandlesIn(u.seen)
      BY <1>1, <2>1, <3>1 DEF TakenUp
    <3> QED
      BY <3>2, <3>3 DEF Alongside
  <2> QED
    BY <2>5, <2>6, <2>7
<1> QED
  BY <1>2, <1>3

LEMMA TraceOf ==
    ASSUME NEW a, NEW E \in SUBSET SourceItem, NEW q, NEW budget, NEW c \in Nat, CompileTrace(a, E, q, budget, c)
    PROVE  /\ a[0] = Start /\ \A n \in 1..c : a[n] = CompileStep(a[n - 1], q[n], budget)
           /\ \A n \in 0..c : a[n] \in Packing(E)
BY DEF CompileTrace, Compiling

(* A packet that is full or refused stays what it is. *)
LEMMA EndsStay ==
    ASSUME NEW a, NEW E \in SUBSET SourceItem, NEW q, NEW budget, NEW c \in Nat, CompileTrace(a, E, q, budget, c),
           NEW n \in 0..c, a[n].stopped \/ a[n].error # "none", NEW k \in n..c
    PROVE  a[k] = a[n]
<1>1. PICK J : J = [i \in 0..c |-> IF i < n THEN {a[i]} ELSE {a[n]}]
  OBVIOUS
<1>2. a[0] \in J[0]
  BY <1>1
<1>3. ASSUME NEW i \in 1..c, a[i - 1] \in J[i - 1] PROVE a[i] \in J[i]
  <2>1. CASE i <= n
    BY <1>1, <2>1
  <2>2. CASE ~(i <= n)
    <3>1. i - 1 \in 0..c /\ i \in 0..c /\ ~(i - 1 < n) /\ ~(i < n)
      BY <2>2
    <3>2. a[i - 1] = a[n]
      BY <1>1, <1>3, <3>1
    <3>3. a[i] = CompileStep(a[n], q[i], budget)
      <4>1. a[i] = CompileStep(a[i - 1], q[i], budget)
        BY DEF CompileTrace
      <4> QED
        BY <3>2, <4>1
    <3>4. a[i] = a[n]
      BY <3>3 DEF CompileStep
    <3> QED
      BY <1>1, <3>1, <3>4
  <2> QED
    BY <2>1, <2>2
<1>4. \A i \in 0..c : a[i] \in J[i]
  BY <1>2, <1>3, LoopKeeps
<1>5. k \in 0..c /\ ~(k < n)
  OBVIOUS
<1> QED
  BY <1>1, <1>4, <1>5

SortedBy(E, q, c) == q \in [1..c -> E] /\ \A i, j \in 1..c : i <= j => ~ Earlier(q[j], q[i])

(* While the packet is open every envelope that was looked at is of the repository, and so
   are all others of its type and handle: they are next. *)
LEMMA OpenIsBound ==
    ASSUME NEW a, NEW E \in SUBSET SourceItem, AgreeOn(E), NEW q, NEW budget, budget.capped = Home, NEW c \in Nat,
           CompileTrace(a, E, q, budget, c), SortedBy(E, q, c), a[c].error = "none",
           NEW n \in 1..c, NEW m \in 1..c, q[m].type = q[n].type, q[m].id = q[n].id, ~ a[n].stopped
    PROVE  BoundToHome(q[m])
<1> SUFFICES ASSUME ~ BoundToHome(q[m]) PROVE FALSE
  OBVIOUS
<1>1. ASSUME NEW k \in 0..c PROVE a[k].error = "none"
  <2>1. a[k].error # "none" => a[c] = a[k]
    <3>1. c \in k..c
      OBVIOUS
    <3> QED
      BY <3>1, EndsStay
  <2> QED
    BY <2>1
<1>2. ASSUME NEW k \in 1..c, ~ a[k - 1].stopped
      PROVE  /\ a[k - 1] \in Packing(E) /\ q[k] \in E /\ BoundToHome(q[k])
             /\ q[k].id \in HandlesIn(a[k - 1].seen) => a[k] = a[k - 1]
             /\ q[k].id \in HandlesIn(a[k].seen)
  <2>1. k - 1 \in 0..c /\ k \in 0..c
    OBVIOUS
  <2>2. PICK s \in Packing(E) : s = a[k - 1]
    BY <2>1, TraceOf
  <2>3. PICK r : r = a[k]
    OBVIOUS
  <2>4. PICK d \in E : d = q[k]
    BY DEF SortedBy
  <2>5. r = CompileStep(s, d, budget)
    BY <2>2, <2>3, <2>4, TraceOf
  <2>6. s.error = "none" /\ r.error = "none" /\ ~ s.stopped
    BY <1>1, <1>2, <2>1, <2>2, <2>3
  <2>7. /\ ~ BoundToHome(d) => r.error # "none" /\ r.selected = s.selected
        /\ BoundToHome(d) /\ d.id \in HandlesIn(s.seen) => r = s
        /\ BoundToHome(d) /\ d.id \notin HandlesIn(s.seen) => TakenUp(s, r, d, budget)
    BY <2>5, <2>6, UncappedStep
  <2>8. BoundToHome(d) /\ (d.id \in HandlesIn(s.seen) => r = s)
    BY <2>6, <2>7
  <2>9. d.id \in HandlesIn(r.seen)
    <3>1. CASE d.id \in HandlesIn(s.seen)
      BY <2>8, <3>1
    <3>2. CASE d.id \notin HandlesIn(s.seen)
      BY <2>7, <2>8, <3>2 DEF TakenUp
    <3> QED
      BY <3>1, <3>2
  <2> QED
    BY <2>2, <2>3, <2>4, <2>8, <2>9
<1>3. ASSUME NEW k \in 0..n PROVE ~ a[k].stopped
  <2>1. k \in 0..c /\ n \in k..c
    OBVIOUS
  <2>2. a[k].stopped => a[n] = a[k]
    BY <2>1, EndsStay
  <2> QED
    BY <2>2
<1>4. CASE m <= n
  <2>1. m - 1 \in 0..n
    BY <1>4
  <2>2. ~ a[m - 1].stopped
    BY <1>3, <2>1
  <2> QED
    BY <1>2, <2>2
<1>5. CASE ~(m <= n)
  <2>1. PICK id : id = q[n].id
    OBVIOUS
  <2>2. PICK J : J = [i \in 0..c |-> IF i < n \/ i >= m THEN {a[i]} ELSE {x \in Packing(E) : ~ x.stopped /\ id \in HandlesIn(x.seen)}]
    OBVIOUS
  <2>3. a[0] \in J[0]
    BY <2>2
  <2>4. ASSUME NEW i \in 1..c, a[i - 1] \in J[i - 1] PROVE a[i] \in J[i]
    <3>1. i - 1 \in 0..c /\ i \in 0..c
      OBVIOUS
    <3>2. CASE i < n \/ i >= m
      BY <2>2, <3>1, <3>2
    <3>3. CASE i = n
      <4>1. n - 1 \in 0..n /\ ~ a[n - 1].stopped
        BY <1>3
      <4>2. id \in HandlesIn(a[n].seen)
        BY <1>2, <2>1, <4>1
      <4>3. a[n] \in Packing(E)
        BY <3>1, <3>3, TraceOf
      <4> QED
        BY <1>5, <2>2, <3>1, <3>3, <4>2, <4>3
    <3>4. CASE i > n /\ i < m
      <4>1. ~(i - 1 < n) /\ ~(i - 1 >= m) /\ ~(i < n) /\ ~(i >= m)
        BY <3>4
      <4>2. a[i - 1] \in Packing(E) /\ ~ a[i - 1].stopped /\ id \in HandlesIn(a[i - 1].seen)
        BY <2>2, <2>4, <3>1, <4>1
      <4>3. q[i].id = id
        <5>1. n <= i /\ i <= m
          BY <3>4
        <5>2. ~ Earlier(q[i], q[n]) /\ ~ Earlier(q[m], q[i])
          BY <5>1 DEF SortedBy
        <5>3. q[i] \in SourceItem /\ q[n] \in SourceItem /\ q[m] \in SourceItem
          BY DEF SortedBy
        <5>4. PICK x, y, u, v \in Nat : x = q[i].type /\ y = q[n].type /\ u = q[i].id /\ v = q[n].id
          BY <5>3, SourceKeys
        <5>5. ~(x < y \/ (x = y /\ u < v)) /\ ~(y < x \/ (y = x /\ v < u))
          BY <5>2, <5>4 DEF Earlier
        <5>6. u = v
          BY <5>5
        <5> QED
          BY <2>1, <5>4, <5>6
      <4>4. a[i] = a[i - 1]
        BY <1>2, <4>2, <4>3
      <4> QED
        BY <2>2, <3>1, <4>1, <4>2, <4>4
    <3> QED
      BY <3>2, <3>3, <3>4
  <2>5. \A i \in 0..c : a[i] \in J[i]
    BY <2>3, <2>4, LoopKeeps
  <2>6. m - 1 \in 0..c /\ ~(m - 1 < n) /\ ~(m - 1 >= m)
    BY <1>5
  <2>7. ~ a[m - 1].stopped
    BY <2>2, <2>5, <2>6
  <2> QED
    BY <1>2, <2>7
<1> QED
  BY <1>4, <1>5

(* One listing takes the handles of another, and names the same thing at every place. *)
ListsAlike(p, q, c) ==
    /\ \A n \in 1..c : p[n].type = q[n].type /\ p[n].id = q[n].id
    /\ \A n \in 1..c : \E m \in 1..c : p[n] = q[m]

(* So a packet that is compiled of the same handles, listed alike, is the same. *)
LEMMA TracesAlongside ==
    ASSUME NEW E \in SUBSET SourceItem, AgreeOn(E), NEW budget, budget.capped = Home, NEW c \in Nat,
           NEW a, NEW q, CompileTrace(a, E, q, budget, c), SortedBy(E, q, c), a[c].error = "none",
           NEW b, NEW p, CompileTrace(b, E, p, budget, c), p \in [1..c -> E],
           ListsAlike(p, q, c)
    PROVE  Alongside(a[c], b[c])
<1>1. PICK J : J = [n \in 0..c |-> {x \in Packing(E) \X Packing(E) : Alongside(x[1], x[2])}]
  OBVIOUS
<1>2. PICK h : h = [n \in 0..c |-> <<a[n], b[n]>>]
  OBVIOUS
<1>3. \A n \in 0..c : a[n] \in Packing(E) /\ b[n] \in Packing(E)
  BY TraceOf
<1>4. ASSUME NEW n \in 0..c PROVE h[n] \in J[n] <=> Alongside(a[n], b[n])
  BY <1>1, <1>2, <1>3
<1>5. a[0] = Start /\ b[0] = Start
  BY TraceOf
<1>6. h[0] \in J[0]
  <2>1. Alongside(Start, Start)
    BY DEF Alongside, Start
  <2> QED
    BY <1>4, <1>5, <2>1
<1>7. ASSUME NEW n \in 1..c, h[n - 1] \in J[n - 1] PROVE h[n] \in J[n]
  <2>1. n - 1 \in 0..c /\ n \in 0..c
    OBVIOUS
  <2>2. PICK s \in Packing(E), t \in Packing(E) : s = a[n - 1] /\ t = b[n - 1]
    BY <1>3, <2>1
  <2>3. Alongside(s, t)
    BY <1>4, <1>7, <2>1, <2>2
  <2>4. PICK d \in E, e \in E : d = q[n] /\ e = p[n]
    BY DEF SortedBy
  <2>5. d.type = e.type /\ d.id = e.id
    BY <2>4 DEF ListsAlike
  <2>6. PICK r, u : r = a[n] /\ u = b[n]
    OBVIOUS
  <2>7. r = CompileStep(s, d, budget) /\ u = CompileStep(t, e, budget)
    <3>1. a[n] = CompileStep(a[n - 1], q[n], budget)
      BY DEF CompileTrace
    <3>2. b[n] = CompileStep(b[n - 1], p[n], budget)
      BY DEF CompileTrace
    <3> QED
      BY <2>2, <2>4, <2>6, <3>1, <3>2
  <2>8. \A k \in 0..c : a[k].error # "none" => a[c] = a[k]
    <3> SUFFICES ASSUME NEW k \in 0..c, a[k].error # "none" PROVE a[c] = a[k]
      OBVIOUS
    <3>1. c \in k..c
      OBVIOUS
    <3> QED
      BY <3>1, EndsStay
  <2>9. s.error = "none" /\ r.error = "none"
    BY <2>1, <2>2, <2>6, <2>8
  <2>10. ASSUME ~ BoundToHome(e) PROVE r.stopped
    <3>1. PICK m \in 1..c : p[n] = q[m]
      BY DEF ListsAlike
    <3>2. q[m].type = q[n].type /\ q[m].id = q[n].id /\ ~ BoundToHome(q[m])
      BY <2>4, <2>10, <3>1 DEF ListsAlike
    <3>3. ~ a[n].stopped => BoundToHome(q[m])
      BY <3>2, OpenIsBound
    <3> QED
      BY <2>6, <3>2, <3>3
  <2>11. Alongside(r, u)
    BY <2>3, <2>5, <2>7, <2>9, <2>10, StepAlongside
  <2> QED
    BY <1>4, <2>1, <2>6, <2>11
<1>8. \A n \in 0..c : h[n] \in J[n]
  BY <1>6, <1>7, LoopKeeps
<1>9. c \in 0..c
  OBVIOUS
<1> QED
  BY <1>4, <1>8, <1>9

LEMMA CompiledIsOrderFree == ASSUME SourcesInv PROVE PacketIsOrderFree
<1> SUFFICES ASSUME SourcesAgree(sources), NEW budget \in PacketBudget, budget.capped = Home, CompileContext(sources, budget).error = "none"
             PROVE  FactsOf(CompileContext(Reverse(sources), budget)) = FactsOf(CompileContext(sources, budget))
  BY DEF PacketIsOrderFree
<1>1. PICK list \in Seq(SourceItem) : list = sources
  BY DEF SourcesInv
<1>2. PICK c \in Nat : c = Len(list)
  OBVIOUS
<1>3. PICK turned : turned = Reverse(list)
  OBVIOUS
<1>4. turned \in Seq(SourceItem) /\ Len(turned) = c /\ \A m \in 1..c : turned[m] = list[(c - m) + 1]
  BY <1>2, <1>3 DEF Reverse
<1>5. \A m \in 1..c : (c - m) + 1 \in 1..c /\ (c - ((c - m) + 1)) + 1 = m
  OBVIOUS
<1>6. PICK E : E = {list[m] : m \in 1..c}
  OBVIOUS
<1>7. E = {turned[m] : m \in 1..c} /\ E \in SUBSET SourceItem
  <2>1. \A m \in 1..c : turned[m] \in E
    BY <1>4, <1>5, <1>6
  <2>2. \A m \in 1..c : list[m] = turned[(c - m) + 1]
    BY <1>4, <1>5
  <2>3. \A m \in 1..c : list[m] \in SourceItem
    BY <1>2
  <2>4. \A x \in E : \E m \in 1..c : x = turned[m]
    <3> SUFFICES ASSUME NEW x \in E PROVE \E m \in 1..c : x = turned[m]
      OBVIOUS
    <3>1. PICK k \in 1..c : x = list[k]
      BY <1>6
    <3>2. (c - k) + 1 \in 1..c /\ x = turned[(c - k) + 1]
      BY <1>5, <2>2, <3>1
    <3> QED
      BY <3>2
  <2>5. E = {turned[m] : m \in 1..c}
    BY <2>1, <2>4
  <2>6. E \in SUBSET SourceItem
    BY <1>6, <2>3
  <2> QED
    BY <2>5, <2>6
<1>8. AgreeOn(E)
  BY <1>1, <1>2, <1>6 DEF AgreeOn, SourcesAgree
<1>9. PICK q, p : q = InOrderOf(list) /\ p = InOrderOf(turned)
  OBVIOUS
<1>10. q \in [1..c -> E] /\ p \in [1..c -> E] /\ \A m \in 1..c : \E n \in 1..c : q[n] = list[m]
  <2>1. q \in [1..c -> {list[m] : m \in 1..c}] /\ \A m \in 1..c : \E n \in 1..c : q[n] = list[m]
    BY <1>2, <1>9, SortedIsAll
  <2>2. p \in [1..c -> {turned[m] : m \in 1..c}]
    BY <1>4, <1>9, SortedIsAll
  <2> QED
    BY <1>6, <1>7, <2>1, <2>2
<1>11. budget.bytes \in Nat
  BY ContextAssumption DEF PacketBudget
<1>12. PICK a : CompileTrace(a, E, q, budget, c) /\ CompileContext(list, budget) = a[c]
  <2>1. CompilesBy(list, E, q, budget, c)
    BY <1>2, <1>6, <1>9, <1>11, CompileRuns
  <2> QED
    BY <2>1 DEF CompilesBy
<1>13. PICK b : CompileTrace(b, E, p, budget, c) /\ CompileContext(turned, budget) = b[c]
  <2>1. CompilesBy(turned, E, p, budget, c)
    BY <1>4, <1>7, <1>9, <1>11, CompileRuns
  <2> QED
    BY <2>1 DEF CompilesBy
<1>14. SortedBy(E, q, c)
  <2>1. \A i, j \in 1..c : i <= j => ~ Earlier(q[j], q[i])
    BY <1>2, <1>9, SortedInTurn
  <2> QED
    BY <1>10, <2>1 DEF SortedBy
<1>15. \A n \in 1..c : p[n].type = q[n].type /\ p[n].id = q[n].id
  BY <1>2, <1>3, <1>9, SortedAlike
<1>16. \A n \in 1..c : \E m \in 1..c : p[n] = q[m]
  <2> SUFFICES ASSUME NEW n \in 1..c PROVE \E m \in 1..c : p[n] = q[m]
    OBVIOUS
  <2>1. p[n] \in E
    BY <1>10
  <2>2. PICK k \in 1..c : p[n] = list[k]
    BY <1>6, <2>1
  <2>3. PICK m \in 1..c : q[m] = list[k]
    BY <1>10
  <2> QED
    BY <2>2, <2>3
<1>17. a[c].error = "none"
  BY <1>1, <1>12
<1>18. Alongside(a[c], b[c])
  <2>1. ListsAlike(p, q, c)
    BY <1>15, <1>16 DEF ListsAlike
  <2>2. E \in SUBSET SourceItem /\ p \in [1..c -> E] /\ budget.capped = Home
    BY <1>7, <1>10
  <2>3. CompileTrace(a, E, q, budget, c) /\ CompileTrace(b, E, p, budget, c)
    BY <1>12, <1>13
  <2> QED
    BY ONLY <1>2, <1>8, <1>14, <1>17, <2>1, <2>2, <2>3, TracesAlongside, Zenon
<1>19. FactsOf(a[c]) = FactsOf(b[c])
  BY <1>18 DEF Alongside, PairsOf, FactsOf
<1> QED
  BY <1>1, <1>3, <1>12, <1>13, <1>19

(* A packet of the universal compiler is complete, and when its sources agree on the fact
   behind every handle, and on the size of the items that sort alike, the facts in it do not
   depend on the order in which they were listed: for every list of envelopes, size of the
   items, trust floor and number of bytes (the sort and the loop of compile_context,
   universal_context.py). *)
THEOREM PacketsSound == ContextSpec => []PacketIsSound
<1>1. SourcesInv => PacketIsSound
  BY CompiledIsComplete, CompiledIsOrderFree DEF PacketIsSound
<1> QED
  BY <1>1, SourcesAreEnvelopes, PTL
===============================================================================
