----------------------------- MODULE CacheProofs -----------------------------
(***************************************************************************)
(* Proofs about what concurrent callers share: flights of one request, a   *)
(* child behind a pipe, values of one computation, results of validations, *)
(* decisions of policy engines, the pages of the slots, and the choice of  *)
(* a representation, for every set of keys, threads, coroutines, engines   *)
(* and candidates, and every limit.                                        *)
(***************************************************************************)
EXTENDS SharedFlights, PageCache, RustSession, ValidationCache, PolicyEngine, Pareto,
        FiniteSetTheorems, WellFoundedInduction, TLAPS

----------------------------------------------------------------------------
(* Flights that are shared *)

Waiting(k) == {t \in Runner : WaitingFor(t, k)}
InTable == {k \in FlightKey : flightOf[k] # NoRun}

FlightTypes ==
    /\ flightOf \in [FlightKey -> Runner \cup {NoRun}]
    /\ waitersOf \in [FlightKey -> Int]
    /\ runs \in [Runner -> Run \cup {NoRun}]

(* A flight in the table has an owner that is still running it. *)
FlightsHaveOwners ==
    \A k \in FlightKey : flightOf[k] # NoRun =>
        LET o == flightOf[k] IN runs[o] # NoRun /\ runs[o].key = k /\ runs[o].owner = o

FlightInv == FlightTypes /\ FlightsHaveOwners /\ FlightsAreShared

LEMMA FlightInvParts ==
    FlightInv <=>
        /\ FlightTypes /\ FlightsHaveOwners
        /\ \A t \in Runner : runs[t] # NoRun /\ runs[t].owner = t => flightOf[runs[t].key] = t
        /\ \A k \in FlightKey :
              /\ \A t \in Waiting(k) : flightOf[k] = runs[t].owner
              /\ flightOf[k] # NoRun => waitersOf[k] = Cardinality(Waiting(k)) /\ waitersOf[k] <= MaxWaiters
        /\ Cardinality(InTable) <= MaxFlights
BY DEF FlightInv, FlightsAreShared, Waiting, InTable

LEMMA WaitingIsFinite ==
    /\ \A k : IsFiniteSet(Waiting(k)) /\ IsFiniteSet(Waiting(k)')
    /\ IsFiniteSet(InTable) /\ IsFiniteSet(InTable')
BY FlightAssumption, FS_Subset DEF Waiting, InTable

LEMMA RunAsOwnerKeeps ==
    ASSUME FlightInv, NEW t \in Runner, NEW k \in FlightKey, RunAsOwner(t, k)
    PROVE  FlightInv'
<1> DEFINE x == Own(t, k)
<1>1. /\ runs[t] = NoRun /\ flightOf[k] = NoRun /\ Cardinality(InTable) < MaxFlights
      /\ flightOf' = [flightOf EXCEPT ![k] = t] /\ waitersOf' = [waitersOf EXCEPT ![k] = 0]
      /\ runs' = [runs EXCEPT ![t] = x]
  BY DEF RunAsOwner, InTable
<1>2. x \in Run /\ x.key = k /\ x.owner = t
  BY DEF Own, Run
<1> HIDE DEF x
<1>3. x # NoRun /\ t # NoRun
  BY <1>2, FlightAssumption
<1>4. FlightTypes'
  BY <1>1, <1>2 DEF FlightInv, FlightTypes
<1>5. /\ runs'[t] = x /\ \A u \in Runner : u # t => runs'[u] = runs[u]
      /\ flightOf'[k] = t /\ \A j \in FlightKey : j # k => flightOf'[j] = flightOf[j]
      /\ waitersOf'[k] = 0 /\ \A j \in FlightKey : j # k => waitersOf'[j] = waitersOf[j]
  BY <1>1 DEF FlightInv, FlightTypes
<1>6. \A j \in FlightKey : Waiting(j)' = Waiting(j)
  BY <1>1, <1>2, <1>5 DEF Waiting, WaitingFor
<1>7. Waiting(k) = {}
  <2>1. \A u \in Waiting(k) : flightOf[k] = runs[u].owner /\ runs[u].owner \in Runner
    BY FlightInvParts DEF FlightInv, FlightTypes, Waiting, WaitingFor, Run
  <2> QED
    BY <1>1, <2>1, FlightAssumption
<1>8. Cardinality(InTable') <= MaxFlights
  <2>1. InTable' = InTable \cup {k} /\ k \notin InTable
    BY <1>1, <1>3, <1>5 DEF InTable
  <2>2. Cardinality(InTable') = Cardinality(InTable) + 1 /\ Cardinality(InTable) \in Nat
    BY <2>1, WaitingIsFinite, FS_AddElement, FS_CardinalityType
  <2> QED
    BY <1>1, <2>2, FlightAssumption
<1>9. FlightsHaveOwners'
  BY <1>1, <1>2, <1>3, <1>5 DEF FlightInv, FlightTypes, FlightsHaveOwners
<1>10. \A u \in Runner : runs'[u] # NoRun /\ runs'[u].owner = u => flightOf'[runs'[u].key] = u
  <2>1. \A u \in Runner : runs[u] # NoRun => runs[u].key \in FlightKey
    BY DEF FlightInv, FlightTypes, Run
  <2>2. \A u \in Runner : runs[u] # NoRun /\ runs[u].owner = u => flightOf[runs[u].key] = u
    BY FlightInvParts
  <2> QED
    BY <1>1, <1>2, <1>5, <2>1, <2>2, FlightAssumption
<1>11. \A j \in FlightKey : \A u \in Waiting(j) : flightOf'[j] = runs'[u].owner
  <2>1. \A j \in FlightKey : \A u \in Waiting(j) : u # t /\ j # k /\ u \in Runner /\ flightOf[j] = runs[u].owner
    BY <1>1, <1>7, FlightInvParts DEF Waiting, WaitingFor
  <2> QED
    BY <1>5, <2>1
<1>12. Cardinality(Waiting(k)) = 0 /\ 0 <= MaxWaiters
  BY <1>7, FS_EmptySet, FlightAssumption
<1>13. \A j \in FlightKey : flightOf'[j] # NoRun =>
          waitersOf'[j] = Cardinality(Waiting(j)) /\ waitersOf'[j] <= MaxWaiters
  BY <1>5, <1>12, FlightInvParts
<1> QED
  <2> USE <1>4, <1>6, <1>8, <1>9, <1>10, <1>11, <1>13
  <2> QED
    BY DEF FlightInv, FlightsAreShared, Waiting, InTable

LEMMA RunAsWaiterKeeps ==
    ASSUME FlightInv, NEW t \in Runner, NEW k \in FlightKey, RunAsWaiter(t, k)
    PROVE  FlightInv'
<1> DEFINE x == Own(flightOf[k], k)
<1>1. /\ runs[t] = NoRun /\ flightOf[k] # NoRun /\ waitersOf[k] < MaxWaiters
      /\ waitersOf' = [waitersOf EXCEPT ![k] = @ + 1]
      /\ runs' = [runs EXCEPT ![t] = x] /\ flightOf' = flightOf
  BY DEF RunAsWaiter
<1>2. PICK o \in Runner : o = flightOf[k]
  BY <1>1 DEF FlightInv, FlightTypes
<1>3. o # t
  BY <1>1, <1>2 DEF FlightInv, FlightsHaveOwners
<1>4. x \in Run /\ x.key = k /\ x.owner = o /\ x.outcome = "pending"
  BY <1>2 DEF Own, Run
<1> HIDE DEF x
<1>5. x # NoRun
  BY <1>4, FlightAssumption
<1>6. FlightTypes'
  BY <1>1, <1>4 DEF FlightInv, FlightTypes
<1>7. /\ runs'[t] = x /\ \A u \in Runner : u # t => runs'[u] = runs[u]
      /\ waitersOf'[k] = waitersOf[k] + 1 /\ \A j \in FlightKey : j # k => waitersOf'[j] = waitersOf[j]
  BY <1>1 DEF FlightInv, FlightTypes
<1>8. /\ Waiting(k)' = Waiting(k) \cup {t} /\ t \notin Waiting(k)
      /\ \A j \in FlightKey : j # k => Waiting(j)' = Waiting(j)
  BY <1>1, <1>3, <1>4, <1>5, <1>7 DEF Waiting, WaitingFor
<1>9. Cardinality(Waiting(k)') = Cardinality(Waiting(k)) + 1 /\ Cardinality(Waiting(k)) \in Nat
  BY <1>8, WaitingIsFinite, FS_AddElement, FS_CardinalityType
<1>10. FlightsHaveOwners'
  BY <1>1, <1>7 DEF FlightInv, FlightsHaveOwners, FlightTypes
<1>11. \A u \in Runner : runs'[u] # NoRun /\ runs'[u].owner = u => flightOf[runs'[u].key] = u
  BY <1>3, <1>4, <1>7, FlightInvParts
<1>12. \A j \in FlightKey : \A u \in Waiting(j)' : flightOf[j] = runs'[u].owner
  <2>1. \A j \in FlightKey : \A u \in Waiting(j) : u # t /\ u \in Runner /\ flightOf[j] = runs[u].owner
    BY <1>1, FlightInvParts DEF Waiting, WaitingFor
  <2> QED
    BY <1>2, <1>4, <1>7, <1>8, <2>1
<1>13. \A j \in FlightKey : flightOf[j] # NoRun =>
          waitersOf'[j] = Cardinality(Waiting(j)') /\ waitersOf'[j] <= MaxWaiters
  <2>1. waitersOf[k] + 1 <= MaxWaiters
    BY <1>1, FlightAssumption DEF FlightInv, FlightTypes
  <2> QED
    BY <1>1, <1>7, <1>8, <1>9, <2>1, FlightInvParts
<1>14. Cardinality(InTable') <= MaxFlights
  BY <1>1, FlightInvParts DEF InTable
<1> QED
  BY <1>1, <1>6, <1>10, <1>11, <1>12, <1>13, <1>14 DEF FlightInv, FlightsAreShared, Waiting, InTable

(* What a thread that only changes its own call, and does not wait, leaves as it was. *)
LEMMA OwnCallKeeps ==
    ASSUME FlightInv, NEW t \in Runner, NEW x \in Run \cup {NoRun}, runs[t] # NoRun,
           runs' = [runs EXCEPT ![t] = x], UNCHANGED <<flightOf, waitersOf>>,
           x # NoRun => x.key = runs[t].key /\ x.owner = runs[t].owner,
           runs[t].owner = t => x # NoRun,
           \A k \in FlightKey : ~WaitingFor(t, k) /\ ~(x # NoRun /\ x.owner # t /\ x.outcome = "pending")
    PROVE  FlightInv'
<1>1. /\ runs'[t] = x /\ \A u \in Runner : u # t => runs'[u] = runs[u]
      /\ FlightTypes'
  BY DEF FlightInv, FlightTypes
<1>2. \A k \in FlightKey : Waiting(k)' = Waiting(k)
  BY <1>1 DEF Waiting, WaitingFor
<1>3. FlightsHaveOwners'
  BY <1>1 DEF FlightInv, FlightsHaveOwners
<1>4. \A u \in Runner : runs'[u] # NoRun /\ runs'[u].owner = u => flightOf[runs'[u].key] = u
  BY <1>1, FlightInvParts
<1>5. \A k \in FlightKey : \A u \in Waiting(k) : flightOf[k] = runs'[u].owner
  <2>1. \A k \in FlightKey : \A u \in Waiting(k) : u # t /\ u \in Runner /\ flightOf[k] = runs[u].owner
    BY FlightInvParts DEF Waiting
  <2> QED
    BY <1>1, <2>1
<1>6. Cardinality(InTable') <= MaxFlights
  BY FlightInvParts DEF InTable
<1>7. \A k \in FlightKey : flightOf[k] # NoRun => waitersOf[k] = Cardinality(Waiting(k)) /\ waitersOf[k] <= MaxWaiters
  BY FlightInvParts
<1> QED
  <2> USE <1>1, <1>2, <1>3, <1>4, <1>5, <1>6, <1>7
  <2> QED
    BY DEF FlightInv, FlightsAreShared, Waiting, InTable

LEMMA OperationEndsKeeps ==
    ASSUME FlightInv, NEW t \in Runner, NEW outcome \in {"result", "error"}, OperationEnds(t, outcome)
    PROVE  FlightInv'
<1> DEFINE x == [runs[t] EXCEPT !.outcome = outcome]
<1>1. /\ runs[t] # NoRun /\ runs[t].owner = t /\ runs' = [runs EXCEPT ![t] = x]
      /\ UNCHANGED <<flightOf, waitersOf>>
  BY DEF OperationEnds
<1>2. x \in Run /\ x.key = runs[t].key /\ x.owner = runs[t].owner /\ x.outcome # "pending"
  BY <1>1 DEF FlightInv, FlightTypes, Run
<1>3. x # NoRun
  BY <1>2, FlightAssumption
<1>4. \A k \in FlightKey : ~WaitingFor(t, k)
  BY <1>1 DEF WaitingFor
<1> HIDE DEF x
<1> QED
  BY <1>1, <1>2, <1>3, <1>4, OwnCallKeeps

LEMMA WaiterReturnsKeeps == ASSUME FlightInv, NEW t \in Runner, WaiterReturns(t) PROVE FlightInv'
<1>1. /\ runs[t] # NoRun /\ runs[t].owner # t /\ runs' = [runs EXCEPT ![t] = NoRun]
      /\ UNCHANGED <<flightOf, waitersOf>>
  BY DEF WaiterReturns
<1>2. \A k \in FlightKey : ~WaitingFor(t, k)
  BY DEF WaitingFor, WaiterReturns
<1> QED
  BY <1>1, <1>2, OwnCallKeeps

LEMMA GivesUpKeeps ==
    ASSUME FlightInv, NEW t \in Runner, NEW k \in FlightKey, GivesUp(t, k)
    PROVE  FlightInv'
<1>1. /\ WaitingFor(t, k) /\ runs' = [runs EXCEPT ![t] = NoRun]
      /\ waitersOf' = [waitersOf EXCEPT ![k] = @ - 1] /\ flightOf' = flightOf
  BY DEF GivesUp
<1>2. /\ FlightTypes' /\ runs'[t] = NoRun /\ \A u \in Runner : u # t => runs'[u] = runs[u]
      /\ waitersOf'[k] = waitersOf[k] - 1 /\ \A j \in FlightKey : j # k => waitersOf'[j] = waitersOf[j]
  BY <1>1 DEF FlightInv, FlightTypes
<1>3. /\ Waiting(k)' = Waiting(k) \ {t} /\ t \in Waiting(k)
      /\ \A j \in FlightKey : j # k => Waiting(j)' = Waiting(j)
  BY <1>1, <1>2 DEF Waiting, WaitingFor
<1>4. Cardinality(Waiting(k)') = Cardinality(Waiting(k)) - 1 /\ Cardinality(Waiting(k)) \in Nat
  BY <1>3, WaitingIsFinite, FS_RemoveElement, FS_CardinalityType
<1>5. FlightsHaveOwners'
  BY <1>1, <1>2 DEF FlightInv, FlightsHaveOwners, WaitingFor, FlightTypes
<1>6. \A u \in Runner : runs'[u] # NoRun /\ runs'[u].owner = u => flightOf[runs'[u].key] = u
  BY <1>2, FlightInvParts
<1>7. \A j \in FlightKey : \A u \in Waiting(j)' : flightOf[j] = runs'[u].owner
  <2>1. \A j \in FlightKey : \A u \in Waiting(j)' : u # t /\ u \in Waiting(j) /\ u \in Runner
    BY <1>2, <1>3 DEF Waiting, WaitingFor
  <2> QED
    BY <1>2, <2>1, FlightInvParts
<1>8. \A j \in FlightKey : flightOf[j] # NoRun =>
          waitersOf'[j] = Cardinality(Waiting(j)') /\ waitersOf'[j] <= MaxWaiters
  <2>1. flightOf[k] # NoRun => waitersOf[k] = Cardinality(Waiting(k)) /\ waitersOf[k] <= MaxWaiters
    BY FlightInvParts
  <2>2. flightOf[k] # NoRun =>
          waitersOf'[k] = Cardinality(Waiting(k)') /\ waitersOf'[k] <= MaxWaiters
    BY <1>2, <1>4, <2>1, FlightAssumption
  <2> QED
    BY <1>2, <1>3, <2>2, FlightInvParts
<1>9. Cardinality(InTable') <= MaxFlights
  BY <1>1, FlightInvParts DEF InTable
<1> QED
  BY <1>1, <1>2, <1>5, <1>6, <1>7, <1>8, <1>9 DEF FlightInv, FlightsAreShared, Waiting, InTable

(* The flight leaves the table, and everybody who waits for it is woken by it. *)
LEMMA LandsKeeps == ASSUME FlightInv, NEW t \in Runner, Lands(t) PROVE FlightInv'
<1>1. runs[t] # NoRun /\ runs[t].owner = t /\ runs[t] \in Run
  BY DEF Lands, FlightInv, FlightTypes
<1>2. PICK k \in FlightKey, outcome \in {"result", "error"} : k = runs[t].key /\ outcome = runs[t].outcome
  BY <1>1 DEF Lands, Run
<1>3. flightOf[k] = t
  BY <1>1, <1>2, FlightInvParts
<1>4. /\ flightOf' = [flightOf EXCEPT ![k] = NoRun] /\ waitersOf' = waitersOf
      /\ runs' = [u \in Runner |-> IF u = t THEN NoRun
                                   ELSE IF WaitingFor(u, k) /\ runs[u].owner = t
                                        THEN [runs[u] EXCEPT !.outcome = outcome] ELSE runs[u]]
  BY <1>2 DEF Lands
<1>5. \A u \in Waiting(k) : runs[u].owner = t /\ u # t
  BY <1>3, FlightInvParts DEF Waiting, WaitingFor
<1>6. \A u \in Waiting(k) : /\ runs'[u] \in Run /\ runs'[u] # NoRun /\ runs'[u].key = k
                            /\ runs'[u].owner = t /\ runs'[u].outcome # "pending"
  <2> SUFFICES ASSUME NEW u \in Waiting(k)
               PROVE  /\ runs'[u] \in Run /\ runs'[u] # NoRun /\ runs'[u].key = k
                      /\ runs'[u].owner = t /\ runs'[u].outcome # "pending"
    OBVIOUS
  <2>1. u \in Runner /\ WaitingFor(u, k) /\ runs[u] \in Run /\ runs[u].key = k /\ u # t /\ runs[u].owner = t
    BY <1>5 DEF Waiting, WaitingFor, FlightInv, FlightTypes
  <2>2. runs'[u] = [runs[u] EXCEPT !.outcome = outcome]
    BY <1>4, <2>1
  <2> QED
    BY <2>1, <2>2, FlightAssumption DEF Run
<1>7. \A u \in Runner : u # t /\ u \notin Waiting(k) => runs'[u] = runs[u]
  BY <1>4 DEF Waiting
<1>8. runs'[t] = NoRun
  BY <1>4
<1>9. FlightTypes'
  <2>1. \A u \in Runner : runs'[u] \in Run \cup {NoRun}
    BY <1>6, <1>7, <1>8 DEF FlightInv, FlightTypes
  <2> QED
    BY <1>4, <2>1 DEF FlightInv, FlightTypes
<1>10. flightOf'[k] = NoRun /\ \A j \in FlightKey : j # k => flightOf'[j] = flightOf[j]
  BY <1>4 DEF FlightInv, FlightTypes
<1>11. Waiting(k)' = {} /\ \A j \in FlightKey : j # k => Waiting(j)' = Waiting(j)
  <2>1. \A u \in Waiting(k) : \A j \in FlightKey : u \notin Waiting(j)' /\ (j # k => u \notin Waiting(j))
    BY <1>6 DEF Waiting, WaitingFor
  <2>2. \A u \in Runner : u \notin Waiting(k) => u \notin Waiting(k)'
    BY <1>7, <1>8 DEF Waiting, WaitingFor
  <2>3. \A u \in Runner : \A j \in FlightKey : j # k /\ u \notin Waiting(k) => (u \in Waiting(j)' <=> u \in Waiting(j))
    BY <1>1, <1>7, <1>8 DEF Waiting, WaitingFor
  <2>4. \A j : Waiting(j) \subseteq Runner /\ Waiting(j)' \subseteq Runner
    BY DEF Waiting
  <2>5. Waiting(k)' = {}
    BY <2>1, <2>2, <2>4
  <2>6. ASSUME NEW j \in FlightKey, j # k PROVE Waiting(j)' = Waiting(j)
    BY <2>1, <2>3, <2>4, <2>6
  <2> QED
    BY <2>5, <2>6
<1>12. FlightsHaveOwners'
  <2> SUFFICES ASSUME NEW j \in FlightKey, flightOf'[j] # NoRun
               PROVE  runs'[flightOf'[j]] # NoRun /\ runs'[flightOf'[j]].key = j
                      /\ runs'[flightOf'[j]].owner = flightOf'[j]
    BY DEF FlightsHaveOwners
  <2>1. j # k /\ flightOf'[j] = flightOf[j]
    BY <1>10
  <2>2. PICK o \in Runner : o = flightOf[j] /\ runs[o] # NoRun /\ runs[o].key = j /\ runs[o].owner = o
    BY <2>1 DEF FlightInv, FlightTypes, FlightsHaveOwners
  <2>3. o # t /\ o \notin Waiting(k)
    BY <1>2, <2>1, <2>2 DEF Waiting, WaitingFor
  <2> QED
    BY <1>7, <2>1, <2>2, <2>3
<1>13. \A u \in Runner : runs'[u] # NoRun /\ runs'[u].owner = u => flightOf'[runs'[u].key] = u
  <2> SUFFICES ASSUME NEW u \in Runner, runs'[u] # NoRun, runs'[u].owner = u PROVE flightOf'[runs'[u].key] = u
    OBVIOUS
  <2>1. u # t /\ u \notin Waiting(k)
    BY <1>5, <1>6, <1>8
  <2>2. runs'[u] = runs[u] /\ flightOf[runs[u].key] = u /\ runs[u].key \in FlightKey
    BY <1>7, <2>1, FlightInvParts DEF FlightInv, FlightTypes, Run
  <2> QED
    BY <1>3, <1>10, <2>1, <2>2
<1>14. \A j \in FlightKey : \A u \in Waiting(j)' : flightOf'[j] = runs'[u].owner
  <2> SUFFICES ASSUME NEW j \in FlightKey, NEW u \in Waiting(j)' PROVE flightOf'[j] = runs'[u].owner
    OBVIOUS
  <2>1. j # k /\ u \in Waiting(j) /\ u \in Runner
    BY <1>11 DEF Waiting
  <2>2. u # t /\ u \notin Waiting(k)
    BY <1>1, <1>2, <2>1 DEF Waiting, WaitingFor
  <2> QED
    BY <1>7, <1>10, <2>1, <2>2, FlightInvParts
<1>15. \A j \in FlightKey : flightOf'[j] # NoRun =>
          waitersOf'[j] = Cardinality(Waiting(j)') /\ waitersOf'[j] <= MaxWaiters
  BY <1>4, <1>10, <1>11, FlightInvParts
<1>16. Cardinality(InTable') <= MaxFlights
  <2>1. InTable' = InTable \ {k} /\ k \in InTable
    BY <1>3, <1>10, FlightAssumption DEF InTable
  <2>2. Cardinality(InTable') = Cardinality(InTable) - 1 /\ Cardinality(InTable) \in Nat
    BY <2>1, WaitingIsFinite, FS_RemoveElement, FS_CardinalityType
  <2> QED
    BY <2>2, FlightInvParts, FlightAssumption
<1> QED
  <2> USE <1>9, <1>12, <1>13, <1>14, <1>15, <1>16
  <2> QED
    BY DEF FlightInv, FlightsAreShared, Waiting, InTable

(* One thread does the work of a request at a time, waiters wait for a flight that is in
   the table and counts them, and neither limit is exceeded, also when owners fail and
   waiters give up (SingleFlightCoordinator.run of pager.py). *)
THEOREM FlightsShared == FlightSpec => []FlightsAreShared
<1>1. FlightInit => FlightInv
  <2> SUFFICES ASSUME FlightInit PROVE FlightInv
    OBVIOUS
  <2>1. \A k : Waiting(k) = {}
    BY DEF FlightInit, Waiting, WaitingFor
  <2>2. InTable = {} /\ Cardinality(InTable) = 0
    BY FS_EmptySet DEF FlightInit, InTable
  <2> QED
    BY <2>1, <2>2, FlightAssumption DEF FlightInit, FlightInv, FlightTypes, FlightsHaveOwners, FlightsAreShared,
       Waiting, InTable
<1>2. FlightInv /\ [FlightNext]_flightVars => FlightInv'
  <2> SUFFICES ASSUME FlightInv, [FlightNext]_flightVars PROVE FlightInv'
    OBVIOUS
  <2>1. ASSUME NEW t \in Runner, NEW k \in FlightKey, RunAsOwner(t, k) \/ RunAsWaiter(t, k) \/ GivesUp(t, k)
        PROVE  FlightInv'
    BY <2>1, RunAsOwnerKeeps, RunAsWaiterKeeps, GivesUpKeeps
  <2>2. ASSUME NEW t \in Runner, (\E outcome \in {"result", "error"} : OperationEnds(t, outcome))
                                 \/ Lands(t) \/ WaiterReturns(t)
        PROVE  FlightInv'
    BY <2>2, OperationEndsKeeps, LandsKeeps, WaiterReturnsKeeps
  <2>3. CASE UNCHANGED flightVars
    BY <2>3 DEF flightVars, FlightInv, FlightTypes, FlightsHaveOwners, FlightsAreShared, WaitingFor
  <2> QED
    BY <2>1, <2>2, <2>3 DEF FlightNext
<1>3. FlightInv => FlightsAreShared
  BY DEF FlightInv
<1> QED
  BY <1>1, <1>2, <1>3, PTL DEF FlightSpec

----------------------------------------------------------------------------
(* The child behind the pipe *)

HasLock(t) == askers[t] # NoAsk /\ askers[t].step \in LockedSteps
Quiet == frames = <<>> \/ ~Alive

SessionTypes ==
    /\ askers \in [Asker -> AskerCall \cup {NoAsk}]
    /\ starts \in Nat /\ children \subseteq {starts}
    /\ frames \in Seq(Asker)

OneHoldsTheLock == \A t, u \in Asker : HasLock(t) /\ HasLock(u) => t = u

(* What the holder of the lock may find in the pipe, by how far it has come. *)
PipeIsItsOwn(t) ==
    /\ AskerAt(t, "write") \/ AskerAt(t, "crashed") => Quiet
    /\ AskerAt(t, "read") => frames = <<t>>
    /\ AskerAt(t, "spawn") => ~Alive
    /\ AskerAt(t, "greet") => frames = <<>>
    /\ AskerAt(t, "done") => askers[t].answer = t

SessionInv ==
    /\ SessionTypes
    /\ OneHoldsTheLock
    /\ \A t \in Asker : PipeIsItsOwn(t)
    /\ ~Locked => Quiet

LEMMA SessionIsSafe == SessionInv => AnswersItsOwn
BY DEF SessionInv, SessionTypes, PipeIsItsOwn, AnswersItsOwn, Quiet

LEMMA LockedIsHeld == Locked <=> \E t \in Asker : HasLock(t)
BY DEF Locked, HasLock

(* A step of the holder of the lock, or of a thread that takes it while nobody has it. *)
LEMMA HolderMoves ==
    ASSUME SessionInv, NEW t \in Asker, HasLock(t) \/ ~Locked,
           NEW x \in AskerCall \cup {NoAsk}, askers' = [askers EXCEPT ![t] = x],
           starts' \in Nat, children' \subseteq {starts'}, frames' \in Seq(Asker),
           PipeIsItsOwn(t)', x = NoAsk \/ x.step \notin LockedSteps => Quiet'
    PROVE  SessionInv'
<1>1. /\ askers' \in [Asker -> AskerCall \cup {NoAsk}] /\ askers'[t] = x
      /\ \A u \in Asker : u # t => askers'[u] = askers[u]
  BY DEF SessionInv, SessionTypes
<1>2. \A u \in Asker : u # t => ~HasLock(u) /\ ~HasLock(u)'
  <2>1. \A u \in Asker : u # t => ~HasLock(u)
    BY LockedIsHeld DEF SessionInv, OneHoldsTheLock
  <2> QED
    BY <1>1, <2>1 DEF HasLock
<1>3. \A u \in Asker : u # t => PipeIsItsOwn(u)'
  BY <1>1, <1>2 DEF SessionInv, PipeIsItsOwn, AskerAt, HasLock, LockedSteps
<1>4. ~Locked' => Quiet'
  BY <1>1 DEF Locked
<1> QED
  BY <1>1, <1>2, <1>3, <1>4 DEF SessionInv, SessionTypes, OneHoldsTheLock

(* A step beside the holder of the lock: the pipe keeps its frames, a child may be gone. *)
LEMMA OthersMove ==
    ASSUME SessionInv, UNCHANGED <<starts, frames>>, children' \subseteq children,
           NEW t \in Asker, ~HasLock(t), NEW x \in AskerCall \cup {NoAsk},
           askers' = [askers EXCEPT ![t] = x], x # NoAsk => x.step = "call"
    PROVE  SessionInv'
<1>1. /\ askers' \in [Asker -> AskerCall \cup {NoAsk}] /\ askers'[t] = x
      /\ \A u \in Asker : u # t => askers'[u] = askers[u]
  BY DEF SessionInv, SessionTypes
<1>2. \A u \in Asker : HasLock(u)' <=> HasLock(u)
  BY <1>1 DEF HasLock, LockedSteps
<1>3. Locked' <=> Locked
  BY <1>2 DEF Locked, HasLock
<1>4. ~Alive => ~Alive'
  BY DEF Alive
<1>5. \A u \in Asker : PipeIsItsOwn(u)'
  BY <1>1, <1>4 DEF SessionInv, PipeIsItsOwn, AskerAt, Quiet
<1> QED
  BY <1>1, <1>2, <1>3, <1>4, <1>5 DEF SessionInv, SessionTypes, OneHoldsTheLock, Quiet

LEMMA ChildGoes ==
    ASSUME SessionInv, UNCHANGED <<starts, frames, askers>>, children' \subseteq children
    PROVE  SessionInv'
<1>1. ~Alive => ~Alive'
  BY DEF Alive
<1>2. Locked' <=> Locked
  BY DEF Locked
<1> QED
  BY <1>1, <1>2 DEF SessionInv, SessionTypes, OneHoldsTheLock, HasLock, PipeIsItsOwn, AskerAt, Quiet

(* A move of a call to a step, as an exchange of its record. *)
LEMMA MoveIsExchange ==
    ASSUME SessionInv, NEW t \in Asker, NEW from, AskerAt(t, from), NEW step \in LockedSteps, MoveTo(t, step)
    PROVE  \E x \in AskerCall : /\ askers' = [askers EXCEPT ![t] = x] /\ x # NoAsk
                                /\ askers'[t] = x /\ x.step = step /\ x.attempt = askers[t].attempt
<1> DEFINE x == [askers[t] EXCEPT !.step = step]
<1>1. askers[t] \in AskerCall
  BY DEF AskerAt, SessionInv, SessionTypes
<1>2. x \in AskerCall /\ x.step = step /\ x.attempt = askers[t].attempt
  BY <1>1 DEF AskerCall
<1>3. askers' = [askers EXCEPT ![t] = x]
  BY DEF MoveTo
<1> HIDE DEF x
<1>4. askers'[t] = x
  BY <1>3 DEF SessionInv, SessionTypes
<1> QED
  BY <1>2, <1>3, <1>4, SessionAssumption

LEMMA CallKeeps ==
    ASSUME SessionInv, NEW t \in Asker, CallBegins(t) \/ RestartBegins(t) \/ TakesLock(t) \/ CallReturns(t)
    PROVE  SessionInv'
<1>1. CASE CallBegins(t)
  <2> DEFINE x == [step |-> "call", attempt |-> 0, only |-> FALSE, answer |-> NoAsk]
  <2>1. /\ askers[t] = NoAsk /\ askers' = [askers EXCEPT ![t] = x] /\ UNCHANGED <<children, starts, frames>>
    BY <1>1 DEF CallBegins
  <2>2. x \in AskerCall /\ x.step = "call"
    BY DEF AskerCall
  <2> HIDE DEF x
  <2> QED
    BY <2>1, <2>2, OthersMove DEF HasLock
<1>2. CASE RestartBegins(t)
  <2> DEFINE x == [step |-> "crashed", attempt |-> 0, only |-> TRUE, answer |-> NoAsk]
  <2>1. /\ ~Locked /\ askers' = [askers EXCEPT ![t] = x] /\ UNCHANGED <<children, starts, frames>>
    BY <1>2 DEF RestartBegins
  <2>2. x \in AskerCall /\ x.step = "crashed" /\ x.step \in LockedSteps
    BY DEF AskerCall, LockedSteps
  <2> HIDE DEF x
  <2>3. x # NoAsk /\ askers'[t] = x
    BY <2>1, <2>2, SessionAssumption DEF SessionInv, SessionTypes
  <2>4. PipeIsItsOwn(t)'
    BY <2>1, <2>2, <2>3 DEF SessionInv, PipeIsItsOwn, AskerAt, Quiet, Alive
  <2>5. starts' \in Nat /\ children' \subseteq {starts'} /\ frames' \in Seq(Asker)
    BY <2>1 DEF SessionInv, SessionTypes
  <2> QED
    BY <2>1, <2>2, <2>3, <2>4, <2>5, HolderMoves
<1>3. CASE TakesLock(t)
  <2>1. ~Locked /\ AskerAt(t, "call") /\ MoveTo(t, "write") /\ UNCHANGED <<children, starts, frames>>
    BY <1>3 DEF TakesLock
  <2>2. PICK x \in AskerCall : /\ askers' = [askers EXCEPT ![t] = x] /\ x # NoAsk /\ askers'[t] = x
                               /\ x.step = "write"
    BY <2>1, MoveIsExchange DEF LockedSteps
  <2>3. PipeIsItsOwn(t)'
    BY <2>1, <2>2 DEF SessionInv, PipeIsItsOwn, AskerAt, Quiet, Alive
  <2>4. starts' \in Nat /\ children' \subseteq {starts'} /\ frames' \in Seq(Asker)
    BY <2>1 DEF SessionInv, SessionTypes
  <2>5. x.step \in LockedSteps
    BY <2>2 DEF LockedSteps
  <2> QED
    BY <2>1, <2>2, <2>3, <2>4, <2>5, HolderMoves
<1>4. CASE CallReturns(t)
  <2>1. /\ AskerAt(t, "done") /\ askers' = [askers EXCEPT ![t] = NoAsk]
        /\ UNCHANGED <<children, starts, frames>>
    BY <1>4 DEF CallReturns, Raise
  <2> QED
    BY <2>1, OthersMove DEF HasLock, AskerAt, LockedSteps
<1> QED
  BY <1>1, <1>2, <1>3, <1>4

(* The holder gives the lock back, with nothing in the pipe of a child that lives. *)
LEMMA HolderLeaves ==
    ASSUME SessionInv, NEW t \in Asker, HasLock(t), Raise(t), Quiet', UNCHANGED <<starts, frames>>,
           children' \subseteq children
    PROVE  SessionInv'
<1>1. askers' = [askers EXCEPT ![t] = NoAsk] /\ askers'[t] = NoAsk
  BY DEF Raise, SessionInv, SessionTypes
<1>2. PipeIsItsOwn(t)'
  BY <1>1 DEF PipeIsItsOwn, AskerAt
<1>3. starts' \in Nat /\ children' \subseteq {starts'} /\ frames' \in Seq(Asker)
  BY DEF SessionInv, SessionTypes
<1> QED
  BY <1>1, <1>2, <1>3, HolderMoves

(* The pipe never holds more than one frame. *)
LEMMA OneFrame ==
    ASSUME NEW t \in Asker
    PROVE  /\ Append(<<>>, t) = <<t>> /\ Head(<<t>>) = t /\ Tail(<<t>>) = <<>> /\ <<t>> # <<>>
           /\ <<>> \in Seq(Asker) /\ <<t>> \in Seq(Asker)
OBVIOUS

LEMMA FrameKeeps ==
    ASSUME SessionInv, NEW t \in Asker, WriteFrame(t) \/ WriteFails(t) \/ ReadAnswer(t) \/ ReadFails(t)
    PROVE  SessionInv'
<1>0. starts \in Nat /\ children \subseteq {starts} /\ frames \in Seq(Asker)
  BY DEF SessionInv, SessionTypes
<1>1. CASE WriteFrame(t)
  <2>1. /\ AskerAt(t, "write") /\ Alive /\ frames' = Append(frames, t) /\ MoveTo(t, "read")
        /\ UNCHANGED <<children, starts>>
    BY <1>1 DEF WriteFrame
  <2>2. frames = <<>> /\ HasLock(t)
    BY <2>1 DEF SessionInv, PipeIsItsOwn, Quiet, HasLock, AskerAt, LockedSteps
  <2>6. frames' = <<t>>
    BY <2>1, <2>2, OneFrame
  <2>3. PICK x \in AskerCall : /\ askers' = [askers EXCEPT ![t] = x] /\ x # NoAsk /\ askers'[t] = x
                               /\ x.step = "read"
    BY <2>1, MoveIsExchange DEF LockedSteps
  <2>4. PipeIsItsOwn(t)'
    BY <2>3, <2>6 DEF PipeIsItsOwn, AskerAt
  <2>5. frames' \in Seq(Asker) /\ x.step \in LockedSteps
    BY <2>3, <2>6, OneFrame DEF LockedSteps
  <2> QED
    BY <1>0, <2>1, <2>2, <2>3, <2>4, <2>5, HolderMoves
<1>2. CASE WriteFails(t)
  <2>1. /\ AskerAt(t, "write") /\ ~Alive /\ UNCHANGED <<children, starts, frames>>
        /\ MoveTo(t, "crashed") \/ Raise(t)
    BY <1>2 DEF WriteFails
  <2>2. HasLock(t) /\ Quiet'
    BY <2>1 DEF HasLock, AskerAt, LockedSteps, Quiet, Alive
  <2>3. CASE Raise(t)
    BY <2>1, <2>2, <2>3, HolderLeaves
  <2>4. CASE MoveTo(t, "crashed")
    <3>1. PICK x \in AskerCall : /\ askers' = [askers EXCEPT ![t] = x] /\ x # NoAsk /\ askers'[t] = x
                                 /\ x.step = "crashed"
      BY <2>1, <2>4, MoveIsExchange DEF LockedSteps
    <3>2. PipeIsItsOwn(t)'
      BY <2>2, <3>1 DEF PipeIsItsOwn, AskerAt
    <3> QED
      BY <1>0, <2>1, <2>2, <3>1, <3>2, HolderMoves
  <2> QED
    BY <2>1, <2>3, <2>4
<1>3. CASE ReadAnswer(t)
  <2>1. frames' = Tail(frames) /\ UNCHANGED <<children, starts>>
    BY <1>3 DEF ReadAnswer
  <2>2. askers[t] \in AskerCall /\ AskerAt(t, "read")
    BY <1>3 DEF ReadAnswer, AskerAt, SessionInv, SessionTypes, AskerCall, LockedSteps
  <2>3. frames = <<t>> /\ HasLock(t)
    BY <2>2 DEF SessionInv, PipeIsItsOwn, HasLock, AskerAt, LockedSteps
  <2>4. Head(frames) = t /\ frames' = <<>>
    BY <2>1, <2>3, OneFrame
  <2> DEFINE x == [askers[t] EXCEPT !.step = "done", !.answer = t]
  <2>5. askers' = [askers EXCEPT ![t] = x]
    BY <1>3, <2>4 DEF ReadAnswer
  <2>6. x \in AskerCall /\ x.step = "done" /\ x.answer = t
    BY <2>2 DEF AskerCall
  <2> HIDE DEF x
  <2>7. askers'[t] = x
    BY <2>5 DEF SessionInv, SessionTypes
  <2>8. PipeIsItsOwn(t)' /\ Quiet'
    BY <2>4, <2>6, <2>7 DEF PipeIsItsOwn, AskerAt, Quiet
  <2>9. frames' \in Seq(Asker)
    BY <2>4, OneFrame
  <2> QED
    BY <1>0, <2>1, <2>3, <2>5, <2>6, <2>8, <2>9, HolderMoves
<1>4. CASE ReadFails(t)
  <2>1. /\ AskerAt(t, "read") /\ MoveTo(t, "crashed") /\ UNCHANGED <<children, starts>>
        /\ (frames # <<>> /\ frames' = Tail(frames)) \/ (~Alive /\ UNCHANGED frames)
    BY <1>4 DEF ReadFails
  <2>2. frames = <<t>> /\ HasLock(t)
    BY <2>1 DEF SessionInv, PipeIsItsOwn, HasLock, AskerAt, LockedSteps
  <2>3. frames' \in Seq(Asker) /\ Quiet'
    <3>1. CASE frames' = <<>>
      BY <3>1, OneFrame DEF Quiet
    <3>2. CASE ~Alive /\ UNCHANGED frames
      BY <1>0, <2>1, <3>2 DEF Quiet, Alive
    <3> QED
      BY <2>1, <2>2, <3>1, <3>2, OneFrame
  <2>4. PICK x \in AskerCall : /\ askers' = [askers EXCEPT ![t] = x] /\ x # NoAsk /\ askers'[t] = x
                               /\ x.step = "crashed"
    BY <2>1, MoveIsExchange DEF LockedSteps
  <2>5. PipeIsItsOwn(t)'
    BY <2>3, <2>4 DEF PipeIsItsOwn, AskerAt
  <2> QED
    BY <1>0, <2>1, <2>2, <2>3, <2>4, <2>5, HolderMoves
<1> QED
  BY <1>1, <1>2, <1>3, <1>4

LEMMA RestartKeeps ==
    ASSUME SessionInv, NEW t \in Asker,
           GivesIn(t) \/ RestartCloses(t) \/ Spawn(t) \/ RestartFails(t) \/ Handshake(t)
    PROVE  SessionInv'
<1>0. starts \in Nat /\ children \subseteq {starts} /\ frames \in Seq(Asker)
  BY DEF SessionInv, SessionTypes
<1>1. CASE GivesIn(t)
  <2>1. AskerAt(t, "crashed") /\ Raise(t) /\ UNCHANGED <<children, starts, frames>>
    BY <1>1 DEF GivesIn
  <2>2. HasLock(t) /\ Quiet'
    BY <2>1 DEF SessionInv, PipeIsItsOwn, HasLock, AskerAt, LockedSteps, Quiet, Alive
  <2> QED
    BY <2>1, <2>2, HolderLeaves
<1>2. CASE RestartCloses(t)
  <2>1. /\ AskerAt(t, "crashed") /\ children' = children \ {starts} /\ MoveTo(t, "spawn")
        /\ UNCHANGED <<starts, frames>>
    BY <1>2 DEF RestartCloses
  <2>2. HasLock(t) /\ ~Alive'
    BY <2>1 DEF HasLock, AskerAt, LockedSteps, Alive
  <2>3. PICK x \in AskerCall : /\ askers' = [askers EXCEPT ![t] = x] /\ x # NoAsk /\ askers'[t] = x
                               /\ x.step = "spawn"
    BY <2>1, MoveIsExchange DEF LockedSteps
  <2>4. PipeIsItsOwn(t)' /\ Quiet'
    BY <2>2, <2>3 DEF PipeIsItsOwn, AskerAt, Quiet
  <2> QED
    BY <1>0, <2>1, <2>2, <2>3, <2>4, HolderMoves
<1>3. CASE Spawn(t)
  <2>1. /\ AskerAt(t, "spawn") /\ starts' = starts + 1 /\ children' = children \cup {starts'}
        /\ frames' = <<>> /\ MoveTo(t, "greet")
    BY <1>3 DEF Spawn
  <2>2. HasLock(t) /\ ~Alive
    BY <2>1 DEF SessionInv, PipeIsItsOwn, HasLock, AskerAt, LockedSteps
  <2>3. children' \subseteq {starts'} /\ starts' \in Nat /\ frames' \in Seq(Asker)
    BY <1>0, <2>1, <2>2 DEF Alive
  <2>4. PICK x \in AskerCall : /\ askers' = [askers EXCEPT ![t] = x] /\ x # NoAsk /\ askers'[t] = x
                               /\ x.step = "greet"
    BY <2>1, MoveIsExchange DEF LockedSteps
  <2>5. PipeIsItsOwn(t)' /\ Quiet'
    BY <2>1, <2>4 DEF PipeIsItsOwn, AskerAt, Quiet
  <2> QED
    BY <2>2, <2>3, <2>4, <2>5, HolderMoves
<1>4. CASE RestartFails(t)
  <2>1. /\ AskerAt(t, "spawn") \/ AskerAt(t, "greet")
        /\ children' = children \ {starts} /\ Raise(t) /\ UNCHANGED <<starts, frames>>
    BY <1>4 DEF RestartFails
  <2>2. HasLock(t) /\ Quiet'
    BY <2>1 DEF HasLock, AskerAt, LockedSteps, Quiet, Alive
  <2> QED
    BY <2>1, <2>2, HolderLeaves
<1>5. CASE Handshake(t)
  <2>1. /\ AskerAt(t, "greet") /\ UNCHANGED <<children, starts, frames>>
        /\ IF askers[t].only THEN Raise(t)
           ELSE askers' = [askers EXCEPT ![t].step = "write", ![t].attempt = 1]
    BY <1>5 DEF Handshake
  <2>2. HasLock(t) /\ frames = <<>> /\ askers[t] \in AskerCall
    BY <2>1 DEF SessionInv, SessionTypes, PipeIsItsOwn, HasLock, AskerAt, LockedSteps
  <2>3. Quiet'
    BY <2>1, <2>2 DEF Quiet
  <2>4. CASE Raise(t)
    BY <2>1, <2>2, <2>3, <2>4, HolderLeaves
  <2>5. CASE ~askers[t].only
    <3> DEFINE x == [askers[t] EXCEPT !.step = "write", !.attempt = 1]
    <3>1. askers' = [askers EXCEPT ![t] = x]
      BY <2>1, <2>5
    <3>2. x \in AskerCall /\ x.step = "write"
      BY <2>2 DEF AskerCall, LockedSteps
    <3> HIDE DEF x
    <3>3. askers'[t] = x
      BY <3>1 DEF SessionInv, SessionTypes
    <3>4. PipeIsItsOwn(t)'
      BY <2>3, <3>2, <3>3 DEF PipeIsItsOwn, AskerAt
    <3> QED
      BY <1>0, <2>1, <2>2, <2>3, <3>1, <3>2, <3>4, HolderMoves
  <2> QED
    BY <2>1, <2>4, <2>5
<1> QED
  BY <1>1, <1>2, <1>3, <1>4, <1>5

(* Every call that returns has read the answer to its own frame, and a child is started
   only when the one before is gone, whatever deaths, failed handshakes, retries and
   unlocked closes come between (call, _restart_locked and close of rust_session.py). *)
THEOREM AnswersAreOwn == SessionSpec => []AnswersItsOwn
<1>1. SessionInit => SessionInv
  <2> SUFFICES ASSUME SessionInit PROVE SessionInv
    OBVIOUS
  <2>1. SessionTypes
    BY DEF SessionInit, SessionTypes
  <2> QED
    BY <2>1 DEF SessionInit, SessionInv, OneHoldsTheLock, HasLock, PipeIsItsOwn, AskerAt, Quiet
<1>2. SessionInv /\ [SessionNext]_sessionVars => SessionInv'
  <2> SUFFICES ASSUME SessionInv, [SessionNext]_sessionVars PROVE SessionInv'
    OBVIOUS
  <2>1. ASSUME NEW t \in Asker, CallBegins(t) \/ RestartBegins(t) \/ TakesLock(t) \/ CallReturns(t)
        PROVE  SessionInv'
    BY <2>1, CallKeeps
  <2>2. ASSUME NEW t \in Asker, WriteFrame(t) \/ WriteFails(t) \/ ReadAnswer(t) \/ ReadFails(t)
        PROVE  SessionInv'
    BY <2>2, FrameKeeps
  <2>3. ASSUME NEW t \in Asker, GivesIn(t) \/ RestartCloses(t) \/ Spawn(t) \/ RestartFails(t) \/ Handshake(t)
        PROVE  SessionInv'
    BY <2>3, RestartKeeps
  <2>4. ASSUME NEW c \in Closer, CloseBegins(c) \/ CloseEnds(c) PROVE SessionInv'
    BY <2>4, ChildGoes DEF CloseBegins, CloseEnds
  <2>5. CASE ChildDies
    BY <2>5, ChildGoes DEF ChildDies
  <2>6. CASE UNCHANGED sessionVars
    BY <2>6, ChildGoes DEF sessionVars
  <2> QED
    BY <2>1, <2>2, <2>3, <2>4, <2>5, <2>6 DEF SessionNext
<1> QED
  BY <1>1, <1>2, SessionIsSafe, PTL DEF SessionSpec

----------------------------------------------------------------------------
(* Values of one computation *)

ContentTypes ==
    /\ versions \in [SourceFile -> Nat] /\ told \in [SourceFile -> Nat]
    /\ values \in [ContentKey -> ContentValue \cup {NoContent}]
    /\ flying \in [ContentKey -> Flying \cup {NoContent}]
    /\ readers \in [Reader -> Await \cup {NoContent}]

(* What was read is as new as the last invalidation of it, unless one has overtaken it. *)
FreshRead(read, k) == \A f \in SourcesOf[k] : read[f] >= told[f]
ReadsAreFresh ==
    /\ \A f \in SourceFile : told[f] <= versions[f]
    /\ \A k \in ContentKey : values[k] # NoContent /\ ~values[k].overtaken => FreshRead(values[k].read, k)
    /\ \A k \in ContentKey : flying[k] # NoContent /\ flying[k].state = "read" /\ ~flying[k].overtaken =>
          FreshRead(flying[k].read, k)

(* A task runs as long as its owner awaits it, and nobody awaits another one. *)
TasksAreAwaited ==
    \A k \in ContentKey :
        /\ Awaiting(k) # {} => Going(k)
        /\ Going(k) => flying[k].owner \in Awaiting(k)

ContentInv == ContentTypes /\ ReadsAreFresh /\ TasksAreAwaited

LEMMA ContentIsSafe == ContentInv => ContentIsFresh
BY DEF ContentInv, ReadsAreFresh, FreshRead, TasksAreAwaited, ContentIsFresh

LEMMA SourcesAreFiles == \A k \in ContentKey : SourcesOf[k] \subseteq SourceFile
BY ContentAssumption

LEMMA ContentMarker == NoContent \notin ContentValue /\ NoContent \notin Flying /\ NoContent \notin Await
BY ContentAssumption

(* The end of a task, whatever ends it. *)
LEMMA EndsKeeps ==
    ASSUME ContentInv, NEW k \in ContentKey, Going(k), Ends(k), UNCHANGED <<versions, told>>,
           values' \in [ContentKey -> ContentValue \cup {NoContent}],
           \A j \in ContentKey : values'[j] # NoContent /\ ~values'[j].overtaken => FreshRead(values'[j].read, j)
    PROVE  ContentInv'
<1>1. PICK e \in Flying : /\ e.state = "ended" /\ flying' = [flying EXCEPT ![k] = e]
  <2> DEFINE e == [flying[k] EXCEPT !.state = "ended"]
  <2>1. flying[k] \in Flying
    BY DEF Going, ContentInv, ContentTypes
  <2>2. e \in Flying /\ e.state = "ended"
    BY <2>1 DEF Flying
  <2>3. flying' = [flying EXCEPT ![k] = e]
    BY DEF Ends
  <2> HIDE DEF e
  <2> QED
    BY <2>2, <2>3
<1>2. flying'[k] = e /\ \A j \in ContentKey : j # k => flying'[j] = flying[j]
  BY <1>1 DEF ContentInv, ContentTypes
<1>3. \A r \in Awaiting(k) : readers'[r] \in Await /\ readers'[r].woken
  <2> SUFFICES ASSUME NEW r \in Awaiting(k) PROVE readers'[r] \in Await /\ readers'[r].woken
    OBVIOUS
  <2>1. r \in Reader /\ readers[r] \in Await /\ readers'[r] = [readers[r] EXCEPT !.woken = TRUE]
    BY DEF Ends, Awaiting, ContentInv, ContentTypes
  <2> QED
    BY <2>1 DEF Await
<1>4. \A r \in Reader : r \notin Awaiting(k) => readers'[r] = readers[r]
  BY DEF Ends
<1>5. ContentTypes'
  <2>1. readers' \in [Reader -> Await \cup {NoContent}]
    <3>1. readers' = [r \in Reader |-> readers'[r]]
      BY DEF Ends
    <3>2. \A r \in Reader : readers'[r] \in Await \cup {NoContent}
      BY <1>3, <1>4 DEF ContentInv, ContentTypes
    <3> QED
      BY <3>1, <3>2
  <2> QED
    BY <1>1, <2>1 DEF ContentInv, ContentTypes
<1>6. Awaiting(k)' = {} /\ \A j \in ContentKey : j # k => Awaiting(j)' = Awaiting(j)
  <2>1. \A r \in Awaiting(k) : \A j \in ContentKey : r \notin Awaiting(j)' /\ (j # k => r \notin Awaiting(j))
    BY <1>3 DEF Awaiting
  <2>2. \A r \in Reader : \A j \in ContentKey : r \notin Awaiting(k) => (r \in Awaiting(j)' <=> r \in Awaiting(j))
    BY <1>4 DEF Awaiting
  <2>3. \A j : Awaiting(j) \subseteq Reader /\ Awaiting(j)' \subseteq Reader
    BY DEF Awaiting
  <2>4. Awaiting(k)' = {}
    BY <2>1, <2>2, <2>3
  <2>5. ASSUME NEW j \in ContentKey, j # k PROVE Awaiting(j)' = Awaiting(j)
    BY <2>1, <2>2, <2>3, <2>5
  <2> QED
    BY <2>4, <2>5
<1>7. ~Going(k)' /\ \A j \in ContentKey : j # k => (Going(j)' <=> Going(j))
  BY <1>1, <1>2 DEF Going
<1>8. TasksAreAwaited'
  BY <1>2, <1>6, <1>7 DEF ContentInv, TasksAreAwaited
<1>9. ReadsAreFresh'
  BY <1>1, <1>2 DEF ContentInv, ReadsAreFresh, FreshRead
<1> QED
  BY <1>5, <1>8, <1>9 DEF ContentInv

LEMMA GetContentKeeps ==
    ASSUME ContentInv, NEW r \in Reader, NEW k \in ContentKey, GetContent(r, k)
    PROVE  ContentInv'
<1> DEFINE a == [key |-> k, woken |-> FALSE]
           t == [state |-> "started", owner |-> r, read |-> versions, overtaken |-> FALSE]
<1>2. /\ readers' = [readers EXCEPT ![r] = a] /\ UNCHANGED <<versions, told, values>>
      /\ flying' = IF flying[k] # NoContent THEN flying ELSE [flying EXCEPT ![k] = t]
  BY DEF GetContent
<1>3. readers[r] = NoContent /\ (flying[k] = NoContent \/ Going(k))
  BY DEF GetContent
<1>4. a \in Await /\ t \in Flying /\ a.key = k /\ ~a.woken /\ t.state = "started" /\ t.owner = r
  BY DEF Await, Flying, ContentInv, ContentTypes
<1>5. a # NoContent /\ t # NoContent
  BY <1>4, ContentMarker
<1> HIDE DEF a, t
<1>6. ContentTypes' /\ readers'[r] = a /\ \A s \in Reader : s # r => readers'[s] = readers[s]
  BY <1>2, <1>4 DEF ContentInv, ContentTypes
<1>7. Awaiting(k)' = Awaiting(k) \cup {r} /\ \A j \in ContentKey : j # k => Awaiting(j)' = Awaiting(j)
  BY <1>3, <1>4, <1>5, <1>6 DEF Awaiting
<1>8. CASE flying[k] # NoContent
  <2>1. flying' = flying /\ Going(k)
    BY <1>2, <1>3, <1>8
  <2>2. TasksAreAwaited'
    BY <1>7, <2>1 DEF ContentInv, TasksAreAwaited, Going
  <2> QED
    BY <1>2, <1>6, <2>1, <2>2 DEF ContentInv, ReadsAreFresh, FreshRead
<1>9. CASE flying[k] = NoContent
  <2>1. flying'[k] = t /\ \A j \in ContentKey : j # k => flying'[j] = flying[j]
    BY <1>2, <1>9 DEF ContentInv, ContentTypes
  <2>2. TasksAreAwaited'
    BY <1>4, <1>5, <1>7, <2>1 DEF ContentInv, TasksAreAwaited, Going
  <2>3. ReadsAreFresh'
    BY <1>2, <1>4, <2>1 DEF ContentInv, ReadsAreFresh, FreshRead
  <2> QED
    BY <1>6, <2>2, <2>3 DEF ContentInv
<1> QED
  BY <1>8, <1>9

LEMMA ComputeReadsKeeps == ASSUME ContentInv, NEW k \in ContentKey, ComputeReads(k) PROVE ContentInv'
<1> DEFINE e == [flying[k] EXCEPT !.state = "read", !.read = versions, !.overtaken = FALSE]
<1>1. /\ flying[k] \in Flying /\ flying[k].state = "started" /\ flying' = [flying EXCEPT ![k] = e]
      /\ UNCHANGED <<versions, told, values, readers>>
  BY DEF ComputeReads, ContentInv, ContentTypes
<1>2. e \in Flying /\ e.state = "read" /\ e.read = versions /\ e.owner = flying[k].owner
  BY <1>1 DEF Flying, ContentInv, ContentTypes
<1> HIDE DEF e
<1>3. e # NoContent
  BY <1>2, ContentMarker
<1>4. ContentTypes' /\ flying'[k] = e /\ \A j \in ContentKey : j # k => flying'[j] = flying[j]
  BY <1>1, <1>2 DEF ContentInv, ContentTypes
<1>5. FreshRead(versions, k)
  BY SourcesAreFiles DEF ContentInv, ContentTypes, ReadsAreFresh, FreshRead
<1>6. ReadsAreFresh'
  BY <1>1, <1>2, <1>4, <1>5 DEF ContentInv, ReadsAreFresh, FreshRead
<1>7. TasksAreAwaited'
  <2>1. \A j \in ContentKey : (Going(j)' <=> Going(j)) /\ Awaiting(j)' = Awaiting(j)
    BY <1>1, <1>2, <1>3, <1>4, ContentMarker DEF Going, Awaiting
  <2>2. \A j \in ContentKey : flying'[j].owner = flying[j].owner
    BY <1>2, <1>4
  <2> QED
    BY <2>1, <2>2 DEF ContentInv, TasksAreAwaited
<1> QED
  BY <1>4, <1>6, <1>7 DEF ContentInv

LEMMA ComputeEndsKeeps ==
    ASSUME ContentInv, NEW k \in ContentKey, ComputeEnds(k) \/ ComputeFails(k)
    PROVE  ContentInv'
<1>1. CASE ComputeFails(k)
  BY <1>1, EndsKeeps DEF ComputeFails, ContentInv, ContentTypes, ReadsAreFresh
<1>2. CASE ComputeEnds(k)
  <2> DEFINE v == [read |-> flying[k].read, overtaken |-> flying[k].overtaken]
  <2>1. /\ flying[k] \in Flying /\ flying[k].state = "read" /\ flying[k] # NoContent
        /\ values' = [values EXCEPT ![k] = v] /\ Ends(k) /\ UNCHANGED <<versions, told>>
    BY <1>2 DEF ComputeEnds, ContentInv, ContentTypes
  <2>2. v \in ContentValue /\ v.read = flying[k].read /\ v.overtaken = flying[k].overtaken
    BY <2>1 DEF Flying, ContentValue
  <2> HIDE DEF v
  <2>3. /\ values' \in [ContentKey -> ContentValue \cup {NoContent}] /\ values'[k] = v
        /\ \A j \in ContentKey : j # k => values'[j] = values[j]
    BY <2>1, <2>2 DEF ContentInv, ContentTypes
  <2>4. Going(k)
    BY <2>1 DEF Going
  <2>5. \A j \in ContentKey : values'[j] # NoContent /\ ~values'[j].overtaken => FreshRead(values'[j].read, j)
    BY <2>1, <2>2, <2>3 DEF ContentInv, ReadsAreFresh
  <2> QED
    BY <2>1, <2>3, <2>4, <2>5, EndsKeeps
<1> QED
  BY <1>1, <1>2

LEMMA CancelReaderKeeps == ASSUME ContentInv, NEW r \in Reader, CancelReader(r) PROVE ContentInv'
<1>1. PICK k \in ContentKey : k = readers[r].key
  BY DEF CancelReader, ContentInv, ContentTypes, Await
<1>2. r \in Awaiting(k) /\ Ends(k) /\ UNCHANGED <<versions, told, values>>
  BY <1>1 DEF CancelReader, Awaiting
<1>3. Going(k)
  BY <1>2 DEF ContentInv, TasksAreAwaited
<1> QED
  BY <1>2, <1>3, EndsKeeps DEF ContentInv, ContentTypes, ReadsAreFresh

LEMMA ResumeKeeps == ASSUME ContentInv, NEW r \in Reader, Resume(r) PROVE ContentInv'
<1>1. PICK k \in ContentKey : k = readers[r].key
  BY DEF Resume, ContentInv, ContentTypes, Await
<1>2. /\ readers[r] # NoContent /\ readers[r].woken /\ readers' = [readers EXCEPT ![r] = NoContent]
      /\ flying' = IF flying[k] # NoContent /\ flying[k].owner = r THEN [flying EXCEPT ![k] = NoContent] ELSE flying
      /\ UNCHANGED <<versions, told, values>>
  BY <1>1 DEF Resume
<1>3. ContentTypes' /\ readers'[r] = NoContent /\ \A s \in Reader : s # r => readers'[s] = readers[s]
  BY <1>2 DEF ContentInv, ContentTypes
<1>4. \A j \in ContentKey : Awaiting(j)' = Awaiting(j) /\ r \notin Awaiting(j)
  BY <1>2, <1>3 DEF Awaiting
<1>5. CASE flying[k] # NoContent /\ flying[k].owner = r
  <2>1. ~Going(k)
    BY <1>4, <1>5 DEF ContentInv, TasksAreAwaited
  <2>2. flying'[k] = NoContent /\ \A j \in ContentKey : j # k => flying'[j] = flying[j]
    BY <1>2, <1>5 DEF ContentInv, ContentTypes
  <2>3. TasksAreAwaited'
    BY <1>4, <2>1, <2>2 DEF ContentInv, TasksAreAwaited, Going
  <2>4. ReadsAreFresh'
    BY <1>2, <2>2 DEF ContentInv, ReadsAreFresh, FreshRead
  <2> QED
    BY <1>3, <2>3, <2>4 DEF ContentInv
<1>6. CASE ~(flying[k] # NoContent /\ flying[k].owner = r)
  <2>1. flying' = flying
    BY <1>2, <1>6
  <2>2. TasksAreAwaited'
    BY <1>4, <2>1 DEF ContentInv, TasksAreAwaited, Going
  <2> QED
    BY <1>2, <1>3, <2>1, <2>2 DEF ContentInv, ReadsAreFresh, FreshRead
<1> QED
  BY <1>5, <1>6

LEMMA EditSourceKeeps == ASSUME ContentInv, NEW f \in SourceFile, EditSource(f) PROVE ContentInv'
<1>1. versions' = [versions EXCEPT ![f] = @ + 1] /\ UNCHANGED <<told, values, flying, readers>>
  BY DEF EditSource
<1>2. versions' \in [SourceFile -> Nat] /\ \A g \in SourceFile : told[g] <= versions'[g]
  BY <1>1 DEF ContentInv, ContentTypes, ReadsAreFresh
<1>3. TasksAreAwaited'
  BY <1>1 DEF ContentInv, TasksAreAwaited, Awaiting, Going
<1> QED
  BY <1>1, <1>2, <1>3 DEF ContentInv, ContentTypes, ReadsAreFresh, FreshRead

(* An invalidation drops the values it reaches and marks the tasks. *)
LEMMA InvalidateKeeps ==
    ASSUME ContentInv, NEW changed \in SUBSET SourceFile, InvalidateContent(changed)
    PROVE  ContentInv'
<1>1. /\ told' = [f \in SourceFile |-> IF f \in changed THEN versions[f] ELSE told[f]]
      /\ values' = [k \in ContentKey |-> IF k \in Doomed(changed) THEN NoContent ELSE values[k]]
      /\ flying' = [k \in ContentKey |-> IF flying[k] # NoContent /\ SourcesOf[k] \cap changed # {}
                                         THEN [flying[k] EXCEPT !.overtaken = TRUE] ELSE flying[k]]
      /\ UNCHANGED <<versions, readers>>
  BY DEF InvalidateContent
<1>2. \A k \in ContentKey : flying[k] # NoContent /\ SourcesOf[k] \cap changed # {} =>
         /\ flying'[k] \in Flying /\ flying'[k] # NoContent /\ flying'[k].overtaken
         /\ flying'[k].state = flying[k].state /\ flying'[k].owner = flying[k].owner
  <2> SUFFICES ASSUME NEW k \in ContentKey, flying[k] # NoContent, SourcesOf[k] \cap changed # {}
               PROVE  /\ flying'[k] \in Flying /\ flying'[k] # NoContent /\ flying'[k].overtaken
                      /\ flying'[k].state = flying[k].state /\ flying'[k].owner = flying[k].owner
    OBVIOUS
  <2>1. flying[k] \in Flying /\ flying'[k] = [flying[k] EXCEPT !.overtaken = TRUE]
    BY <1>1 DEF ContentInv, ContentTypes
  <2> QED
    BY <2>1, ContentMarker DEF Flying
<1>3. \A k \in ContentKey : ~(flying[k] # NoContent /\ SourcesOf[k] \cap changed # {}) => flying'[k] = flying[k]
  BY <1>1
<1>4. ContentTypes'
  <2>1. \A k \in ContentKey : flying'[k] \in Flying \cup {NoContent}
    BY <1>2, <1>3 DEF ContentInv, ContentTypes
  <2>2. flying' \in [ContentKey -> Flying \cup {NoContent}]
    BY <1>1, <2>1
  <2>3. values' \in [ContentKey -> ContentValue \cup {NoContent}]
    BY <1>1 DEF ContentInv, ContentTypes
  <2>4. told' \in [SourceFile -> Nat]
    BY <1>1 DEF ContentInv, ContentTypes
  <2> QED
    BY <1>1, <2>2, <2>3, <2>4 DEF ContentInv, ContentTypes
<1>5. TasksAreAwaited'
  <2>1. \A k \in ContentKey : (Going(k)' <=> Going(k)) /\ Awaiting(k)' = Awaiting(k)
    BY <1>1, <1>2, <1>3 DEF Going, Awaiting
  <2>2. \A k \in ContentKey : Going(k) => flying'[k].owner = flying[k].owner
    BY <1>2, <1>3
  <2> QED
    BY <2>1, <2>2 DEF ContentInv, TasksAreAwaited
<1>6. ReadsAreFresh'
  <2>1. \A f \in SourceFile : told'[f] <= versions[f]
    BY <1>1 DEF ContentInv, ContentTypes, ReadsAreFresh
  <2>2. \A k \in ContentKey : SourcesOf[k] \cap changed = {} => \A f \in SourcesOf[k] : told'[f] = told[f]
    BY <1>1, SourcesAreFiles
  <2>3. \A k \in ContentKey : values'[k] # NoContent => values'[k] = values[k] /\ SourcesOf[k] \cap changed = {}
    BY <1>1 DEF Doomed
  <2>4. \A k \in ContentKey : values'[k] # NoContent /\ ~values'[k].overtaken =>
           \A f \in SourcesOf[k] : values'[k].read[f] >= told'[f]
    BY <2>2, <2>3 DEF ContentInv, ReadsAreFresh, FreshRead
  <2>5. \A k \in ContentKey : flying'[k] # NoContent /\ flying'[k].state = "read" /\ ~flying'[k].overtaken =>
           \A f \in SourcesOf[k] : flying'[k].read[f] >= told'[f]
    BY <1>2, <1>3, <2>2 DEF ContentInv, ReadsAreFresh, FreshRead
  <2> QED
    BY <1>1, <2>1, <2>4, <2>5 DEF ReadsAreFresh, FreshRead
<1> QED
  BY <1>4, <1>5, <1>6 DEF ContentInv

(* No value that an invalidation has reached is a hit, unless the invalidation overtook the
   task that computed it, and a task is in the table exactly while somebody awaits it,
   whoever is cancelled (get and invalidate of content_cache.py). *)
THEOREM ContentFresh == ContentSpec => []ContentIsFresh
<1>1. ContentInit => ContentInv
  BY DEF ContentInit, ContentInv, ContentTypes, ReadsAreFresh, TasksAreAwaited, Awaiting, Going
<1>2. ContentInv /\ [ContentNext]_contentVars => ContentInv'
  <2> SUFFICES ASSUME ContentInv, [ContentNext]_contentVars PROVE ContentInv'
    OBVIOUS
  <2>1. ASSUME NEW r \in Reader, (\E k \in ContentKey : GetContent(r, k)) \/ CancelReader(r) \/ Resume(r)
        PROVE  ContentInv'
    BY <2>1, GetContentKeeps, CancelReaderKeeps, ResumeKeeps
  <2>2. ASSUME NEW k \in ContentKey, ComputeReads(k) \/ ComputeEnds(k) \/ ComputeFails(k) PROVE ContentInv'
    BY <2>2, ComputeReadsKeeps, ComputeEndsKeeps
  <2>3. CASE UNCHANGED contentVars
    BY <2>3 DEF contentVars, ContentInv, ContentTypes, ReadsAreFresh, FreshRead, TasksAreAwaited, Awaiting, Going
  <2> QED
    BY <2>1, <2>2, <2>3, EditSourceKeeps, InvalidateKeeps DEF ContentNext
<1> QED
  BY <1>1, <1>2, ContentIsSafe, PTL DEF ContentSpec

----------------------------------------------------------------------------
(* Results of validations *)

(* An entry has the result that was put last; one that may be reused was put twice in a
   row, or alone. *)
Repeated(o) == Len(o) = 1 \/ o[Len(o) - 1] = o[Len(o)]
Remembers(v, o) ==
    /\ v \in [ValidationKey -> ValidationEntry \cup {NoResult}]
    /\ o \in [ValidationKey -> Seq(Outcome)]
    /\ \A k \in ValidationKey :
          /\ v[k] = NoResult => o[k] = <<>>
          /\ v[k] # NoResult => /\ o[k] # <<>> /\ v[k].result = o[k][Len(o[k])]
                                /\ v[k].trusted /\ ~v[k].varies => Repeated(o[k])

ValidationInv ==
    /\ Remembers(validated, outcomes)
    /\ Remembers(cacheFile.entries, cacheFile.outcomes)
    /\ leased \in [ValidationKey -> SUBSET LeaseId]
    /\ \A k \in ValidationKey : leased[k] # {} => validated[k] # NoResult

LEMMA ValidationIsSafe == ValidationInv => ReusedWasRepeated
BY DEF ValidationInv, Remembers, Repeated, ReusedWasRepeated, Reusable

(* The last element of an extended sequence is the new one, the one before it the old last. *)
LEMMA LastOfAppended ==
    ASSUME NEW S, NEW s \in Seq(S), NEW x \in S, NEW o, o = Append(s, x)
    PROVE  /\ o \in Seq(S) /\ o # <<>> /\ o[Len(o)] = x
           /\ s = <<>> => Len(o) = 1
           /\ s # <<>> => o[Len(o) - 1] = s[Len(s)]
<1>1. o \in Seq(S) /\ Len(o) = Len(s) + 1 /\ o[Len(s) + 1] = x
  OBVIOUS
<1>2. \A i \in 1..Len(s) : o[i] = s[i]
  OBVIOUS
<1>3. Len(s) \in Nat /\ (s # <<>> => Len(s) \in 1..Len(s)) /\ Len(<<>>) = 0
  OBVIOUS
<1>4. Len(o) # 0 => o # <<>>
  BY <1>3
<1>5. o # <<>> /\ Len(o) - 1 = Len(s)
  BY <1>1, <1>3, <1>4
<1>6. s = <<>> => Len(o) = 1
  BY <1>1, <1>3
<1>7. s # <<>> => o[Len(o) - 1] = s[Len(s)]
  BY <1>2, <1>3, <1>5
<1>8. o[Len(o)] = x
  BY <1>1
<1> QED
  BY <1>1, <1>5, <1>6, <1>7, <1>8, Zenon

LEMMA PutResultKeeps ==
    ASSUME ValidationInv, NEW k \in ValidationKey, NEW r \in Outcome, NEW fresh \in BOOLEAN,
           NEW verified \in BOOLEAN, NEW provenance \in BOOLEAN, PutResult(k, r, fresh, verified, provenance)
    PROVE  ValidationInv'
<1> DEFINE e == EntryAfter(k, r, fresh /\ verified)
           o == Append(outcomes[k], r)
<1>1. /\ validated' = [validated EXCEPT ![k] = e] /\ outcomes' = [outcomes EXCEPT ![k] = o]
      /\ UNCHANGED <<leased, cacheFile>>
  BY DEF PutResult
<1>2. /\ e \in ValidationEntry /\ e.result = r
      /\ e.trusted => ~DiffersFrom(k, r)
  BY DEF EntryAfter, ValidationEntry, DiffersFrom
<1>3. outcomes[k] \in Seq(Outcome)
  BY DEF ValidationInv, Remembers
<1>4. /\ o \in Seq(Outcome) /\ o # <<>> /\ o[Len(o)] = r
      /\ outcomes[k] = <<>> => Len(o) = 1
      /\ outcomes[k] # <<>> => o[Len(o) - 1] = outcomes[k][Len(outcomes[k])]
  BY <1>3, LastOfAppended
<1>5. ~DiffersFrom(k, r) => Repeated(o)
  BY <1>4 DEF DiffersFrom, Repeated, ValidationInv, Remembers
<1> HIDE DEF e, o
<1>6. e # NoResult
  BY <1>2, ValidationAssumption
<1>7. /\ validated' \in [ValidationKey -> ValidationEntry \cup {NoResult}]
      /\ outcomes' \in [ValidationKey -> Seq(Outcome)]
      /\ validated'[k] = e /\ outcomes'[k] = o
      /\ \A j \in ValidationKey : j # k => validated'[j] = validated[j] /\ outcomes'[j] = outcomes[j]
  BY <1>1, <1>2, <1>4 DEF ValidationInv, Remembers
<1>8. Remembers(validated, outcomes)'
  BY <1>2, <1>4, <1>5, <1>6, <1>7 DEF ValidationInv, Remembers
<1>9. \A j \in ValidationKey : leased'[j] # {} => validated'[j] # NoResult
  BY <1>1, <1>6, <1>7 DEF ValidationInv
<1> QED
  BY <1>1, <1>8, <1>9 DEF ValidationInv

LEMMA LeasesKeep ==
    ASSUME ValidationInv, NEW k \in ValidationKey, NEW l \in LeaseId, AcquireLease(k, l) \/ ReleaseLease(k, l)
    PROVE  ValidationInv'
<1>1. UNCHANGED <<validated, cacheFile, outcomes>>
  BY DEF AcquireLease, ReleaseLease
<1>2. PICK s \in SUBSET LeaseId : /\ leased' = [leased EXCEPT ![k] = s]
                                  /\ s # {} => validated[k] # NoResult
  <2>1. leased[k] \in SUBSET LeaseId
    BY DEF ValidationInv
  <2>2. CASE AcquireLease(k, l)
    BY <2>1, <2>2 DEF AcquireLease
  <2>3. CASE ReleaseLease(k, l)
    BY <2>1, <2>3 DEF ReleaseLease, ValidationInv
  <2> QED
    BY <2>2, <2>3
<1> QED
  BY <1>1, <1>2 DEF ValidationInv

LEMMA CollectKeeps ==
    ASSUME ValidationInv, NEW keep, NEW max, CollectResults(keep, max)
    PROVE  ValidationInv'
<1>1. PICK removed \in SUBSET {k \in ValidationKey : leased[k] = {}} :
         /\ validated' = [k \in ValidationKey |-> IF k \in removed THEN NoResult ELSE validated[k]]
         /\ outcomes' = [k \in ValidationKey |-> IF k \in removed THEN <<>> ELSE outcomes[k]]
         /\ UNCHANGED <<leased, cacheFile>>
  BY DEF CollectResults
<1>2. Remembers(validated, outcomes)'
  BY <1>1 DEF ValidationInv, Remembers
<1> QED
  BY <1>1, <1>2 DEF ValidationInv

(* A result that is reused without running its command again was put twice in a row, or was
   the only one, and a leased one is not collected, through save and load (put, lease, gc,
   save and load of validation_cache.py). *)
THEOREM ReuseIsEarned == ValidationSpec => []ReusedWasRepeated
<1>1. ValidationInit => ValidationInv
  BY DEF ValidationInit, ValidationInv, Remembers
<1>2. ValidationInv /\ [ValidationNext]_validationVars => ValidationInv'
  <2> SUFFICES ASSUME ValidationInv, [ValidationNext]_validationVars PROVE ValidationInv'
    OBVIOUS
  <2>1. ASSUME NEW k \in ValidationKey, NEW r \in Outcome, NEW fresh \in BOOLEAN, NEW verified \in BOOLEAN,
               NEW provenance \in BOOLEAN, PutResult(k, r, fresh, verified, provenance)
        PROVE  ValidationInv'
    BY <2>1, PutResultKeeps
  <2>2. ASSUME NEW k \in ValidationKey, NEW l \in LeaseId, AcquireLease(k, l) \/ ReleaseLease(k, l)
        PROVE  ValidationInv'
    BY <2>2, LeasesKeep
  <2>3. ASSUME NEW keep, NEW max, CollectResults(keep, max) PROVE ValidationInv'
    BY <2>3, CollectKeeps
  <2>4. CASE SaveResults
    BY <2>4 DEF SaveResults, ValidationInv
  <2>5. CASE LoadResults
    BY <2>5 DEF LoadResults, ValidationInv
  <2>6. CASE UNCHANGED validationVars
    BY <2>6 DEF validationVars, ValidationInv
  <2> QED
    BY <2>1, <2>2, <2>3, <2>4, <2>5, <2>6 DEF ValidationNext
<1> QED
  BY <1>1, <1>2, ValidationIsSafe, PTL DEF ValidationSpec

----------------------------------------------------------------------------
(* Positions in their order, as an OrderedDict keeps them *)

(* A set of numbers has a least one. *)
LEMMA LeastNumber == ASSUME NEW S \in SUBSET Nat, S # {} PROVE \E x \in S : \A y \in S : x <= y
<1> DEFINE Smaller == OpToRel(<, Nat)
<1>1. IsWellFoundedOn(Smaller, Nat)
  BY NatLessThanWellFounded, Zenon
<1>2. ASSUME NEW x \in Nat, NEW y \in Nat, x < y PROVE <<x, y>> \in Smaller
  BY <1>2 DEF OpToRel
<1> HIDE DEF Smaller
<1>3. PICK x \in S : \A y \in S : <<y, x>> \notin Smaller
  BY <1>1, WFMin
<1>4. ASSUME NEW y \in S PROVE x <= y
  <2>1. x \in Nat /\ y \in Nat /\ ~(y < x)
    BY <1>2, <1>3, Zenon
  <2> QED
    BY <2>1
<1> QED
  BY <1>4

----------------------------------------------------------------------------
(* The decision cache and the engines that share it *)

Increasing(f, n) == \A i, j \in 1..n : i < j => f[i] < f[j]

(* Sets of positions can be listed in their order. *)
Listed(n) == \A I \in SUBSET (1..n) : \E f \in [1..Cardinality(I) -> I] : Increasing(f, Cardinality(I))

LEMMA ListedNext == ASSUME NEW n \in Nat, Listed(n) PROVE Listed(n + 1)
<1> SUFFICES ASSUME NEW I \in SUBSET (1..(n + 1))
             PROVE  \E f \in [1..Cardinality(I) -> I] : Increasing(f, Cardinality(I))
  BY DEF Listed
<1>1. CASE n + 1 \notin I
  <2>1. I \subseteq 1..n
    BY <1>1
  <2> QED
    BY <2>1 DEF Listed
<1>2. CASE n + 1 \in I
  <2> DEFINE J == I \ {n + 1}
  <2>1. J \subseteq 1..n /\ I = J \cup {n + 1} /\ n + 1 \notin J
    BY <1>2
  <2>2. IsFiniteSet(1..n)
    BY FS_Interval
  <2>3. IsFiniteSet(J)
    BY <2>1, <2>2, FS_Subset
  <2>4. Cardinality(J) \in Nat /\ Cardinality(I) = Cardinality(J) + 1
    <3>1. Cardinality(J \cup {n + 1}) = Cardinality(J) + 1
      BY <2>1, <2>3, FS_AddElement
    <3>2. Cardinality(J) \in Nat
      BY <2>3, FS_CardinalityType
    <3> QED
      BY <2>1, <3>1, <3>2
  <2>5. PICK g \in [1..Cardinality(J) -> J] : Increasing(g, Cardinality(J))
    BY <2>1 DEF Listed
  <2> HIDE DEF J
  <2>6. PICK c : c = Cardinality(J)
    OBVIOUS
  <2> DEFINE f == [i \in 1..(c + 1) |-> IF i <= c THEN g[i] ELSE n + 1]
  <2>7. f \in [1..(c + 1) -> I]
    BY <2>1, <2>4, <2>5, <2>6
  <2>8. ASSUME NEW i \in 1..(c + 1), NEW j \in 1..(c + 1), i < j PROVE f[i] < f[j]
    <3>1. i \in 1..c /\ g[i] \in J /\ f[i] = g[i] /\ c \in Nat
      BY <2>4, <2>5, <2>6, <2>8
    <3>2. CASE j <= c
      <4>1. j \in 1..c /\ f[j] = g[j]
        BY <3>1, <3>2
      <4> QED
        BY <2>5, <2>6, <2>8, <3>1, <4>1 DEF Increasing
    <3>3. CASE ~(j <= c)
      <4>1. f[j] = n + 1 /\ g[i] \in 1..n
        BY <2>1, <3>1, <3>3
      <4> QED
        BY <3>1, <4>1
    <3> QED
      BY <3>2, <3>3
  <2>9. Increasing(f, c + 1)
    BY <2>8 DEF Increasing
  <2> HIDE DEF f
  <2> QED
    BY <2>4, <2>6, <2>7, <2>9
<1> QED
  BY <1>1, <1>2

LEMMA AllListed == \A n \in Nat : Listed(n)
<1> SUFFICES ASSUME \E n \in Nat : ~Listed(n) PROVE FALSE
  OBVIOUS
<1> DEFINE Bad == {n \in Nat : ~Listed(n)}
<1>1. Bad \in SUBSET Nat /\ Bad # {}
  OBVIOUS
<1>2. PICK n \in Bad : \A m \in Bad : n <= m
  BY <1>1, LeastNumber
<1>3. Listed(0)
  <2> SUFFICES ASSUME NEW I \in SUBSET (1..0)
               PROVE  \E f \in [1..Cardinality(I) -> I] : Increasing(f, Cardinality(I))
    BY DEF Listed
  <2>0. I = {}
    OBVIOUS
  <2>1. I = {} /\ Cardinality(I) = 0
    BY <2>0, FS_EmptySet
  <2>2. [i \in 1..0 |-> i] \in [1..0 -> I] /\ Increasing([i \in 1..0 |-> i], 0)
    BY DEF Increasing
  <2> QED
    BY <2>1, <2>2
<1>4. n # 0 /\ n - 1 \in Nat /\ ~(n <= n - 1) /\ n = (n - 1) + 1
  BY <1>3
<1>5. Listed(n - 1)
  BY <1>2, <1>4
<1> QED
  BY <1>2, <1>4, <1>5, ListedNext

(* What is picked from a list are the elements at these positions, each once. *)
LEMMA PickedFacts ==
    ASSUME NEW S, NEW s \in Seq(S), NEW I \in SUBSET DOMAIN s
    PROVE  /\ Picked(s, I) \in Seq(S) /\ Len(Picked(s, I)) <= Len(s)
           /\ \E at \in [1..Len(Picked(s, I)) -> I] :
                 /\ \A i, j \in 1..Len(Picked(s, I)) : at[i] = at[j] => i = j
                 /\ \A x \in I : \E i \in 1..Len(Picked(s, I)) : at[i] = x
                 /\ \A i \in 1..Len(Picked(s, I)) : Picked(s, I)[i] = s[at[i]]
<1>1. Len(s) \in Nat /\ DOMAIN s = 1..Len(s)
  OBVIOUS
<1>2. IsFiniteSet(I) /\ Cardinality(I) <= Len(s)
  <2>1. PICK m \in Nat : m = Len(s)
    BY <1>1
  <2>2. IsFiniteSet(1..m) /\ Cardinality(1..m) = m
    BY FS_Interval
  <2> QED
    BY <1>1, <2>1, <2>2, FS_Subset
<1>3. Cardinality(I) \in Nat
  BY <1>2, FS_CardinalityType
<1>4. PICK n : n = Cardinality(I)
  OBVIOUS
<1> DEFINE at == CHOOSE f \in [1..n -> I] : \A i, j \in 1..n : i < j => f[i] < f[j]
<1>5. at \in [1..n -> I] /\ \A i, j \in 1..n : i < j => at[i] < at[j]
  <2>1. \E f \in [1..n -> I] : \A i, j \in 1..n : i < j => f[i] < f[j]
    BY <1>1, <1>4, AllListed DEF Listed, Increasing
  <2> QED
    BY <2>1
<1>6. Picked(s, I) = [i \in 1..n |-> s[at[i]]]
  BY <1>4 DEF Picked
<1> HIDE DEF at
<1>7. ASSUME NEW i \in 1..n, NEW j \in 1..n, at[i] = at[j] PROVE i = j
  <2>1. at[i] \in Int /\ at[j] \in Int
    BY <1>1, <1>5
  <2> QED
    BY <1>5, <1>7, <2>1
<1>8. at \in Injection(1..n, I)
  BY <1>5, <1>7 DEF Injection, IsInjective
<1>9. at \in Surjection(1..n, I)
  <2>1. IsFiniteSet(1..n) /\ Cardinality(1..n) = n
    BY <1>3, <1>4, FS_Interval
  <2> QED
    BY <1>2, <1>4, <1>8, <2>1, FS_Injection
<1>10. \A x \in I : \E i \in 1..n : at[i] = x
  BY <1>9 DEF Surjection
<1>11. Picked(s, I) \in Seq(S) /\ Len(Picked(s, I)) = n
  <2>1. \A i \in 1..n : s[at[i]] \in S
    BY <1>1, <1>5
  <2> QED
    BY <1>3, <1>4, <1>6, <2>1
<1>12. \A i \in 1..n : Picked(s, I)[i] = s[at[i]]
  BY <1>6
<1>13. /\ at \in [1..n -> I]
       /\ \A i, j \in 1..n : at[i] = at[j] => i = j
       /\ \A x \in I : \E i \in 1..n : at[i] = x
       /\ \A i \in 1..n : Picked(s, I)[i] = s[at[i]]
  BY <1>5, <1>7, <1>10, <1>12
<1> QED
  BY <1>2, <1>4, <1>11, <1>13

----------------------------------------------------------------------------
(* What the cache holds *)

(* The decisions that engines store. *)
StoredEntry ==
    {[key |-> RequestKey[x[2]], decision |-> RequestPlan[x[1]][x[2]], expected |-> RequestObserved[x[2]]] :
        x \in {y \in Engine \X Requests : RequestPlan[y[1]][y[2]].enabled}}

KeysOf(s) == {s[i].key : i \in DOMAIN s}
OnePerKey(s) == \A i, j \in DOMAIN s : s[i].key = s[j].key => i = j
NoneTwice(s) == \A i, j \in DOMAIN s : s[i] = s[j] => i = j

(* Blocked keys are known to the history, each once. *)
Blocking(s) == s \in Seq(banned) /\ NoneTwice(s) /\ Len(s) <= MaxEntries

CacheInv ==
    /\ active \in Generation \cup {NoGeneration}
    /\ entries \in Seq(StoredEntry) /\ OnePerKey(entries) /\ Len(entries) <= MaxEntries
    /\ IsFiniteSet(banned) /\ Blocking(quarantined) /\ Blocking(disabled)
    /\ EntriesAreAdmissible /\ RevokedIsGone /\ BlockIsRemembered

LEMMA RequestsHaveKeys == \A r \in Requests : IsKey(RequestKey[r]) /\ RequestKey[r].generation \in Generation
<1> SUFFICES ASSUME NEW r \in Requests PROVE IsKey(RequestKey[r]) /\ RequestKey[r].generation \in Generation
  OBVIOUS
<1>1. PICK t : t = Telemetry[r]
  OBVIOUS
<1>2. IsRequest(t) /\ RequestKey[r] = KeyOf(t)
  BY <1>1, EngineAssumption DEF RequestKey
<1>3. CASE t.key # NoKey
  BY <1>2, <1>3 DEF IsRequest, KeyOf, IsKey
<1>4. CASE t.key = NoKey
  <2>1. PICK p, k, c : KeyOf(t) = [generation |-> t.generation, identity |-> t.identity, placement |-> p,
                                   kv |-> k, concurrency |-> c]
    BY <1>4 DEF KeyOf
  <2>2. t.generation \in Generation
    BY <1>2 DEF IsRequest
  <2> QED
    BY <1>2, <2>1, <2>2 DEF IsKey, Dimensions
<1> QED
  BY <1>3, <1>4

LEMMA EntriesHaveKeys ==
    \A x \in StoredEntry : x.key.generation \in Generation /\ IsKey(x.key)
BY RequestsHaveKeys DEF StoredEntry

LEMMA LengthIsKeys ==
    ASSUME NEW S, NEW s \in Seq(S), OnePerKey(s)
    PROVE  IsFiniteSet(KeysOf(s)) /\ Cardinality(KeysOf(s)) = Len(s)
<1>1. PICK n \in Nat : n = Len(s)
  OBVIOUS
<1>2. DOMAIN s = 1..n
  BY <1>1
<1>3. IsFiniteSet(1..n) /\ Cardinality(1..n) = n
  BY FS_Interval
<1> DEFINE f == [i \in 1..n |-> s[i].key]
<1>4. f \in Surjection(1..n, KeysOf(s)) /\ f \in Injection(1..n, KeysOf(s))
  BY <1>2 DEF Surjection, Injection, IsInjective, KeysOf, OnePerKey
<1> HIDE DEF f
<1> QED
  BY <1>1, <1>3, <1>4, FS_Surjection

(* A list without repetition is no longer than a set that has its elements. *)
LEMMA LengthIsBound ==
    ASSUME NEW B, IsFiniteSet(B), NEW s \in Seq(B), NoneTwice(s)
    PROVE  Len(s) <= Cardinality(B)
<1>1. PICK n \in Nat : n = Len(s)
  OBVIOUS
<1>2. DOMAIN s = 1..n
  BY <1>1
<1>3. IsFiniteSet(1..n) /\ Cardinality(1..n) = n
  BY FS_Interval
<1>4. s \in Injection(1..n, B)
  BY <1>2 DEF Injection, IsInjective, NoneTwice
<1> QED
  BY <1>1, <1>3, <1>4, FS_Injection

LEMMA WithoutFacts ==
    ASSUME CacheInv, NEW ks
    PROVE  /\ WithoutKeys(ks) \in Seq(StoredEntry) /\ OnePerKey(WithoutKeys(ks))
           /\ Len(WithoutKeys(ks)) <= Len(entries) /\ KeysOf(WithoutKeys(ks)) = EntryKeys \ ks
<1> DEFINE I == {i \in DOMAIN entries : entries[i].key \notin ks}
           t == Picked(entries, I)
<1>1. t = WithoutKeys(ks)
  BY DEF WithoutKeys
<1>2. entries \in Seq(StoredEntry) /\ OnePerKey(entries)
  BY DEF CacheInv
<1>3. I \in SUBSET DOMAIN entries /\ \A i \in DOMAIN entries : i \in I <=> entries[i].key \notin ks
  OBVIOUS
<1> HIDE DEF I
<1>4. t \in Seq(StoredEntry) /\ Len(t) <= Len(entries)
  BY <1>2, <1>3, PickedFacts
<1>5. PICK at \in [1..Len(t) -> I] :
         /\ \A i, j \in 1..Len(t) : at[i] = at[j] => i = j
         /\ \A x \in I : \E i \in 1..Len(t) : at[i] = x
         /\ \A i \in 1..Len(t) : t[i] = entries[at[i]]
  BY <1>2, <1>3, PickedFacts
<1> HIDE DEF t
<1>6. DOMAIN t = 1..Len(t)
  BY <1>4
<1>7. OnePerKey(t)
  BY <1>2, <1>3, <1>5, <1>6 DEF OnePerKey
<1>8. KeysOf(t) = EntryKeys \ ks
  BY <1>3, <1>5, <1>6 DEF KeysOf, EntryKeys
<1> QED
  BY <1>1, <1>4, <1>7, <1>8

LEMMA RememberFacts ==
    ASSUME NEW B, IsFiniteSet(B), NEW store \in Seq(B), NoneTwice(store), Len(store) <= MaxEntries, NEW k
    PROVE  /\ Remember(store, k) \in Seq(B \cup {k}) /\ NoneTwice(Remember(store, k))
           /\ Len(Remember(store, k)) <= MaxEntries
           /\ ToSet(Remember(store, k)) \subseteq ToSet(store) \cup {k}
           /\ Cardinality(B \cup {k}) <= MaxEntries => ToSet(store) \cup {k} \subseteq ToSet(Remember(store, k))
<1> DEFINE I == {i \in DOMAIN store : store[i] # k}
           t == Picked(store, I)
           s == Append(t, k)
<1>1. I \in SUBSET DOMAIN store /\ \A i \in DOMAIN store : i \in I <=> store[i] # k
  OBVIOUS
<1>2. Remember(store, k) = IF Len(s) > MaxEntries THEN Tail(s) ELSE s
  BY DEF Remember
<1> HIDE DEF I
<1>3. t \in Seq(B) /\ Len(t) <= Len(store)
  BY <1>1, PickedFacts
<1>4. PICK at \in [1..Len(t) -> I] :
         /\ \A i, j \in 1..Len(t) : at[i] = at[j] => i = j
         /\ \A x \in I : \E i \in 1..Len(t) : at[i] = x
         /\ \A i \in 1..Len(t) : t[i] = store[at[i]]
  BY <1>1, PickedFacts
<1> HIDE DEF t
<1>5. DOMAIN t = 1..Len(t) /\ Len(t) \in Nat
  BY <1>3
<1>6. NoneTwice(t) /\ \A i \in 1..Len(t) : t[i] # k
  BY <1>1, <1>4, <1>5 DEF NoneTwice
<1>7. ToSet(t) = ToSet(store) \ {k}
  BY <1>1, <1>4, <1>5 DEF ToSet
<1>8. t \in Seq(B \cup {k})
  BY <1>3
<1>9. /\ s \in Seq(B \cup {k}) /\ Len(s) = Len(t) + 1 /\ DOMAIN s = 1..(Len(t) + 1)
      /\ \A i \in 1..Len(t) : s[i] = t[i]
      /\ s[Len(t) + 1] = k
  BY <1>5, <1>8
<1> HIDE DEF s
<1>10. NoneTwice(s)
  <2> SUFFICES ASSUME NEW i \in DOMAIN s, NEW j \in DOMAIN s, s[i] = s[j] PROVE i = j
    BY DEF NoneTwice
  <2>1. (i \in 1..Len(t) \/ i = Len(t) + 1) /\ (j \in 1..Len(t) \/ j = Len(t) + 1)
    BY <1>5, <1>9
  <2> QED
    BY <1>5, <1>6, <1>9, <2>1 DEF NoneTwice
<1>11. ToSet(s) = ToSet(store) \cup {k}
  <2>1. \A i \in DOMAIN s : i \in 1..Len(t) \/ i = Len(t) + 1
    BY <1>5, <1>9
  <2>2. 1..Len(t) \subseteq DOMAIN s /\ Len(t) + 1 \in DOMAIN s
    BY <1>5, <1>9
  <2>3. ToSet(s) \subseteq ToSet(t) \cup {k}
    BY <1>5, <1>9, <2>1 DEF ToSet
  <2>4. ToSet(t) \subseteq ToSet(s) /\ k \in ToSet(s)
    BY <1>5, <1>9, <2>2 DEF ToSet
  <2>5. ToSet(t) \cup {k} = ToSet(store) \cup {k}
    BY <1>7
  <2> HIDE DEF t
  <2> QED
    BY <2>3, <2>4, <2>5
<1>12. Cardinality(B \cup {k}) <= MaxEntries => ~(Len(s) > MaxEntries)
  <2>1. IsFiniteSet(B \cup {k})
    BY FS_AddElement
  <2>2. Len(s) <= Cardinality(B \cup {k})
    BY <1>9, <1>10, <2>1, LengthIsBound
  <2>3. Cardinality(B \cup {k}) \in Nat /\ MaxEntries \in Nat /\ Len(s) \in Nat
    BY <1>5, <1>9, <2>1, FS_CardinalityType, CacheAssumption
  <2> QED
    BY <2>2, <2>3
<1>13. CASE ~(Len(s) > MaxEntries)
  <2>1. Len(s) <= MaxEntries
    BY <1>5, <1>9, <1>13, CacheAssumption
  <2> QED
    BY <1>2, <1>9, <1>10, <1>11, <1>13, <2>1
<1>14. CASE Len(s) > MaxEntries
  <2>1. PICK r : r = Tail(s)
    OBVIOUS
  <2>2. r \in Seq(B \cup {k}) /\ Len(r) = Len(t) /\ DOMAIN r = 1..Len(t) /\ \A i \in 1..Len(t) : r[i] = s[i + 1]
    BY <1>5, <1>9, <2>1
  <2>3. \A i \in 1..Len(t) : i + 1 \in DOMAIN s
    BY <1>5, <1>9
  <2>4. NoneTwice(r)
    <3> SUFFICES ASSUME NEW i \in DOMAIN r, NEW j \in DOMAIN r, r[i] = r[j] PROVE i = j
      BY DEF NoneTwice
    <3>1. i + 1 = j + 1
      BY <1>10, <2>2, <2>3 DEF NoneTwice
    <3> QED
      BY <1>5, <2>2, <3>1
  <2>5. ToSet(r) \subseteq ToSet(s)
    BY <2>2, <2>3 DEF ToSet
  <2>6. Len(r) <= MaxEntries
    BY <1>3, <1>5, <2>2, CacheAssumption
  <2> QED
    BY <1>2, <1>11, <1>12, <1>14, <2>1, <2>2, <2>4, <2>5, <2>6
<1> QED
  BY <1>13, <1>14

LEMMA CacheIsSafe == CacheInv => CacheTypeOK
<1> SUFFICES ASSUME CacheInv PROVE Cardinality(EntryKeys) = Len(entries)
  BY DEF CacheInv, Blocking, CacheTypeOK
<1> QED
  BY LengthIsKeys DEF CacheInv, EntryKeys, KeysOf

----------------------------------------------------------------------------
(* The calls into the cache *)

LEMMA ActivateKeeps == ASSUME CacheInv, NEW g \in Generation, ActivateGeneration(g) PROVE CacheInv'
<1>1. CASE UNCHANGED cacheVars
  BY <1>1 DEF CacheInv, cacheVars, Blocking, EntriesAreAdmissible, RevokedIsGone, BlockIsRemembered, EntryKeys
<1>2. CASE ClearGeneration(g)
  <2>1. /\ active' = g /\ entries' = <<>> /\ quarantined' = <<>> /\ disabled' = <<>>
        /\ banned' = {} /\ revoked' = {}
    BY <1>2 DEF ClearGeneration
  <2>2. EntryKeys' = {}
    BY <2>1 DEF EntryKeys
  <2>3. MaxEntries \in Nat \ {0} /\ IsFiniteSet({})
    BY CacheAssumption, FS_EmptySet
  <2>4. Blocking(<<>>)'
    BY <2>3 DEF Blocking, NoneTwice
  <2>5. entries' \in Seq(StoredEntry) /\ OnePerKey(entries') /\ Len(entries') <= MaxEntries
    BY <2>1, <2>3 DEF OnePerKey
  <2> QED
    BY <2>1, <2>2, <2>3, <2>4, <2>5 DEF CacheInv, EntriesAreAdmissible, RevokedIsGone, BlockIsRemembered, Blocking
<1> QED
  BY <1>1, <1>2 DEF ActivateGeneration

(* Entries go, and nothing is blocked. *)
LEMMA RevokingKeeps ==
    ASSUME CacheInv, NEW ks, entries' = WithoutKeys(ks), revoked' \cap (EntryKeys \ ks) = {},
           UNCHANGED <<active, quarantined, disabled, banned>>
    PROVE  CacheInv'
<1>1. /\ entries' \in Seq(StoredEntry) /\ OnePerKey(entries') /\ Len(entries') <= Len(entries)
      /\ EntryKeys' = EntryKeys \ ks
  BY WithoutFacts DEF EntryKeys, KeysOf
<1>2. Len(entries) \in Nat /\ Len(entries') \in Nat /\ MaxEntries \in Nat
  BY <1>1, CacheAssumption DEF CacheInv
<1>3. Len(entries') <= MaxEntries
  BY <1>1, <1>2 DEF CacheInv
<1>4. Blocking(quarantined)' /\ Blocking(disabled)' /\ BlockIsRemembered'
  BY DEF CacheInv, Blocking, BlockIsRemembered
<1> QED
  BY <1>1, <1>3, <1>4 DEF CacheInv, EntriesAreAdmissible, RevokedIsGone

(* A key is blocked, by a quarantine or for a regression. *)
LEMMA BlockingKeeps ==
    ASSUME CacheInv, NEW k, entries' = WithoutKeys({k}), active' = active,
           banned' = banned \cup {k}, revoked' = revoked \cup {k},
           \/ quarantined' = Remember(quarantined, k) /\ disabled' = disabled
           \/ disabled' = Remember(disabled, k) /\ quarantined' = quarantined
    PROVE  CacheInv'
<1>1. /\ entries' \in Seq(StoredEntry) /\ OnePerKey(entries') /\ Len(entries') <= Len(entries)
      /\ EntryKeys' = EntryKeys \ {k}
  BY WithoutFacts DEF EntryKeys, KeysOf
<1>2. Len(entries) \in Nat /\ Len(entries') \in Nat /\ MaxEntries \in Nat
  BY <1>1, CacheAssumption DEF CacheInv
<1>3. Len(entries') <= MaxEntries
  BY <1>1, <1>2 DEF CacheInv
<1>4. IsFiniteSet(banned) /\ IsFiniteSet(banned')
  BY FS_AddElement DEF CacheInv
<1>5. Cardinality(banned') <= MaxEntries => Cardinality(banned) <= MaxEntries
  <2>1. Cardinality(banned) <= Cardinality(banned') /\ Cardinality(banned) \in Nat /\ Cardinality(banned') \in Nat
    BY <1>4, FS_Subset, FS_CardinalityType
  <2> QED
    BY <1>2, <2>1
<1>6. ASSUME NEW s, NEW t, Blocking(s), t = Remember(s, k)
      PROVE  /\ t \in Seq(banned') /\ NoneTwice(t) /\ Len(t) <= MaxEntries
             /\ ToSet(t) \subseteq ToSet(s) \cup {k}
             /\ Cardinality(banned') <= MaxEntries => ToSet(s) \cup {k} \subseteq ToSet(t)
  BY <1>4, <1>6, RememberFacts DEF Blocking
<1>7. ASSUME NEW s, Blocking(s) PROVE s \in Seq(banned') /\ NoneTwice(s) /\ Len(s) <= MaxEntries
  BY <1>7 DEF Blocking
<1>8. Blocking(quarantined) /\ Blocking(disabled)
  BY DEF CacheInv
<1>9. CASE quarantined' = Remember(quarantined, k) /\ disabled' = disabled
  <2>1. /\ quarantined' \in Seq(banned') /\ NoneTwice(quarantined') /\ Len(quarantined') <= MaxEntries
        /\ ToSet(quarantined') \subseteq ToSet(quarantined) \cup {k}
        /\ Cardinality(banned') <= MaxEntries => ToSet(quarantined) \cup {k} \subseteq ToSet(quarantined')
    BY <1>6, <1>8, <1>9
  <2>2. disabled' \in Seq(banned') /\ NoneTwice(disabled') /\ Len(disabled') <= MaxEntries
    BY <1>7, <1>8, <1>9
  <2>3. BlockIsRemembered'
    BY <1>5, <1>9, <2>1 DEF CacheInv, BlockIsRemembered
  <2>4. EntriesAreAdmissible' /\ RevokedIsGone'
    BY <1>1, <1>9, <2>1 DEF CacheInv, EntriesAreAdmissible, RevokedIsGone
  <2> QED
    BY <1>1, <1>3, <1>4, <2>1, <2>2, <2>3, <2>4 DEF CacheInv, Blocking
<1>10. CASE disabled' = Remember(disabled, k) /\ quarantined' = quarantined
  <2>1. /\ disabled' \in Seq(banned') /\ NoneTwice(disabled') /\ Len(disabled') <= MaxEntries
        /\ ToSet(disabled') \subseteq ToSet(disabled) \cup {k}
        /\ Cardinality(banned') <= MaxEntries => ToSet(disabled) \cup {k} \subseteq ToSet(disabled')
    BY <1>6, <1>8, <1>10
  <2>2. quarantined' \in Seq(banned') /\ NoneTwice(quarantined') /\ Len(quarantined') <= MaxEntries
    BY <1>7, <1>8, <1>10
  <2>3. BlockIsRemembered'
    BY <1>5, <1>10, <2>1 DEF CacheInv, BlockIsRemembered
  <2>4. EntriesAreAdmissible' /\ RevokedIsGone'
    BY <1>1, <1>10, <2>1 DEF CacheInv, EntriesAreAdmissible, RevokedIsGone
  <2> QED
    BY <1>1, <1>3, <1>4, <2>1, <2>2, <2>3, <2>4 DEF CacheInv, Blocking
<1> QED
  BY <1>9, <1>10

LEMMA InvalidateKeepsCache == ASSUME CacheInv, NEW k, Invalidate(k) PROVE CacheInv'
<1>1. entries' = WithoutKeys({k}) /\ revoked' = revoked \cup {k} /\ UNCHANGED <<active, quarantined, disabled, banned>>
  BY DEF Invalidate
<1>2. revoked' \cap (EntryKeys \ {k}) = {}
  BY <1>1 DEF CacheInv, RevokedIsGone
<1> QED
  BY <1>1, <1>2, RevokingKeeps

LEMMA InvalidateDriftKeeps ==
    ASSUME CacheInv, NEW k, IsKey(k), NEW dims \in SUBSET Dimensions, InvalidateDrift(k, dims)
    PROVE  CacheInv'
<1> DEFINE ks == {key \in EntryKeys : Drifted(k, dims, key)}
<1>1. entries' = WithoutKeys(ks) /\ UNCHANGED <<active, quarantined, disabled, banned>>
  BY DEF InvalidateDrift
<1>2. ASSUME NEW key \in EntryKeys \ {k}, key.generation = k.generation,
             \A d \in Dimensions : key[d] # k[d] => d \in dims
      PROVE  key \in ks
  <2>1. IsKey(key)
    BY EntriesHaveKeys DEF EntryKeys, CacheInv
  <2>2. PICK d \in Dimensions : key[d] # k[d]
    BY <1>2, <2>1 DEF IsKey
  <2> QED
    BY <1>2, <2>2 DEF Drifted
<1>3. revoked' \cap (EntryKeys \ ks) = {}
  BY <1>2 DEF CacheInv, RevokedIsGone, InvalidateDrift
<1> HIDE DEF ks
<1> QED
  BY <1>1, <1>3, RevokingKeeps

LEMMA EntryOfKey ==
    ASSUME CacheInv, NEW k \in EntryKeys
    PROVE  EntryOf(k) \in StoredEntry /\ EntryOf(k).key = k
<1>1. \E i \in DOMAIN entries : entries[i].key = k
  BY DEF EntryKeys
<1>2. \A i \in DOMAIN entries : entries[i] \in StoredEntry
  BY DEF CacheInv
<1> QED
  BY <1>1, <1>2 DEF EntryOf

(* A list of entries, and one more under another key. *)
LEMMA OneMore ==
    ASSUME NEW t \in Seq(StoredEntry), OnePerKey(t), NEW x \in StoredEntry, x.key \notin KeysOf(t)
    PROVE  /\ Append(t, x) \in Seq(StoredEntry) /\ OnePerKey(Append(t, x))
           /\ KeysOf(Append(t, x)) = KeysOf(t) \cup {x.key} /\ Len(Append(t, x)) = Len(t) + 1
<1>1. PICK s : s = Append(t, x)
  OBVIOUS
<1>2. Len(t) \in Nat /\ DOMAIN t = 1..Len(t)
  OBVIOUS
<1>3. /\ s \in Seq(StoredEntry) /\ Len(s) = Len(t) + 1 /\ DOMAIN s = 1..(Len(t) + 1)
      /\ \A i \in 1..Len(t) : s[i] = t[i]
      /\ s[Len(t) + 1] = x
  BY <1>1, <1>2
<1>4. /\ \A i \in DOMAIN s : i \in 1..Len(t) \/ i = Len(t) + 1
      /\ 1..Len(t) \subseteq DOMAIN s /\ Len(t) + 1 \in DOMAIN s
  BY <1>2, <1>3
<1>5. OnePerKey(s)
  <2> SUFFICES ASSUME NEW i \in DOMAIN s, NEW j \in DOMAIN s, s[i].key = s[j].key PROVE i = j
    BY DEF OnePerKey
  <2>1. \A h \in 1..Len(t) : t[h].key # x.key
    BY <1>2 DEF KeysOf
  <2> QED
    BY <1>2, <1>3, <1>4, <2>1 DEF OnePerKey
<1>6. KeysOf(s) \subseteq KeysOf(t) \cup {x.key}
  BY <1>2, <1>3, <1>4 DEF KeysOf
<1>7. KeysOf(t) \subseteq KeysOf(s) /\ x.key \in KeysOf(s)
  BY <1>2, <1>3, <1>4 DEF KeysOf
<1> QED
  BY <1>1, <1>3, <1>5, <1>6, <1>7

LEMMA OneLess ==
    ASSUME NEW s \in Seq(StoredEntry), OnePerKey(s), s # <<>>
    PROVE  /\ Tail(s) \in Seq(StoredEntry) /\ OnePerKey(Tail(s)) /\ KeysOf(Tail(s)) \subseteq KeysOf(s)
           /\ Len(Tail(s)) = Len(s) - 1
<1>1. PICK r : r = Tail(s)
  OBVIOUS
<1>2. Len(s) \in Nat /\ Len(s) # 0 /\ DOMAIN s = 1..Len(s)
  OBVIOUS
<1>3. r \in Seq(StoredEntry) /\ Len(r) = Len(s) - 1 /\ DOMAIN r = 1..(Len(s) - 1) /\ \A i \in 1..(Len(s) - 1) : r[i] = s[i + 1]
  BY <1>1, <1>2
<1>4. \A i \in DOMAIN r : i \in Nat /\ i + 1 \in DOMAIN s /\ r[i] = s[i + 1]
  BY <1>2, <1>3
<1>5. OnePerKey(r)
  <2> SUFFICES ASSUME NEW i \in DOMAIN r, NEW j \in DOMAIN r, r[i].key = r[j].key PROVE i = j
    BY DEF OnePerKey
  <2>1. i + 1 = j + 1
    BY <1>4 DEF OnePerKey
  <2> QED
    BY <1>4, <2>1
<1>6. KeysOf(r) \subseteq KeysOf(s)
  BY <1>4 DEF KeysOf
<1> QED
  BY <1>1, <1>3, <1>5, <1>6

LEMMA LookupKeeps ==
    ASSUME CacheInv, NEW k, NEW observed, Lookup(k, observed)
    PROVE  CacheInv'
<1>1. PICK outcome : outcome = LookupOutcome(k, observed)
  OBVIOUS
<1>2. CASE outcome = "hit"
  <2>1. k \in EntryKeys
    BY <1>1, <1>2 DEF LookupOutcome
  <2>2. EntryOf(k) \in StoredEntry /\ EntryOf(k).key = k
    BY <2>1, EntryOfKey
  <2>3. /\ entries' = Append(WithoutKeys({k}), EntryOf(k))
        /\ UNCHANGED <<active, quarantined, disabled, banned, revoked>>
    BY <1>1, <1>2 DEF Lookup
  <2>4. /\ entries' \in Seq(StoredEntry) /\ OnePerKey(entries')
        /\ KeysOf(entries') = (EntryKeys \ {k}) \cup {k}
    BY <2>2, <2>3, WithoutFacts, OneMore
  <2>5. EntryKeys' = EntryKeys
    BY <2>1, <2>4 DEF KeysOf, EntryKeys
  <2>6. Len(entries') = Len(entries)
    BY <2>4, <2>5, LengthIsKeys DEF CacheInv, EntryKeys, KeysOf
  <2> QED
    BY <2>3, <2>4, <2>5, <2>6
       DEF CacheInv, Blocking, EntriesAreAdmissible, RevokedIsGone, BlockIsRemembered
<1>3. CASE outcome = "contradiction"
  <2>1. /\ entries' = WithoutKeys({k}) /\ quarantined' = Remember(quarantined, k)
        /\ banned' = banned \cup {k} /\ revoked' = revoked \cup {k} /\ active' = active /\ disabled' = disabled
    BY <1>1, <1>3 DEF Lookup
  <2> QED
    BY <2>1, BlockingKeeps
<1>4. CASE outcome \notin {"hit", "contradiction"}
  <2>1. UNCHANGED cacheVars
    BY <1>1, <1>4 DEF Lookup, cacheVars
  <2> QED
    BY <2>1 DEF CacheInv, cacheVars, Blocking, EntriesAreAdmissible, RevokedIsGone, BlockIsRemembered, EntryKeys
<1> QED
  BY <1>2, <1>3, <1>4

LEMMA PutKeeps ==
    ASSUME CacheInv, NEW x \in StoredEntry, Put(x.key, x.decision, x.expected)
    PROVE  CacheInv'
<1>1. PICK k, g : k = x.key /\ g = k.generation
  OBVIOUS
<1>2. g \in Generation /\ x = [key |-> k, decision |-> x.decision, expected |-> x.expected]
  BY <1>1, EntriesHaveKeys DEF StoredEntry
<1>3. PICK same \in BOOLEAN : same = (active \in {g, NoGeneration})
  <2>1. (active \in {g, NoGeneration}) \in BOOLEAN
    OBVIOUS
  <2> QED
    BY <2>1, Zenon
<1>4. PICK blocked \in BOOLEAN : blocked = (same /\ k \in ToSet(disabled) \cup ToSet(quarantined))
  OBVIOUS
<1>5. PICK kept : kept = IF same THEN WithoutKeys({k}) ELSE <<>>
  OBVIOUS
<1>6. PICK all : all = Append(kept, x)
  OBVIOUS
<1>7. /\ active' = g
      /\ entries' = IF blocked THEN entries ELSE IF Len(all) > MaxEntries THEN Tail(all) ELSE all
      /\ quarantined' = IF same THEN quarantined ELSE <<>>
      /\ disabled' = IF same THEN disabled ELSE <<>>
      /\ banned' = IF same THEN banned ELSE {}
      /\ revoked' = IF blocked THEN revoked ELSE IF same THEN revoked \ {k} ELSE {}
  BY <1>1, <1>2, <1>3, <1>4, <1>5, <1>6 DEF Put
<1>8. MaxEntries \in Nat \ {0} /\ NoGeneration \notin Generation
  BY CacheAssumption
<1>9. Blocking(quarantined)' /\ Blocking(disabled)' /\ BlockIsRemembered' /\ IsFiniteSet(banned')
  <2>1. CASE same
    BY <1>7, <2>1 DEF CacheInv, Blocking, BlockIsRemembered
  <2>2. CASE ~same
    <3>1. quarantined' = <<>> /\ disabled' = <<>> /\ banned' = {}
      BY <1>7, <2>2
    <3> QED
      BY <1>8, <3>1, FS_EmptySet DEF Blocking, NoneTwice, BlockIsRemembered
  <2> QED
    BY <2>1, <2>2
<1>10. same => \A j \in EntryKeys : j.generation = g
  <2> SUFFICES ASSUME same, NEW j \in EntryKeys PROVE j.generation = g
    OBVIOUS
  <2>1. j.generation \in Generation /\ j.generation = active
    BY EntriesHaveKeys DEF EntryKeys, CacheInv, EntriesAreAdmissible
  <2> QED
    BY <1>3, <1>8, <2>1
<1>11. CASE blocked
  <2>1. same /\ entries' = entries /\ revoked' = revoked /\ quarantined' = quarantined /\ disabled' = disabled
    BY <1>4, <1>7, <1>11
  <2>2. EntriesAreAdmissible' /\ RevokedIsGone'
    BY <1>7, <1>10, <2>1 DEF EntriesAreAdmissible, RevokedIsGone, EntryKeys, CacheInv
  <2> QED
    BY <1>2, <1>7, <1>9, <2>1, <2>2 DEF CacheInv
<1>12. CASE ~blocked
  <2>1. /\ kept \in Seq(StoredEntry) /\ OnePerKey(kept) /\ Len(kept) <= MaxEntries
        /\ KeysOf(kept) = IF same THEN EntryKeys \ {k} ELSE {}
    <3>1. CASE same
      <4>1. Len(entries) \in Nat /\ Len(entries) <= MaxEntries
        BY DEF CacheInv
      <4>2. kept = WithoutKeys({k}) /\ Len(kept) \in Nat
        BY <1>5, <3>1, WithoutFacts
      <4> QED
        BY <1>8, <3>1, <4>1, <4>2, WithoutFacts
    <3>2. CASE ~same
      <4>1. kept = <<>>
        BY <1>5, <3>2
      <4> QED
        BY <1>8, <3>2, <4>1 DEF OnePerKey, KeysOf
    <3> QED
      BY <3>1, <3>2
  <2>2. k \notin KeysOf(kept)
    BY <2>1
  <2>3. /\ all \in Seq(StoredEntry) /\ OnePerKey(all) /\ KeysOf(all) = KeysOf(kept) \cup {k}
        /\ Len(all) = Len(kept) + 1
    BY <1>1, <1>6, <2>1, <2>2, OneMore
  <2>4. /\ entries' \in Seq(StoredEntry) /\ OnePerKey(entries') /\ KeysOf(entries') \subseteq KeysOf(kept) \cup {k}
        /\ Len(entries') <= MaxEntries
    <3>1. CASE Len(all) > MaxEntries
      <4>1. entries' = Tail(all) /\ all # <<>> /\ Len(kept) \in Nat
        BY <1>7, <1>8, <1>12, <2>1, <2>3, <3>1
      <4>2. /\ entries' \in Seq(StoredEntry) /\ OnePerKey(entries') /\ KeysOf(entries') \subseteq KeysOf(all)
            /\ Len(entries') = Len(all) - 1
        BY <2>3, <4>1, OneLess
      <4>3. Len(entries') <= MaxEntries
        BY <2>1, <2>3, <4>1, <4>2
      <4> QED
        BY <2>3, <4>2, <4>3
    <3>2. CASE ~(Len(all) > MaxEntries)
      <4>1. entries' = all /\ Len(all) \in Nat
        BY <1>7, <1>12, <2>3, <3>2
      <4> QED
        BY <1>8, <2>3, <3>2, <4>1
    <3> QED
      BY <3>1, <3>2
  <2>5. EntryKeys' \subseteq KeysOf(kept) \cup {k}
    BY <2>4 DEF KeysOf, EntryKeys
  <2>6. EntriesAreAdmissible'
    <3> SUFFICES ASSUME NEW j \in EntryKeys'
                 PROVE  j.generation = g /\ j \notin ToSet(quarantined') \cup ToSet(disabled')
      BY <1>7 DEF EntriesAreAdmissible
    <3>1. CASE same
      BY <1>1, <1>4, <1>7, <1>10, <1>12, <2>1, <2>5, <3>1 DEF CacheInv, EntriesAreAdmissible
    <3>2. CASE ~same
      <4>1. j = k /\ quarantined' = <<>> /\ disabled' = <<>>
        BY <1>7, <2>1, <2>5, <3>2
      <4> QED
        BY <1>1, <4>1 DEF ToSet
    <3> QED
      BY <3>1, <3>2
  <2>7. RevokedIsGone'
    <3>1. CASE same
      BY <1>7, <1>12, <2>1, <2>5, <3>1 DEF CacheInv, RevokedIsGone
    <3>2. CASE ~same
      BY <1>7, <1>12, <3>2 DEF RevokedIsGone
    <3> QED
      BY <3>1, <3>2
  <2> QED
    BY <1>2, <1>7, <1>9, <2>4, <2>6, <2>7 DEF CacheInv
<1> QED
  BY <1>11, <1>12

----------------------------------------------------------------------------
(* What an enabled decision means *)

LEMMA BelowMeans ==
    ASSUME NEW a \in Int, NEW b \in Int, NEW c \in Int, NEW p \in Int, NEW q \in Int, NEW r \in Int
    PROVE  Below(<<a, b, c>>, <<p, q, r>>) <=> (a < p \/ (a = p /\ b < q) \/ (a = p /\ b = q /\ c < r))
<1>1. 1..(1 - 1) = {} /\ 1..(2 - 1) = {1} /\ 1..(3 - 1) = {1, 2} /\ 1..3 = {1, 2, 3}
  OBVIOUS
<1>2. PICK x, y : x = <<a, b, c>> /\ y = <<p, q, r>>
  OBVIOUS
<1>3. x[1] = a /\ x[2] = b /\ x[3] = c /\ y[1] = p /\ y[2] = q /\ y[3] = r
  BY <1>2
<1>4. Below(x, y) <=> \/ x[1] < y[1]
                      \/ x[2] < y[2] /\ x[1] = y[1]
                      \/ x[3] < y[3] /\ x[1] = y[1] /\ x[2] = y[2]
  BY <1>1 DEF Below
<1> QED
  BY <1>2, <1>3, <1>4

LEMMA RanksAreTriples ==
    ASSUME NEW caps \in [Strategies -> Capability], NEW s \in Strategies
    PROVE  \E a, b, c \in Int : AutoRank(s, caps) = <<a, b, c>>
<1>1. caps[s].speedup \in Int
  BY DEF Capability, NoValue
<1>2. AutoPreference[s] \in Int
  BY DEF AutoPreference, Strategies
<1>3. PICK n \in Int : n = caps[s].speedup
  BY <1>1
<1>4. PICK m \in Int : m = 0 - AutoPreference[s]
  BY <1>2
<1>5. AutoRank(s, caps) = <<IF n = NoValue THEN 0 ELSE 1, IF n = NoValue THEN 0 ELSE n, m>>
  BY <1>3, <1>4 DEF AutoRank
<1> QED
  BY <1>5

LEMMA BestExists ==
    ASSUME NEW caps \in [Strategies -> Capability], NEW U \in SUBSET Strategies, U # {}
    PROVE  \E s \in U : \A t \in U : ~Below(AutoRank(s, caps), AutoRank(t, caps))
<1> DEFINE B(s, t) == Below(AutoRank(s, caps), AutoRank(t, caps))
<1>1. \A s \in Strategies : ~B(s, s)
  <2> SUFFICES ASSUME NEW s \in Strategies PROVE ~B(s, s)
    OBVIOUS
  <2>1. PICK a, b, c \in Int : AutoRank(s, caps) = <<a, b, c>>
    BY RanksAreTriples
  <2> QED
    BY <2>1, BelowMeans
<1>2. \A s, t, u \in Strategies : B(s, t) /\ B(t, u) => B(s, u)
  <2> SUFFICES ASSUME NEW s \in Strategies, NEW t \in Strategies, NEW u \in Strategies, B(s, t), B(t, u)
               PROVE  B(s, u)
    OBVIOUS
  <2>1. PICK a, b, c \in Int : AutoRank(s, caps) = <<a, b, c>>
    BY RanksAreTriples
  <2>2. PICK d, e, f \in Int : AutoRank(t, caps) = <<d, e, f>>
    BY RanksAreTriples
  <2>3. PICK g, h, i \in Int : AutoRank(u, caps) = <<g, h, i>>
    BY RanksAreTriples
  <2>4. a < d \/ (a = d /\ b < e) \/ (a = d /\ b = e /\ c < f)
    BY <2>1, <2>2, BelowMeans
  <2>5. d < g \/ (d = g /\ e < h) \/ (d = g /\ e = h /\ f < i)
    BY <2>2, <2>3, BelowMeans
  <2>6. a < g \/ (a = g /\ b < h) \/ (a = g /\ b = h /\ c < i)
    BY <2>4, <2>5
  <2> QED
    BY <2>1, <2>3, <2>6, BelowMeans
<1> HIDE DEF B
<1>3. SUFFICES ASSUME \A s \in U : \E t \in U : B(s, t) PROVE FALSE
  BY DEF B
<1>4. PICK s \in U : TRUE
  OBVIOUS
<1>5. PICK t \in U : B(s, t)
  BY <1>3
<1>6. PICK u \in U : B(t, u)
  BY <1>3
<1>7. PICK v \in U : B(u, v)
  BY <1>3
<1>8. PICK w \in U : B(v, w)
  BY <1>3
<1>9. B(s, u) /\ B(s, v) /\ B(s, w) /\ B(t, v) /\ B(t, w) /\ B(u, w)
  BY <1>2, <1>5, <1>6, <1>7, <1>8
<1>10. s # t /\ s # u /\ s # v /\ s # w /\ t # u /\ t # v /\ t # w /\ u # v /\ u # w /\ v # w
  BY <1>1, <1>5, <1>6, <1>7, <1>8, <1>9
<1> QED
  BY <1>10 DEF Strategies

LEMMA SelectedIsUsable ==
    ASSUME NEW c \in Configurations, NEW caps \in [Strategies -> Capability], Select(c, caps) # "baseline"
    PROVE  Select(c, caps) \in Strategies /\ IsUsable(caps[Select(c, caps)])
<1>1. CASE c = "off"
  BY <1>1 DEF Select
<1>2. CASE c \in Strategies
  BY <1>2 DEF Select, Strategies
<1>3. CASE c \notin Strategies /\ c # "off"
  <2> DEFINE U == UsableStrategies(caps)
  <2>1. U # {} /\ Select(c, caps) = CHOOSE s \in U : \A t \in U : ~Below(AutoRank(s, caps), AutoRank(t, caps))
    BY <1>3 DEF Select
  <2>2. U \subseteq Strategies
    BY DEF UsableStrategies
  <2>3. \E s \in U : \A t \in U : ~Below(AutoRank(s, caps), AutoRank(t, caps))
    BY <2>1, <2>2, BestExists
  <2> HIDE DEF U
  <2>4. Select(c, caps) \in U
    BY <2>1, <2>3
  <2> QED
    BY <2>4 DEF U, UsableStrategies
<1> QED
  BY <1>1, <1>2, <1>3

LEMMA CapsAreTyped == ASSUME NEW r, IsRequest(r) PROVE EffectiveCaps(r) \in [Strategies -> Capability]
<1> DEFINE none == [s \in Strategies |-> Unsupported]
<1>1. none \in [Strategies -> Capability]
  BY DEF Unsupported, Capability, NoValue
<1>2. CASE r.caps # NoKey
  BY <1>2 DEF IsRequest, EffectiveCaps
<1>3. CASE r.caps = NoKey /\ r.profile = NoDecision
  BY <1>1, <1>3 DEF EffectiveCaps
<1>4. CASE r.caps = NoKey /\ r.profile # NoDecision
  <2>1. r.profile.throughput \in Nat \cup {NoValue}
    BY <1>4 DEF IsRequest, Profile
  <2>2. PICK c : c = [supported |-> r.profile.throughput > 100, speedup |-> r.profile.throughput]
    OBVIOUS
  <2>3. (r.profile.throughput > 100) \in BOOLEAN
    OBVIOUS
  <2>4. c \in Capability
    BY <2>1, <2>2, <2>3 DEF Capability
  <2>5. EffectiveCaps(r) = [none EXCEPT !["draft"] = c]
    BY <1>4, <2>2 DEF EffectiveCaps
  <2> HIDE DEF none
  <2> QED
    BY <1>1, <2>4, <2>5
<1> QED
  BY <1>2, <1>3, <1>4

LEMMA SpeculativeMeans ==
    ASSUME NEW in, IsInputs(in), NEW acceptance, Speculative(in, acceptance, MinMetrics, MinConfidence)
    PROVE  /\ Cardinality(Used(in)) >= MinMetrics
           /\ \A n \in Used(in) : in.metric[n].pressure < 80
           /\ \A n \in Metrics : in.metric[n].state # "contradictory"
<1>1. /\ ContradictoryMetrics(in) = {}
      /\ ~(Cardinality(Used(in)) < MinMetrics)
      /\ {n \in Used(in) : in.metric[n].pressure >= HighPressure} = {}
  BY DEF Speculative, Verdict
<1>2. Cardinality(Used(in)) \in Nat
  <2>1. Used(in) \subseteq Metrics
    BY DEF Used
  <2>2. IsFiniteSet(Metrics)
    <3>1. IsFiniteSet({"bandwidth"})
      BY FS_Singleton
    <3>2. IsFiniteSet({"bandwidth"} \cup {"cache"})
      BY <3>1, FS_AddElement
    <3>3. IsFiniteSet({"bandwidth"} \cup {"cache"} \cup {"transfer"})
      BY <3>2, FS_AddElement
    <3>4. IsFiniteSet({"bandwidth"} \cup {"cache"} \cup {"transfer"} \cup {"headroom"})
      BY <3>3, FS_AddElement
    <3>5. IsFiniteSet({"bandwidth"} \cup {"cache"} \cup {"transfer"} \cup {"headroom"} \cup {"kv"})
      BY <3>4, FS_AddElement
    <3>6. IsFiniteSet({"bandwidth"} \cup {"cache"} \cup {"transfer"} \cup {"headroom"} \cup {"kv"} \cup {"concurrency"})
      BY <3>5, FS_AddElement
    <3>7. IsFiniteSet({"bandwidth"} \cup {"cache"} \cup {"transfer"} \cup {"headroom"} \cup {"kv"} \cup {"concurrency"}
                      \cup {"throughput"})
      BY <3>6, FS_AddElement
    <3>8. Metrics = {"bandwidth"} \cup {"cache"} \cup {"transfer"} \cup {"headroom"} \cup {"kv"} \cup {"concurrency"}
                    \cup {"throughput"}
      BY DEF Metrics
    <3> QED
      BY <3>7, <3>8
  <2> QED
    BY <2>1, <2>2, FS_Subset, FS_CardinalityType
<1>3. \A n \in Used(in) : in.metric[n].pressure \in Int
  BY DEF Used, IsInputs, Metric, Fraction
<1> QED
  BY <1>1, <1>2, <1>3 DEF MinMetrics, HighPressure, ContradictoryMetrics

----------------------------------------------------------------------------
(* The engines *)

Task == [pc : {"activate", "drift", "baseline", "guard", "lookup", "compute"}, request : Requests]

(* A strategy a request may be answered with. *)
SafeFor(q, s) ==
    /\ RequestSpeculative[q] /\ RequestObjection[q] = "none"
    /\ s \in Strategies /\ IsUsable(EffectiveCaps(Telemetry[q])[s])

Answer(d) ==
    /\ d.request \in Requests
    /\ d.plan.enabled => SafeFor(d.request, d.plan.selected) /\ (d.hit \/ ~Pressed(Telemetry[d.request]))

(* A decision at the lookup passed the guard, and what was returned is safe. *)
PolicyInv ==
    /\ CacheInv
    /\ calls \in [Engine -> {NoCall} \cup Task]
    /\ \A e \in Engine : At(e, "lookup") => RequestSpeculative[R(e)] /\ RequestObjection[R(e)] = "none"
    /\ decided = [e \in Engine |-> decided[e]]
    /\ \A e \in Engine : decided[e] # NoDecision => Answer(decided[e])
    /\ decisions \in 0..MaxDecisions /\ admin \in 0..MaxAdmin

(* A computed plan that speculates is safe for its request. *)
LEMMA PlanIsSafe ==
    ASSUME NEW e \in Engine, NEW q \in Requests, RequestPlan[e][q].enabled
    PROVE  SafeFor(q, RequestPlan[e][q].selected) /\ ~Pressed(Telemetry[q])
<1>1. PICK r : r = Telemetry[q]
  OBVIOUS
<1>2. IsRequest(r) /\ Configuration[e] \in Configurations
  BY <1>1, EngineAssumption
<1>3. RequestPlan[e][q] = Plan(e, r)
  BY <1>1 DEF RequestPlan
<1>4. Plan(e, r).selected = Selected(e, r) /\ Plan(e, r).enabled = (Selected(e, r) # "baseline")
  BY DEF Plan
<1>5. Selected(e, r) # "baseline"
  BY <1>3, <1>4
<1>6. /\ Spec_(r) /\ ProfileObjection(r) = "none" /\ ~Pressed(r)
      /\ Selected(e, r) = Select(Configuration[e], EffectiveCaps(r))
  BY <1>5 DEF Selected
<1>7. EffectiveCaps(r) \in [Strategies -> Capability]
  BY <1>2, CapsAreTyped
<1>8. Selected(e, r) \in Strategies /\ IsUsable(EffectiveCaps(r)[Selected(e, r)])
  BY <1>2, <1>5, <1>6, <1>7, SelectedIsUsable
<1>9. RequestSpeculative[q] = Spec_(r) /\ RequestObjection[q] = ProfileObjection(r)
  BY <1>1 DEF RequestSpeculative, RequestObjection
<1> QED
  BY <1>1, <1>3, <1>4, <1>6, <1>8, <1>9 DEF SafeFor

(* A reused decision is: its entry was observed with the same capabilities. *)
LEMMA HitIsSafe ==
    ASSUME CacheInv, NEW q \in Requests, NEW k, RequestSpeculative[q], RequestObjection[q] = "none",
           LookupOutcome(k, RequestObserved[q]) = "hit"
    PROVE  EntryOf(k).decision.enabled => SafeFor(q, EntryOf(k).decision.selected)
<1>1. k \in EntryKeys /\ ~Contradicts(EntryOf(k).expected, RequestObserved[q])
  BY DEF LookupOutcome
<1>2. PICK d \in Engine, p \in Requests :
         EntryOf(k) = [key |-> RequestKey[p], decision |-> RequestPlan[d][p], expected |-> RequestObserved[p]]
         /\ RequestPlan[d][p].enabled
  BY <1>1, EntryOfKey DEF StoredEntry
<1>3. EntryOf(k).decision = RequestPlan[d][p] /\ EntryOf(k).expected = RequestObserved[p]
  BY <1>2
<1>4. PICK s : s = RequestPlan[d][p].selected
  OBVIOUS
<1>5. s \in Strategies /\ IsUsable(EffectiveCaps(Telemetry[p])[s])
  BY <1>2, <1>4, PlanIsSafe DEF SafeFor
<1>6. PICK t, u : t = Telemetry[p] /\ u = Telemetry[q]
  OBVIOUS
<1>7. RequestObserved[p] = Observations(t) /\ RequestObserved[q] = Observations(u)
  BY <1>6 DEF RequestObserved
<1>8. ASSUME NEW r
      PROVE  /\ "capability" \in DOMAIN Observations(r)
             /\ Observations(r)["capability"]
                 = [x \in Strategies |-> <<EffectiveCaps(r)[x].supported, IsUsable(EffectiveCaps(r)[x])>>]
  BY DEF Observations
<1>9. Observations(t)["capability"] = Observations(u)["capability"]
  <2>1. PICK o, w : o = Observations(t) /\ w = Observations(u)
    OBVIOUS
  <2>2. ~Contradicts(o, w)
    BY <1>1, <1>3, <1>7, <2>1, Zenon
  <2>3. "capability" \in DOMAIN o \cap DOMAIN w
    BY <1>8, <2>1, Zenon
  <2> QED
    BY <2>1, <2>2, <2>3, Zenon DEF Contradicts
<1>10. [x \in Strategies |-> <<EffectiveCaps(t)[x].supported, IsUsable(EffectiveCaps(t)[x])>>][s]
        = [x \in Strategies |-> <<EffectiveCaps(u)[x].supported, IsUsable(EffectiveCaps(u)[x])>>][s]
  BY <1>8, <1>9
<1>11. PICK a, b : a = IsUsable(EffectiveCaps(t)[s]) /\ b = IsUsable(EffectiveCaps(u)[s])
  OBVIOUS
<1>12. <<EffectiveCaps(t)[s].supported, a>> = <<EffectiveCaps(u)[s].supported, b>>
  BY <1>5, <1>10, <1>11
<1>13. a = b
  BY <1>12
<1>14. IsUsable(EffectiveCaps(u)[s])
  BY <1>5, <1>6, <1>11, <1>13
<1> QED
  BY <1>3, <1>4, <1>5, <1>6, <1>14 DEF SafeFor

LEMMA TaskMeans ==
    ASSUME PolicyInv, NEW e \in Engine, calls[e] # NoCall
    PROVE  calls[e] \in Task /\ R(e) \in Requests
BY DEF PolicyInv, Task, R

(* Every step of a decision but its last moves its engine on. *)
LEMMA GotoMeans ==
    ASSUME PolicyInv, NEW e \in Engine, calls[e] # NoCall, NEW p, Goto(e, p),
           p \in {"activate", "drift", "baseline", "guard", "lookup", "compute"}
    PROVE  /\ calls' \in [Engine -> {NoCall} \cup Task]
           /\ \A f \in Engine : At(f, "lookup")' => IF f = e THEN p = "lookup" ELSE At(f, "lookup")
           /\ \A f \in Engine : R(f)' = R(f)
<1>1. calls[e] \in Task /\ calls \in [Engine -> {NoCall} \cup Task]
  BY TaskMeans DEF PolicyInv
<1>2. PICK t : t = [pc |-> p, request |-> R(e)]
  OBVIOUS
<1>3. [calls[e] EXCEPT !.pc = p] = t
  BY <1>1, <1>2 DEF Task, R
<1>4. calls' = [calls EXCEPT ![e] = t]
  BY <1>1, <1>3 DEF Goto
<1>5. t \in Task
  BY <1>2, TaskMeans DEF Task
<1>6. \A f \in Engine : calls'[f] = IF f = e THEN t ELSE calls[f]
  BY <1>1, <1>4
<1>7. t.pc = p /\ t.request = R(e)
  BY <1>2
<1>8. ASSUME NEW f \in Engine, At(f, "lookup")' PROVE IF f = e THEN p = "lookup" ELSE At(f, "lookup")
  BY <1>6, <1>7, <1>8 DEF At
<1>9. ASSUME NEW f \in Engine PROVE R(f)' = R(f)
  BY <1>6, <1>7 DEF R
<1> QED
  BY <1>1, <1>4, <1>5, <1>8, <1>9

(* What an engine returns is stored with the request it answers. *)
LEMMA FinishKeeps ==
    ASSUME PolicyInv, NEW e \in Engine, calls[e] # NoCall, NEW plan, NEW hit, Finish(e, plan, hit),
           plan.enabled => SafeFor(R(e), plan.selected) /\ (hit \/ ~Pressed(Telemetry[R(e)])),
           CacheInv', UNCHANGED <<decisions, admin>>
    PROVE  PolicyInv'
<1>1. PICK d : d = [request |-> R(e), plan |-> plan, hit |-> hit, strategy |-> ContractStrategy(plan)]
  OBVIOUS
<1>2. d.request = R(e) /\ d.plan = plan /\ d.hit = hit
  BY <1>1
<1>3. decided' = [decided EXCEPT ![e] = d] /\ calls' = [calls EXCEPT ![e] = NoCall]
  BY <1>1 DEF Finish
<1>4. Answer(d)
  BY <1>2, TaskMeans DEF Answer
<1>5. /\ decided' = [f \in Engine |-> decided'[f]]
      /\ \A f \in Engine : decided'[f] = IF f = e THEN d ELSE decided[f]
  BY <1>3 DEF PolicyInv
<1>6. \A f \in Engine : calls'[f] = IF f = e THEN NoCall ELSE calls[f]
  BY <1>3 DEF PolicyInv
<1>7. calls' \in [Engine -> {NoCall} \cup Task]
  BY <1>3 DEF PolicyInv
<1>8. ASSUME NEW f \in Engine, At(f, "lookup")'
      PROVE  RequestSpeculative[R(f)]' /\ (RequestObjection[R(f)] = "none")'
  <2>1. At(f, "lookup") /\ calls'[f] = calls[f]
    BY <1>6, <1>8 DEF At
  <2> QED
    BY <2>1 DEF PolicyInv, R
<1>9. \A f \in Engine : decided'[f] # NoDecision => Answer(decided'[f])
  BY <1>4, <1>5 DEF PolicyInv
<1>10. decisions' \in 0..MaxDecisions /\ admin' \in 0..MaxAdmin
  BY DEF PolicyInv
<1> QED
  BY <1>5, <1>7, <1>8, <1>9, <1>10 DEF PolicyInv

(* A step that moves an engine on, whatever it does to the cache. *)
LEMMA MovingKeeps ==
    ASSUME PolicyInv, NEW e \in Engine, calls[e] # NoCall, NEW p, Goto(e, p),
           p \in {"activate", "drift", "baseline", "guard", "lookup", "compute"},
           p = "lookup" => RequestSpeculative[R(e)] /\ RequestObjection[R(e)] = "none",
           CacheInv', UNCHANGED <<decided, decisions, admin>>
    PROVE  PolicyInv'
<1>1. /\ calls' \in [Engine -> {NoCall} \cup Task]
      /\ \A f \in Engine : At(f, "lookup")' => IF f = e THEN p = "lookup" ELSE At(f, "lookup")
      /\ \A f \in Engine : R(f)' = R(f)
  BY GotoMeans
<1>2. ASSUME NEW f \in Engine, At(f, "lookup")'
      PROVE  RequestSpeculative[R(f)]' /\ (RequestObjection[R(f)] = "none")'
  <2>1. RequestSpeculative[R(f)] /\ RequestObjection[R(f)] = "none"
    BY <1>1, <1>2 DEF PolicyInv
  <2> QED
    BY <1>1, <2>1
<1>3. /\ decided' = [f \in Engine |-> decided'[f]]
      /\ \A f \in Engine : decided'[f] # NoDecision => Answer(decided'[f])
      /\ decisions' \in 0..MaxDecisions /\ admin' \in 0..MaxAdmin
  BY DEF PolicyInv
<1> QED
  BY <1>1, <1>2, <1>3 DEF PolicyInv

(* A step that leaves the engines' work alone. *)
LEMMA ResettingKeeps ==
    ASSUME PolicyInv, CacheInv', UNCHANGED <<calls, decided, decisions>>, admin' \in 0..MaxAdmin
    PROVE  PolicyInv'
BY DEF PolicyInv, At, R

LEMMA CacheStays == ASSUME CacheInv, UNCHANGED cacheVars PROVE CacheInv'
BY DEF CacheInv, cacheVars, Blocking, EntriesAreAdmissible, RevokedIsGone, BlockIsRemembered, EntryKeys

LEMMA DecideKeeps ==
    ASSUME PolicyInv, NEW e \in Engine, NEW q \in Requests, Decide(e, q)
    PROVE  PolicyInv'
<1>1. CacheInv'
  BY CacheStays DEF PolicyInv, Decide
<1>2. PICK t : t = [pc |-> IF RequestKey[q].generation = Telemetry[q].generation THEN "activate" ELSE "compute",
                    request |-> q]
  OBVIOUS
<1>3. calls' = [calls EXCEPT ![e] = t]
  BY <1>2 DEF Decide
<1>4. t \in Task /\ t.pc # "lookup"
  BY <1>2 DEF Task
<1>5. calls' \in [Engine -> {NoCall} \cup Task]
  BY <1>3, <1>4 DEF PolicyInv
<1>6. \A f \in Engine : calls'[f] = IF f = e THEN t ELSE calls[f]
  BY <1>3 DEF PolicyInv
<1>7. ASSUME NEW f \in Engine, At(f, "lookup")'
      PROVE  RequestSpeculative[R(f)]' /\ (RequestObjection[R(f)] = "none")'
  <2>1. At(f, "lookup") /\ calls'[f] = calls[f]
    BY <1>4, <1>6, <1>7 DEF At
  <2> QED
    BY <2>1 DEF PolicyInv, R
<1>8. decisions' \in 0..MaxDecisions /\ admin' \in 0..MaxAdmin
  <2>1. MaxDecisions \in Nat /\ decisions \in 0..MaxDecisions /\ decisions < MaxDecisions /\ decisions' = decisions + 1
    BY EngineAssumption DEF Decide, PolicyInv
  <2> QED
    BY <2>1 DEF Decide, PolicyInv
<1>9. /\ decided' = [f \in Engine |-> decided'[f]]
      /\ \A f \in Engine : decided'[f] # NoDecision => Answer(decided'[f])
  BY DEF PolicyInv, Decide
<1> QED
  BY <1>1, <1>5, <1>7, <1>8, <1>9 DEF PolicyInv

LEMMA StepKeeps ==
    ASSUME PolicyInv, NEW e \in Engine, Step(e)
    PROVE  PolicyInv'
<1> DEFINE k == K(e)
<1>1. calls[e] # NoCall
  BY DEF Step, Activate, Drift, Baseline, Guard, LookUp, Compute, At
<1>2. R(e) \in Requests
  BY <1>1, TaskMeans
<1>3. IsKey(k) /\ k.generation \in Generation
  BY <1>2, RequestsHaveKeys DEF K
<1>4. CacheInv
  BY DEF PolicyInv
<1> HIDE DEF k
<1>5. CASE Activate(e)
  <2>1. CacheInv' /\ Goto(e, "drift")
    BY <1>3, <1>4, <1>5, ActivateKeeps DEF Activate, k
  <2>2. UNCHANGED <<decided, decisions, admin>>
    BY <1>5 DEF Activate
  <2> QED
    BY <1>1, <2>1, <2>2, MovingKeeps
<1>6. CASE Drift(e)
  <2>1. \/ UNCHANGED cacheVars
        \/ \E dims \in SUBSET Dimensions : InvalidateDrift(k, dims)
    <3>1. PICK dims : dims = {d \in Dimensions : lastKey[e][d] # k[d]}
      OBVIOUS
    <3>2. dims \in SUBSET Dimensions
      BY <3>1
    <3>3. UNCHANGED cacheVars \/ InvalidateDrift(k, dims)
      BY <1>6, <3>1 DEF Drift, k
    <3> QED
      BY <3>2, <3>3
  <2>2. CacheInv'
    BY <1>3, <1>4, <2>1, CacheStays, InvalidateDriftKeeps
  <2>3. PICK p : p = IF RequestSpeculative[R(e)] THEN "guard" ELSE "baseline"
    OBVIOUS
  <2>4. Goto(e, p) /\ p \in {"guard", "baseline"}
    BY <1>6, <2>3 DEF Drift
  <2> QED
    BY <1>1, <1>6, <2>2, <2>4, MovingKeeps DEF Drift
<1>7. CASE Baseline(e)
  <2>1. CacheInv' /\ Goto(e, "guard")
    BY <1>4, <1>7, InvalidateKeepsCache DEF Baseline, k
  <2>2. UNCHANGED <<decided, decisions, admin>>
    BY <1>7 DEF Baseline
  <2> QED
    BY <1>1, <2>1, <2>2, MovingKeeps
<1>8. CASE Guard(e)
  <2>1. UNCHANGED cacheVars \/ DisableForRegression(k) \/ Invalidate(k)
    BY <1>8 DEF Guard, k
  <2>2. ASSUME DisableForRegression(k) PROVE CacheInv'
    <3>1. /\ entries' = WithoutKeys({k}) /\ active' = active /\ quarantined' = quarantined
          /\ disabled' = Remember(disabled, k) /\ banned' = banned \cup {k} /\ revoked' = revoked \cup {k}
      BY <2>2 DEF DisableForRegression
    <3> QED
      BY <1>4, <3>1, BlockingKeeps
  <2>3. CacheInv'
    BY <1>4, <2>1, <2>2, CacheStays, InvalidateKeepsCache
  <2> QED
    <3>1. PICK p : p = IF RequestSpeculative[R(e)] /\ RequestObjection[R(e)] = "none" THEN "lookup" ELSE "compute"
      OBVIOUS
    <3>2. Goto(e, p)
      BY <1>8, <3>1 DEF Guard
    <3>3. p \in {"lookup", "compute"} /\ (p = "lookup" => RequestSpeculative[R(e)] /\ RequestObjection[R(e)] = "none")
      BY <3>1
    <3> QED
      BY <1>1, <1>8, <2>3, <3>2, <3>3, MovingKeeps DEF Guard
<1>9. CASE LookUp(e)
  <2>1. RequestSpeculative[R(e)] /\ RequestObjection[R(e)] = "none"
    BY <1>9 DEF LookUp, PolicyInv
  <2>2. CacheInv'
    BY <1>4, <1>9, LookupKeeps DEF LookUp, k
  <2>3. CASE LookupOutcome(K(e), RequestObserved[R(e)]) = "hit"
    <3>1. Finish(e, EntryOf(K(e)).decision, TRUE)
      BY <1>9, <2>3 DEF LookUp
    <3>2. EntryOf(K(e)).decision.enabled => SafeFor(R(e), EntryOf(K(e)).decision.selected)
      BY <1>2, <1>4, <2>1, <2>3, HitIsSafe
    <3> QED
      BY <1>1, <1>9, <2>2, <3>1, <3>2, FinishKeeps DEF LookUp
  <2>4. CASE LookupOutcome(K(e), RequestObserved[R(e)]) # "hit"
    <3>1. Goto(e, "compute") /\ UNCHANGED decided
      BY <1>9, <2>4 DEF LookUp
    <3> QED
      BY <1>1, <1>9, <2>2, <3>1, MovingKeeps DEF LookUp
  <2> QED
    BY <2>3, <2>4
<1>10. CASE Compute(e)
  <2>1. CacheInv'
    <3>1. CASE RequestPlan[e][R(e)].enabled /\ K(e).generation = Telemetry[R(e)].generation
      <4>1. PICK x : x = [key |-> K(e), decision |-> RequestPlan[e][R(e)], expected |-> RequestObserved[R(e)]]
        OBVIOUS
      <4>2. x \in StoredEntry
        <5>1. PICK y : y = <<e, R(e)>>
          OBVIOUS
        <5>2. y \in Engine \X Requests /\ y[1] = e /\ y[2] = R(e)
          BY <1>2, <5>1
        <5>3. x = [key |-> RequestKey[y[2]], decision |-> RequestPlan[y[1]][y[2]],
                   expected |-> RequestObserved[y[2]]] /\ RequestPlan[y[1]][y[2]].enabled
          BY <3>1, <4>1, <5>2 DEF K
        <5> QED
          BY <5>2, <5>3 DEF StoredEntry
      <4>3. Put(x.key, x.decision, x.expected)
        BY <1>10, <3>1, <4>1 DEF Compute
      <4> QED
        BY <1>4, <4>2, <4>3, PutKeeps
    <3>2. CASE ~(RequestPlan[e][R(e)].enabled /\ K(e).generation = Telemetry[R(e)].generation)
      BY <1>4, <1>10, <3>2, CacheStays DEF Compute
    <3> QED
      BY <3>1, <3>2
  <2>2. Finish(e, RequestPlan[e][R(e)], FALSE) /\ UNCHANGED <<decisions, admin>>
    BY <1>10 DEF Compute
  <2>3. RequestPlan[e][R(e)].enabled => SafeFor(R(e), RequestPlan[e][R(e)].selected) /\ ~Pressed(Telemetry[R(e)])
    BY <1>2, PlanIsSafe
  <2> QED
    BY <1>1, <2>1, <2>2, <2>3, FinishKeeps
<1> QED
  BY <1>5, <1>6, <1>7, <1>8, <1>9, <1>10 DEF Step

LEMMA NextKeeps == ASSUME PolicyInv, [Next]_vars PROVE PolicyInv'
<1>1. CacheInv /\ admin \in 0..MaxAdmin /\ MaxAdmin \in Nat
  BY EngineAssumption DEF PolicyInv
<1>2. admin < MaxAdmin => admin + 1 \in 0..MaxAdmin
  BY <1>1
<1>3. CASE \E e \in Engine : Step(e)
  BY <1>3, StepKeeps
<1>4. CASE \E e \in Engine, r \in Requests : Decide(e, r)
  BY <1>4, DecideKeeps
<1>5. ASSUME NEW e \in Engine, NEW g \in Generation, EngineActivate(e, g) PROVE PolicyInv'
  <2>1. CacheInv'
    BY <1>1, <1>5, ActivateKeeps DEF EngineActivate
  <2> QED
    BY <1>2, <1>5, <2>1, ResettingKeeps DEF EngineActivate
<1>6. ASSUME NEW k \in Blockable, CallerQuarantines(k) PROVE PolicyInv'
  <2>1. /\ entries' = WithoutKeys({k}) /\ active' = active /\ disabled' = disabled
        /\ quarantined' = Remember(quarantined, k) /\ banned' = banned \cup {k} /\ revoked' = revoked \cup {k}
    BY <1>6 DEF CallerQuarantines, Quarantine
  <2>2. CacheInv'
    BY <1>1, <2>1, BlockingKeeps
  <2> QED
    BY <1>2, <1>6, <2>2, ResettingKeeps DEF CallerQuarantines
<1>7. ASSUME NEW k \in Blockable, NEW d \in Dimensions, CallerReportsDrift(k, d) PROVE PolicyInv'
  <2>1. IsKey(k) /\ {d} \in SUBSET Dimensions /\ InvalidateDrift(k, {d})
    BY <1>7, EngineAssumption DEF CallerReportsDrift
  <2>2. CacheInv'
    BY <1>1, <2>1, InvalidateDriftKeeps
  <2> QED
    BY <1>2, <1>7, <2>2, ResettingKeeps DEF CallerReportsDrift
<1>8. CASE UNCHANGED vars
  <2>1. UNCHANGED cacheVars /\ UNCHANGED <<calls, decided, decisions, admin>>
    BY <1>8 DEF vars, engineVars
  <2>2. CacheInv'
    BY <1>1, <2>1, CacheStays
  <2> QED
    BY <1>1, <2>1, <2>2, ResettingKeeps
<1> QED
  BY <1>3, <1>4, <1>5, <1>6, <1>7, <1>8 DEF Next

LEMMA InitHolds == ASSUME Init PROVE PolicyInv
<1>1. /\ active = NoGeneration /\ entries = <<>> /\ quarantined = <<>> /\ disabled = <<>>
      /\ banned = {} /\ revoked = {}
  BY DEF Init, CacheInit
<1>2. EntryKeys = {}
  BY <1>1 DEF EntryKeys
<1>3. MaxEntries \in Nat \ {0} /\ IsFiniteSet({})
  BY CacheAssumption, FS_EmptySet
<1>4. CacheInv
  BY <1>1, <1>2, <1>3 DEF CacheInv, OnePerKey, Blocking, NoneTwice, EntriesAreAdmissible, RevokedIsGone, BlockIsRemembered
<1>5. calls = [e \in Engine |-> NoCall] /\ decided = [e \in Engine |-> NoDecision] /\ decisions = 0 /\ admin = 0
  BY DEF Init
<1>6. decisions \in 0..MaxDecisions /\ admin \in 0..MaxAdmin
  BY <1>5, EngineAssumption
<1>7. calls \in [Engine -> {NoCall} \cup Task] /\ \A e \in Engine : ~At(e, "lookup")
  BY <1>5 DEF At
<1>8. decided = [e \in Engine |-> decided[e]] /\ \A e \in Engine : decided[e] = NoDecision
  BY <1>5
<1> QED
  BY <1>4, <1>6, <1>7, <1>8 DEF PolicyInv

(* What the invariant says of an answer is what EnabledIsSafe asks of it. *)
LEMMA SafeMeans ==
    ASSUME NEW q \in Requests, NEW s, SafeFor(q, s)
    PROVE  IsSafe(Telemetry[q], s)
<1>1. PICK r : r = Telemetry[q]
  OBVIOUS
<1>2. IsRequest(r) /\ Spec_(r) /\ ProfileObjection(r) = "none" /\ s \in Strategies /\ IsUsable(EffectiveCaps(r)[s])
  BY <1>1, EngineAssumption DEF SafeFor, RequestSpeculative, RequestObjection
<1>3. {n \in Metrics : r.inputs.metric[n].state = "available"
                       /\ r.inputs.metric[n].confidence > 0 /\ r.inputs.metric[n].enabled} = Used(r.inputs)
  BY DEF Used, Usable
<1>4. /\ Cardinality(Used(r.inputs)) >= MinMetrics
      /\ \A n \in Used(r.inputs) : r.inputs.metric[n].pressure < 80
      /\ \A n \in Metrics : r.inputs.metric[n].state # "contradictory"
  BY <1>2, SpeculativeMeans DEF IsRequest, Spec_
<1>5. EffectiveCaps(r)[s].speedup \in Nat \cup {NoValue}
  BY <1>2, CapsAreTyped DEF Capability
<1>6. EffectiveCaps(r)[s].supported /\ EffectiveCaps(r)[s].speedup \notin 0..100
  BY <1>2, <1>5 DEF IsUsable, NoValue
<1> QED
  BY <1>1, <1>2, <1>3, <1>4, <1>6 DEF IsSafe

LEMMA InvIsSafe == PolicyInv => DecisionsAreSafe
<1> SUFFICES ASSUME PolicyInv PROVE DecisionsAreSafe
  OBVIOUS
<1>1. CacheTypeOK
  BY CacheIsSafe DEF PolicyInv
<1>2. ASSUME NEW e \in Engine, ~Idle(e)
      PROVE  /\ R(e) \in Requests
             /\ calls[e].pc \in {"activate", "drift", "baseline", "guard", "lookup", "compute"}
  BY <1>2, TaskMeans DEF Idle, Task
<1>3. TypeOK
  BY <1>1, <1>2 DEF TypeOK, PolicyInv
<1>4. EnabledIsSafe
  <2> SUFFICES ASSUME NEW e \in Engine, decided[e] # NoDecision, decided[e].plan.enabled
               PROVE  IsSafe(Answered(e), decided[e].plan.selected) /\ (decided[e].hit \/ ~Pressed(Answered(e)))
    BY DEF EnabledIsSafe
  <2>1. PICK q, s : /\ q \in Requests /\ q = decided[e].request /\ s = decided[e].plan.selected /\ SafeFor(q, s)
                    /\ decided[e].hit \/ ~Pressed(Telemetry[q])
    BY DEF PolicyInv, Answer
  <2>2. Answered(e) = Telemetry[q]
    BY <2>1 DEF Answered
  <2> QED
    BY <2>1, <2>2, SafeMeans
<1> QED
  BY <1>3, <1>4 DEF DecisionsAreSafe, PolicyInv, CacheInv

(* Whatever the engines that share a cache decide, revoke and block, and in
   whatever order their calls meet, a decision that turns speculation on, computed
   or reused, has for the telemetry it answers enough usable metrics and none high
   or contradictory, a profile without objection and a strategy the request's own
   backend can use; a computed one has a placement that is not pressed, which a
   reused one is not asked again.  What the cache may answer with is of the active generation
   and neither blocked nor revoked, and no block is lost before its bound. *)
THEOREM DecisionsSafe == Spec => []DecisionsAreSafe
<1>1. Init => PolicyInv
  BY InitHolds
<1>2. PolicyInv /\ [Next]_vars => PolicyInv'
  BY NextKeeps
<1> QED
  BY <1>1, <1>2, InvIsSafe, PTL DEF Spec

----------------------------------------------------------------------------
(* The pages of the slots, as the set of their bytes *)

LEMMA SizesApart ==
    ASSUME NEW ks, NEW js, js \subseteq ks, IsFiniteSet(PageBytes(ks))
    PROVE  /\ IsFiniteSet(PageBytes(js)) /\ Sizes(js) \in Nat
           /\ IsFiniteSet(PageBytes(ks \ js)) /\ Sizes(ks \ js) \in Nat
           /\ Sizes(ks) = Sizes(js) + Sizes(ks \ js)
<1>1. PICK A, B : /\ A = PageBytes(js)
                  /\ B = PageBytes(ks \ js)
  OBVIOUS
<1>2. PageBytes(ks) = A \cup B
  BY <1>1 DEF PageBytes
<1>3. A \cap B = {}
  BY <1>1 DEF PageBytes
<1>4. IsFiniteSet(A) /\ IsFiniteSet(B)
  BY <1>2, FS_Subset
<1>5. Cardinality(A \cap B) = 0
  BY <1>3, FS_EmptySet
<1>6. Cardinality(A) \in Nat /\ Cardinality(B) \in Nat
  BY <1>4, FS_CardinalityType
<1>7. Cardinality(A \cup B) = Cardinality(A) + Cardinality(B) - Cardinality(A \cap B)
  BY <1>4, FS_Union
<1> QED
  BY <1>1, <1>2, <1>4, <1>5, <1>6, <1>7 DEF Sizes

LEMMA SizesAdd ==
    ASSUME NEW ks, NEW k \in PageKey, k \notin ks, IsFiniteSet(PageBytes(ks))
    PROVE  /\ IsFiniteSet(PageBytes(ks \cup {k}))
           /\ Sizes(ks \cup {k}) = Sizes(ks) + BytesOf[k]
<1>1. PICK n \in Nat : n = BytesOf[k]
  BY PageAssumption
<1>2. PICK A, K1, N : A = PageBytes(ks) /\ K1 = {k} /\ N = 1..n
  OBVIOUS
<1>3. IsFiniteSet(K1) /\ Cardinality(K1) = 1
  BY <1>2, FS_Singleton
<1>4. IsFiniteSet(N) /\ Cardinality(N) = n
  BY <1>1, <1>2, FS_Interval
<1>5. IsFiniteSet(K1 \X N) /\ Cardinality(K1 \X N) = Cardinality(K1) * Cardinality(N)
  BY <1>3, <1>4, FS_Product
<1>6. Cardinality(K1) * Cardinality(N) = n
  BY <1>3, <1>4
<1>7. PICK B : B = K1 \X N
  OBVIOUS
<1>8. PageBytes(ks \cup {k}) = A \cup B
  BY <1>1, <1>2, <1>7 DEF PageBytes
<1>9. A \cap B = {}
  BY <1>2, <1>7 DEF PageBytes
<1>10. Cardinality(A \cap B) = 0 /\ IsFiniteSet(A) /\ IsFiniteSet(B) /\ Cardinality(B) = n
  BY <1>2, <1>5, <1>6, <1>7, <1>9, FS_EmptySet
<1>11. /\ IsFiniteSet(A \cup B) /\ Cardinality(A) \in Nat
       /\ Cardinality(A \cup B) = Cardinality(A) + Cardinality(B) - Cardinality(A \cap B)
  BY <1>10, FS_Union, FS_CardinalityType
<1>12. Cardinality(A \cup B) = Cardinality(A) + n
  BY <1>1, <1>10, <1>11
<1> QED
  BY <1>1, <1>2, <1>8, <1>11, <1>12 DEF Sizes

(* The pages and their order; what is still being loaded is not resident. *)
PageOrder ==
    /\ recency \subseteq PageKey \X PageKey
    /\ \A j, k \in PageKey : <<j, k>> \in recency => {j, k} \subseteq resident /\ <<k, j>> \notin recency
    /\ \A j, k \in resident : j = k \/ <<j, k>> \in recency \/ <<k, j>> \in recency
    /\ \A i, j, k \in PageKey : <<i, j>> \in recency /\ <<j, k>> \in recency => <<i, k>> \in recency

PageCount ==
    /\ resident \subseteq PageKey
    /\ IsFiniteSet(PageBytes(resident))
    /\ counted \in Nat /\ counted = Sizes(resident) /\ counted <= ResidentBytes

PageInv ==
    /\ PageCount /\ PageOrder
    /\ leases \subseteq resident
    /\ loading \in [PageKey -> [lease : BOOLEAN, state : {"loading", "ended"}] \cup {NoLoad}]
    /\ \A k \in resident : loading[k] # NoLoad => loading[k].state = "ended"

LEMMA PageInvIsBudget == PageInv => PagesKeepBudget
BY DEF PageInv, PageCount, PageOrder, PagesKeepBudget

LEMMA PagesKept ==
    ASSUME PageCount, PageOrder, NEW gone, gone \subseteq resident,
           resident' = resident \ gone, recency' = Kept(gone), counted' = counted - Sizes(gone)
    PROVE  PageCount' /\ PageOrder'
<1>1. PICK rest : rest = resident \ gone
  OBVIOUS
<1>2. /\ IsFiniteSet(PageBytes(rest)) /\ Sizes(rest) \in Nat /\ Sizes(gone) \in Nat
      /\ Sizes(resident) = Sizes(gone) + Sizes(rest)
  BY <1>1, SizesApart DEF PageCount
<1>3. counted' \in Nat /\ counted' = Sizes(rest) /\ counted' <= ResidentBytes
  BY <1>2, PageAssumption DEF PageCount
<1>4. PageCount'
  BY <1>1, <1>2, <1>3 DEF PageCount
<1>5. \A j, k \in PageKey : <<j, k>> \in recency' <=> <<j, k>> \in recency /\ j \notin gone /\ k \notin gone
  BY DEF Kept
<1>6. PageOrder'
  BY <1>5 DEF PageOrder, PageCount, Kept
<1> QED
  BY <1>4, <1>6

LEMMA PagesUsed ==
    ASSUME PageOrder, resident \subseteq PageKey, NEW gone, NEW k \in PageKey,
           resident' = (resident \ gone) \cup {k}, recency' = LastUsed(k, gone)
    PROVE  PageOrder'
<1>1. \A i, j \in PageKey : <<i, j>> \in recency' <=>
        \/ <<i, j>> \in recency /\ i \notin gone /\ j \notin gone /\ i # k /\ j # k
        \/ i \in resident /\ i \notin gone /\ i # k /\ j = k
  BY DEF LastUsed, Kept
<1>2. recency' \subseteq PageKey \X PageKey
  BY DEF LastUsed, Kept, PageOrder
<1>3. \A i, j \in PageKey : <<i, j>> \in recency' => {i, j} \subseteq resident' /\ <<j, i>> \notin recency'
  BY <1>1 DEF PageOrder
<1>4. ASSUME NEW i \in resident', NEW j \in resident', i # j PROVE <<i, j>> \in recency' \/ <<j, i>> \in recency'
  <2>1. i \in PageKey /\ j \in PageKey
    OBVIOUS
  <2>2. CASE i = k
    BY <1>1, <1>4, <2>1, <2>2
  <2>3. CASE j = k
    BY <1>1, <1>4, <2>1, <2>3
  <2>4. CASE i # k /\ j # k
    BY <1>1, <1>4, <2>1, <2>4 DEF PageOrder
  <2> QED
    BY <2>2, <2>3, <2>4
<1>5. ASSUME NEW h \in PageKey, NEW i \in PageKey, NEW j \in PageKey, <<h, i>> \in recency', <<i, j>> \in recency'
      PROVE  <<h, j>> \in recency'
  <2>1. <<h, i>> \in recency /\ h \notin gone /\ i \notin gone /\ h # k /\ i # k
    BY <1>1, <1>5
  <2>2. CASE j = k
    BY <1>1, <2>1, <2>2 DEF PageOrder
  <2>3. CASE j # k
    BY <1>1, <1>5, <2>1, <2>3 DEF PageOrder
  <2> QED
    BY <2>2, <2>3
<1> QED
  BY <1>2, <1>3, <1>4, <1>5 DEF PageOrder

LEMMA LoadEndsKeeps == ASSUME PageInv, NEW k \in PageKey, LoadEnds(k) PROVE PageInv'
<1>1. PICK n : n = Evictions(BytesOf[k])
  OBVIOUS
<1>2. PICK gone : gone = Oldest(n)
  OBVIOUS
<1>3. gone \subseteq resident /\ leases \cap gone = {}
  BY <1>2 DEF Oldest, PageVictims
<1>4. PICK load \in [lease : BOOLEAN, state : {"loading", "ended"}] :
         load = loading[k] /\ load.state = "loading" /\ loading[k] # NoLoad
  BY DEF LoadEnds, PageInv
<1>5. k \notin resident
  BY <1>4 DEF PageInv
<1>6. PICK ended \in [lease : BOOLEAN, state : {"loading", "ended"}] :
         ended.state = "ended" /\ loading' = [loading EXCEPT ![k] = ended]
  <2>1. [load EXCEPT !.state = "ended"] \in [lease : BOOLEAN, state : {"loading", "ended"}]
        /\ [load EXCEPT !.state = "ended"].state = "ended"
    OBVIOUS
  <2>2. loading' = [loading EXCEPT ![k] = [load EXCEPT !.state = "ended"]]
    BY <1>4 DEF LoadEnds
  <2> QED
    BY <2>1, <2>2
<1>7. /\ loading' \in [PageKey -> [lease : BOOLEAN, state : {"loading", "ended"}] \cup {NoLoad}]
      /\ loading'[k] = ended /\ \A j \in PageKey : j # k => loading'[j] = loading[j]
  BY <1>6 DEF PageInv
<1>8. CASE UNCHANGED <<resident, recency, leases, counted>>
  <2>1. PageCount' /\ PageOrder' /\ leases' \subseteq resident'
    BY <1>8 DEF PageInv, PageCount, PageOrder
  <2>2. \A j \in resident' : loading'[j] # NoLoad => loading'[j].state = "ended"
    BY <1>5, <1>7, <1>8 DEF PageInv, PageCount
  <2> QED
    BY <1>7, <2>1, <2>2 DEF PageInv
<1>9. CASE ~LeavesRoom(n, BytesOf[k]) /\ resident' = resident \ gone /\ recency' = Kept(gone)
           /\ counted' = counted - Sizes(gone) /\ UNCHANGED leases
  <2>1. PageCount' /\ PageOrder'
    BY <1>3, <1>9, PagesKept DEF PageInv
  <2>2. leases' \subseteq resident'
    BY <1>3, <1>9 DEF PageInv
  <2>3. \A j \in resident' : loading'[j] # NoLoad => loading'[j].state = "ended"
    BY <1>5, <1>7, <1>9 DEF PageInv, PageCount
  <2> QED
    BY <1>7, <2>1, <2>2, <2>3 DEF PageInv
<1>10. CASE LeavesRoom(n, BytesOf[k]) /\ resident' = (resident \ gone) \cup {k} /\ recency' = LastUsed(k, gone)
            /\ counted' = counted - Sizes(gone) + BytesOf[k] /\ leases' \subseteq leases \cup {k}
  <2>1. PICK rest : rest = resident \ gone
    OBVIOUS
  <2>2. /\ IsFiniteSet(PageBytes(rest)) /\ Sizes(rest) \in Nat /\ Sizes(gone) \in Nat
        /\ Sizes(resident) = Sizes(gone) + Sizes(rest)
    BY <1>3, <2>1, SizesApart DEF PageInv, PageCount
  <2>3. /\ IsFiniteSet(PageBytes(rest \cup {k}))
        /\ Sizes(rest \cup {k}) = Sizes(rest) + BytesOf[k]
    <3>1. k \notin rest
      BY <1>5, <2>1
    <3> QED
      BY <2>2, <3>1, SizesAdd
  <2>4. counted' \in Nat /\ counted' = Sizes(rest \cup {k}) /\ counted' <= ResidentBytes
    <3>1. PICK a, b, c, m \in Nat : a = Sizes(gone) /\ b = Sizes(rest) /\ c = counted /\ m = BytesOf[k]
      BY <2>2, PageAssumption DEF PageInv, PageCount
    <3>2. c = a + b /\ c - a + m <= ResidentBytes
      BY <1>2, <1>10, <2>2, <3>1 DEF PageInv, PageCount, LeavesRoom
    <3> QED
      BY <1>10, <2>3, <3>1, <3>2
  <2>5. PageCount'
    <3>1. resident' = rest \cup {k} /\ resident' \subseteq PageKey
      BY <1>10, <2>1 DEF PageInv, PageCount
    <3> QED
      BY <2>3, <2>4, <3>1 DEF PageCount
  <2>6. PageOrder'
    BY <1>10, PagesUsed DEF PageInv, PageCount
  <2>7. leases' \subseteq resident'
    BY <1>3, <1>10 DEF PageInv
  <2>8. \A j \in resident' : loading'[j] # NoLoad => loading'[j].state = "ended"
    BY <1>6, <1>7, <1>10 DEF PageInv, PageCount
  <2> QED
    BY <1>7, <2>5, <2>6, <2>7, <2>8 DEF PageInv
<1> QED
  BY <1>1, <1>2, <1>8, <1>9, <1>10 DEF LoadEnds

LEMMA InitIsPageInv == PageInit => PageInv
<1> SUFFICES ASSUME PageInit PROVE PageInv
  OBVIOUS
<1>1. PageBytes(resident) = {}
  BY DEF PageInit, PageBytes
<1>2. PageCount
  BY <1>1, FS_EmptySet, PageAssumption DEF PageInit, PageCount, Sizes
<1>3. PageOrder
  BY DEF PageInit, PageOrder
<1> QED
  BY <1>2, <1>3 DEF PageInit, PageInv

LEMMA NextKeepsPageInv == PageInv /\ [PageNext]_pageVars => PageInv'
<1> SUFFICES ASSUME PageInv, [PageNext]_pageVars PROVE PageInv'
  OBVIOUS
<1>1. ASSUME NEW k \in PageKey, PageHit(k) PROVE PageInv'
  <2>1. resident' = (resident \ {}) \cup {k} /\ recency' = LastUsed(k, {}) /\ UNCHANGED <<resident, leases, counted, loading>>
    BY <1>1 DEF PageHit
  <2>2. PageOrder'
    BY <2>1, PagesUsed DEF PageInv, PageCount
  <2>3. PageCount'
    BY <2>1 DEF PageInv, PageCount
  <2> QED
    BY <2>1, <2>2, <2>3 DEF PageInv
<1>2. ASSUME NEW k \in PageKey, NEW lease \in BOOLEAN, PageMiss(k, lease) PROVE PageInv'
  <2>1. PICK load \in [lease : BOOLEAN, state : {"loading", "ended"}] : load = [lease |-> lease, state |-> "loading"]
    OBVIOUS
  <2>2. k \notin resident /\ loading' = [loading EXCEPT ![k] = load] /\ UNCHANGED <<resident, recency, leases, counted>>
    BY <1>2, <2>1 DEF PageMiss
  <2>3. PageCount' /\ PageOrder'
    BY <2>2 DEF PageInv, PageCount, PageOrder
  <2> QED
    BY <2>2, <2>3 DEF PageInv, PageCount
<1>3. ASSUME NEW k \in PageKey, PagePrefetch(k) PROVE PageInv'
  BY <1>2, <1>3 DEF PagePrefetch
<1>4. ASSUME NEW k \in PageKey, FlightEnds(k) \/ PageLeaseExpires(k) PROVE PageInv'
  <2>1. PageCount' /\ PageOrder'
    BY <1>4 DEF FlightEnds, PageLeaseExpires, PageInv, PageCount, PageOrder
  <2>2. /\ loading' \in [PageKey -> [lease : BOOLEAN, state : {"loading", "ended"}] \cup {NoLoad}]
        /\ \A j \in PageKey : loading'[j] \in {loading[j], NoLoad}
    BY <1>4 DEF FlightEnds, PageLeaseExpires, PageInv
  <2>3. leases' \subseteq leases /\ resident' = resident
    BY <1>4 DEF FlightEnds, PageLeaseExpires
  <2> QED
    BY <2>1, <2>2, <2>3 DEF PageInv, PageCount
<1>5. CASE UNCHANGED pageVars
  BY <1>5 DEF pageVars, PageInv, PageCount, PageOrder
<1> QED
  BY <1>1, <1>2, <1>3, <1>4, <1>5, LoadEndsKeeps DEF PageNext

(* The pager of the slots keeps its budget exactly: its counter is what the resident pages
   take, whatever is loaded beside it, evicted in vain, refused or leased meanwhile; pages
   with a live lease are never evicted; and the order of eviction ranks the resident pages
   and no other (page, prefetch and _evict of semantic_pager.py). *)
THEOREM PagesBudgeted == PageSpec => []PagesKeepBudget
BY PageInvIsBudget, InitIsPageInv, NextKeepsPageInv, PTL DEF PageSpec


----------------------------------------------------------------------------
(* The choice of a representation *)

(* A finite set has a first element under any order of some of its pairs. *)
LEMMA FirstExists ==
    ASSUME NEW S, IsFiniteSet(S), S # {}, NEW lt,
           \A x \in S : <<x, x>> \notin lt,
           \A x, y, z \in S : <<x, y>> \in lt /\ <<y, z>> \in lt => <<x, z>> \in lt
    PROVE  \E x \in S : \A y \in S : <<y, x>> \notin lt
<1>1. PICK before : before = [x \in S |-> {y \in S : <<y, x>> \in lt}]
  OBVIOUS
<1>2. \A x \in S : before[x] = {y \in S : <<y, x>> \in lt} /\ before[x] \subseteq S
  BY <1>1
<1>3. \A x \in S : IsFiniteSet(before[x]) /\ Cardinality(before[x]) \in Nat
  BY <1>2, FS_Subset, FS_CardinalityType
<1>4. PICK n \in {Cardinality(before[x]) : x \in S} : \A m \in {Cardinality(before[x]) : x \in S} : n <= m
  <2>1. {Cardinality(before[x]) : x \in S} \in SUBSET Nat /\ {Cardinality(before[x]) : x \in S} # {}
    BY <1>3
  <2> QED
    BY <2>1, LeastNumber
<1>5. PICK x \in S : n = Cardinality(before[x])
  BY <1>4
<1>6. ASSUME NEW y \in S, <<y, x>> \in lt PROVE FALSE
  <2>1. before[y] \subseteq before[x] /\ y \in before[x] /\ y \notin before[y]
    BY <1>2, <1>6
  <2>2. Cardinality(before[y]) <= Cardinality(before[x]) /\ Cardinality(before[y]) # Cardinality(before[x])
    BY <1>3, <2>1, FS_Subset
  <2>3. n <= Cardinality(before[y])
    BY <1>4
  <2> QED
    BY <1>3, <1>5, <2>2, <2>3
<1> QED
  BY <1>6

LEMMA TotalIsInt ==
    ASSUME NEW N \in Nat, NEW parts \in [1..N -> Int]
    PROVE  Total(parts) \in Int
<1>1. Len(parts) = N
  OBVIOUS
<1> DEFINE Sums(f, m) == f = [n \in 0..m |-> IF n = 0 THEN 0 ELSE f[n - 1] + parts[n]]
           Bad == {m \in 0..N : ~ \E f : f \in [0..m -> Int] /\ Sums(f, m)}
<1>2. Bad = {}
  <2> SUFFICES ASSUME Bad # {} PROVE FALSE
    OBVIOUS
  <2>1. PICK m \in Bad : \A k \in Bad : m <= k
    <3>1. Bad \in SUBSET Nat
      OBVIOUS
    <3> HIDE DEF Bad
    <3> QED
      BY <3>1, LeastNumber
  <2>2. m \in 0..N /\ ~ \E f : f \in [0..m -> Int] /\ Sums(f, m)
    BY <2>1
  <2>3. CASE m = 0
    <3>1. PICK f : f = [n \in 0..m |-> 0]
      OBVIOUS
    <3>2. f \in [0..m -> Int] /\ \A n \in 0..m : n = 0
      BY <2>3, <3>1
    <3>3. Sums(f, m)
      BY <3>1, <3>2
    <3> QED
      BY <2>2, <3>2, <3>3
  <2>4. CASE m # 0
    <3>1. PICK k \in 0..N : m = k + 1 /\ ~(m <= k)
      BY <2>2, <2>4
    <3>2. PICK h : h \in [0..k -> Int] /\ Sums(h, k)
      BY <2>1, <3>1
    <3>3. PICK f : f = [n \in 0..m |-> IF n = m THEN h[k] + parts[m] ELSE h[n]]
      OBVIOUS
    <3>4. parts[m] \in Int /\ h[k] \in Int
      BY <2>2, <2>4, <3>1, <3>2
    <3>5. \A n \in 0..m : n # m => n \in 0..k
      BY <3>1
    <3>6. f \in [0..m -> Int]
      <4>1. \A n \in 0..k : h[n] \in Int
        BY <3>2
      <4>2. \A n \in 0..m : (IF n = m THEN h[k] + parts[m] ELSE h[n]) \in Int
        <5> SUFFICES ASSUME NEW n \in 0..m PROVE (IF n = m THEN h[k] + parts[m] ELSE h[n]) \in Int
          OBVIOUS
        <5>1. n # m => h[n] \in Int
          BY <3>5, <4>1
        <5>2. h[k] + parts[m] \in Int
          BY <3>4
        <5> QED
          BY <5>1, <5>2
      <4> QED
        BY <3>3, <4>2
    <3>7. \A n \in 0..m : f[n] = IF n = 0 THEN 0 ELSE f[n - 1] + parts[n]
      <4> SUFFICES ASSUME NEW n \in 0..m PROVE f[n] = IF n = 0 THEN 0 ELSE f[n - 1] + parts[n]
        OBVIOUS
      <4>1. CASE n = m
        <5>1. n # 0 /\ n - 1 = k /\ k \in 0..m /\ k # m
          BY <2>4, <3>1, <4>1
        <5>2. f[k] = h[k]
          BY <3>3, <5>1
        <5> QED
          BY <3>3, <4>1, <5>1, <5>2
      <4>2. CASE n # m
        <5>1. f[n] = h[n] /\ n \in 0..k
          BY <3>3, <3>5, <4>2
        <5>2. h[n] = IF n = 0 THEN 0 ELSE h[n - 1] + parts[n]
          BY <3>2, <5>1
        <5>3. n # 0 => n - 1 \in 0..m /\ n - 1 # m
          BY <3>1, <5>1
        <5>4. n # 0 => f[n - 1] = h[n - 1]
          BY <3>3, <5>3
        <5> QED
          BY <5>1, <5>2, <5>4
      <4> QED
        BY <4>1, <4>2
    <3>8. Sums(f, m)
      BY <3>3, <3>7
    <3> QED
      BY <2>2, <3>6, <3>8
  <2> QED
    BY <2>3, <2>4
<1>3. PICK f : f \in [0..N -> Int] /\ Sums(f, N)
  <2>1. N \in 0..N
    OBVIOUS
  <2>2. N \notin Bad
    <3> HIDE DEF Bad
    <3> QED
      BY <1>2
  <2> HIDE DEF Sums
  <2> QED
    BY <2>1, <2>2
<1> DEFINE F(g) == [n \in 0..N |-> IF n = 0 THEN 0 ELSE g[n - 1] + parts[n]]
<1>4. PICK g : g = CHOOSE h : h = F(h)
  OBVIOUS
<1>5. g = F(g)
  <2>1. f = F(f)
    BY <1>3
  <2> HIDE DEF F
  <2> QED
    BY <1>4, <2>1
<1>6. \A n \in 0..N : g[n] \in Int
  <2> DEFINE Off == {n \in 0..N : g[n] \notin Int}
  <2> SUFFICES ASSUME Off # {} PROVE FALSE
    OBVIOUS
  <2>1. PICK m \in Off : \A k \in Off : m <= k
    <3>1. Off \in SUBSET Nat
      OBVIOUS
    <3> HIDE DEF Off
    <3> QED
      BY <3>1, LeastNumber
  <2>2. m \in 0..N /\ g[m] \notin Int
    BY <2>1
  <2>3. CASE m = 0
    BY <1>5, <2>2, <2>3
  <2>4. CASE m # 0
    <3>1. m - 1 \in 0..N /\ ~(m <= m - 1) /\ m \in 1..N
      BY <2>2, <2>4
    <3>2. g[m - 1] \in Int
      BY <2>1, <3>1
    <3>3. g[m] = g[m - 1] + parts[m]
      BY <1>5, <2>2, <2>4
    <3> QED
      BY <2>2, <3>1, <3>2, <3>3
  <2> QED
    BY <2>3, <2>4
<1>7. Total(parts) = g[N]
  BY <1>1, <1>4 DEF Total
<1> QED
  BY <1>6, <1>7

LEMMA TimesKeepsOrder ==
    ASSUME NEW p \in Int, NEW q \in Int, NEW z \in Int, z > 0
    PROVE  (p >= q <=> p * z >= q * z) /\ (p > q <=> p * z > q * z)
<1>1. PICK d \in Int : d = p - q /\ p = q + d
  OBVIOUS
<1>2. p * z = q * z + d * z
  BY <1>1
<1>3. (d >= 0 <=> d * z >= 0) /\ (d > 0 <=> d * z > 0)
  OBVIOUS
<1> QED
  BY <1>1, <1>2, <1>3

(* Fractions a/x, b/y and c/z are compared by multiplying. *)
LEMMA FractionsCompare ==
    ASSUME NEW a \in Int, NEW b \in Int, NEW c \in Int, NEW x \in Int, NEW y \in Int, NEW z \in Int, x > 0, y > 0, z > 0,
           a * y >= b * x, b * z >= c * y
    PROVE  a * z >= c * x /\ (a * y > b * x \/ b * z > c * y => a * z > c * x)
<1>1. (a * y) * z = (a * z) * y /\ (b * x) * z = (b * z) * x /\ (c * y) * x = (c * x) * y
  OBVIOUS
<1>2. PICK p, q, r, s \in Int : p = (a * z) * y /\ q = (b * x) * z /\ r = (c * x) * y /\ s = a * z
  OBVIOUS
<1>3. p >= q /\ (a * y > b * x => p > q)
  BY <1>1, <1>2, TimesKeepsOrder
<1>4. q >= r /\ (b * z > c * y => q > r)
  BY <1>1, <1>2, TimesKeepsOrder
<1>5. p >= r /\ (a * y > b * x \/ b * z > c * y => p > r)
  BY <1>3, <1>4
<1>6. (a * z >= c * x <=> p >= r) /\ (a * z > c * x <=> p > r)
  BY <1>2, TimesKeepsOrder
<1> QED
  BY <1>5, <1>6

LEMMA OffersAreCandidates ==
    ASSUME NEW c \in Offers, NEW m \in Objectives
    PROVE  c.value[m] \in {-1, 0, 1, 2} /\ (Reports(c, m) => c.value[m] \in {0, 1, 2})
<1>1. c.value \in [Objectives -> Values \cup {NotReported}]
  BY ParetoAssumption DEF IsCandidate
<1>2. c.value[m] \in Values \cup {NotReported}
  BY <1>1
<1> QED
  BY <1>2 DEF Values, NotReported, Reports

LEMMA ReportedExtremes ==
    ASSUME NEW reported \in SUBSET {0, 1, 2}, NEW v \in reported
    PROVE  /\ \E x \in reported : \A y \in reported : x <= y
           /\ \E x \in reported : \A y \in reported : x >= y
<1>1. \A y \in reported : y = 0 \/ y = 1 \/ y = 2
  OBVIOUS
<1>2. \E x \in reported : \A y \in reported : x <= y
  <2>1. CASE 0 \in reported
    <3>1. \A y \in reported : 0 <= y
      BY <1>1
    <3> QED
      BY <2>1, <3>1
  <2>2. CASE 0 \notin reported /\ 1 \in reported
    <3>1. \A y \in reported : 1 <= y
      BY <1>1, <2>2
    <3> QED
      BY <2>2, <3>1
  <2>3. CASE 0 \notin reported /\ 1 \notin reported
    <3>1. \A y \in reported : y = 2
      BY <1>1, <2>3
    <3>2. 2 \in reported /\ \A y \in reported : 2 <= y
      BY <3>1
    <3> QED
      BY <3>2
  <2> QED
    BY <2>1, <2>2, <2>3
<1>3. \E x \in reported : \A y \in reported : x >= y
  <2>1. CASE 2 \in reported
    <3>1. \A y \in reported : 2 >= y
      BY <1>1
    <3> QED
      BY <2>1, <3>1
  <2>2. CASE 2 \notin reported /\ 1 \in reported
    <3>1. \A y \in reported : 1 >= y
      BY <1>1, <2>2
    <3> QED
      BY <2>2, <3>1
  <2>3. CASE 2 \notin reported /\ 1 \notin reported
    <3>1. \A y \in reported : y = 0
      BY <1>1, <2>3
    <3>2. 0 \in reported /\ \A y \in reported : 0 >= y
      BY <3>1
    <3> QED
      BY <3>2
  <2> QED
    BY <2>1, <2>2, <2>3
<1> QED
  BY <1>2, <1>3

LEMMA BenefitIsInt ==
    ASSUME NEW front \in SUBSET Offers, NEW c \in front, NEW m \in Objectives, Reports(c, m)
    PROVE  Benefit(front, m, c) \in Int
<1>1. PICK reported : reported = {d.value[m] : d \in {x \in front : Reports(x, m)}}
  OBVIOUS
<1>2. reported \subseteq {0, 1, 2} /\ c.value[m] \in reported
  BY <1>1, OffersAreCandidates
<1>3. PICK low \in {0, 1, 2} : low = Min(reported)
  <2>1. \E x \in reported : \A y \in reported : x <= y
    BY <1>2, ReportedExtremes
  <2> QED
    BY <1>2, <2>1 DEF Min
<1>4. PICK high \in {0, 1, 2} : high = Max(reported) /\ low <= high
  <2>1. \E x \in reported : \A y \in reported : x >= y
    BY <1>2, ReportedExtremes
  <2>2. Max(reported) \in reported /\ \A y \in reported : Max(reported) >= y
    BY <2>1 DEF Max
  <2>3. low \in reported
    <3>1. \E x \in reported : \A y \in reported : x <= y
      BY <1>2, ReportedExtremes
    <3> QED
      BY <1>3, <3>1 DEF Min
  <2> QED
    BY <1>2, <2>2, <2>3
<1>5. PICK v \in {0, 1, 2} : v = c.value[m]
  BY <1>2
<1>6. Benefit(front, m, c) = IF low = high THEN 2 ELSE (2 * (IF m \in Maximize THEN v - low ELSE high - v)) \div (high - low)
  BY <1>1, <1>3, <1>4, <1>5 DEF Benefit
<1>7. PICK part \in Int : part = 2 * (IF m \in Maximize THEN v - low ELSE high - v)
  OBVIOUS
<1>8. low # high => high - low \in Nat /\ high - low > 0
  BY <1>4
<1>9. low # high => part \div (high - low) \in Int
  BY <1>8
<1> QED
  BY <1>6, <1>7, <1>9

LEMMA WeightsAreInts ==
    ASSUME NEW profile \in Profiles
    PROVE  Len(ProfileWeights[profile]) \in Nat /\ \A n \in 1..Len(ProfileWeights[profile]) : ProfileWeights[profile][n][2] \in Int
<1>1. profile \in {"quality", "balanced", "memory", "minimal"}
  BY ParetoAssumption DEF ProfileWeights
<1>2. CASE profile = "quality"
  BY <1>2 DEF ProfileWeights
<1>3. CASE profile = "balanced"
  BY <1>3 DEF ProfileWeights
<1>4. CASE profile = "memory"
  BY <1>4 DEF ProfileWeights
<1>5. CASE profile = "minimal"
  BY <1>5 DEF ProfileWeights
<1> QED
  BY <1>1, <1>2, <1>3, <1>4, <1>5

LEMMA ScoresAreInts ==
    ASSUME NEW front \in SUBSET Offers, NEW profile \in Profiles, NEW c \in front
    PROVE  ScoreTop(front, profile, c) \in Int /\ ScoreBottom(profile, c) \in Int
<1>1. PICK ws : ws = ProfileWeights[profile]
  OBVIOUS
<1>2. PICK N \in Nat : N = Len(ws)
  BY <1>1, WeightsAreInts
<1>3. \A n \in 1..N : ws[n][2] \in Int
  BY <1>1, <1>2, WeightsAreInts
<1>4. ScoreTop(front, profile, c) \in Int
  <2>1. PICK parts : parts = [n \in 1..N |-> IF Weighed(c, ws[n][1]) THEN ws[n][2] * Benefit(front, ws[n][1], c) ELSE 0]
    OBVIOUS
  <2>2. ASSUME NEW n \in 1..N PROVE parts[n] \in Int
    <3>1. CASE Weighed(c, ws[n][1])
      <4>1. Benefit(front, ws[n][1], c) \in Int
        BY <3>1, BenefitIsInt DEF Weighed
      <4>2. parts[n] = ws[n][2] * Benefit(front, ws[n][1], c)
        BY <2>1, <3>1
      <4> QED
        BY <1>3, <4>1, <4>2
    <3>2. CASE ~ Weighed(c, ws[n][1])
      BY <2>1, <3>2
    <3> QED
      BY <3>1, <3>2
  <2>3. parts \in [1..N -> Int]
    BY <2>1, <2>2
  <2>4. ScoreTop(front, profile, c) = Total(parts)
    BY <1>1, <1>2, <2>1 DEF ScoreTop
  <2> QED
    BY <2>3, <2>4, TotalIsInt
<1>5. ScoreBottom(profile, c) \in Int
  <2>1. PICK parts : parts = [n \in 1..N |-> IF Weighed(c, ws[n][1]) THEN ws[n][2] ELSE 0]
    OBVIOUS
  <2>2. parts \in [1..N -> Int]
    BY <1>3, <2>1
  <2>3. ScoreBottom(profile, c) = Total(parts)
    BY <1>1, <1>2, <2>1 DEF ScoreBottom
  <2> QED
    BY <2>2, <2>3, TotalIsInt
<1> QED
  BY <1>4, <1>5

(* _tie_key, compared from left to right *)
LEMMA BeforeMeans ==
    ASSUME NEW x, NEW y
    PROVE  Before(x, y) <=>
             \/ x[1] < y[1]
             \/ x[1] = y[1] /\ x[2] < y[2]
             \/ x[1] = y[1] /\ x[2] = y[2] /\ x[3] < y[3]
             \/ x[1] = y[1] /\ x[2] = y[2] /\ x[3] = y[3] /\ x[4] < y[4]
             \/ x[1] = y[1] /\ x[2] = y[2] /\ x[3] = y[3] /\ x[4] = y[4] /\ x[5] < y[5]
             \/ x[1] = y[1] /\ x[2] = y[2] /\ x[3] = y[3] /\ x[4] = y[4] /\ x[5] = y[5] /\ x[6] < y[6]
<1>1. \A i \in 1..6 : i = 1 \/ i = 2 \/ i = 3 \/ i = 4 \/ i = 5 \/ i = 6
  OBVIOUS
<1>2. /\ \A j \in 1..0 : x[j] = y[j]
      /\ (\A j \in 1..1 : x[j] = y[j]) <=> x[1] = y[1]
      /\ (\A j \in 1..2 : x[j] = y[j]) <=> x[1] = y[1] /\ x[2] = y[2]
      /\ (\A j \in 1..3 : x[j] = y[j]) <=> x[1] = y[1] /\ x[2] = y[2] /\ x[3] = y[3]
      /\ (\A j \in 1..4 : x[j] = y[j]) <=> x[1] = y[1] /\ x[2] = y[2] /\ x[3] = y[3] /\ x[4] = y[4]
      /\ (\A j \in 1..5 : x[j] = y[j]) <=> x[1] = y[1] /\ x[2] = y[2] /\ x[3] = y[3] /\ x[4] = y[4] /\ x[5] = y[5]
  <2>1. \A j \in 1..0 : FALSE
    OBVIOUS
  <2>2. \A j \in 1..1 : j = 1
    OBVIOUS
  <2>3. \A j \in 1..2 : j = 1 \/ j = 2
    OBVIOUS
  <2>4. \A j \in 1..3 : j = 1 \/ j = 2 \/ j = 3
    OBVIOUS
  <2>5. \A j \in 1..4 : j = 1 \/ j = 2 \/ j = 3 \/ j = 4
    OBVIOUS
  <2>6. \A j \in 1..5 : j = 1 \/ j = 2 \/ j = 3 \/ j = 4 \/ j = 5
    OBVIOUS
  <2>7. 1 \in 1..1 /\ 1 \in 1..2 /\ 2 \in 1..2 /\ \A n \in 1..3 : n \in 1..3 /\ n \in 1..4 /\ n \in 1..5
    OBVIOUS
  <2> QED
    BY <2>1, <2>2, <2>3, <2>4, <2>5, <2>6, <2>7
<1>3. \A P : (\E i \in 1..6 : i \in P) <=> 1 \in P \/ 2 \in P \/ 3 \in P \/ 4 \in P \/ 5 \in P \/ 6 \in P
  BY <1>1
<1>4. PICK P : P = {i \in 1..6 : x[i] < y[i] /\ \A j \in 1..(i - 1) : x[j] = y[j]}
  OBVIOUS
<1>5. Before(x, y) <=> \E i \in 1..6 : i \in P
  BY <1>4 DEF Before
<1>6. /\ 1 \in P <=> x[1] < y[1] /\ \A j \in 1..0 : x[j] = y[j]
      /\ 2 \in P <=> x[2] < y[2] /\ \A j \in 1..1 : x[j] = y[j]
      /\ 3 \in P <=> x[3] < y[3] /\ \A j \in 1..2 : x[j] = y[j]
      /\ 4 \in P <=> x[4] < y[4] /\ \A j \in 1..3 : x[j] = y[j]
      /\ 5 \in P <=> x[5] < y[5] /\ \A j \in 1..4 : x[j] = y[j]
      /\ 6 \in P <=> x[6] < y[6] /\ \A j \in 1..5 : x[j] = y[j]
  BY <1>4
<1>7. 1 \in P \/ 2 \in P \/ 3 \in P \/ 4 \in P \/ 5 \in P \/ 6 \in P <=> Before(x, y)
  BY <1>3, <1>5
<1> QED
  BY <1>2, <1>6, <1>7

IsTie(x) == x[1] \in Int /\ x[2] \in Int /\ x[3] \in Int /\ x[4] \in Int /\ x[5] \in Int /\ x[6] \in Int

LEMMA BeforeIsAnOrder ==
    ASSUME NEW x, NEW y, NEW z, IsTie(x), IsTie(y), IsTie(z)
    PROVE  /\ ~ Before(x, x)
           /\ Before(x, y) /\ Before(y, z) => Before(x, z)
           /\ x[6] # y[6] => Before(x, y) \/ Before(y, x)
<1>1. PICK a1, a2, a3, a4, a5, a6 \in Int : a1 = x[1] /\ a2 = x[2] /\ a3 = x[3] /\ a4 = x[4] /\ a5 = x[5] /\ a6 = x[6]
  BY DEF IsTie
<1>2. PICK b1, b2, b3, b4, b5, b6 \in Int : b1 = y[1] /\ b2 = y[2] /\ b3 = y[3] /\ b4 = y[4] /\ b5 = y[5] /\ b6 = y[6]
  BY DEF IsTie
<1>3. PICK c1, c2, c3, c4, c5, c6 \in Int : c1 = z[1] /\ c2 = z[2] /\ c3 = z[3] /\ c4 = z[4] /\ c5 = z[5] /\ c6 = z[6]
  BY DEF IsTie
<1>4. ~ Before(x, x)
  BY <1>1, BeforeMeans
<1>5. Before(x, y) /\ Before(y, z) => Before(x, z)
  BY <1>1, <1>2, <1>3, BeforeMeans
<1>6. x[6] # y[6] => Before(x, y) \/ Before(y, x)
  BY <1>1, <1>2, BeforeMeans
<1> QED
  BY <1>4, <1>5, <1>6

LEMMA TieKeysAreKeys ==
    ASSUME NEW c \in Offers
    PROVE  IsTie(TieKey(c)) /\ TieKey(c)[6] = c.name
<1>1. \A m \in Objectives : Reports(c, m) => c.value[m] \in Int
  BY OffersAreCandidates
<1>2. c.name \in Int /\ c.value["quality"] \in Int
  <2>1. c.name \in Nat /\ "quality" \in Objectives
    BY ParetoAssumption DEF IsCandidate
  <2> QED
    BY <2>1, OffersAreCandidates
<1> DEFINE or(m, default) == IF m \in Objectives /\ Reports(c, m) THEN c.value[m] ELSE default
<1>3. \A m : or(m, 0) \in Int /\ or(m, 3) \in Int
  BY <1>1
<1>4. PICK a, b, d, e, f \in Int : a = c.value["quality"] /\ b = or("tokens_per_second", 0) /\ d = or("ttft_ms", 3)
                                   /\ e = or("resident_bytes", 3) /\ f = or("peak_bytes", 3)
  BY <1>2, <1>3
<1>5. TieKey(c) = <<0 - a, 0 - b, d, e, f, c.name>>
  BY <1>4 DEF TieKey
<1> QED
  BY <1>2, <1>5 DEF IsTie

Bottom(profile, c) == Max({1, ScoreBottom(profile, c)})

LEMMA BottomIsPositive ==
    ASSUME NEW front \in SUBSET Offers, NEW profile \in Profiles, NEW c \in front
    PROVE  Bottom(profile, c) \in Int /\ Bottom(profile, c) > 0
<1>1. PICK b \in Int : b = ScoreBottom(profile, c)
  BY ScoresAreInts
<1>2. \E x \in {1, b} : \A y \in {1, b} : x >= y
  OBVIOUS
<1>3. Max({1, b}) \in {1, b} /\ \A y \in {1, b} : Max({1, b}) >= y
  BY <1>2 DEF Max
<1> QED
  BY <1>1, <1>3 DEF Bottom

(* The score, and then the tie key, order the frontier. *)
LEMMA PrecedesIsAnOrder ==
    ASSUME NEW front \in SUBSET Offers, NEW profile \in Profiles, NEW c \in front, NEW d \in front, NEW e \in front
    PROVE  /\ ~ Precedes(front, profile, c, c)
           /\ Precedes(front, profile, c, d) /\ Precedes(front, profile, d, e) => Precedes(front, profile, c, e)
           /\ c.name # d.name => Precedes(front, profile, c, d) \/ Precedes(front, profile, d, c)
<1>1. PICK a, b, g \in Int : a = ScoreTop(front, profile, c) /\ b = ScoreTop(front, profile, d) /\ g = ScoreTop(front, profile, e)
  BY ScoresAreInts
<1>2. PICK x, y, z \in Int : x = Bottom(profile, c) /\ y = Bottom(profile, d) /\ z = Bottom(profile, e) /\ x > 0 /\ y > 0 /\ z > 0
  BY BottomIsPositive
<1>3. /\ Higher(front, profile, c, c) <=> a * x > a * x
      /\ Higher(front, profile, c, d) <=> a * y > b * x
      /\ Higher(front, profile, d, c) <=> b * x > a * y
      /\ Higher(front, profile, d, e) <=> b * z > g * y
      /\ Higher(front, profile, e, d) <=> g * y > b * z
      /\ Higher(front, profile, c, e) <=> a * z > g * x
      /\ Higher(front, profile, e, c) <=> g * x > a * z
  BY <1>1, <1>2 DEF Higher, Bottom
<1>4. PICK k, l, m : k = TieKey(c) /\ l = TieKey(d) /\ m = TieKey(e)
  OBVIOUS
<1>5. /\ ~ Before(k, k)
      /\ Before(k, l) /\ Before(l, m) => Before(k, m)
      /\ c.name # d.name => Before(k, l) \/ Before(l, k)
  BY <1>4, TieKeysAreKeys, BeforeIsAnOrder
<1>6. PICK ay, bx, bz, gy, az, gx \in Int : ay = a * y /\ bx = b * x /\ bz = b * z /\ gy = g * y /\ az = a * z /\ gx = g * x
  OBVIOUS
<1>7. ay >= bx /\ bz >= gy => az >= gx /\ (ay > bx \/ bz > gy => az > gx)
  BY <1>2, <1>6, FractionsCompare
<1>8. ~ Precedes(front, profile, c, c)
  <2>1. a * x \in Int
    OBVIOUS
  <2> QED
    BY <1>3, <1>4, <1>5, <2>1 DEF Precedes
<1>9. /\ Precedes(front, profile, c, d) <=> ay > bx \/ (~(bx > ay) /\ Before(k, l))
      /\ Precedes(front, profile, d, c) <=> bx > ay \/ (~(ay > bx) /\ Before(l, k))
      /\ Precedes(front, profile, d, e) <=> bz > gy \/ (~(gy > bz) /\ Before(l, m))
      /\ Precedes(front, profile, c, e) <=> az > gx \/ (~(gx > az) /\ Before(k, m))
  BY <1>3, <1>4, <1>6 DEF Precedes
<1>10. Precedes(front, profile, c, d) /\ Precedes(front, profile, d, e) => Precedes(front, profile, c, e)
  <2> SUFFICES ASSUME Precedes(front, profile, c, d), Precedes(front, profile, d, e) PROVE Precedes(front, profile, c, e)
    OBVIOUS
  <2>1. ay >= bx /\ (ay > bx \/ Before(k, l))
    BY <1>9
  <2>2. bz >= gy /\ (bz > gy \/ Before(l, m))
    BY <1>9
  <2>3. az >= gx /\ (az > gx \/ Before(k, m))
    BY <1>5, <1>7, <2>1, <2>2
  <2> QED
    BY <1>9, <2>3
<1>11. c.name # d.name => Precedes(front, profile, c, d) \/ Precedes(front, profile, d, c)
  <2>1. ay > bx \/ bx > ay \/ (~(ay > bx) /\ ~(bx > ay))
    OBVIOUS
  <2> QED
    BY <1>5, <1>9, <2>1
<1> QED
  BY <1>8, <1>10, <1>11

Apart(cs) == IsFiniteSet(cs) /\ \A c, d \in cs : c.name = d.name => c = d

LEMMA ChosenOfFrontier ==
    ASSUME NEW cs \in SUBSET Offers, Apart(cs), NEW profile \in Profiles, NEW identity, Frontier(cs, identity) # {}
    PROVE  Choose(cs, profile, identity) \in Frontier(cs, identity)
<1>1. PICK front : front = Frontier(cs, identity)
  OBVIOUS
<1>2. front \in SUBSET Offers /\ front \subseteq cs /\ front # {}
  BY <1>1 DEF Frontier
<1>3. IsFiniteSet(front) /\ \A c, d \in front : c # d => c.name # d.name
  BY <1>2, FS_Subset DEF Apart
<1>4. PICK lt : lt = {cd \in front \X front : Precedes(front, profile, cd[1], cd[2])}
  OBVIOUS
<1>5. \A c, d \in front : <<c, d>> \in lt <=> Precedes(front, profile, c, d)
  BY <1>4
<1>6. PICK c \in front : \A d \in front : <<d, c>> \notin lt
  <2>1. \A x \in front : <<x, x>> \notin lt
    BY <1>2, <1>5, PrecedesIsAnOrder
  <2>2. \A x, y, z \in front : <<x, y>> \in lt /\ <<y, z>> \in lt => <<x, z>> \in lt
    BY <1>2, <1>5, PrecedesIsAnOrder
  <2> QED
    BY <1>2, <1>3, <2>1, <2>2, FirstExists
<1>7. \A d \in front \ {c} : Precedes(front, profile, c, d)
  BY <1>2, <1>3, <1>5, <1>6, PrecedesIsAnOrder
<1>8. Choose(cs, profile, identity) = CHOOSE x \in front : \A d \in front \ {x} : Precedes(front, profile, x, d)
  BY <1>1, <1>2 DEF Choose
<1>9. Choose(cs, profile, identity) \in front
  BY <1>7, <1>8
<1> QED
  BY <1>1, <1>9

(* Where all report the same, domination is an order: somebody is not dominated. *)
LEMMA UndominatedExists ==
    ASSUME NEW cs \in SUBSET Offers, Apart(cs), NEW identity, NEW fit, fit = {c \in cs : Eligible(c, identity)}, fit # {},
           \A c, d \in fit : \A m \in Objectives : Reports(c, m) = Reports(d, m)
    PROVE  Frontier(cs, identity) # {}
<1>1. PICK lt : lt = {cd \in fit \X fit : Dominates(cd[1], cd[2])}
  OBVIOUS
<1>2. \A c, d \in fit : <<c, d>> \in lt <=> Dominates(c, d)
  BY <1>1
<1>3. PICK common : common \subseteq Objectives /\ \A c \in fit : \A m \in Objectives : m \in common <=> Reports(c, m)
  <2>1. PICK x \in fit : TRUE
    OBVIOUS
  <2>2. PICK common : common = {m \in Objectives : Reports(x, m)}
    OBVIOUS
  <2>3. \A c \in fit : \A m \in Objectives : m \in common <=> Reports(c, m)
    BY <2>2
  <2> QED
    BY <2>2, <2>3
<1>4. \A c \in fit : \A m \in common : c.value[m] \in {0, 1, 2}
  BY <1>3, OffersAreCandidates
<1>5. \A c, d \in fit : Dominates(c, d) <=>
         /\ \A m \in common : ~Better(m, d.value[m], c.value[m])
         /\ \E m \in common : Better(m, c.value[m], d.value[m])
  <2> SUFFICES ASSUME NEW c \in fit, NEW d \in fit
               PROVE  Dominates(c, d) <=>
                        /\ \A m \in common : ~Better(m, d.value[m], c.value[m])
                        /\ \E m \in common : Better(m, c.value[m], d.value[m])
    OBVIOUS
  <2>1. {m \in Objectives : Reports(c, m) /\ Reports(d, m)} = common
    BY <1>3
  <2> QED
    BY <2>1 DEF Dominates
<1>6. \A c \in fit : ~ Dominates(c, c)
  BY <1>4, <1>5 DEF Better
<1>7. ASSUME NEW c \in fit, NEW d \in fit, NEW e \in fit, Dominates(c, d), Dominates(d, e) PROVE Dominates(c, e)
  <2>1. ASSUME NEW m \in common PROVE ~Better(m, e.value[m], c.value[m])
    <3>1. ~Better(m, d.value[m], c.value[m]) /\ ~Better(m, e.value[m], d.value[m])
      BY <1>5, <1>7
    <3>2. PICK u, v, w \in {0, 1, 2} : u = c.value[m] /\ v = d.value[m] /\ w = e.value[m]
      BY <1>4
    <3> QED
      BY <3>1, <3>2 DEF Better
  <2>2. PICK m \in common : Better(m, c.value[m], d.value[m])
    BY <1>5, <1>7
  <2>3. ~Better(m, e.value[m], d.value[m])
    BY <1>5, <1>7
  <2>4. PICK u, v, w \in {0, 1, 2} : u = c.value[m] /\ v = d.value[m] /\ w = e.value[m]
    BY <1>4
  <2>5. Better(m, c.value[m], e.value[m])
    BY <2>2, <2>3, <2>4 DEF Better
  <2> QED
    BY <1>5, <2>1, <2>5
<1>8. IsFiniteSet(fit)
  BY FS_Subset DEF Apart
<1>9. PICK c \in fit : \A d \in fit : <<d, c>> \notin lt
  <2>1. \A x \in fit : <<x, x>> \notin lt
    BY <1>2, <1>6
  <2>2. \A x, y, z \in fit : <<x, y>> \in lt /\ <<y, z>> \in lt => <<x, z>> \in lt
    BY <1>2, <1>7
  <2> QED
    BY <1>8, <2>1, <2>2, FirstExists
<1>10. c \in Frontier(cs, identity)
  BY <1>2, <1>9 DEF Frontier
<1> QED
  BY <1>10

ParetoInv ==
    /\ offered \subseteq Offers /\ Apart(offered)
    /\ decision # NoSelection =>
          /\ decision.among \subseteq Offers /\ Apart(decision.among)
          /\ \E profile \in Profiles : decision.selected = Choose(decision.among, profile, decision.identity)

LEMMA ParetoInvIsSound == ASSUME ParetoInv PROVE SelectionIsSound
<1> SUFFICES ASSUME decision # NoSelection PROVE SelectionIsSound
  BY DEF SelectionIsSound, SelectedIsUndominated, CompleteReportsAreSelected
<1>1. PICK cs, identity, x : cs = decision.among /\ identity = decision.identity /\ x = decision.selected
  OBVIOUS
<1>2. PICK profile \in Profiles : x = Choose(cs, profile, identity) /\ cs \in SUBSET Offers /\ Apart(cs)
  BY <1>1 DEF ParetoInv
<1>3. PICK fit : fit = {c \in cs : Eligible(c, identity)} /\ fit = Fitting
  BY <1>1 DEF Fitting
<1>4. PICK front : front = Frontier(cs, identity)
  OBVIOUS
<1>5. front \subseteq fit /\ \A c \in front : \A d \in fit : d # c => ~ Dominates(d, c)
  BY <1>3, <1>4 DEF Frontier
<1>6. front = {} => x = NoSelection
  BY <1>2, <1>4 DEF Choose
<1>7. front # {} => x \in front
  BY <1>2, <1>4, ChosenOfFrontier
<1>8. SelectedIsUndominated
  <2> SUFFICES ASSUME x # NoSelection
               PROVE  /\ x \in fit
                      /\ \A c \in fit : \A m \in Objectives :
                            Reports(c, m) /\ Reports(x, m) /\ Better(m, c.value[m], x.value[m]) =>
                               \E n \in Objectives : Reports(c, n) /\ Reports(x, n) /\ Better(n, x.value[n], c.value[n])
    BY <1>1, <1>3 DEF SelectedIsUndominated
  <2>1. x \in front
    BY <1>6, <1>7
  <2>2. ASSUME NEW c \in fit, NEW m \in Objectives, Reports(c, m), Reports(x, m), Better(m, c.value[m], x.value[m])
        PROVE  \E n \in Objectives : Reports(c, n) /\ Reports(x, n) /\ Better(n, x.value[n], c.value[n])
    <3>1. c # x
      <4>1. PICK v \in {0, 1, 2} : v = c.value[m]
        BY <1>2, <1>3, <2>2, OffersAreCandidates
      <4> QED
        BY <2>2, <4>1 DEF Better
    <3>2. ~ Dominates(c, x)
      BY <1>5, <2>1, <3>1
    <3> QED
      BY <2>2, <3>2 DEF Dominates
  <2> QED
    BY <1>5, <2>1, <2>2
<1>9. CompleteReportsAreSelected
  <2> SUFFICES ASSUME fit # {}, \A c, d \in fit : \A m \in Objectives : Reports(c, m) = Reports(d, m) PROVE x # NoSelection
    BY <1>1, <1>3 DEF CompleteReportsAreSelected
  <2>1. front # {}
    BY <1>2, <1>3, <1>4, UndominatedExists
  <2>2. x \in Offers
    BY <1>2, <1>3, <1>5, <1>7, <2>1
  <2> QED
    BY <2>2, ParetoAssumption
<1> QED
  BY <1>8, <1>9 DEF SelectionIsSound

(* The representation that is selected fits the budgets and nothing that fits dominates it,
   and where the candidates that fit report the same objectives one of them is selected: for
   every set of candidates, objectives, profiles and budgets (ParetoPolicy.decide of
   pareto_policy.py). *)
THEOREM SelectionsSound == ParetoSpec => []SelectionIsSound
<1>1. ParetoInit => ParetoInv
  BY FS_EmptySet DEF ParetoInit, ParetoInv, Apart
<1>2. ParetoInv /\ [ParetoNext]_paretoVars => ParetoInv'
  <2> SUFFICES ASSUME ParetoInv, [ParetoNext]_paretoVars PROVE ParetoInv'
    OBVIOUS
  <2>1. ASSUME NEW c \in Offers, Report(c) PROVE ParetoInv'
    <3>1. offered' = offered \cup {c} /\ decision' = decision /\ decision = NoSelection
      BY <2>1 DEF Report
    <3>2. IsFiniteSet(offered \cup {c})
      BY FS_AddElement DEF ParetoInv, Apart
    <3>3. Apart(offered \cup {c})
      BY <2>1, <3>2 DEF Report, ParetoInv, Apart
    <3> QED
      BY <3>1, <3>3 DEF ParetoInv, Apart
  <2>2. ASSUME NEW profile \in Profiles, NEW identity, DecideRepresentation(profile, identity) PROVE ParetoInv'
    <3>1. /\ offered' = offered
          /\ decision' = [selected |-> Choose(offered, profile, identity), among |-> offered,
                          identity |-> identity, generation |-> generation]
      BY <2>2 DEF DecideRepresentation
    <3>2. /\ decision'.selected = Choose(offered, profile, identity) /\ decision'.among = offered
          /\ decision'.identity = identity
      BY <3>1
    <3> QED
      BY <3>1, <3>2 DEF ParetoInv, Apart
  <2>3. CASE UseDecision
    BY <2>3 DEF UseDecision, ParetoInv, Apart
  <2>4. CASE AdvanceGeneration
    <3>1. offered' = {} /\ decision' = decision /\ Apart({})
      BY <2>4, FS_EmptySet DEF AdvanceGeneration, Apart
    <3> QED
      BY <3>1 DEF ParetoInv, Apart
  <2>5. CASE UNCHANGED paretoVars
    BY <2>5 DEF paretoVars, ParetoInv, Apart
  <2> QED
    BY <2>1, <2>2, <2>3, <2>4, <2>5 DEF ParetoNext
<1> QED
  BY <1>1, <1>2, ParetoInvIsSound, PTL DEF ParetoSpec
=============================================================================
