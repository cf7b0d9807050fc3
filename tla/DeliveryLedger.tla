---------------------------- MODULE DeliveryLedger ----------------------------
(***************************************************************************)
(* The delivery ledger: the chain of events in memory, and the files it is *)
(* kept in.                                                                *)
(***************************************************************************)
EXTENDS Integers, Sequences, FiniteSets

----------------------------------------------------------------------------
(***************************************************************************)
(* The in-memory delivery ledger (ledger.py): a chain of events, extended  *)
(* under a lock.  promote_winner and seal_delivery look at the winner      *)
(* under the lock and append after they have released it.                  *)
(***************************************************************************)

CONSTANTS
    Caller,      \* threads
    Delivery,    \* <<task, attempt>>
    Candidate, NoCandidate,
    MaxEvents    \* bound on the chain

VARIABLES
    chain,       \* _events
    winner,      \* _winner
    asked        \* what a caller is about to append, or <<>>

ledgerVars == <<chain, winner, asked>>

ASSUME LedgerAssumption == MaxEvents \in Nat /\ NoCandidate \notin Candidate

LedgerInit ==
    /\ chain = <<>>
    /\ winner = [d \in Delivery |-> NoCandidate]
    /\ asked = [c \in Caller |-> <<>>]

Event(kind, d, candidate) == [kind |-> kind, delivery |-> d, candidate |-> candidate]
Links == {chain[n].event : n \in 1..Len(chain)}

(* The hash of an event covers its place and the hash before it. *)
HashOf(n) == SubSeq([i \in 1..Len(chain) |-> chain[i].event], 1, n)

(* append_event: an event that is in the chain is returned, not appended again *)
AppendEvent(event) ==
    IF event \in Links THEN UNCHANGED chain
    ELSE /\ Len(chain) < MaxEvents
         /\ chain' = Append(chain, [event |-> event, sequence |-> Len(chain), prev |-> HashOf(Len(chain))])

Evidence(d, candidate) ==
    /\ AppendEvent(Event("TEST_EVIDENCE", d, candidate))
    /\ UNCHANGED <<winner, asked>>

(* Mutant: the winner is written without looking whether there is another one. *)
PromoteBeginAny(c, d, candidate) ==
    /\ asked[c] = <<>>
    /\ winner' = [winner EXCEPT ![d] = candidate]
    /\ asked' = [asked EXCEPT ![c] = <<Event("WINNER_PROMOTED", d, candidate)>>]
    /\ UNCHANGED chain

PromoteBegin(c, d, candidate) ==
    /\ asked[c] = <<>>
    /\ winner[d] \in {NoCandidate, candidate}
    /\ winner' = [winner EXCEPT ![d] = candidate]
    /\ asked' = [asked EXCEPT ![c] = <<Event("WINNER_PROMOTED", d, candidate)>>]
    /\ UNCHANGED chain

(* seal_delivery reads the winner again when it builds the event; it never changes *)
SealBegin(c, d) ==
    /\ asked[c] = <<>>
    /\ winner[d] # NoCandidate
    /\ asked' = [asked EXCEPT ![c] = <<Event("DELIVERY_SEALED", d, winner[d])>>]
    /\ UNCHANGED <<chain, winner>>

Finish(c) ==
    /\ asked[c] # <<>>
    /\ AppendEvent(Head(asked[c]))
    /\ asked' = [asked EXCEPT ![c] = <<>>]
    /\ UNCHANGED winner

LedgerNext ==
    \/ \E d \in Delivery, candidate \in Candidate : Evidence(d, candidate)
    \/ \E c \in Caller, d \in Delivery, candidate \in Candidate : PromoteBegin(c, d, candidate)
    \/ \E c \in Caller, d \in Delivery : SealBegin(c, d)
    \/ \E c \in Caller : Finish(c)

LedgerSpec == LedgerInit /\ [][LedgerNext]_ledgerVars

(* verify_all and verify_incremental *)
VerifyAll ==
    \A n \in 1..Len(chain) : chain[n].sequence = n - 1 /\ chain[n].prev = HashOf(n - 1)

----------------------------------------------------------------------------
(* Properties *)

EventsOf(kind, d) == {e \in Links : e.kind = kind /\ e.delivery = d}

(* However promotions and seals of one attempt race, the chain verifies, names one winner
   per delivery, has no event twice, and every seal in it names that winner. *)
OneWinner ==
    /\ VerifyAll
    /\ Cardinality(Links) = Len(chain)
    /\ \A d \in Delivery :
          /\ Cardinality(EventsOf("WINNER_PROMOTED", d)) <= 1
          /\ \A p \in EventsOf("WINNER_PROMOTED", d), s \in EventsOf("DELIVERY_SEALED", d) : s.candidate = p.candidate

----------------------------------------------------------------------------
(***************************************************************************)
(* The ledger's files (ledger_store.py): a body of records and an index of *)
(* offsets.  append writes and syncs the record, then the index entry; a   *)
(* process may die in between or leave half of either behind.  The file    *)
(* lock is released when its holder dies.  An offset is the number of      *)
(* records, whole or torn, before the record.                              *)
(*                                                                         *)
(* The events come from in-memory ledgers: the n-th event of one names the *)
(* event before it.  After a crash the process starts a ledger anew.       *)
(***************************************************************************)

CONSTANTS
    Source,        \* the in-memory ledgers whose events are stored
    MaxStored,     \* bound on the body, in records
    MaxDeaths

VARIABLES
    body,          \* HBP: events, or Torn
    index,         \* HBI: [sequence, offset, event]
    half,          \* half an index entry at the end of HBI
    hbi,           \* its header: empty, broken or whole
    step,          \* what the holder of the lock is about to do, or <<>>
    acked,         \* the events append returned for
    deaths

storedVars == <<body, index, half, hbi, step, acked, deaths>>

Torn == [ledger |-> "torn", sequence |-> 0]
EventOf(l, n) == [ledger |-> l, sequence |-> n]

ASSUME LedgerStoreAssumption == MaxStored \in Nat /\ MaxDeaths \in Nat

LedgerStoreInit ==
    /\ body = <<>> /\ index = <<>> /\ half = FALSE /\ hbi = "empty"
    /\ step = <<>> /\ acked = {} /\ deaths = 0

(* append: the sequence must be the next one of the index; its previous hash is not
   compared with what is stored *)
AppendBody(l) ==
    /\ step = <<>> /\ Len(body) < MaxStored
    /\ ~ half /\ hbi # "broken"
    /\ LET event == EventOf(l, Len(index)) IN
       /\ body' = Append(body, event)
       /\ step' = <<"index", [sequence |-> Len(index), offset |-> Len(body), event |-> event]>>
    /\ UNCHANGED <<index, half, hbi, acked, deaths>>

(* Mutant: the offset of a record is taken from the number of index entries. *)
AppendIndexCounted ==
    /\ step # <<>> /\ step[1] = "index"
    /\ index' = Append(index, [step[2] EXCEPT !.offset = Len(index)])
    /\ hbi' = "whole"
    /\ acked' = acked \cup {step[2].event}
    /\ step' = <<>>
    /\ UNCHANGED <<body, half, deaths>>

AppendIndex ==
    /\ step # <<>> /\ step[1] = "index"
    /\ index' = Append(index, step[2])
    /\ hbi' = "whole"
    /\ acked' = acked \cup {step[2].event}
    /\ step' = <<>>
    /\ UNCHANGED <<body, half, deaths>>

(* The holder of the lock dies, possibly inside the write it is at. *)
TornBody ==
    /\ step = <<>> /\ ~ half /\ hbi # "broken" /\ Len(body) < MaxStored
    /\ body' = Append(body, Torn)
    /\ UNCHANGED <<index, half, hbi>>
TornIndex ==
    /\ step # <<>> /\ step[1] = "index"
    /\ \/ half' = TRUE /\ hbi' = "whole" /\ UNCHANGED index
       \/ hbi = "empty" /\ hbi' = "broken" /\ UNCHANGED <<index, half>>
       \/ index' = Append(index, step[2]) /\ hbi' = "whole" /\ UNCHANGED half
    /\ UNCHANGED body

Die ==
    /\ deaths < MaxDeaths /\ deaths' = deaths + 1
    /\ TornBody \/ TornIndex \/ (step # <<>> /\ UNCHANGED <<body, index, half, hbi>>)
    /\ step' = <<>>
    /\ UNCHANGED acked

(* recover_tail: entries that do not follow each other in the body, and records that do
   not match their entry, are refused; what the index does not name is cut, HBI first *)
Matches(entry) == entry.offset < Len(body) /\ body[entry.offset + 1] = entry.event
Contiguous == \A n \in 1..Len(index) : index[n].sequence = n - 1 /\ index[n].offset = n - 1
Recoverable == hbi = "whole" /\ Contiguous /\ \A n \in 1..Len(index) : Matches(index[n])

RecoverIndex ==
    /\ step = <<>> /\ Recoverable
    /\ half \/ Len(body) > Len(index)
    /\ half' = FALSE
    /\ step' = <<"body", Len(index)>>
    /\ UNCHANGED <<body, index, hbi, acked, deaths>>

RecoverBody ==
    /\ step # <<>> /\ step[1] = "body"
    /\ body' = SubSeq(body, 1, step[2])
    /\ step' = <<>>
    /\ UNCHANGED <<index, half, hbi, acked, deaths>>

LedgerStoreNext ==
    \/ \E l \in Source : AppendBody(l)
    \/ AppendIndex \/ Die \/ RecoverIndex \/ RecoverBody

LedgerStoreSpec == LedgerStoreInit /\ [][LedgerStoreNext]_storedVars

(* read_record *)
Readable(n) == ~ half /\ n <= Len(index) /\ index[n].sequence = n - 1 /\ Matches(index[n])

(* verify: every indexed record is read, and names the one before it *)
Follows(n) == index[n].event.sequence = 0 \/ (n > 1 /\ index[n].event.ledger = index[n - 1].event.ledger)
VerifyStore == hbi = "whole" /\ \A n \in 1..Len(index) : Readable(n) /\ Follows(n)

----------------------------------------------------------------------------
(* Properties *)

(* An event append returned for stays in the files under its sequence: through crashes,
   orphaned and torn records, later appends behind them and recoveries.  It is read back
   unless the index ends in half an entry; recover_tail then brings it back, but only as
   long as no orphan lies among the records that were indexed. *)
AckedIsRead ==
    \A e \in acked :
        /\ e.sequence < Len(index) /\ index[e.sequence + 1].event = e
        /\ Matches(index[e.sequence + 1])
        /\ Readable(e.sequence + 1) \/ (half /\ (Recoverable \/ ~ Contiguous))

(* "Recover only a crash-consistent HBP/HBI prefix and discard orphaned tails": after
   crashes of append an event it returned for can be read, or read after recover_tail.
   With an orphan among the indexed records and half an entry behind them it can be
   neither, and nothing in the store repairs that. *)
AckedIsRecoverable == \A e \in acked : Readable(e.sequence + 1) \/ Recoverable

(* verify answers valid only for a prefix of one ledger's chain: the events of two
   ledgers, or of a ledger started again after a crash, are told apart although append
   takes whatever has the next sequence. *)
ValidIsOneChain ==
    VerifyStore => \A n \in 1..Len(index) : index[n].event = EventOf(index[1].event.ledger, n - 1)

(* The files say what was appended, to their readers and to verify. *)
StoreSpeaksTrue == AckedIsRead /\ ValidIsOneChain
===============================================================================
