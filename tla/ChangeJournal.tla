---------------------------- MODULE ChangeJournal ----------------------------
(***************************************************************************)
(* The change journal (journal.py): a header and a chain of records in one *)
(* file.  append reads the file, then makes sure that it has a header, and *)
(* then writes after its end; nothing is locked.  recover reads the file   *)
(* and writes it again without the torn tail.                              *)
(***************************************************************************)
EXTENDS Naturals, Sequences, FiniteSets

CONSTANTS
    Writer,
    MaxLines,        \* bound on the records in the file
    MaxTears         \* crashes

VARIABLES
    file,            \* no file, a file without a header, or a journal
    lines,           \* the records after the header: [by, prev], TornLine or Garbled
    doing,           \* per writer: what it is about to write, or <<>>
    recovering,      \* the lines recover read and those it is about to write, or none
    returned,        \* the records append returned, each with those before it
    emptied,         \* history: the file was written over by somebody who did not know all of it
    tears

journalVars == <<file, lines, doing, recovering, returned, emptied, tears>>

TornLine == [by |-> "torn", prev |-> <<>>]       \* a line without an end
Garbled == [by |-> "garbled", prev |-> <<>>]     \* half a record with another one behind it

ASSUME JournalAssumption ==
    MaxLines \in Nat /\ MaxTears \in Nat /\ "torn" \notin Writer /\ "garbled" \notin Writer

JournalInit ==
    /\ file = "none" /\ lines = <<>> /\ doing = [w \in Writer |-> <<>>]
    /\ recovering = <<>> /\ returned = {} /\ emptied = FALSE /\ tears = 0

(* A record's hash covers its predecessor's: it stands for the records up to it. *)
Chain(ls) == [n \in 1..Len(ls) |-> ls[n].by]

(* Mutant: each record is verified by its own hash alone. *)
ChainedLoosely(ls) == \A n \in 1..Len(ls) : ls[n] \notin {TornLine, Garbled}

(* _verify_event for every record *)
Chained(ls) ==
    \A n \in 1..Len(ls) : ls[n] \notin {TornLine, Garbled} /\ ls[n].prev = Chain(SubSeq(ls, 1, n - 1))

(* read *)
Accepts == file # "headless" /\ Chained(lines)

AppendRead(w) ==
    /\ doing[w] = <<>>
    /\ Accepts
    /\ Len(lines) < MaxLines
    /\ doing' = [doing EXCEPT ![w] = <<"header", Chain(lines)>>]
    /\ UNCHANGED <<file, lines, recovering, returned, emptied, tears>>

(* _ensure_header: the file is looked for once more; one that is not there is opened for
   writing, which empties it when somebody else has created it since *)
HeaderCheck(w) ==
    /\ doing[w] # <<>> /\ doing[w][1] = "header"
    /\ doing' = [doing EXCEPT ![w] = <<IF file = "none" THEN "create" ELSE "write", @[2]>>]
    /\ UNCHANGED <<file, lines, recovering, returned, emptied, tears>>

HeaderCreate(w) ==
    /\ doing[w] # <<>> /\ doing[w][1] = "create"
    /\ file' = "journal" /\ lines' = <<>>
    /\ emptied' = (emptied \/ file # "none")
    /\ doing' = [doing EXCEPT ![w] = <<"write", @[2]>>]
    /\ UNCHANGED <<recovering, returned, tears>>

(* What is written behind a line without an end becomes a part of it. *)
Behind(ls, line) ==
    IF ls # <<>> /\ ls[Len(ls)] = TornLine
    THEN [ls EXCEPT ![Len(ls)] = IF line = TornLine THEN TornLine ELSE Garbled]
    ELSE Append(ls, line)

AppendWrite(w) ==
    /\ doing[w] # <<>> /\ doing[w][1] = "write"
    /\ lines' = Behind(lines, [by |-> w, prev |-> doing[w][2]])
    /\ returned' = returned \cup {Append(doing[w][2], w)}
    /\ doing' = [doing EXCEPT ![w] = <<>>]
    /\ UNCHANGED <<file, recovering, emptied, tears>>

(* A writer dies in a write, which leaves half of the header or of the record. *)
Tear(w) ==
    /\ tears < MaxTears /\ tears' = tears + 1
    /\ doing[w] # <<>>
    /\ \/ doing[w][1] = "create" /\ file' = "headless" /\ lines' = <<>> /\ emptied' = (emptied \/ file # "none")
       \/ doing[w][1] = "write" /\ lines' = Behind(lines, TornLine) /\ UNCHANGED <<file, emptied>>
    /\ doing' = [doing EXCEPT ![w] = <<>>]
    /\ UNCHANGED <<recovering, returned>>

(* recover: read(recover=True) accepts a last line without an end *)
RecoverRead ==
    /\ recovering = <<>> /\ file = "journal"
    /\ lines # <<>> /\ lines[Len(lines)] = TornLine
    /\ Chained(SubSeq(lines, 1, Len(lines) - 1))
    /\ recovering' = <<lines, SubSeq(lines, 1, Len(lines) - 1)>>
    /\ UNCHANGED <<file, lines, doing, returned, emptied, tears>>

RecoverWrite ==
    /\ recovering # <<>>
    /\ lines' = recovering[2]
    /\ emptied' = (emptied \/ lines # recovering[1])
    /\ recovering' = <<>>
    /\ UNCHANGED <<file, doing, returned, tears>>

(* write_bytes empties the file before it writes *)
RecoverDies ==
    /\ recovering # <<>>
    /\ tears < MaxTears /\ tears' = tears + 1
    /\ \/ file' = "headless" /\ lines' = <<>>
       \/ UNCHANGED file /\ \E n \in 0..Len(recovering[2]) : lines' = SubSeq(recovering[2], 1, n)
    /\ emptied' = TRUE
    /\ recovering' = <<>>
    /\ UNCHANGED <<doing, returned>>

JournalNext ==
    \/ \E w \in Writer : AppendRead(w) \/ HeaderCheck(w) \/ HeaderCreate(w) \/ AppendWrite(w) \/ Tear(w)
    \/ RecoverRead \/ RecoverWrite \/ RecoverDies

JournalSpec == JournalInit /\ [][JournalNext]_journalVars

----------------------------------------------------------------------------
(* Properties *)

(* What append returned is in the journal that read accepts.  Writers that race fork the
   chain, and a record behind half of another one is unreadable, but then read fails:
   nothing is lost in silence.  Only three things lose records so: a second writer that
   creates the journal, a recover that is killed, and one beside which a writer appended. *)
AckedOrRefused ==
    Accepts /\ ~ emptied =>
        \A r \in returned : Len(r) <= Len(lines) /\ Chain(SubSeq(lines, 1, Len(r))) = r
=============================================================================
