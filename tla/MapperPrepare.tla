---------------------------- MODULE MapperPrepare ----------------------------
(***************************************************************************)
(* prepare in integrated mode (delivery.py): the Mapper's handoff and its  *)
(* artifacts are validated, read again for the payload, compared with the  *)
(* sidecar and with the snapshot, compiled where they differ, and the      *)
(* snapshot is opened once more for the answer.  The checkout may move and *)
(* a preparation may die between any two of these.  A handoff, its         *)
(* artifacts and the tree they describe are named by the revision.         *)
(***************************************************************************)
EXTENDS Naturals, FiniteSets

CONSTANTS
    Preparer,
    Revision,
    NoSnapshot, NoSidecar,
    MaxMoves

VARIABLES
    tree,         \* HEAD and the files of the checkout
    artifacts,    \* what the Mapper wrote last
    projection,   \* the snapshot: [pin, facts], provenance and content; or NoSnapshot
    sidecar,
    preparing,    \* per preparer: <<>>, or <<step, handoff, payload>>
    prepared,     \* the last answer: [handoff, snapshot, overtaken, mixed], or <<>>
    moves,
    overtaken,    \* history: preparers during whose work another one replaced the snapshot
    rewritten,    \* history: preparers during whose work the Mapper wrote
    mixed         \* history: one of rewritten compiled the snapshot

mapperVars == <<tree, artifacts, projection, sidecar, preparing, prepared, moves, overtaken, rewritten, mixed>>

ASSUME MapperAssumption == MaxMoves \in Nat /\ NoSidecar \notin Revision

Bootstrap == [pin |-> NoSidecar, facts |-> NoSidecar]

MapperInit ==
    /\ tree \in Revision /\ artifacts = tree
    /\ projection = NoSnapshot /\ sidecar = NoSidecar
    /\ preparing = [p \in Preparer |-> <<>>] /\ prepared = <<>> /\ moves = 0
    /\ overtaken = {} /\ rewritten = {} /\ mixed = FALSE

Working == {p \in Preparer : preparing[p] # <<>>}
histories == <<overtaken, rewritten, mixed>>
InStep(p, step) == preparing[p] # <<>> /\ preparing[p][1] = step
Handoff(p) == preparing[p][2]
Facts(p) == preparing[p][3]
Proceed(p, step) == preparing' = [preparing EXCEPT ![p][1] = step]

MoveTree(r) ==
    /\ moves < MaxMoves /\ moves' = moves + 1
    /\ tree' = r
    /\ UNCHANGED <<artifacts, projection, sidecar, preparing, prepared, histories>>

MapperRuns ==
    /\ artifacts # tree
    /\ artifacts' = tree
    /\ rewritten' = Working
    /\ UNCHANGED <<tree, projection, sidecar, preparing, prepared, moves, overtaken, mixed>>

(* validate_handoff: of this commit, and every artifact as declared *)
ValidateHandoff(p, h) ==
    /\ preparing[p] = <<>>
    /\ h = tree /\ h = artifacts
    /\ preparing' = [preparing EXCEPT ![p] = <<"again", h, h>>]
    /\ UNCHANGED <<tree, artifacts, projection, sidecar, prepared, moves, histories>>

(* build_payload_from_mapper validates the handoff a second time *)
ValidateAgain(p) ==
    /\ InStep(p, "again")
    /\ Handoff(p) = tree /\ Handoff(p) = artifacts
    /\ Proceed(p, "payload")
    /\ UNCHANGED <<tree, artifacts, projection, sidecar, prepared, moves, histories>>

(* the digests that the project map declares are those of the files *)
SourcesMatch == artifacts = tree

(* it then reads the artifacts, whatever they are by now *)
BuildPayload(p) ==
    /\ InStep(p, "payload") /\ SourcesMatch
    /\ preparing' = [preparing EXCEPT ![p] = <<"compare", Handoff(p), artifacts>>]
    /\ UNCHANGED <<tree, artifacts, projection, sidecar, prepared, moves, histories>>

CompareSidecar(p) ==
    /\ InStep(p, "compare")
    /\ Proceed(p, IF sidecar = Handoff(p) THEN "match" ELSE "compile")
    /\ UNCHANGED <<tree, artifacts, projection, sidecar, prepared, moves, histories>>

(* Mutant: a snapshot next to the right sidecar is taken to be the handoff's. *)
MatchesAny(h) == projection # NoSnapshot

(* the snapshot names this handoff as the one it was compiled from *)
MatchesMapper(h) == projection # NoSnapshot /\ projection.pin = h

CompareSnapshot(p) ==
    /\ InStep(p, "match")
    /\ Proceed(p, IF MatchesMapper(Handoff(p)) THEN "open" ELSE "compile")
    /\ UNCHANGED <<tree, artifacts, projection, sidecar, prepared, moves, histories>>

(* compile_mapper_payload: the files are read and compared again, the snapshot is
   replaced, and the sidecar is written behind it *)
CompileSnapshot(p) ==
    /\ InStep(p, "compile") /\ Facts(p) = tree
    /\ projection' = [pin |-> Handoff(p), facts |-> Facts(p)]
    /\ Proceed(p, "sidecar")
    /\ overtaken' = overtaken \cup (Working \ {p}) /\ mixed' = (p \in rewritten)
    /\ UNCHANGED <<tree, artifacts, sidecar, prepared, moves, rewritten>>

WriteSidecar(p) ==
    /\ InStep(p, "sidecar")
    /\ sidecar' = Handoff(p)
    /\ Proceed(p, "open")
    /\ UNCHANGED <<tree, artifacts, projection, prepared, moves, histories>>

Leaves(p) ==
    /\ preparing' = [preparing EXCEPT ![p] = <<>>]
    /\ overtaken' = overtaken \ {p} /\ rewritten' = rewritten \ {p} /\ UNCHANGED mixed

OpenSnapshot(p) ==
    /\ InStep(p, "open")
    /\ prepared' = [handoff |-> Handoff(p), snapshot |-> projection,
                    overtaken |-> p \in overtaken, mixed |-> mixed]
    /\ Leaves(p)
    /\ UNCHANGED <<tree, artifacts, projection, sidecar, moves>>

(* An error or a crash, which may leave half a sidecar behind. *)
PrepareFails(p) ==
    /\ preparing[p] # <<>>
    /\ Leaves(p)
    /\ \/ UNCHANGED sidecar
       \/ InStep(p, "sidecar") /\ sidecar' = NoSidecar
    /\ UNCHANGED <<tree, artifacts, projection, prepared, moves>>

(* bootstrap mode builds a snapshot only where there is none *)
PrepareBootstrap ==
    /\ projection = NoSnapshot
    /\ projection' = Bootstrap
    /\ overtaken' = Working /\ mixed' = FALSE
    /\ UNCHANGED <<tree, artifacts, sidecar, preparing, prepared, moves, rewritten>>

MapperNext ==
    \/ \E r \in Revision : MoveTree(r)
    \/ MapperRuns \/ PrepareBootstrap
    \/ \E p \in Preparer :
          \/ \E h \in Revision : ValidateHandoff(p, h)
          \/ ValidateAgain(p) \/ BuildPayload(p) \/ CompareSidecar(p) \/ CompareSnapshot(p)
          \/ CompileSnapshot(p) \/ WriteSidecar(p) \/ OpenSnapshot(p) \/ PrepareFails(p)

MapperSpec == MapperInit /\ [][MapperNext]_mapperVars

----------------------------------------------------------------------------
(* Properties *)

(* What prepare answers for a handoff is a snapshot that names the handoff, unless another
   preparation replaced the snapshot while this one was at work; and the snapshot's facts
   are those of the handoff it names, unless the Mapper wrote while it was prepared:
   whatever moves or dies in between, and whoever compiled it. *)
PreparedIsPinned ==
    prepared # <<>> =>
        /\ prepared.snapshot.pin = prepared.handoff \/ prepared.overtaken
        /\ prepared.snapshot.facts = prepared.snapshot.pin \/ prepared.mixed

(* "A generation, version or artifact digest mismatch causes Fast to rebuild from the new
   handoff or fail closed." (docs/fast-v3-contract-matrix.md:36): the snapshot that prepare
   opens for its answer is not compared with the handoff again. *)
MismatchFailsClosed == prepared # <<>> => prepared.snapshot.pin = prepared.handoff
=============================================================================
