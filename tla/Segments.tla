------------------------------- MODULE Segments -------------------------------
(***************************************************************************)
(* Files of segments: the store that several processes publish to, and the *)
(* build of one generation of a streaming block store.                     *)
(***************************************************************************)
EXTENDS Naturals, Sequences, FiniteSets

----------------------------------------------------------------------------
(***************************************************************************)
(* The sections of snapshots as files of their own (segments.py): publish  *)
(* writes the files, keeps the manifest as the previous one and replaces   *)
(* it; recover_previous takes the previous one back; a pager of one        *)
(* generation reads pages.  Every file is named for what is in it and is   *)
(* replaced as a whole, so a manifest or a segment is there or is not.     *)
(* Publishers are processes and die anywhere.                              *)
(***************************************************************************)

CONSTANTS
    Section,         \* names of sections
    Release,         \* snapshots, each of a generation of its own
    SectionOf,       \* snapshot -> section -> its bytes
    Publisher, PageReader,
    NoManifest, NoPage

VARIABLES
    segmentFiles,    \* <<section, bytes>> that exist
    manifestFile, previousFile,
    publishing,      \* process -> [step, release, todo, backup], or NoManifest
    windows,         \* pages of the pagers: <<generation, section>> -> bytes, or NoPage
    reading,         \* thread -> <<generation, section>> between check and load, or NoPage
    crossed,         \* history: threads in whose read the manifest was replaced
    strays           \* history: pages that such a read loaded

segmentVars == <<segmentFiles, manifestFile, previousFile, publishing, windows, reading, crossed, strays>>

Publishing == [step : {"sections", "backup", "swap"}, release : Release,
               todo : SUBSET (Section \X UNION {{SectionOf[g][s] : s \in Section} : g \in Release}),
               backup : Release \cup {NoManifest}]

ASSUME SegmentAssumption ==
    /\ DOMAIN SectionOf = Release
    /\ NoManifest \notin Release /\ NoManifest \notin Publishing /\ NoPage \notin Release \X Section

SegmentInit ==
    /\ segmentFiles = {} /\ manifestFile = NoManifest /\ previousFile = NoManifest
    /\ publishing = [p \in Publisher |-> NoManifest]
    /\ windows = [w \in Release \X Section |-> NoPage]
    /\ reading = [r \in PageReader |-> NoPage] /\ crossed = {} /\ strays = {}

readVars == <<windows, reading, crossed, strays>>
FilesOf(release) == {<<s, SectionOf[release][s]>> : s \in Section}
AtStep(p, step) == publishing[p] # NoManifest /\ publishing[p].step = step
ReadersAtWork == {r \in PageReader : reading[r] # NoPage}

PublishBegins(p, release) ==
    /\ publishing[p] = NoManifest
    /\ publishing' = [publishing EXCEPT ![p] = [step |-> "sections", release |-> release,
                                                todo |-> FilesOf(release), backup |-> NoManifest]]
    /\ UNCHANGED <<segmentFiles, manifestFile, previousFile, readVars>>

(* a file that is there already is compared and kept *)
WriteSection(p) ==
    /\ AtStep(p, "sections")
    /\ \E file \in publishing[p].todo :
          /\ segmentFiles' = segmentFiles \cup {file}
          /\ publishing' = [publishing EXCEPT ![p].todo = @ \ {file}]
    /\ UNCHANGED <<manifestFile, previousFile, readVars>>

(* Mutant: the manifest does not wait for the files. *)
CopyManifestEarly(p) ==
    /\ AtStep(p, "sections")
    /\ publishing' = [publishing EXCEPT ![p].step = IF manifestFile = NoManifest THEN "swap" ELSE "backup",
                                        ![p].backup = manifestFile]
    /\ UNCHANGED <<segmentFiles, manifestFile, previousFile, readVars>>

(* the new manifest is written to a file of the process, and the present one copied *)
CopyManifest(p) ==
    /\ AtStep(p, "sections") /\ publishing[p].todo = {}
    /\ publishing' = [publishing EXCEPT ![p].step = IF manifestFile = NoManifest THEN "swap" ELSE "backup",
                                        ![p].backup = manifestFile]
    /\ UNCHANGED <<segmentFiles, manifestFile, previousFile, readVars>>

ReplacePrevious(p) ==
    /\ AtStep(p, "backup")
    /\ previousFile' = publishing[p].backup
    /\ publishing' = [publishing EXCEPT ![p].step = "swap"]
    /\ UNCHANGED <<segmentFiles, manifestFile, readVars>>

ReplaceManifest(p) ==
    /\ AtStep(p, "swap")
    /\ manifestFile' = publishing[p].release
    /\ publishing' = [publishing EXCEPT ![p] = NoManifest]
    /\ crossed' = ReadersAtWork
    /\ UNCHANGED <<segmentFiles, previousFile, windows, reading, strays>>

(* _validate_entry of every segment *)
Validates(manifest) == manifest # NoManifest /\ FilesOf(manifest) \subseteq segmentFiles

(* recover_previous checks and then replaces the manifest, without a backup *)
RecoverBegins(p) ==
    /\ publishing[p] = NoManifest /\ Validates(previousFile)
    /\ publishing' = [publishing EXCEPT ![p] = [step |-> "swap", release |-> previousFile,
                                                todo |-> {}, backup |-> NoManifest]]
    /\ UNCHANGED <<segmentFiles, manifestFile, previousFile, readVars>>

PublisherDies(p) ==
    /\ publishing[p] # NoManifest
    /\ publishing' = [publishing EXCEPT ![p] = NoManifest]
    /\ UNCHANGED <<segmentFiles, manifestFile, previousFile, readVars>>

(* SemanticSegmentPager.read: the manifest must be of the pager's generation; a page that
   is resident is returned *)
ReadChecks(r, generation, s) ==
    /\ reading[r] = NoPage
    /\ manifestFile = generation
    /\ windows[<<generation, s>>] = NoPage
    /\ reading' = [reading EXCEPT ![r] = <<generation, s>>]
    /\ UNCHANGED <<segmentFiles, manifestFile, previousFile, publishing, windows, crossed, strays>>

(* the load of a page reads the manifest once more and maps the segment it names; one that
   does not validate, or is too short by now, is an error *)
ReadLoads(r) ==
    /\ reading[r] # NoPage
    /\ reading' = [reading EXCEPT ![r] = NoPage] /\ crossed' = crossed \ {r}
    /\ \/ UNCHANGED <<windows, strays>>
       \/ /\ Validates(manifestFile)
          /\ windows' = [windows EXCEPT ![reading[r]] = SectionOf[manifestFile][reading[r][2]]]
          /\ strays' = strays \cup (IF r \in crossed THEN {reading[r]} ELSE {})
    /\ UNCHANGED <<segmentFiles, manifestFile, previousFile, publishing>>

SegmentNext ==
    \/ \E p \in Publisher :
          \/ \E release \in Release : PublishBegins(p, release)
          \/ WriteSection(p) \/ CopyManifest(p) \/ ReplacePrevious(p) \/ ReplaceManifest(p)
          \/ RecoverBegins(p) \/ PublisherDies(p)
    \/ \E r \in PageReader : \/ \E g \in Release, s \in Section : ReadChecks(r, g, s)
                             \/ ReadLoads(r)

SegmentSpec == SegmentInit /\ [][SegmentNext]_segmentVars

----------------------------------------------------------------------------
(* Properties *)

(* Whatever dies or overlaps, both manifests can be read in full, and there is a manifest
   wherever there is a previous one; and a page holds the bytes of its section in one
   generation, which is the pager's own unless the manifest was replaced between the
   check of the generation and the load. *)
SegmentsAreWhole ==
    /\ \A m \in {manifestFile, previousFile} \ {NoManifest} : Validates(m)
    /\ previousFile # NoManifest => manifestFile # NoManifest
    /\ \A g \in Release, s \in Section :
          windows[<<g, s>>] # NoPage =>
              \E h \in Release : windows[<<g, s>>] = SectionOf[h][s] /\ (h = g \/ <<g, s>> \in strays)

----------------------------------------------------------------------------
(***************************************************************************)
(* Building one generation of a streaming block store (streaming.py): a    *)
(* segment that blocks are appended to, a checkpoint after every block, a  *)
(* manifest, the current manifest, and no checkpoint any more.  A build    *)
(* may die after any write, and inside the write of a block; it is started *)
(* again from nothing or resumed from the checkpoint.                      *)
(***************************************************************************)

CONSTANTS
    Input,        \* the sources, as sequences of blocks
    NoFile,
    MaxBuilds

VARIABLES
    segment, checkpoint, manifest, latest,
    build,        \* [at, source] of the build that runs, or NoFile
    builds

streamVars == <<segment, checkpoint, manifest, latest, build, builds>>

TornBlock == 0    \* half a block; whole blocks are positive numbers

ASSUME StreamAssumption ==
    MaxBuilds \in Nat /\ Input \subseteq Seq(Nat \ {TornBlock}) /\ NoFile \notin Nat \ {TornBlock}

StreamInit ==
    /\ segment = <<NoFile>> /\ checkpoint = <<NoFile>> /\ manifest = <<NoFile>> /\ latest = <<NoFile>>
    /\ build = <<NoFile>> /\ builds = 0

StartsBuild == build = <<NoFile>> /\ builds < MaxBuilds /\ builds' = builds + 1
Reached(stage) == build # <<NoFile>> /\ build[1] = stage
Fed == build[2]
Move(stage) == build' = <<stage, Fed>>

BuildFresh(source) ==
    /\ StartsBuild
    /\ checkpoint' = <<>>
    /\ build' = <<"truncate", source>>
    /\ UNCHANGED <<segment, manifest, latest>>

TruncateSegment ==
    /\ Reached("truncate")
    /\ segment' = <<>> /\ checkpoint' = <<>>
    /\ Move("block")
    /\ UNCHANGED <<manifest, latest, builds>>

(* _validate_existing and the blocks of the source that the checkpoint has already *)
IsInitial(s, t) == Len(s) <= Len(t) /\ SubSeq(t, 1, Len(s)) = s

BuildResume(source) ==
    /\ StartsBuild
    /\ checkpoint # <<NoFile>> /\ segment = checkpoint
    /\ IsInitial(checkpoint, source)
    /\ build' = <<"block", source>>
    /\ UNCHANGED <<segment, checkpoint, manifest, latest>>

WriteBlock ==
    /\ Reached("block") /\ Len(checkpoint) < Len(Fed)
    /\ segment' = Append(segment, Fed[Len(checkpoint) + 1])
    /\ Move("checkpoint")
    /\ UNCHANGED <<checkpoint, manifest, latest, builds>>

WriteCheckpoint ==
    /\ Reached("checkpoint")
    /\ checkpoint' = SubSeq(Fed, 1, Len(checkpoint) + 1)
    /\ Move("block")
    /\ UNCHANGED <<segment, manifest, latest, builds>>

(* Mutant: the checkpoint goes before current.json is replaced. *)
PublishManifestUnlinking ==
    /\ Reached("block") /\ Len(checkpoint) = Len(Fed)
    /\ manifest' = Fed /\ checkpoint' = <<NoFile>>
    /\ Move("current")
    /\ UNCHANGED <<segment, latest, builds>>

PublishManifest ==
    /\ Reached("block") /\ Len(checkpoint) = Len(Fed)
    /\ manifest' = Fed
    /\ Move("current")
    /\ UNCHANGED <<segment, checkpoint, latest, builds>>

PublishCurrent ==
    /\ Reached("current")
    /\ latest' = Fed
    /\ Move("unlink")
    /\ UNCHANGED <<segment, checkpoint, manifest, builds>>

UnlinkCheckpoint ==
    /\ Reached("unlink")
    /\ checkpoint' = <<NoFile>>
    /\ build' = <<NoFile>>
    /\ UNCHANGED <<segment, manifest, latest, builds>>

BuildDies ==
    /\ build # <<NoFile>>
    /\ \/ UNCHANGED segment
       \/ Reached("block") /\ segment' = Append(segment, TornBlock)
    /\ build' = <<NoFile>>
    /\ UNCHANGED <<checkpoint, manifest, latest, builds>>

StreamNext ==
    \/ \E s \in Input : BuildFresh(s) \/ BuildResume(s)
    \/ TruncateSegment \/ WriteBlock \/ WriteCheckpoint \/ PublishManifest \/ PublishCurrent \/ UnlinkCheckpoint
    \/ BuildDies

StreamSpec == StreamInit /\ [][StreamNext]_streamVars

(* read_all and read_range: lengths and digests are compared with the manifest *)
ReadAll == manifest # <<NoFile>> /\ segment = manifest

----------------------------------------------------------------------------
(* Properties *)

(* Unless a checkpoint says that a build of the generation has begun, what was published
   can be read in full, however often builds died, were started again or resumed; and
   current.json names what the manifest of the generation names. *)
PublishedReads ==
    checkpoint = <<NoFile>> /\ manifest # <<NoFile>> => ReadAll /\ latest = manifest
===============================================================================
