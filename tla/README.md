# A TLA+ model of simplicio-fast

simplicio-fast keeps a versioned, memory-mapped snapshot of a repository, serves hash-checked context
from it, and coordinates guarded changes of the source files. The files stay authoritative, Mapper
extracts facts, Dev CLI mutates files, Runtime authorizes effects, and Fast sits between them. Much
of its code runs inside several processes, threads or tasks that share files or tables, and most of the
rest keeps records that must survive crashes, races and long sequences of calls. This directory models
both, checks the models with TLC, and proves with TLAPS, for every value of the constants, all but one of the safety properties that the runs check.

All paths below are relative to `src/src/simplicio_fast/` unless they start with `src/`.

## 1. Inventory

### Guarded changes

| part | state | operations | hard behaviour | correct when |
|---|---|---|---|---|
| binary changesets (`binary_changeset.py`, the `changeset` commands of `cli.py`) | source files, sealed binaries, a hash-chained journal | prepare, materialize, reconcile, recover | Dev CLI as a child that hangs or stops half way; crashes; edits; two lease holders | finished means landed, the journal loses nothing, nothing finished runs again |
| delivery (`delivery.py`, `processor.py`, `integrations.py`) | source files, stored receipts, the published snapshot | deliver: replay, Runtime effect, native executor, restore, fallback, rollback, refresh | other deliveries and developers on the same files; failing replacements | an applied receipt is exact; a raise is all or nothing |
| mapper handoff (`prepare` of `delivery.py`, `mapper_ingest.py`, `mapper_snapshot.py`, `build_payload_from_mapper` of `parser_adapter.py`) | handoff, artifacts, sidecar, snapshot | prepare in integrated mode | artifacts read twice, the snapshot re-opened | the answer is compiled from the handoff it names |

### Generations

| part | state | operations | hard behaviour | correct when |
|---|---|---|---|---|
| workspace store (`workspace.py`, `delta.py`, `build_snapshot`) | generation directories, `current.json`, overlays, lease files | build, draw, open, serve, lease, release, gc | processes without a lock | published is whole and bound; leases hold; served is faithful |
| arena (`prism_arena.py`) | bases, `current.hbp`, shared mappings; slots, leases, overlays, objects | publish, open, refresh, close; open, renew and release slots, create, change, close and clean up overlays | one process's threads; crashes; cleanup beside a delta | a base stays mapped while it is held; an overlay is a private copy |
| slots and generation store (`slot_executor.py`, `generation_store.py`) | snapshot objects, overlays, receipts; generations, pins, fences | execute; create, pin, write, tombstone, gc | check and work on both sides of a lock; kills inside a write; ids created again | VERIFIED means written; a pin keeps its generation |
| segments (`segments.py`) | segment files, manifest and previous manifest, pages | publish, recover_previous, read | publishers that die or overlap; a manifest read twice | both manifests can be read; a page is of its generation |

### Serving

| part | state | operations | hard behaviour | correct when |
|---|---|---|---|---|
| resident daemon (`resident_daemon.py`) | queue, worker tasks, futures, opening tasks, pins | submit, cancel, deadline, start, shutdown, crash | cancellation of shared tasks; restart | handlers have pins, every caller is settled, drains end |
| pagers and caches (`pager.py`, `semantic_pager.py`, `content_cache.py`) | pages, flights, leases, values | get, lease, release, invalidate, prefetch, run | owners that fail, waiters that give up, invalidation during a load | within budget, never stale, nobody is left waiting |
| backend session (`rust_session.py`) | child process, pipe, flag, lock | call, restart, close | deaths, bad lines, close without the lock | a call gets the answer to its own frame |
| policies (`decision_cache.py`, `policy_engine.py`, `pressure_inputs.py`, `speculation_*.py`, `policy_replay.py`, `pareto_policy.py`) | decisions by key for one generation, blocks | decide, put, lookup, invalidate, quarantine, activate; choose a representation | engines that share a cache; coarse keys | speculation is on only where it is safe now; the choice is undominated |
| validation cache (`validation_cache.py`) | results, leases | put, get, gc, save, load | results that vary | only repeated results are reused |
| views and packets (`context_view.py`, `prism_context_views.py`, `plugin_context_packet.py`, `universal_context.py`, `context_adapters.py`, `plugin_route_signals.py`) | cached views and packets, pins, overlays, ranks | select, compile, load, pin, overlay, invalidate | caches keyed by digests; budgets that cut | warm equals cold; incomplete says so |

### Records

| part | state | operations | hard behaviour | correct when |
|---|---|---|---|---|
| ledger (`ledger.py`, `ledger_store.py`) | event chain; body and index file | append, promote, seal; append, verify, recover_tail | append outside the lock; torn records and entries | one winner; what was acknowledged is read |
| change journal (`journal.py`) | one chained file | append, read, recover | writers without a lock | nothing is lost in silence |
| bitemporal facts (`temporal.py`) | versions per id | append, tombstone, invalidate, rename, as_of, save, load | versions that close each other | it loads; evidence stays |
| streaming store (`streaming.py`) | segment, checkpoint, manifest, `current.json` | build, resume | death after any write | published can be read |
| projections (`projection.py`, `knowledge_projection.py`, `operations_projection.py`, `federation.py`, `catalog.py`) | envelopes, facts, receipts, members and edges, handles | apply deltas, query, traverse, register, tombstone, save, load | late, repeated and partial deltas; collisions | what is called complete is complete; handles resolve to their own |

### Not modelled

Engine selection (a pure decision) and the rollout file (any mode may follow any mode); ranking, scoring, quantisation and
benchmarks (floating point); parsing, navigation and query planning (pure text and graph functions); receipts and contracts (schema
checks and formatting); `knowledge.py`, `context_security.py`, `policy_conformance.py` and the receipt chain of `generation_receipts.py`;
`ResidentRustSession` of `native_backend.py` (a second client of the session protocol) and the frame decoder of `ipc.py`; the command line beyond the changeset commands; the native core in `src/rust` and
`src/native`, a second implementation of the same contracts. `PROJECT.json` lists every part with its status, and the hazards, each at its line.

## 2. Modules

`X.tla` is a component, `MCX.tla` gives constants their values for TLC and composes what is run together, `*.cfg` are the runs. Operators whose
comment starts with "Mutant" are deliberately wrong variants of the definition after them. They are not
part of any specification; each shows that a property would notice that bug. `map` in `PROJECT.json` names the lines behind every definition.

**BinaryChangeset.** One command at a time works on one journal. `Prepare` compiles intent, `MaterializeBegin`,
`MaterializeValidate`, `MaterializeSeal`, `Spawn`, `AdapterReturns` or `AdapterTimesOut`, `MaterializeAfter` and `Record`
are the effects of `materialize` in their order, with the error exits beside them; `ReconcileBegin`/`ReconcileSettle` and
`Recover` are the other two commands. `Crash` may fall between any two of them and tears the record being written. The
Dev CLI child is external: it applies its plan operation by operation, can stop half way, garble its receipt or outlive its
parent. A digest is the bytes it stands for; newline normalisation is a function because
`_matches_hash` accepts both forms. `landed` and `locked` are history variables.

**Delivery.** Any number of workers run `deliver`. A loop that only reads is a step; every write is one. The refresh of the snapshot after the writes may raise, which ends the call without a receipt. The native
executor may write the right bytes, bytes that differ in newlines, nothing, or write in a dry run. `foreign`
records that somebody else wrote to the files of a call.

**MapperPrepare.** `prepare` in integrated mode: validate the handoff, read its artifacts again, compare with sidecar and snapshot, compile, open, by any number of preparations at once. A
revision stands for a handoff, its artifacts and the tree they describe.

**Workspace.** Processes share the directory tree. A generation id is the map of source hashes it is computed from. Build,
draw, open, serve, lease and gc are split at each check that a later write relies on; gc removes directory entries one by one.
`raced`, `collected` and a lease's `sound` (granted while no gc was between its scan and its removals) are history.

**PrismArena, PrismOverlays, PrivateViews.** `PrismArena` has the files of a publication and the reference-counted mappings of one process.
`PrismOverlays` has slots and overlays: the checks of `apply_delta`, `create_overlay` and `renew_slot` are steps apart from what follows them, since
release, close and cleanup take no lock. `PrivateViews` is the abstract specification: every overlay is a private copy of the base that only its own whole
deltas change. `PrismOverlays` implements it under the mapping `view[o]` = base overlaid by the records of `o` while its slot can be read
(`Isolated`, checked as the property `Views!ViewSpec`).

**GenerationStore, SlotExecutor.** One call of the generation store (`StoreSpec`) is one action. Any number of threads use the executor (`SlotSpec`), also for one envelope. In the executor a dispatch looks for its receipt, writes the files one by one
and saves the receipt; `write_bytes` truncates before it writes, so a kill leaves a torn file.

**ResidentDaemon.** The code between two awaits of the asyncio loop is one step. A cancelled task is doomed until it is
resumed. Workers share the opening task of a generation, so cancelling one cancels all that wait for it. One supervisor
starts, drains, stops and crashes the daemon.

**SemanticPager, SharedFlights, PageCache, ValidationCache, Segments.** In the threaded pager one step is one critical section; loaders run outside it;
`lease` is `get` followed by a second critical section (`Grant`). `SharedFlights` has the coordinator beside it (`FlightSpec`) and the content cache (`ContentSpec`), whose tasks
live on one event loop; `PageCache` is the slots' pager and `ValidationCache` the results of validations, one action per call. `Segments` has the publication of segments by processes and the reads of a pager (`SegmentSpec`), and the streaming store (`StreamSpec`), which splits a build at its
writes.

**RustSession.** Callers, a closer and a child. The lock is held from the frame to the answer; `close` sets the flag and then ends the process
that is current by then.

**PolicyVerdicts, DecisionCache, PolicyEngine, Pareto.** The first has the operators (score, verdict, placement; strategy, guardrail, tuning). A
decision of `PolicyEngine` is a sequence of calls into a cache that other engines and callers use at the same time. `Pareto` is the choice of a representation with
exact comparison of scores as fractions.

**Temporal, OperationsProjection, Projections** (of stored envelopes and of knowledge)**, AddressCatalog, Federation** keep derived records and are used under one lock, one action per
call; a batch of receipts that is refused keeps what it changed until then. **DeliveryLedger** splits promotion and seal where the lock is released; its file store (`LedgerStoreSpec`) and **ChangeJournal** split every operation at its writes and
tear them.

**ContextViews, Packets** (the packets for plugins with their cache, and the universal packet)**, RouteSignals** model what is selected under budgets and what the caches in front of it return. An item of the universal packet is measured
with all that the code encodes: `origin` stands for the generations and the producer, which the comparison of duplicates does not look at.

**XProofs** has the proofs about a component; `SlotProofs`, `CacheProofs` and `RecordProofs` those about several that share the facts they need.

Components that interact are composed: an engine with its cache, its score and its strategy (`PolicyEngine` extends the two modules), the universal packet with its
adapters, the overlays with their objects. The others share no state; `MCSlots` (which has the policies of `MCPolicyEngine` beside the arena, the stores and the executor) and `MCRecords` explore several side by side and never interleave them.

## 3. Runs

| run | checks | shows |
|---|---|---|
| `changeset` | JournalIsTrue, RecordsBind, CommandsEnd | a final record is earned by the effect; one holder per journal; complete records are never lost; nothing finished is spawned again; every command ends |
| `changeset_relock` | UnknownLocksReplay (violated) | the second `unknown` of a changeset is not recorded, so the promised lock is missing |
| `delivery` | ReceiptsAreExact, RaisedIsAllOrNothing | `applied` is byte-exact; a raise leaves the files as found, or all changed when only the refresh raised, unless somebody else wrote to them or the rollback itself failed |
| `workspace` | PublicationIsSound, ServedIsFaithful | published means whole and bound to its sources, and sound leases hold; served bytes are the bytes the symbols were parsed from |
| `workspace_lease` | LeaseHolds (violated) | a lease written between gc's scan and its removals protects nothing |
| `daemon` | WorkIsAccounted, DrainIsSound | handlers run on open pins, `join` counts exactly what is left, no response crosses a crash; drains settle every caller and end while a worker is left |
| `daemon_cancel` | CancelledIsSkipped (violated) | a request cancelled in the queue still reaches the handler |
| `daemon_drain` | DrainEnds (violated) | after a deadline ended the only worker a draining shutdown waits for ever |
| `pager` | ResidentsAreAccounted, PagerIsSound, CallsReturn | budgets are kept and counted; leases, digests and invalidation hold through concurrent loads; no waiter is left behind |
| `policy_pressed` | PressedIsBaseline (violated) | a decision stored while the placement was calm is reused for a request whose placement is pressed |
| `slots_policies` | GenerationsStayMapped, OverlaysAreSound, StoreIsSound, SlotsAreSound, Isolated | generations can be opened and stay mapped; records have their objects and budgets hold; pins keep generations and re-created ones are clean; VERIFIED means written; overlays are private copies |
| | DecisionsAreSafe, SelectionIsSound | to a decision that enables speculation, computed or reused, neither score nor guardrail nor backend object for its own request, to a computed one the placement neither, and what was revoked or blocked is not reused; a selected representation fits and is undominated |
| `records` | the properties below | each of the record keepers, caches, packets and the session |

| property of `records` | of | says |
|---|---|---|
| TemporalIsKept | Temporal | every overlay that calls can make is loaded again; no call erases evidence |
| HiddenForItself | Projections (knowledge) | a handle created again is not hidden by its earlier life |
| NeverMixed | Projections (store) | what a swap named, or a call since, is of the store's generation; a store saved with nothing else in it loads |
| OneWinner | DeliveryLedger (chain) | one winner per delivery, and seals name it, however calls race |
| StoreSpeaksTrue | DeliveryLedger (files) | an acknowledged event stays in body and index, and is read, or read after `recover_tail`, while no orphan lies among the indexed records; valid means one chain |
| AckedOrRefused | ChangeJournal | an acknowledged event is read, or read fails |
| PublishedReads | Segments (streaming) | what is published can be read in full |
| SegmentsAreWhole | Segments (publication) | both manifests can be read; pages are whole, and of their generation unless a publication fell inside the read |
| PreparedIsPinned | MapperPrepare | the snapshot of an answer names its handoff unless another preparation replaced it, and has that handoff's facts unless the Mapper wrote meanwhile |
| PacketIsCurrent | Packets (plugins) | a packet shows its session's generation under its overlay, cold or warm; its ranges are those of now unless it was cached before a reload |
| CompleteIsCausal | OperationsProjection | a complete receipt has its predecessor in the view, and older, unless a refused batch touched one of them since |
| CompleteIsReachable | Federation | a complete traversal visited all that can be reached; none visits more or leaves the members |
| PacketIsSound | Packets (universal) | no reason means nothing is missing; the facts of a packet do not depend on the order of sources whose items of one handle agree in payload and size |
| RanksOnlyRise | RouteSignals | the rank is the highest any request called for |
| ViewIsItsOwn | ContextViews | a view is what selecting afresh would give, cached or not, and has what its stage may see |
| PagesKeepBudget | PageCache | resident pages are counted exactly and fit, and are in the order of eviction |
| ReusedWasRepeated | ValidationCache | a result is reused only if it was the only one or came twice in a row |
| ContentIsFresh | SharedFlights (content) | a hit is as new as the last invalidation; a task that runs is awaited |
| FlightsAreShared | SharedFlights (flights) | requests for one key share one run, which ends for all of them |
| ResolvesItsOwn | AddressCatalog | handles resolve to their own identity; what was withdrawn stays so |
| AnswersItsOwn | RustSession | a call returns the answer to its own frame; no child is left behind by the next |

The violated properties quote a sentence of the repository; `findings` in `PROJECT.json` gives sentence and line.

### Exceptions

No run and no proof restricts what callers do at the same time: swaps, batches, preparations, dispatches and reloads are all in the models. Where a property makes an exception, the exception is a real behaviour of
the code, a history variable says exactly when it applies, and what the repository promises without it is a violated run or stands under further disagreements.

| exception | of | the code |
|---|---|---|
| a generation that a gc started on (`collected`) and a build that overlapped an edit (`raced`) | PublicationIsSound | the file is hashed and parsed in two reads |
| a call whose files somebody else wrote (`foreign`); a rollback that could not write | RaisedIsAllOrNothing | |
| a page that was reloaded while leased; a load the invalidation overtook; counted bytes may exceed resident ones | PagerIsSound, ResidentsAreAccounted | the count starts again at 0; replacing a flagged page never takes off the old bytes (`pager.py:353`) |
| a task the invalidation overtook | ContentIsFresh | `content_cache.py:38` |
| a generation whose checkpoint says that a build of it began again | PublishedReads | `streaming.py:112` |
| the three ways to lose records it names | AckedOrRefused | `journal.py:112` |
| what a collection forgot | ReusedWasRepeated | `validation_cache.py:289` |
| the pressure of the placement, when a decision is reused | DecisionsAreSafe | `policy_engine.py:508`; run `policy_pressed` |
| half an index entry behind an orphan | StoreSpeaksTrue | `ledger_store.py:154`; `AckedIsRecoverable` is violated |
| envelopes that a swap did not name (`unnamed`) | NeverMixed | `projection.py:557`; `SwapsNeverMix` is violated |
| receipts that a refused batch changed (`unsettled`) | CompleteIsCausal | `operations_projection.py:126`; `NeverCompleteInGap` is violated |
| the snapshot was replaced (`overtaken`), or compiled while the Mapper wrote (`mixed`) | PreparedIsPinned | `delivery.py:365`; `MismatchFailsClosed` is violated |
| envelopes that another dispatch ran beside or wrote after, in the same files (`clashed`) | SlotsAreSound | `slot_executor.py:219`; `ThreadSafe` is violated |
| pages of reads that a publication crossed (`strays`) | SegmentsAreWhole | `segments.py:101` |
| the ranges of packets cached before a generation was loaded again (`aged`) | PacketIsCurrent | `plugin_context_packet.py:400` |
| items of one handle that differ in size | PacketIsSound | duplicates compare the payload, the budget measures the item (`universal_context.py:141`) |

### Bounds

* `changeset`: three files, three changesets (one invalid), all four kinds of operation, two lease holders, one edit, one
  crash, two Dev CLI processes. Two processes are needed for a retry; one crash reaches every torn state since recovery leaves an
  intact journal.
* `delivery`: two workers, two calls, two files, one edit, one failing replacement, one crash. Two files are the least for a partial
  application, two workers the least for interference; one of the requests changes the same file twice, so that the rollback undoes it in two steps.
* `workspace`: two processes, four calls, one edit, one crash, one lease, two files. Four calls allow build, draw or lease, gc and serve in
  one behaviour; one file changes and one disappears.
* `daemon`: two workers, three submissions of two requests, one generation, queue of two, two starts, one cancel or crash. Three
  submissions fill the queue, repeat a request and keep both workers busy. `daemon_drain` needs one worker only.
* `pager`: two threads, two pages that fit together only until one grows, three calls, one edit, one failing load: an
  owner, a waiter and a page to evict.
* `slots_policies`: two engines, a cache of one entry (so every second key evicts), two generations, three decisions and one administrative call. The
  requests differ in one thing each, so that every objection to speculation occurs alone. Representations are chosen from every offer of at most three of nine candidates.
  Three arenas of two sources with one crash; two overlays of one slot, four kinds of delta, at most four deltas; six calls of the store;
  four dispatches of three envelopes by two threads and two kills of the executor: two envelopes share a slot and a file, and one of them exceeds its budget.
* `records`: per component two or three of everything that can differ, two actors where actors race, and one or two faults. The limits (`MaxEvents`, `MaxStored`,
  `MaxLines`, `MaxBuilds`, `MaxClock`, `MaxPuts`, `MaxStarts`, ...) end behaviours after every fault and the recovery from it have had room to happen. Two of the three identities of the catalog share a handle;
  receipts are ingested alone or in batches of two, of which the second may be refused; two preparations and two moves of the checkout overlap; a generation may be loaded again with its spans elsewhere; items of one fact are short or
  long; budgets fit one of two items more than a packet needs; three threads run one flight, so that a second flight starts while a waiter of the first has not returned.

Workers, processes, engines and threads, and values that a store only keeps, are interchangeable where a run is a pure safety run that uses symmetry. In `slots_policies` and `records` the components, which never meet, take theirs from one pair of names, so that one permutation serves all. Runs end when their
counters are used up, and a daemon may legitimately sit idle, so deadlock is not checked; `CommandsEnd`, `DrainIsSound` and `CallsReturn` look
for the hangs that matter.

### Fairness

* `BinaryChangeset`: weak fairness of the running command only. Each of its waits has a timeout (`binary_changeset.py:894-913`); nothing is
  assumed of Dev CLI or of the caller.
* `ResidentDaemon`: weak fairness of the loop: ready tasks run, deadlines pass, openers and handlers return. Nothing obliges clients or the
  supervisor to act.
* `SemanticPager`: weak fairness of each thread: threads are scheduled, and a loader returns or raises.

The other runs check safety. A waiter of a shared flight or of the Rust session can wait for ever in the code, too: the operation and the child's line
have no deadline of their own (`pager.py:121`, `rust_session.py:149`).

### Further disagreements

Besides the five violated runs the models show these; each but the last can be reproduced by adding the named property to the cfg of the run that has the module, as an INVARIANT where nothing else is said:

* `StaleFailsClosed` (Delivery, as a PROPERTY): `_restore_prepared` (`processor.py:850`) overwrites a foreign edit of the file, after which the fallback reports applied; `src/CHANGELOG.md:166` says "Stale source hashes remain
  fail-closed, including immediately before each fallback replacement."
* `PastIsFixed` (Temporal, as a PROPERTY): creating a fact again marks the tombstone before it as superseded (`temporal.py:144`), and the worlds in which it was deleted then show it; the docstring at `temporal.py:84` says "Append-only world/system-time facts with deterministic
  as-of queries."
* `PacketVerifies` (Packets): a packet from the cache does not pass `verify_packet`, since its `cache_status` changes after its hash was taken (`plugin_context_packet.py:530`).
* `CannotFitIsTrue` (Pareto): with candidates that dominate each other in a circle nothing is selected and the reason is `no_candidate_fits_constraints` (`pareto_policy.py:1034`), although some fit.
* `SameChoiceReplaysUnchanged` (PolicyEngine): the engine represents only one non-draft strategy as `tree` (`policy_engine.py:999`), the replay all of them (`policy_replay.py:5`), so that replaying the same choice reports a change.
* `ClosedHasNoChild` (RustSession): a close that overlaps a restart finds the old process; the new child stays behind a closed session.
* `AckedIsRecoverable` (DeliveryLedger): append goes behind a record that a crash left without an index entry. With half an index entry at the end `read_record` raises partial_index (`ledger_store.py:239`), and `recover_tail`, which would cut it,
  raises index_mismatch because the offsets skip the orphan (`ledger_store.py:154`): events that were acknowledged can be neither read nor recovered. The docstring at `ledger_store.py:124` says "Recover only a crash-consistent HBP/HBI prefix and discard orphaned tails."
* `SwapsNeverMix` (Projections): `apply_delta` replaces the envelopes that a delta names, also when it swaps the generation (`projection.py:557`); the others stay under the new generation. "test_projection_generation_swap_never_exposes_mixed_records"
  (`src/tests/test_projection_339.py:495`) names every held handle in its swap.
* `NeverCompleteInGap` (OperationsProjection): a batch that is refused at its second receipt keeps the first and leaves the causal gaps as they were (`operations_projection.py:126`), so that a complete query returns a receipt without its predecessor;
  `src/docs/operations-projection-v1.md:20` says "the projection never returns that receipt from a `status=complete` query."
* `MismatchFailsClosed` (MapperPrepare): `prepare` opens the snapshot again for its answer and does not compare it (`delivery.py:365`), so that another preparation's may be returned; `src/docs/fast-v3-contract-matrix.md:36` says "A generation, version or artifact
  digest mismatch causes Fast to rebuild from the new handoff or fail closed."
* `ThreadSafe` (SlotExecutor): of two threads with one envelope the second empties a file that the first one's VERIFIED receipt vouches for (`slot_executor.py:219`); the docstring at `slot_executor.py:155` says "Thread-safe executor."
* `segments.py:101`: the load of a page reads the manifest again, so that a page under the old generation's key may have the new generation's bytes (`strays` is not empty); `src/tests/test_segments.py:207` is named
  "..._fails_closed_on_bounds_and_generation", and its generation mismatch is one that is there before the read.

## 4. Proofs

Eight modules prove 47 theorems about the components' own specifications (`Spec`, or `FlightSpec`, `ArenaSpec`, ... where a module has several), for every set of
workers, files, keys and contents and every bound. The number after a module is how many of the theorems it has.

| module | theorem | states |
|---|---|---|
| BinaryChangesetProofs (7) | JournalTrue, by TypeCorrect, AppliedIsEarned, OneAuthority | `JournalIsTrue`: `TypeOK`, `AppliedMeansLanded`, `JournalOneAuthority` |
| | RecordsAreBinding, by Durability, NeverRespawned | `RecordsBind`: the action properties `RecordsAreDurable`, `FinishedNeverRespawned` |
| DeliveryProofs (2) | ReceiptsExact | `ReceiptsAreExact` |
| | RaisedLeaves | the action property `RaisedIsAllOrNothing` |
| WorkspaceProofs (2) | PublicationSound, ServedFaithful | `PublicationIsSound`, `ServedIsFaithful` |
| ResidentDaemonProofs (2) | WorkAccounted | `WorkIsAccounted` |
| | DrainsSettle | the action property `DrainSettles`, the safety half of `DrainIsSound` |
| SemanticPagerProofs (2) | PagerSound, PagesAccounted | `PagerIsSound`, `ResidentsAreAccounted` |
| SlotProofs (5) | ArenasStayMapped, OverlaysSound | `GenerationsStayMapped`, `OverlaysAreSound` |
| | OverlaysArePrivate | `Isolated`: `PrismOverlays` implements `PrivateViews` |
| | StoreSound, SlotsSound | `StoreIsSound`, `SlotsAreSound` |
| CacheProofs (7) | FlightsShared, ContentFresh, AnswersAreOwn | `FlightsAreShared`, `ContentIsFresh`, `AnswersItsOwn` |
| | ReuseIsEarned, DecisionsSafe | `ReusedWasRepeated`, `DecisionsAreSafe` |
| | PagesBudgeted, SelectionsSound | `PagesKeepBudget`, `SelectionIsSound` |
| RecordProofs (20) | OverlayKept, by OverlayLoads, EvidenceIsKept | `TemporalIsKept`: `AlwaysLoads`, and the action property `EvidenceStays` |
| | WinnerIsOne, StoreIsTrue, AckedAreRead | `OneWinner`, `StoreSpeaksTrue`, `AckedOrRefused` |
| | StreamsArePublishedWhole, SegmentsWhole | `PublishedReads`, `SegmentsAreWhole` |
| | HandlesResolve, KnowledgeIsHiddenForItself, ErasNeverMix | `ResolvesItsOwn`, `HiddenForItself`, `NeverMixed` |
| | PreparedArePinned, PacketsAreCurrent | `PreparedIsPinned`; the action property `PacketIsCurrent` |
| | CompleteAreCausal, RanksRise | `CompleteIsCausal`, `RanksOnlyRise` |
| | ViewsAreTheirOwn, with ViewsAreFresh | `ViewIsItsOwn`, and its part about the cache, `ViewIsFresh` |
| | CompleteTraversalsReach | `CompleteIsReachable` |
| | PacketsSound, with CompiledPacketsComplete | `PacketIsSound`: `PacketIsComplete` and `PacketIsOrderFree` |

### Assumptions

Every module names what it assumes of its constants (`ConstantsAssumption`, `ArenaAssumption`, `JournalAssumption`, ...): types, markers such as "no file" or "no receipt" that are
none of the values they stand beside, finitely many workers, targets, places or ids, offers of finitely many items with a rank of their own, and limits of at least one where the code refuses zero.
Beyond that `Norm` is idempotent, telemetry and keys have the fields that their classes have, and `Path` of the overlays and `Id` of the facts are numbers because they are put in order. TLC evaluates all of them.

No theorem assumes anything about callers, schedules or faults: the exceptions of section 3 are part of the properties.

### The inductive invariants

Most of the properties are not inductive: they speak of what was published, returned or recorded and say nothing of an operation half done. Each proof adds what a
process in the middle of an operation may rely on, and history says when it may not.

* `IInv == TypeInv /\ SafeInv` (changesets). While a command runs the journal is the one it read: intact, of its own holder, and without a final record of its changeset
  (`Holding`). This carries the check at the start of `materialize` to the append at its end. A final record is the newest of its changeset (`FinalIsLast`), so looking at the newest record, as the code does,
  is looking for any; a final state on its way into the journal is earned before it is written (`EarnedBefore`); what is in place now was recorded as landed (`LandedNow`). `Earned` never goes
  away and the journal only grows.
* `DeliveryInv`. Per call: unless somebody else wrote, its files are the originals before the native executor and after a restore, each file has the result of the last change before the present one while replacing (`WrittenBefore`), and
  only those of the changes not yet undone differ while rolling back (`UndoneAfter`), and all have their results while the snapshot is refreshed. What a file held once stays in `exact`. Changes of one file name one original (`OneOriginal`), since all were checked against one state of
  it; this is what makes a rollback in reverse order exact when a changeset changes a file twice.
* `WorkspaceInv`. Per process: between hashing and publishing the files are those of its generation unless an edit raced it (`BuildIsDue`), a drawing that nothing raced has the symbols of the bytes it names, and a gc past
  its scan knows every sound lease (`CollectIsDue`).
* `DaemonInv`. The count of unfinished items is the queue plus the workers that hold one (`JoinIsExact`), every pending future is queued or held, and nothing runs while the daemon is down or closes its pins.
* `PagerInv`. The thread that loads owns the flight; the bytes it is about to insert are of the digest it was asked for and, unless overtaken, of the present source.
* `ArenaInv`: the files of a generation come before its name, one job at a time opens or closes an arena, and the registry names exactly the open mappings. `OverlayInv`: a delta on its way was drawn from the records that are there
  now and its objects are on disk before its records. `StoreInv` is `StoreIsSound` itself; `SlotInv`: of an envelope that did not clash one thread writes
  its files, and of a receipt that did not clash none does.
* `FlightInv`, `SessionInv`, `ContentInv`, `ValidationInv`: a flight has an owner that runs; what is in the pipe is the answer to the frame of whoever holds the lock; a reading task is as new as the last invalidation or was overtaken by it; the
  remembered outcomes end with the stored one.
* `PolicyInv` with `CacheInv`: a request that reaches the lookup passed the guard (which says nothing of the placement), an entry is of the active generation and of a key that is neither blocked nor revoked since, blocked keys are each remembered once, and a plan that
  was computed selects a strategy its own request can use, and none where the placement is pressed.
* `CatalogInv`, `SegmentInv`, `LedgerInv`, `StoredInv`, `JournalInv`, `StreamInv`, `TemporalInv`, `ProjectionInv`, `MapperInv`, `KnowledgeInv`, `OperationInv`, `PacketInv`, `RouteInv`, `ViewInv` with `ViewAllowed`: the two tables of handles agree; a
  publication in progress is backed by files that are there; seals name the winner of the chain as it is; a read finds the manifest it checked or is marked as crossed; an index entry matches its record; what a recovery is about to write drops only a torn tail; a preparation has read the artifacts of its handoff and will open its own snapshot, unless it is marked; gaps are those of the view where no refused batch changed it; the checkpoint is an
  initial part of the input and the segment is at most one block ahead; the versions of a fact follow each other without a gap; a cached packet or view is what its key makes of what is there now.
* `AccountInv == PagerInv /\ BooksInv` and `PageInv`, for the two pagers: the counter is the number of bytes of the resident pages (in `pager.py` at least that), and the order of last touches is a total order of exactly those pages. The order is what lets a
  proof say which pages an eviction takes: the victims before a given one, a set whose size `CHOOSE` bounds.
* `ParetoInv`: the candidates of a decision have names of their own, so that the tie key tells any two apart and a finite frontier has one that precedes all others.

`OverlaysArePrivate` maps every step of `PrismOverlays` to a step of `PrivateViews` or a stutter. Only publishing a delta, creating an overlay, and closing, releasing or forgetting overlays move `view`; that a delta shows as one step follows from
`OverlayInv`, since the candidate that is published was merged with the records that are still there.

What a fold computes for every input is proved without an induction scheme: the lemma says that each step keeps what is wanted, and the least number of steps after which it fails (`LeastNumber`) would contradict it. Three folds
are done in that way. `Selecting` bounds a selection of context and keeps its items in the order of their rank; `Roaming` says of a traversal on its way that all it found is reachable, was visited or is queued; `Compiling` that what was
seen of the sources is in the packet unless there is a reason. `Total` of the scores of a representation is a whole number by the same argument. A set of numbers that is finite can be listed in order (`ByRank`, `InTurn`) and a stable sort (`InOrderOf`) keeps
what there is.

That a packet does not depend on the order of its sources compares two folds. Both orders are sorted into lists that name the same type and handle at every place (`SortedAlike`), since the number of places before one is
the same in both; they differ only in which of the envelopes of one handle comes first. Of those the first decides: the others are of the same payload, of a size with it, and have been seen (`UncappedStep`). An envelope of another repository ends a packet with an error at
whichever place it has unless the budget stopped the packet before, and then it stopped the other one, too (`OpenIsBound`, `StepAlongside`).

`CacheProofs` and `RecordProofs` start with the facts about numbers, finite sets and sequences that several proofs cite: a set of numbers has a least one, a finite set of numbers is listed in order by one
sequence (so that removing positions of a sequence is well defined), what is in a concatenation came from one of the two.

### Only model-checked

* Liveness, which is outside the prover's reach: `CommandsEnd`, `CallsReturn`, and `ServedDrainEnds` of `DrainIsSound`.
* The five properties of the violated runs, and those of the further disagreements, which are refuted.

## 5. Left out of the modelled parts

* the binary encoding of changesets, snapshots, journals, ledgers and catalogs: the value is modelled, a damaged file is a torn or absent one;
* two commands on one changeset journal at the same time, which the lease of the journal excludes; two cleanups of an arena at the same time, and two closes of one arena;
* the stat-keyed caches of `workspace.py`, taken to be exact;
* I/O errors other than the failing replacement and write of `Delivery`;
* the temporary file of the context-view cache, which two processes share by name (`context_view.py:459`);
* metrics, wording of receipts and errors, time stamps;
* the selection of context in `prepare`, and `ingest`, `understand` and `plan`, which only read.

## 6. What is left

The components worth a state machine are modelled, and every safety property that a run checks is proved. What could follow is what section 5 leaves out, of which two commands on one
journal without its lease and two cleanups of an arena would be the most telling.
