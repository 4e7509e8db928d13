# Memex in TLA+

Specifications, model-checking configurations and machine-checked proofs for the parts of
Memex whose correctness depends on the order in which things happen: the versioning of
documents, the change feed from a committed write to the screen, the governance of a Spec's
acceptance criteria, the admission of test events, the clauses of standards, and the life of
issues and the tasks they become. Source paths below are relative to
`src/packages/server/src/services/` unless they say otherwise. `PROJECT.json` maps every
definition to the lines it models, and lists the hazards and the properties that cover them.

## 1. The system

Memex keeps *documents* (Specs and Standards) in Postgres. A Spec has sections, decisions,
acceptance criteria ("acs"), tasks, issues and comments, moves through the phases draft,
specify, build, verify, done, and is edited by people (React UI over REST) and by agents
(MCP). Several stateless server instances serve it; the only shared state is the database.
A request is one async function: between two `await`s anything can happen, and most
services read, check, and write in separate statements at READ COMMITTED.

| Component | State | Operations | Interacts with | Hard part |
|---|---|---|---|---|
| **Versioning** (`versioning.ts`) | `documents.version`, `document_versions`, the six artifact tables | `cutVersion`, `restoreVersion` (checkpoint, then rewrite), artifact writes | acs, comments, tasks, decisions through their rows | two transactions per restore, snapshots read statement by statement, locks, deadlock, crash between the two halves |
| **Change feed** (`mutate.ts`, `bus.ts`, `bus-relay.ts`, `routes/doc-events.ts`, ui `useDocChangeStream.ts`, `DocDocument.tsx`) | bus listeners, LISTEN connection and its health, SSE streams, debounce timers, fetches in flight | commit and emit, NOTIFY, relay, nudge on recovery, connect and reconnect, refetch | every mutating service, `activity_log` | lost notifications, dropped connections, fetches that race events |
| **Governance of criteria** (`acs.ts`, `ac-supersession.ts`, `done-gate.ts`, `spec-reopen.ts`, `lifecycle-journal.ts`, `test-event-latest.ts`, `documents.ts`) | `acs`, `test_event_latest`, proposals among `doc_comments`, `spec_lifecycle_events`, `documents.status` | create, edit, sign off, supersede, emit and retire test results, close, override, reopen | versioning (a restore rewrites statements), test events | every guard is a read that a later write relies on |
| **Admission of test events** (`admission/emission-gate.ts`, `middleware/emission-admission.ts`, `db/pool-size.ts`) | slot counters, waiter queue, timers; shadow-mode twins of the counters | acquire, wait, time out, release, scan the queue | every call of `POST /api/test-events` on one instance | wake-ups, slots given back exactly once, fairness between credentials, two modes in one body of code |
| **Clauses of standards** (`clauses.ts`, `standard-accept.ts`, `proposeStandardChange` of `standards.ts`) | `standard_clauses`, `doc_sections.content`, `plan_revision` comments | create, add, update, delete a clause; propose and accept a set of operations | comments resolve and reopen proposals | no lock on the section: MAX(seq), MAX(position), shift and projection each read what is committed |
| **Issues** (`issues.ts`, hooks in `tasks.ts`, `routes/test-events.ts`, `documents.ts`) | `issues`, `tasks`, `task_satisfies_ac`, `test_events` and `test_event_latest` | convert, kick back, promote, resolve automatically from either half of the evidence | tasks, criteria, test events, child Specs | two triggers racing, reads that outlive what they read, errors swallowed |
| Tool gates (`phase-gate.ts`, `checkout-gate.ts`, `checkout.ts`) | `documents.checked_out_*`, phase | gate, claim, release | all tools | check before the handler, stamp beside it |
| Guidance delivery (`session-claims.ts`, `guidance-cadence.ts`, `handoff-delivery.ts`) | `agent_session_claims` | claim once, count bytes | tool responses | claim granted, response lost |
| Caches, presence, search, analytics, accounts, email, billing, agent, MCP, UI, extractor, CLI | see `PROJECT.json` "components" | | | mostly single statements, transport, or best-effort forwarding |

What makes the modelled components correct:

* *Versioning*: numbers are contiguous; the history only grows and a restored entry is a
  verbatim copy; neither cut nor restore loses a text; a restore leaves what its source had,
  with every comment on the artifact it hung on; every request ends.
* *Change feed*: an event is dispatched and persisted at most once; health is truthful; a
  component that missed a mutation made since its stream was attached is never left behind,
  and converges. What was written before that, between the page's fetch and its stream, the
  feed does not promise (section 6).
* *Governance*: supersession is whole and on record; acceptance applies what was reviewed; an
  override clears what it counted; a Spec does not close over a proposal its gate could have
  seen. The server serves requests side by side and its guards are read before the write, so
  the rest holds but for what was overtaken in between: a closed Spec's and a satisfied
  criterion's statement, the reopening on record, one open proposal, one successor.
* *Admission*: counters equal what is held; nobody waits beside room he could use; one
  credential cannot fill the room; no batch overtakes an older, no heavier one of its own
  credential; every slot comes back.
* *Clauses*: a handle is issued once and stays with its clause; live clauses keep distinct
  places in the order reviewed; acceptance applies what was reviewed; content that concurrent
  changes left stale is repaired by the next change nobody overlaps.
* *Issues*: an issue whose evidence is complete is resolved by somebody; it is resolved only
  on evidence the log bears out.

## 2. Modules

| Module | What it is |
|---|---|
| `VersionLog` | Abstract: a log of entries that only grows; an entry is fresh or a copy of an older one |
| `DocumentVersioning` | `cutVersion` and `restoreVersion` statement by statement, beside writers of artifacts; implements `VersionLog` |
| `DocumentVersioningProofs` | Types, numbering, refinement of `VersionLog`; what cuts and restores preserve, with and without writers; seqs as identities; no standstill |
| `ChangeFeed` | Bus, relay, SSE stream, page |
| `ChangeFeedProofs` | Types, at-most-once, truthful health, nothing forgotten since the stream was attached, a feed at rest is current |
| `SpecGovernance` | Criteria, results, proposals, gate, journal, phase moves; checks and writes are separate steps |
| `SpecGovernanceProofs` | Types, supersessions on record, reviewed is applied, the gate holds |
| `SpecGovernanceRaceProofs` | How much can slip between a request's check and its write: overtaken edits and moves, overlapping proposals and acceptances, overrides, whole acceptances |
| `AdmissionPool` | Abstract: a bounded room, a line in front of it, who may enter before whom, who may be turned away |
| `EmissionGate` | The gate of one instance, section by section; implements `AdmissionPool` |
| `EmissionGateProofs` | Types, all counters, no lost wake-up, room for others, refinement, no standstill and no livelock |
| `ClauseLedger` | Abstract: handles issued once and upwards, clauses struck for good, an order no change disturbs |
| `StandardClauses` | The clause verbs and the acceptance of proposals, statement by statement; implements `ClauseLedger` |
| `StandardClausesProofs` | Types, distinct places, refinement, repaired content |
| `AcceptanceProofs` | An undisturbed acceptance applies its whole proposal |
| `IssueLifecycle` | Issues, tasks, results and child Specs; every call read by read |
| `IssueLifecycleProofs` | Types and foreign keys, nothing stranded, resolved only on evidence |
| `MC...` (one per component) | Instances for TLC: sets, orders of tables, drafts, symmetry |

### DocumentVersioning

`version` is `documents.version`, the number the next cut takes; `versions` is
`document_versions`; `rows` the artifact tables. A row has a class, a `seq`, the artifact its
text was written for (`art`), the stamp of the write that produced the text (`rev`), its
`retired_at_version` and the row it hangs on (`on`, the one non-null target of a comment).
A request `p` has a program counter `op[p].pc` and an open transaction `pend[p]`, which the
others do not see and whose rows are locked. One step is one statement: `ReadTable` is one
SELECT of `buildSnapshot`, `RetireTable` one UPDATE of the leave-behind, `ReadLive` and
`WriteTable` one table of `materialiseGraph`, `InsertVersion` the insert that waits on or
fails against UNIQUE(doc_id, version_number). A restore is a cut that carries everything,
committed, and then the rewrite in a transaction of its own, with `between` in the middle.
A request fails by a unique violation (`FailUnique`), by a comment left without a target
(`FailTarget`), as a deadlock victim, or by a crash at any point; each rolls back its open
transaction and nothing else. `Write` is any artifact create, edit or hard delete, each one
committed statement, with `MAX(seq)+1` for the seq and the cascades of a delete.

Abstracted: text to its stamps; all the columns of an artifact to one; the rows of one table
in `reconcile` to one step (the code loops over rows inside one transaction, which others
cannot see). Left out: `versionAtWrite`, checksums, reads and diffs of versions, name
validation, tenancy and 404s, events emitted after the commit, deletion of the document.

### ChangeFeed

An event is the number of the mutation it announces, and data the number of the last
mutation it shows: events are triggers to refetch and their payload is not used by the page.
`Commit` and `Emit` are separate, as in `mutate.ts`, so a crash may fall between them.
`Notify` delivers to the sessions listening at that moment; `listen` is the connection and
`status` what the relay believes of it, which differ because the driver reports no drop.
`Refetch`, `Answer` and `Show` are the request, its evaluation and its `.then`.

The page keys its stream on `doc?.id` (`DocDocument.tsx:425`), which is null until its first
fetch has answered. So until `Show` gives the page its first document there is no stream of
the document (`conn.state = "none"`): the page listens to the memex-wide one, which may tell it
to refetch for anything that happens in the memex (`HearsAll`). That first `Show` drops a timer
the old stream started and opens the document's, and a mutation may commit anywhere between the
answer and the attachment. Children mount once the page has its document, share its stream,
and go with it. `Connect` subscribes the stream before the browser sees the response, so the
refetch on a reconnect covers what was missed; the first connection has no such refetch, and
an instance that has not listened yet nudges nobody when it first does. `since` is history: the
last mutation when the stream was first attached to an instance that hears the others. The
feed answers for what is committed after it.

What may go wrong besides dropped connections is the constant `Faults`, so that each claim says
under which faults it holds. Left out: tenants and filters other than one document, payload
trimming, keepalives, revocation, the memex-wide stream as an object (its events come at any
time), the relay's own backoff (the production driver reconnects by itself), shutdown.

### SpecGovernance

One Spec, its criteria `acs` (statement stamp `text`, `seq`, `status`, sign-off, the proposal
it came `from`), results `latest` keyed by the criterion's *seq* as the code keys them by its
ref, supersession proposals with `before` (the statement they were written about), the
journal, and the phase. `VerificationOf` is `deriveVerificationState`. A request is two steps:
`Check...` does everything the code does before its write, reading the state, and the second
step writes without looking again, exactly where the code does not look again. `Accept` is
one transaction and one step. `Abandon` is a request that dies, or finds its proposal gone.
Nothing serialises requests: any step of another may come between a check and its write.
`Emit` files a result under any seq, as ingest stores what the tag says and never asks
whether there is such a criterion; one that precedes its criterion is of no statement (0).

Three history variables measure how far a request was overtaken, so that a property can say
exactly what may slip: `op[p].mark` (kept in proposals, criteria and overrides) is how many
proposals or statements there were when the request looked; `closedOn` holds the requests
that were under way when the Spec was last closed; `provenOn` the edits under way when
evidence for their criterion changed.

Abstracted: proposal and rationale texts to whether a replacement statement is brought; time
to filing order (the override's watermark compares creation times); several reads of one
request to one step. A statement edited back to an earlier text counts as a new one. The
statuses `proposed` and `rejected` of a criterion are absent because nothing in the code calls
the functions that set them. Left out: aggregates and read models of `acs.ts`, links to
decisions, hidden test events behind the summary, tenancy.

### EmissionGate

Node runs one synchronous section at a time, so a section is an action: the arrival in
`acquire`/`#decide` (three outcomes: room, wait, flood), a waiter's timer, the continuation of
a granted promise, and `release()` in the middleware's `finally`. `#pump` is a loop, so it is
one action per waiter it looks at, and while its snapshot `scan` is not empty nothing else is
enabled. `place` and `waiting` are the array `#queue`. `mode` is the deployment's: in shadow
mode the caller runs at once and the decision is simulated beside it, with the `real` counters
and the ceiling-only counterfactual; a simulated grant may come after its caller has left.
`Cause` is the order of tests in `#take`. The ceiling and the slice are the code's formulas
over `PoolMax`. Left out: the advisory texts, retry-after, telemetry windows, how
`MaxWaiters` is derived, and everything after admission.

### StandardClauses

One clause-first section of a standard (its preamble is null). A request checks outside its
transaction (`createClause`, `acceptStandardChange`, ...: one step), then runs its operations,
composes the content and commits. `View(p)` is what READ COMMITTED shows it: committed rows and
its own. An insert reads MAX(seq) and MAX(position) in two statements (`ReadMaxSeq`,
`ReadMaxPosition`), between which others commit. `holder` and `draft` are the uncommitted row
versions; `Write` waits until its rows are free. `insertClauseTx` fires only if the unique index
on (doc, seq) is satisfied, else the request can only `Abort`, which is also a crash and a
deadlock victim. The UPDATEs of the section and of the proposal, last in the code, belong to
`Commit`. Left out: decomposition of legacy sections, embeddings, facets, several sections.

### IssueLifecycle

One Spec. A call `p` is at `pc[p]` with what it has read in `job[p]`; each read, and each
transaction's reads before its commit, is a step. Results are stamped when their transaction
begins (`EmitBegin`) and become visible when it commits, so they may commit in the other order;
`summary` is `test_event_latest` with its newest-wins upsert. `updateTaskStatus`, a passing
result and a child Spec's completion each start a resolving call: `ReadTask`, `ReadIssues`,
`ReadLinks`, `ReadLatest`, then one UPDATE per candidate, which checks the status alone.
`Fail` is a statement's error or a crash at any point, swallowed as the code swallows it.
Edits by hand (statuses, deletions, promotion, retirement) are one statement each.
`overtaken`, `missed` and `torn` are history: what others changed behind a call's back, which
issues became ripe with no call or lost theirs, which criteria had a retirement overlap a
result. Left out: titles, task claims, decisions, several criteria on one task.

## 3. Runs

Times are for two workers. Every constant that bounds a run is named in the module's
CONSTANTS and appears as a guard of the actions it bounds. `CHECK_DEADLOCK FALSE`
everywhere: when the bounds are used up, or nobody asks for anything, the system may stop.

| Run | Instance | What it shows |
|---|---|---|
| `versioning_quiet` | 2 requests; tasks and comments on them; 4 versions, 3 writes; writers pause during requests; 400 000 states | `TypeOK`, `RestoreMaterialisesSource`, `RestoreKeepsTargets`, while a cut or a second restore commits between a restore's selects and its writes, and over deadlocks, failures and crashes |
| `versioning_busy` | 2 requests; sections and acs; 4 versions, 2 writes at any time; 1.2 million states | `Numbering`, `AppendOnlyHistory` (the refinement), and what still holds with writers: `RestoreLosesOnlyLateWrites`, `CutStrandsOnlyLateWrites`, `RestoreLeavesNothingStale` |
| `versioning_live` | 2 requests, 4 versions, 1 write | `EveryRequestEnds` |
| `feed_faults` | 2 instances, the page alone, all faults, 3 mutations, 2 drops; 700 000 states | `TypeOK`, `HandledOnce`, `HealthTruthful` |
| `feed_live` | 2 instances, the page and a child of it, drops only, 2 mutations, 2 drops; 740 000 states | `NothingForgotten`, `Converges`, for what is written after the stream was attached; the page fetches first |
| `governance_statements` | 2 requests overlapping; 1 test, ageing, sign-offs, retirement; 2 statements; 430 000 states | `FrozenButForOvertaken`, `ProvenButForOvertaken`, `ReopenedOnRecordOrOvertaken` |
| `governance_proposals` | 2 requests overlapping; 2 proposals, 3 statements; plain resolutions; 2.8 million states | `ProposalsOverlap`, `SupersessionIsWhole`, `OverridesClearWhatTheyCount`, `GateMissesOnlyLateProposals` |
| `governance_busy` | 2 requests overlapping; 1 proposal, 3 statements; plain resolutions and reopenings, deletion; 1.2 million states | `TypeOK`, `SupersededOnRecord`, `SuccessorsOverlap`, `AcceptAppliesReviewed` |
| `gate` | 4 requests, 2 credentials, weights 1 and 2, ceiling 2, slice 1, 3 events, 2 waiters, both modes; every split of the requests over the credentials (4, 3 or 2 of one); 185 000 states | `TypeOK`, `HonestCounters`, `NoServableWaiter`, `LoudKeyLeavesRoom`, `KeepsPromise` (the refinement), `EverySlotComesBack` |
| `clauses` | 2 requests, 3 verbs, 4 handles, 1 proposal of 3 kinds; 0.9 million states | `TypeOK`, `PlacesDistinct`, `KeepsHandlesAndOrder` (the refinement), `AppliesWhatWasReviewed`, `ContentHeals` |
| `issues` | 2 calls at once, 5 in all; 2 issues, 2 tasks, 2 tests, 2 results, 1 child Spec, 1 edit by hand; 725 000 states | `TypeOK`, `NothingStranded`, `ResolvesOnEvidence` |
| `issues_reconverted` | the smallest that shows it | a violation of `NeverForAnotherTask`, see section 6 |

*Why the bounds are enough.* Two requests give every pairwise race of cuts and restores; two
tables give a state between two statements of one snapshot and two lock orders; four versions are
two cuts, so that there is something to restore, the checkpoint of a restore, and a cut or restore
that commits while it rewrites; three writes create, hang a comment, and delete or edit. In the
feed, two instances distinguish local from relayed events, two drops hit a LISTEN and a stream in
one behaviour, and a page and its child share, leave and rejoin a stream. In governance two
requests give every pair of a check and the write that overtakes it, three statements allow an
original, its successor and an edit (or two successors), two proposals an older and a newer one
around an override's watermark. One test is enough for evidence to arrive, fail, age and be
retired. The two other governance runs have no tests: results, ages and sign-offs enter no guard
but the edit's, which they can only close, so every behaviour of proposals, acceptances, overrides
and moves is there without them. At the gate four requests are two that hold the ceiling and two
that wait, of one credential or of two (two requests of each make the scan pass over a waiter
whose slice is full and serve the other credential's), and three events let a heavy batch fail to
fit where a light one does. Two requests over a section of two clauses give every pair of
overlapping transactions; four handles allow two inserts after the two first clauses, three verbs
a third change after two that overlapped. Two tasks are a conversion, a kick and a second
conversion; two results an older and a newer one, of one test or of two.

*Fairness.* `versioning_live` assumes strong fairness of each request's `Advance` step:
Postgres executes what it is sent, breaks deadlocks, and hands a released lock to the longest
waiter; weak fairness would let a waiter be passed over for ever by a stream of other lock
holders. Starting requests, writing and crashing are not fair. `feed_live` assumes weak
fairness of the event loops, of the driver's and the stream's reconnect loops, the debounce
timer and the requests in flight. Mounting, writing and dropping are not fair; drops are
finite by `MaxDrops`, which stands for "connections eventually stay up long enough". `gate`
assumes weak fairness of timers, continuations, the scan's loop (all the event loop's doing)
and of handlers ending, by an answer or an exception; arrivals are not fair. For `clauses` and
`issues` nothing eventual is claimed: `NothingStranded` says in a state what must still be
under way, so it needs no fairness and also holds when calls stop for ever.

## 4. Proofs

All theorems hold for every value of the constants: any number of requests, instances,
components, criteria, any bounds. `tlapm` checks them with Z3, Zenon and LS4.

| Theorem | Statement | Argument |
|---|---|---|
| `DocumentVersioningProofs!TypeCorrect` | `Spec => []TypeOK` | part of `Inv` |
| `NumbersContiguous` | `Spec => []Numbering` | `Inv` |
| `HistoryIsAppendOnly` | `Spec => AppendOnlyHistory` | `Inv`, step refinement |
| `RestoreLosesLittle` | `Spec => RestoreLosesOnlyLateWrites` | `Preserving` |
| `CutStrandsLittle` | `Spec => CutStrandsOnlyLateWrites` | `Preserving` |
| `RestoreLeavesLittle` | `Spec => RestoreLeavesNothingStale` | `Preserving` |
| `RestoreIsFaithful` | `QuietWriters` implies `Spec => RestoreMaterialisesSource` | `Settled` |
| `TargetsKept` | `QuietWriters` and `Unwritten = {}` imply `Spec => RestoreKeepsTargets` | `Settled` |
| `LastingSeqsName` | `Spec => []LastingSeqNamesOneArtifact` | `Named` |
| `OtherTargetsAreFound` | `Spec => FailsOnlyOverLostTargets` | `Named` |
| `NoStandstill` | `Spec => []SomebodyCanMove` | the waits as a graph, see below |
| `RequestsProgress` | `Spec => EachStepIsProgress` | the measure `Left` |
| `ChangeFeedProofs!TypeCorrect` | `Spec => []TypeOK` | inductive by itself |
| `EventsHandledOnce` | `Spec => []HandledOnce` | `OnceInv` |
| `HealthIsTruthful` | `Spec => []HealthTruthful` | inductive with `TypeOK` |
| `FeedForgetsNothing` | `Faults = {}` implies `Spec => []NothingForgotten` | `FeedInv` |
| `RestingFeedIsCurrent` | `Faults = {}` implies `Spec => [](NothingUnderWay /\ rev > since => \A k \in mounted : view[k] = rev)` | `NothingForgotten`, `Fetching` |
| `SpecGovernanceProofs!TypeCorrect` | `Spec => []TypeOK` | `Inv` |
| `SupersessionsRecorded` | `Spec => []SupersededOnRecord` | `Inv` |
| `ReviewedIsApplied` | `Spec => AcceptAppliesReviewed` | `Reviewed` |
| `GateHolds` | `"unresolve" \notin Ops` implies `Spec => GateMissesOnlyLateProposals` | `GateChecked` |
| `SpecGovernanceRaceProofs!ClosedIsFrozen` | `Spec => FrozenButForOvertaken` | `Overtaken` |
| `ReopensOnRecord` | `Spec => ReopenedOnRecordOrOvertaken` | `Overtaken` |
| `ProvenIsFrozen` | `Spec => ProvenButForOvertaken` | `Watched` |
| `OverlappingProposals` | `"unresolve" \notin Ops` implies `Spec => []ProposalsOverlap` | `ProposesAlone` |
| `OverlappingSuccessors` | `Spec => []SuccessorsOverlap` | `Succession`, `AcceptsAlone` |
| `OverridesCount` | `"unresolve" \notin Ops` implies `Spec => []OverridesClearWhatTheyCount` | `OverridesInformed` |
| `AcceptancesAreWhole` | no `"unresolve"`, `"delete"` in `Ops` imply `Spec => []SupersessionIsWhole` | `Whole` |
| `EmissionGateProofs!TypeCorrect` | `Spec => []TypeOK` | part of the invariant |
| `SlotsHonest` | `Spec => []SlotsCounted`, half of `HonestCounters` | inductive with the types |
| `CountersHonest` | `Spec => []HonestCounters` | `SlotsHonest` and sums over finite sets |
| `BudgetKept` | the weights of the holders never add up to more than `EventBudget` | `CountersHonest`, the refinement |
| `NoLostWakeUp` | `Spec => []NoServableWaiter` | see below |
| `RoomForOthers` | `Spec => []LoudKeyLeavesRoom` | `SlotsCounted` and arithmetic of the slice |
| `Refinement` | `Spec => KeepsPromise` | step refinement of `AdmissionPool` |
| `WaitersWaitForHolders` | whoever waits outside a scan waits for a held slot, or is heavier than the budget | `NoLostWakeUp`'s invariant, `CountersHonest` |
| `StandsStillOnlyDrained` | `Spec => [](NothingToRun => Drained)` | the same, and `WaitingCounts` |
| `EveryStepCounts` | each step lowers `Left`, or leaves it and shrinks the scan | the lexicographic measure |
| `StandardClausesProofs!TypeCorrect` | `Spec => []TypeOK` | part of the invariant |
| `PlacesStayDistinct` | `Spec => []PlacesDistinct` | one inserter at a time, see below |
| `Refinement` | `Spec => KeepsHandlesAndOrder` | step refinement of `ClauseLedger` |
| `ContentRepaired` | `Spec => ContentHeals` | an invariant of requests that are alone |
| `AcceptanceProofs!ReviewedIsApplied` | `Spec => AppliesWhatWasReviewed` | `AcceptanceInv`, see below |
| `IssueLifecycleProofs!TypeCorrect` | `Spec => []TypeOK` | types and foreign keys together |
| `Unstranded` | `Spec => []NothingStranded` | inductive with the types, see below |
| `ResolvedOnEvidence` | `Spec => ResolvesOnEvidence` | `AllSeen`: `SummaryAgrees` and `Seen` |

*Versioning.* `Numbering` is not inductive: a commit writes `version := N + 1`, where N was read
long before. `Inv` adds that N never exceeds the current version, that two requests past their
insert never hold the same number (the unique index), and that a request past its insert holds
exactly the current version, because whoever commits in between would have needed that number. The
refinement also needs that a restore's source exists and lies before the checkpoint, which is why
`VersionLog` may forbid copying the last entry. `Preserving` follows what a request has read: a
row it has not looked at since is either as it read it or late, that is, written after the request
began. The argument is `Inv`'s last fact turned round: a request that commits still holds the
current number, so no other cut or restore has committed since it read it, and only single writes
can have come in between. It is also why the three theorems need no assumption;
`DocVersioningLostEdit` and `...Stranded` (section 6) show that the late writes they except are
really lost. `Settled` is for the exact statement of what a restore leaves: with `QuietWriters`
(writes only while no request is under way) nothing is late, and what is left to race are the
requests themselves. `Unwritten = {}` is there for `RestoreKeepsTargets` alone, because `ac_id` is
in fact never written (`...AcComment`). `Named` keeps with the rows all the copies of a row (in
versions, in what requests have read, in what they are about to write) and says that in a
`Lasting` table, whose rows nobody deletes and no cascade reaches, each copy agrees with the row
of its seq about the artifact, and that row is still there. Everywhere else a seq is used again
(`...SeqReuse`), and a comment's target may be gone (`...TaskComment`). `NoStandstill` and
`RequestsProgress` are the part of `EveryRequestEnds` that needs no fairness: requests wait only
for requests under way, so some one of any set of them is free or on a cycle; and every statement
a request takes lowers `Left`, which starts at 5 + 4 per table at most.

*Feed.* `OnceInv` follows one event through its life: not committed, committed and not
emitted, on the wire, in an inbox. At each stage it says who cannot have heard it yet; the
counts then never pass one. `FeedInv` adds to `NothingForgotten` only what a stream's state says
of its past. The order of the page's first fetch and its stream is left open, as it is in the
code; the statement is about `rev > since` instead, that is about any mutation committed after
the attachment, and the two configurations `ChangeFeedFirstConnect` and `...FirstListen` show
that it cannot be about earlier ones. `Faults = {}` excludes crashes, failed NOTIFYs, failing
and overtaking fetches, each of which breaks it. `Fetching` (a component that shows nothing has
a fetch in flight) then gives the half of `Converges` that is safety: a feed at rest is current.

*Governance.* `Inv` adds to the types the counters as upper bounds of what has been named
(criteria, proposals, statements), so a new row is new. `Reviewed` says of every acceptance
under way that its criterion has the reviewed statement or one newer than the acceptance's
mark. `GateChecked` says of every closing request under way that no uncleared open proposal
is as old as its gate check; proposals only leave the open state, so it is stable, unless
`unresolveComment` reopens one, hence the assumption.

*Governance, overlapping requests.* Each theorem says of requests that overlap in any way what
the gap between check and write lets through, and each rests on an invariant about the
requests under way: what their check found still holds, or was changed since the mark they
carry. `Overtaken`: in a closed Spec only requests of `closedOn` can still edit, or move it as
from an open one. `Watched`: an edit whose criterion has come to read as satisfied is in
`provenOn`. `ProposesAlone`: a proposal about to be filed joins only proposals filed since its
check. `AcceptsAlone`, with `Succession` (the proposal a successor came from is about a
superseded criterion, also after it has been reopened as a comment): an acceptance repeats
only one that came after its check, for a check refuses a superseded criterion.
`OverridesInformed`: an override names what it will clear, but for what was filed since it
looked and what an earlier one cleared. `Whole` counts: each acceptance of a proposal leaves
one entry and, if it replaces, one successor, however often it is accepted. The assumptions on
`Ops` are needed: `unresolveComment` puts a decided proposal back beside a newer open one,
behind an override's watermark, or on a criterion it has superseded, and deleting a successor
leaves its proposal without one. What the code's comments promise without the exceptions is in
section 6, each with the trace of two requests (or of results posted ahead) that breaks it.

*Admission.* `SlotsCounted` ties each counter to a cardinality, which is all the bounds need.
`NoServableWaiter` is not inductive: during a scan it is false by design. The invariant says
instead that every waiter outside the snapshot could not be served; a scan that stops has met
a full ceiling, which refuses everybody, a scan that skips leaves behind somebody refused for
a reason that taking more slots cannot undo, and every step outside a scan only takes slots,
or starts a scan over the whole queue. For the events, whose counter is a sum, four lemmas say
of `MapThenSumSet` what it is: over a finite set it exists, does not depend on the order of
choice, and takes one element more or less as it should. Each is an induction over the subsets, put as
"a smallest counterexample has a smaller one" on the well-founded order of finite sets, which
is the form the provers can use. The same sums measure progress: `Left` adds up the stages
the requests have before them, as a slot and as a call. A scan step that serves
nobody leaves `Left` alone and shrinks the scan; every other step lowers it. With
`StandsStillOnlyDrained` this is `EverySlotComesBack` without its fairness.

*Clauses.* Handles issued are 1..n in every transaction's view, because an insert takes the
highest seq plus one and nothing frees a seq. So two transactions that both have an uncommitted
insert would hold the same row of the unique index, which one of them must wait for: there is one
inserter at a time, and only an inserter moves places. A position read before another insert
committed comes with a seq that is taken by then, so it is never used. That is why the section
needs no lock for the order, and why it does need one for its content.
`AcceptanceProofs!ReviewedIsApplied` is an induction over the list of operations: `Applied(ops, n,
old, r)` says what the first n of them have made of the committed rows `old` in the transaction's
view `r` (edits not overridden hold, deletions hold, each addition has a clause of its own beside
its anchor), and three lemmas about rows alone take it from n to n + 1. `AcceptanceInv` ties it to
a running request: n is what `todo` no longer holds, and the place read for an addition is still
its anchor's. It needs that an addition asks for its anchor's place or the next
(`DraftAssumption`) and that no list deletes an anchor it adds to, which the acceptance checks.

*Issues.* Both triggers write their half before they look for the other's. `LooksAtTask`
follows a call from its start to its UPDATE, and the induction is over which read comes after
which write: whoever wrote second has its first read still ahead. A call that returns early
has seen a half missing: the evidence is not complete, and whoever completes it brings a call
of its own. For `ResolvesOnEvidence` the invariant is over what a call holds rather than what it
will do: `SummaryAgrees` says that the summary row of a test is the newest of its results in the
log, whatever order they committed in, except where a retirement overlapped a result (`torn`);
`Seen` says that what a call has read of an issue still holds at every step up to its UPDATE, for
each issue whose evidence no other call has changed since (`overtaken`).

*Only model-checked*: liveness, that is `EveryRequestEnds`, `Converges` and
`EverySlotComesBack`, because fairness and ENABLED are beyond the prover; theorems give the
safety half of each (nothing stands still with work left; for versioning and the gate also a
measure that every step lowers). Every invariant and action property of a passing run is
the statement of a theorem. Where the theorem has an assumption on the constants the run has
it too, and for most of them section 6 has a configuration without it in which the property fails.

## 5. Plan

1. Composition: `restoreVersion` beside `SpecGovernance`'s guards (a restore rewrites
   statements of closed Specs and of verified criteria, `versioning.ts:613`).
2. Theorems about the compositions of items 1 and 6.
3. `ToolGates` (`phase-gate.ts`, `checkout-gate.ts`): the checked phase and the held Spec
   against what the handler then writes.
4. `GuidanceClaims` (`session-claims.ts`): grants once per backstop across instances, with
   "at most once per window" as abstract specification.
5. `SeqAllocation` (`shared/sequence.ts`): the retry loop, its bound and its last failure.
6. Composition of `EmissionGate` with what an admitted result does; several instances of the
   gate in front of one pool.
7. Caches (`scaffold-additions-cache.ts`), decisions and dependencies, the pulse history.

## 6. Known deviations

Where a doc or comment of the repository says one thing and the code does another. The first
column is the configuration that reproduces the trace; the one in bold is a run of
`PROJECT.json` with a finding, the others are kept to be run by hand
(`tlc -config X.cfg MC...`). Each ends with the named property violated.

| Configuration | Property | Trace | What the repository says |
|---|---|---|---|
| `DocVersioningLostEdit` | `RestoreLosesNothing` | edit commits after the checkpoint's read, before the rewrite | `versioning.ts:763` "never lost" |
| `DocVersioningStranded` | `CutArchivesWhatItRetires` | artifact created between the read of its table and the retirement | `versioning.ts:12-16` retired still renders in the frozen version |
| `DocVersioningMarker` | `RetiredRendersInItsVersion` | restore stamps what it leaves behind with the source's number | `versioning.ts:486-488` "exactly dec-2's leave-behind marker" |
| `DocVersioningSeqReuse` | `SeqNamesOneArtifact` | hard-delete the last, create another | `versioning.ts:481` "allocate-once identity" |
| `DocVersioningTaskComment` | `RestoreFindsItsTargets` | comment a task, cut, delete the task, restore | `versioning.ts:490-493` "need no remapping at all" |
| `DocVersioningAcComment` | `RestoreFindsItsTargets` | same with a criterion: `ac_id` is never written | `versioning.ts:482-485` names this case as handled |
| `DocVersioningRetargeted` | `RestoreKeepsTargets` | a reused seq moves a comment's text to another criterion | `versioning.ts:694-696` |
| `ChangeFeedFirstConnect` | `FirstConnectHasNoGap` | write between the page's fetch and the stream's first connection | `useDocChangeStream.ts:57-59` the initial fetch covers it |
| `ChangeFeedFirstListen` | `FirstListenHasNoGap` | stream attaches before the instance's first LISTEN | `bus-relay.ts:373-375` "no gap to converge" |
| `ChangeFeedOvertaking` | `NothingForgotten` | answers of two refetches arrive in the other order | `useDocChangeStream.ts:55-57` |
| `ChangeFeedFetchFails` | `NothingForgotten` | the refetch an event asked for fails | `useDocChangeStream.ts:55-57` |
| `GovernanceSilentReopen` | `ReopenOnRecord` | a move that read an open Spec lands after it was closed | `documents.ts:1586-1588` "impossible" |
| `GovernanceLateEdit` | `FrozenWhenDone` | an edit checked while open lands after closing | `acs.ts:276` |
| `GovernanceTwoProposals` | `OneOpenProposal` | both checked before either is filed | `ac-supersession.ts:127` "by construction" |
| `GovernanceTwoSuccessors` | `OneSuccessor` | one proposal accepted twice at once | `ac-supersession.ts:405` "already resolved" |
| `GovernanceGateSkipped` | `ClosesThroughTheGate` | done-to-done skips the gate, the Spec is reopened meanwhile | `done-gate.ts:3-5` |
| `GovernanceRetired` | `VerifiedOnOwnText` | edit while one test fails, then retire that test: it comes to read verified on a run of the old statement | `acs.ts:285` |
| `GovernanceInherited` | `SuccessorBornUntested` | results are posted for the next seq before the successor is minted (or are left by a deleted criterion) | `ac-supersession.ts:304` |
| `GovernanceSignedOff` | `AcceptedOnOwnText` | sign off, fail, edit, pass | `acs.ts:239-242` |
| `GovernanceRewritten` | `SupersededVerbatim` | edit a superseded criterion | `ac-supersession.ts:283` "preserved verbatim" |
| `StandardClausesDiscard` | `NoSilentDiscard` | an edit commits between an acceptance's check and its transaction | `standard-accept.ts:172-173` "discards the intervening edit silently, which is the failure class this whole Spec exists to close" |
| `StandardClausesStale` | `ContentIsProjection` | two verbs overlap, each composes without the other's row | `clauses.ts:5-6` the content is a projection of the clauses |
| **`IssueLifecycleReconverted`** | `NeverForAnotherTask` | candidates read, task kicked back, issue converted anew, then the UPDATE | `issues.ts:447-448` "exactly when its satisfying Task is `complete`" |

Two more were met while modelling and have no configuration: a conversion's link is overwritten
by a second, concurrent conversion, so kicking the first task back makes a second issue
(`issues.ts:621` "One Issue, not two"); and `CLAUSE_SEQ_CONSTRAINT` (`clauses.ts:39`) is
declared for a retry that no insert performs, so the loser of two inserts gets an error.

## 7. Not modelled

`PROJECT.json` "components" lists every part left out, with the reason. In short: read models
and aggregates keep no state; transport, rendering, prompts and ranking have no small state
space; outside services are forwarded to without anything depending on them; tenancy is one
scope throughout. Parts marked "Planned" are section 5.
