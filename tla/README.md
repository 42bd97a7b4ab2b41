# ParcelGraph: a verification development

TLA+ models of the ParcelGraph backend (Go, `src/backend`), TLC configurations
that check them on small instances, and TLAPS proofs of the results that matter
most. Every definition is a translation of the source lines `PROJECT.json` gives
for it.

## The system

ParcelGraph keeps cadastral boundaries and the proposals to change them. One
stateless Go service answers HTTP requests (one goroutine each) over a PostgreSQL
database (SQLite in tests); a Vue client talks to it. All state that lasts is in
seven tables. Nearly every write operation has the same shape:

1. read one or more rows, each in a statement of its own, outside any transaction;
2. judge them: state machine, version, role, authorship;
3. open a transaction that updates a row *conditionally* on what was read (or
   inserts one) and inserts the audit row.

The isolation level is the database's default (READ COMMITTED), nothing locks a
row, and any number of handlers run at once. So the question of the whole
development is: *does what step 2 concluded still hold at step 3, and does what
step 3 leaves behind tell the truth?*

| Component | State | Operations | Talks to | Modelled in |
| --- | --- | --- | --- | --- |
| Vocabulary (`constants`, `router`) | none | transition tables, roles per route | everybody | `Vocabulary` |
| Boundary proposals | row: state, version, author, reviewer, parcel, base | create, transition | reads parcels and observations, writes audit | `ProposalRecords`, `ProposalReview`, abstract `ProposalLifecycle` |
| Topology detection | conflict rows, one run per (account, key), id sequence | detect, replay | reads proposals and parcels | `Detection`, abstract `IdempotentDetection` |
| Topology conflicts | row: state, resolver | transition, apply suggestion | reads and *creates* proposals | `ConflictResolution` (composes `ProposalReview`) |
| Survey observations | row: state, version, replacement | import, transition | reads parcels | `ObservationEvidence` |
| Land parcels | row: code, content, boundary version | create, update | read by everybody | `ParcelRegister` |
| Audit trail | append-only rows | written by every operation | | in each module above |
| Rate limiter | counters per client, under a mutex | allow, sweep | in front of login, import, detect | `RateLimiter` |
| Geometry | none | parse, snap, detect | called by detect | `PlanarGeometry`, `TopologyAnalysis` (partly) |
| Authentication | tokens, accounts | login, parse, RBAC | in front of everything | `Session` (extends `Bootstrap`) |
| Bootstrap | schema, trigger, seed accounts | migrate, seed | database | `Bootstrap` (partly) |
| Server lifecycle | where `main` is | start, drain, stop, exit | bootstrap, handlers | `Bootstrap`, `Session` |
| Frontend stores | lists of a page | load, act | HTTP | not modelled |
| HTTP envelopes, configuration, listings, deployment | none | | | not modelled: no state, or data only |

What makes each of them correct:

* **Proposals.** Every committed step is an edge of the transition table, taken by
  somebody who may take it, *on the row as it was at the commit*; the author never
  reviews; `reviewed_by` is the last reviewer; a decision is final; the audit trail
  replays to the row.
* **Detection.** A key means one result set for ever, whatever is retried, lost or
  crashed; the transaction leaves all of its rows or none; nobody waits for ever.
* **Conflicts.** A suggestion becomes one draft at most, exactly when its conflict
  is resolved by it; the history is gapless although the row has no version.
* **Observations.** Superseded is final and names a replacement of the same
  parcel; histories replay.
* **Parcels.** Codes are unique; an update never undoes a change it has not seen,
  though it writes the whole row, unless its client states a version beyond the row
  that is read; the audit rows tell the parcel's story.
* **Rate limiter.** No client gets more than two limits in a window's length;
  nobody is refused for what is long past; the wait it is told is enough; the map
  forgets those who do not return.

* **Geometry.** A snapped corner leaves no sliver and does not depend on chance;
  correcting a proposal over and over comes to rest near where it was drawn; a report
  is empty only if there is no trouble, and it is known which neighbours it names.
* **Bootstrap and lifecycle.** Whatever crashed half-way, the service comes up
  again, with all seed accounts, none of them touched if it was there, and with
  spatial columns that say what the GeoJSON says.
* **Authentication.** A request acts with a role its account had while the request
  was running, never with the one an old token names.

The hazards of the code, each at its line and with the properties that watch it,
are listed in `PROJECT.json`.

## Modules

`Vocabulary` holds the tables and rules all modules share.

### Proposals: `ProposalRecords`, `ProposalReview`, `ProposalLifecycle`

`proposals` and `trail` are the table and its audit rows; `request[s]` is the
handler in slot `s`, between its reads and its transaction.

| Action | Code (`boundary_proposal_service.go`) |
| --- | --- |
| `BeginCreate`, `CommitCreate` | `CreateProposal`: checks to line 45, transaction from 46 |
| `BeginTransition`, `CommitTransition` | `TransitionProposal`: read and checks to line 99, transaction from 100, whose conditional update is `Matches` / `Moved` |
| `AbandonTx` | any rollback: no row matched, a statement failed, or the process ended |
| `UpdateParcel` | another handler's update, as far as proposals notice |

A refusal (404, 409, 403) changes no state and is simply not a step. The
transaction is one step because its effects become visible at once and its
conditional update re-reads the row under the row lock; `Detection`, where what
happens *inside* a transaction matters, takes it apart. `seen` is the version the
client sends; the code decodes it and drops it, and the model keeps it for one
property only.

`ProposalLifecycle` is what a reader of the state machine expects: one row, no
handlers, a step judged on the row itself. `ImplementsLifecycle` is the claim that
stale reads make no difference.

### Detection: `Detection`, `IdempotentDetection`

A call is one HTTP request with its account, key and request; a retry is another
call with the same three. The handler goes through `key`, `parcel`,
`neighbours`, `findings`, `commit`, `ack` (or `recheck`, `replay`), one database
statement per step.

* `InsertFinding` takes an id from the sequence, which a rollback does not give
  back. Rows of an open transaction are not in `conflicts` or `runs`: nobody else
  sees them. The audit rows are part of the commit.
* `InsertRun` meets the unique index on (account, key): it waits while another open
  transaction holds the entry (`IndexFree`), and fails when a committed row has it.
  This is the one thing taken from PostgreSQL and not from the source.
* `Commit` may take effect and yet look like a failure. `Rollback` and `ReadFails`
  may happen at every statement. `Crash` ends all open calls.
* Findings are abstracted to their number, a function of the request and of the
  boundary versions read. The constant `FindingCount` is arbitrary in the proofs.
* The role check of the route is not a guard here: a call is by an account that
  passed it. The trimmed key's length check and 404/422 answers end a call before
  anything is read that matters, and are left out.

`IdempotentDetection` is the promise: per account and key a register that is
written once, and every client is told what it holds, or that it holds another
request's result, or an error.

### Conflicts: `ConflictResolution`

Extends `ProposalReview`, so conflict handlers (`desk`) run among the proposal
handlers on the same rows. `ApplyConflictSuggestion` is `BeginApply` (conflict),
`LoadSource` (proposal), `LoadBase` (parcel), `CommitApply`: three reads and a
transaction, between any two of which everything may move.

### Observations and parcels: `ObservationEvidence`, `ParcelRegister`

The same read-judge-commit shape, with `CheckReplacement` as the second read of a
supersession. In `BeginUpdate` a client states no version or any positive one: the
validation asks for no more (`dto/land_parcel.go:25`), and lines 84-87 take what it
states without a look at the row just read. `MaxVersion` leaves the last version
unstated, because no update follows it. The history keeps beside each audit row what
the client stated, for the properties alone. `Finish` stands for the response and for
a database error at any point.

### Rate limiter: `RateLimiter`

The only state of the backend that is not in the database. `RateLimitMiddleware`
calls `time.Now()` (`Arrive`) before `Allow` takes the mutex, so a slot between the
two holds a time that may be served after a later one. `Allow` is one step, for the
mutex makes it one: the sweep of ended windows (`Swept`), the window to count in
(`Current`), the comparison (`Full`) and, outside it in the code but on values
nobody else touches, the `Retry-After` of a refusal. `clock` is the monotonic clock
in ticks; `admitted` is a history variable for the properties.

### Geometry: `PlanarGeometry`, `TopologyAnalysis`

`PlanarGeometry` holds the pure part: `ValidRing` (`ParsePolygon`), `SnapTarget`
(`nearestSnapTarget`), `FindingsFor` and `SameFinding` (`DetectTopology` and
`deduplicateFindings`). `TopologyAnalysis` runs them as the services do: `Detect`
snaps the proposal in hand to the parcel and its neighbours and reports on the snapped
ring; `Apply` makes the snapped ring the next proposal (`ApplyConflictSuggestion`
stores the suggestion as a derived draft, which may be analysed again).

What is abstracted:

* Coordinates are integers and distances are compared squared, so there is no
  rounding. A ring has any number of corners from three on. The parcels snapped to have
  sides along the axes, because there the foot of a perpendicular is a whole point
  again; `drawn` and snapped rings may have sides of any direction. Slanted parcel sides
  with feet between the whole points, floating point (where the foot of a slanted side
  may lie off it by rounding) and holes are left out.
* Area, length, distance and intersections come from an external library
  (simplefeatures) and are defined for rectangles: area by unit squares, borders by
  half units. Evidence is a set of points; two evidences are equal when the sets are.
  If the snapped ring or one of the parcels is not a rectangle (`Examined`), the findings
  are a free choice between none and some (`Unexamined`), and only the snapping
  properties speak of them.
* The tolerance is positive: the requests' validation (`gt=0`) makes the branch
  `tolerance <= 0` of `SnapToReferences` dead. At whole units the area threshold
  decides only for tolerances from 100 on, which the proofs cover and no run has.
  Severities and explanations are derived from a finding and left out.
* The neighbours do not change during the analysis; that they may is `Detection`'s
  subject.

### Bootstrap and sessions: `Bootstrap`, `Session`

`Bootstrap` takes `main` and `MigrateAndSeed` apart: `server[i].stage` is where
instance `i` is. Each statement is a step and commits by itself, as `db.Exec` does
outside a transaction; `Die` may follow any of them. `AddConstraint`,
`CreateTrigger` and `CreateSeed` fail when another instance has been faster, and the
process exits (`os.Exit(1)`).

| Action | Code |
| --- | --- |
| `Start`, `Exit` | `main.go:23-45` |
| `AutoMigrate` .. `AddConstraint` | `MigrateAndSeed` (`support_repository.go:81-97`) |
| `AddColumn` .. `Backfill` | `migratePostGIS` (`:197-278`), for the parcel table |
| `FindSeed`, `CreateSeed` | the loop over the accounts (`:109-122`) |
| `Drain`, `Stop` | the signal and `server.Shutdown` (`main.go:72-83`) |

The parcel table stands for the four tables with a geometry column, a trigger and a
backfill; their statements alternate in the code and touch nothing of each other.
AutoMigrate is one step. Instances are of two kinds: the one of
`docker-compose.yml`, which is restarted (`restart: unless-stopped`), and strays
somebody starts beside it. The database is new, or of a release before the roles
and the geometry columns; what the old constraint allowed is assumed to be a subset of
today's roles, for otherwise ADD CONSTRAINT would fail on the old rows for ever.
Accounts change from outside only (`ChangeAccount`): no route does it. The instances
run with `DBAutoMigrate` on, the default and what the compose file sets; with it off
`main.go:35` skips `MigrateAndSeed`, and an instance serves whatever it finds.

`Session` extends it with clients. `CheckToken` and `LoadAccount` are the two halves of
`AuthService.Parse`, the signature with the expiry and the query; the account may change
between them and after them, before the handler writes. The query may fail for an account
that is active: the code answers every error of it 401 (`support_service.go:118-121`). A
401 makes the client forget its token. `EditParcel` is a parcel's write with whatever trigger is installed
(`Written`). Passwords and signatures are taken to be right: nothing here is about
forging them.

## Checked by TLC

| Run | Question | Instance |
| --- | --- | --- |
| `review` | is a stale read ever committed, or a review by the author? | 1 proposal, surveyor + reviewer + administrator, 2 handlers, version up to 9 |
| `detect_retry` | does a key mean one result, and is everybody answered? | 3 calls of one key, two the same request and one reuse, 1 boundary edit, 1 crash |
| `resolve` | one draft per suggestion, gapless histories, same lifecycle? | 1 conflict, 2 conflict handlers, 1 proposal handler, 3 proposals |
| `observe` | histories, finality, replacements | 3 observations, 2 parcels, 2 handlers, version up to 4 |
| `register` | unique codes, histories that chain, no lost update but by a version stated too high | 2 parcels, 1 code, 2 columns of 2 values, 2 handlers, no version or 1 to 3 stated, version up to 4 |
| `limit` | does the limit hold, and is a refusal fair? | 2 clients, 2 requests at once, limit 2, window of 3 ticks, 2 ticks a second, 6 ticks |
| `analyse` | does snapping settle, without slivers, and whom does a report name? | 4 neighbourhoods of 1 to 3 parcels, one of them L-shaped, all 441 rectangles of a 7 by 7 grid, triangles and L-shapes, tolerances 1 and 2, 3 suggestions applied |
| `session` | does the service come up complete, and whose role does a request act with? | the deployed instance and 1 stray start, 2 crashes or shutdowns, 2 accounts, 1 outside change each, 1 client, 1 parcel of 2 versions |
| `stale_version`, `detect_snapshot`, `supersession_cycle`, `lost_update` | does the code do what its documentation says? (no: see below) | as small as the counterexample allows |

Why the bounds are enough. A race here needs a handler that has read and one that
commits in between: two handlers; with a third nothing new happens, because each
commits on its own comparison, and the proofs cover any number where they exist.
A version of 9 lets a proposal go draft, validated, submitted, reviewed,
revision, draft and again to a decision, so that every state is entered twice, the
case in which a comparison of states alone would not do. Three calls under one
key are a winner, a retry and a reuse at once. Three observations are the least
with two distinct replacements. Two columns are the least with a lost update
(each handler changes its own); one code is enough for two parcels to want it; a version
of 4 lets an update be stale by two. `MaxLag` limits how old a client's view may be; it
is zero in the runs whose properties do not speak of the client's version.
`MaxDelay` bounds how long a request may take from its time to the lock; one tick
is enough for two requests to overtake each other. A window of three ticks with
seconds of two makes the rounding of `Retry-After` matter, six ticks hold two
windows and the sweep between them. `AdmissionBound` is tight: a delayed request
opens a window in the past, which ends `MaxDelay` earlier than it admits. A third window
takes eight ticks, which are too many states; that the bound holds over any number of
windows is the proof's. In `resolve` the parcel keeps its first boundary: that a derived
draft is legal on a parcel that changes meanwhile is left to the proof, too.

The grid of `analyse` holds parcels that touch along a side, in a corner, overlap
each other, and stand across a strip of one unit, which tolerance 1 and 2 tell
apart; a third application would show a corner that moves a third time. In
`session` two crashes are a crash and another one in the restart after it; one stray
start is the least with two instances in each other's statements; a token of one
tick and a clock of two is a token that expires before, while and after it is used.

`observe` and `supersession_cycle` turn deadlock checking off: with finitely many
ids all observations may have been superseded or have reached the version bound,
and nothing is left to do. `analyse` ends where a ring has no finding or may not be
snapped (422); `session` ends a path where the clock, the edits, the outages and the
operator's changes are used up and no token is valid. `Detection` has an explicit `Finished` step instead; in
the other modules something is always possible, because a handler can begin again or
the bounds leave a parcel to edit, and deadlock is checked.

Symmetry is used only for safety properties, over ids and slots that no
definition singles out.

**Fairness.** Two modules claim liveness. `Bootstrap`'s `ComesUp` is checked under
the fairness of `Session`: weak fairness of `Start` for deployed instances (the
restart policy, and after a deliberate `docker stop`, from which `unless-stopped` does
not restart, whoever stopped them), of each instance's `BootStep` (a statement ends) and of `Stop`
(`Shutdown` has a timeout). Nothing is assumed of crashes, signals, strays, clients
or the operator. `Detection` claims it under weak fairness of
`Progress(c)` for every call: net/http runs every request on a goroutine of its
own that Go's scheduler does not starve, and a database statement ends, with a
result, an error or the end of a wait. Nothing is assumed of `Send`, of failures
or of crashes. Weak fairness is enough for the index wait: the holder of the
entry is at `commit`, where its own progress releases the entry.

Each property comes with a mutant, a plausible bug in the code that TLC finds
through that property under the same configuration: a conditional update without
its version, an index left out, a review by the author, a row written outside the
transaction, and so on (definitions headed *Mutant of*).

## Proved by TLAPS

Every property of the passing runs is proved but for the two liveness properties,
`Answered` and `ComesUp`; of each of those the safety half is proved, that no step goes
back or fails (`CallsNeverGoBack`, `LoneStartsNeverFail`). The theorems hold for all
values of the constants, under the assumptions the modules name. These give the shape
of the parameters and say that a placeholder is not a row (`RecordsAssumption`,
`BoundsAssumption`, `DetectionAssumption`, `ConflictAssumption`,
`ObservationAssumption`, `ParcelAssumption`, `AnalysisAssumption`,
`SessionAssumption`); `BootstrapAssumption` says also that there is an account to
seed and that an old release's roles are among today's, and `LimiterAssumption` that a
request does not wait longer than a window for the lock.

Where handlers read a row and write it later, the argument is always the same: *what a
handler holds is the row as it is, or the condition of its update is false*. The
strengthenings below say so, each for its rows.

**`ProposalReviewProofs`.** `TypeOK` alone is not inductive: a commit on a missing
row would write no row. The strengthening is `HandlerSound`: the row a handler holds
*is* the current row, or the current row has a higher version; and what it is about
to do was allowed on the row it holds. With it a matching version makes the row read
the row written to, so

* `TypeCorrect` and `HandlersAreSound`: `TypeOK` and `HandlerSound` always;
* `ReviewImplementsLifecycle`: each step maps to a step of `ProposalLifecycle` or
  to a stutter; begins and failures are stutters, commits are its steps;
* `TrailsReplay`, `NobodyReviewsTheirOwn`, `ReviewersAreOfRecord`:
  `AuditTrailReplays`, `IndependentReview`, `ReviewerOfRecord`. They are proved
  of the *abstract* step and carried over by the refinement, so the
  argument never speaks of handlers;
* `DecisionsAreFinal`: `DecisionFinal`.

**`DetectionProofs`.** The inductive invariant is `Sound`: `TypeOK`, `InTransit`
(an unfinished call has no code, an unstarted one no ids), `HandlerSound` and
`AnswersAreTheRun`. The heart is the unique index: a call at `commit` has found no
committed run and has no rival at `commit`, and as nobody may join it there, its
insert is the only one. From it

* `TypeCorrect`, `HandlersAreSound`, `AnswersAreOneRun`;
* `DetectionKeepsPromise`: a commit is the abstract write, a reply the abstract
  answer, everything else a stutter.

`StoreIsOwned` and `ReplaysAreComplete` need more of the open transactions:
`IdsAreFresh` says that the ids one of them has taken come from the sequence, are in no
table, in no other transaction and not there twice. A rollback leaves the sequence where
it is, which is what keeps this true.

`ResultsAreOfTwoReads` says what holds where `SnapshotConsistent` fails (disagreement 2
below): the boundary of the subject is of one moment, those of all neighbours are of one
that is not earlier, and the run has exactly one conflict for each finding on them. The
strengthening is `ReadsSound`, what a handler knows after the first and after the second
read; versions of the past stay what they were because edits are only appended
(`PastIsPast`).

`CallsNeverGoBack`: a step takes a call to a later stage, by `Rank`, or inserts the next
of its findings. With a fair scheduler this leaves only the index wait to be
model-checked.

**`ConflictResolutionProofs`.** But for `CommitApply`, every step of the system is a
step of `ProposalReview` or leaves its variables alone (`StepIsTableStep`), so what is
proved of those steps is used as it stands. `DeskSound` says what a desk knows between
its reads: its conflict is there, about the same proposal, and the draft it has begun
continues that proposal, on its parcel. A conflict row has no version, so a matching
state is all a commit has; it is enough because the transition is judged on the state,
and `Moves` says just that. `SuggestionsSound` relates the two tables: a conflict with an
applied suggestion is resolved or closed, so there is no second application; and a
proposal goes on from another one exactly when one event of one conflict names it. From
it `SuggestionsApplyOnce`, and besides `ConflictTypesCorrect`, `ConflictTrailsReplay`,
`ResolversAreOfRecord`, `SourcesAreUntouched` and `SystemKeepsLifecycle`.

**`ObservationEvidenceProofs`.** The strengthening has three parts: `ReadRow` (the row
held is the row read or an older version of it), `AllowedChange` (the change was legal
for it) and `CheckedReplacement` (the replacement was there, on the same parcel). An
observation never changes its parcel, so the check stays right *about the parcel* however
late the commit is: `ReplacementsAreRecorded`. That the replacement is still *active* at
the commit does not hold; that is disagreement 3 below. The other theorems are
`TypeCorrect`, `HistoriesReplay` and `SupersessionIsFinal`.

**`ParcelRegisterProofs`.** `ReadRow` says of a handler that the row it read was the
parcel at that version, as the history tells it, and is the parcel if the version still
is. An update that matches was therefore composed from the row it is written on, or its
client stated the version of that row, beyond the one that was read (`CommittedUpdate`,
`Changes`). So `UpdatesAreNotLost`: without such a statement writing all columns changes
none but the handler's own; and `HistoriesChain`: the audit rows follow on one another, or
show what the client stated. `CodesAreUnique` is due to the index alone, as the
look-up before it proves nothing. `TypeCorrect` completes it.

**`RateLimiterProofs`.** The argument follows one client (`ClientSound`). `Open` says of
its window how its admissions lie about it: the latest `count` of them not before it
opened, the others no later than that, give or take the delay, and those a limit
further back a window away. `Away` is what remains of it when the window is swept: a
limit back, admissions are a window away from now. This survives the case in
which a request with an older time opens a window after a sweep with a later one. From it
`AdmissionsAreBounded` and `RefusalsAreJustified`; `RetryIsHonoured` needs the rounding
(`RetryIsEnough`), `StaleVisitorsAreSwept` that no window in the map ends before the last
sweep (`Windows`), for which the delay must not exceed the window.

**`TopologyAnalysisProofs`.** `SnappingSettles`: `CornersSettle` for any tolerances and
any number of suggestions applied, and for rings of any number of corners. Assumed is
`AnalysisAssumption`: corners on whole units, parcels' sides along the axes, positive
tolerances; the arithmetic is exact. `CornersSettle` is not
inductive, as a count of two says nothing about where the corner is. The
strengthening, `Settling`, is a ladder: after no move a corner is where it was drawn,
after one on the outline of a reference (`OnVertex` or `OnEdge`), after two at a
vertex. `OneSnap` shows that a corner at a vertex never moves and one on an edge only to
a vertex, because its own point is among the candidates at distance zero; that the
nearest candidate exists at all is the well-foundedness of the naturals
(`LeastNumber`, `FirstPlace`). `TwoMoves` bounds the distance: two moves of at most `s`
and `t` end within twice the larger.

`SnappingLeavesNoSliver`: `NoSliverAtCorners` under the same assumptions. The foot of a
perpendicular is on the side, and nothing on the side is nearer (`FootOfSide`), so a
corner that has not been moved has no outline within its
reach. Of equally near vertices the first is taken (`FirstNearestIsFirst`), and the
first row of them is the parcel's own (`VerticesInOrder`).

`TroubleIsReported`: `TroubleReported`, for rectangles, by what detection has just done
with the ring (`FindingsAreOfSuggestion`). Of findings with one key the first neighbour's
is kept (`KeptFindings`), and of each kind it is shown what the key tells apart: the
common area tells disjoint neighbours apart (`OverlapsAreNamed`), the boundary of the
suggestion tells nobody apart (`FirstLostContactIsNamed`), the common border those with
different borders (`ShortContactsAreNamed`), hence not those it does not touch. That two
rectangles come near each other exactly where their separation says so, which is how
detection measures it, is `SeparationIsDistance`.

**`SessionProofs`.** The invariant is `Sound`, of five parts, for any number of
instances, seed accounts, parcels and clients.

* `SeedIsComplete` counts on what an instance that is not serving yet has done:
  `SeededSoFar` says that the accounts before the one it is at are there. No step
  removes an account, so neither a crash nor a stray start takes this away.
  `AsLastLeft` is the other half, and it needs that an account with changes is never
  created: `SeedsAreComplete`.
* `Mirrors` speaks of a serving instance; `MigrationSound` says of every stage what the
  statements behind it have made of constraint, trigger and column (`Prepared`), that
  only one instance is alive, and that no row has an outdated geometry *even between
  the instances*, which is what lets the backfill look at NULL alone. An edit runs
  under the trigger because its instance serves or drains (`RequestsSound`):
  `ColumnsMirror`.
* `AuthorityIsCurrent` is about a request in its handler. Earlier it is known that
  it began before now, before its token expired once that was checked, and not after
  the changes its account has seen (`RequestSound`); with `AsLastLeft` the row that is
  looked up is one of those. Later changes take nothing away (`RequestKept`):
  `AuthorityIsAlwaysCurrent`.
* `LoneStartsNeverFail`: without an overlap no `BootStep` exits. `Prepared` is why the
  constraint and the trigger can be added, `SeedMissing` why the account can be created.

## Only model-checked

`Answered` and `ComesUp`: liveness under fairness, which the prover does not do. Their
safety halves are proved as said above; what TLC adds is that the step left to take
is enabled again and again, through the index wait of `Detection` and through starts that
do run into each other in `Bootstrap`.

The four disagreements below are counterexamples, which a small instance settles.

## Not modelled

* *Parsing, floating point and the coordinate-system allow-list* of the geometry:
  data without control, and real arithmetic.
* *The frontend's stores and pages.* Each holds a copy of a server answer and replaces
  it with the next; it keeps nothing the server relies on. An idempotency key is made
  fresh for every call, so pressing the button twice is two detections. Only the interceptor that drops a refused token is modelled.
* *HTTP envelopes, configuration, request ids, recovery, CORS, listings, deployment*:
  no state of their own, or data only.
* *The other three geometry columns* and the extension, function and index statements of
  the migration, which are idempotent by their own wording.

## Where code and documentation disagree

1. **A stale version in a transition request is not refused** (`stale_version`).
   README.md:151: "`409` means an illegal or stale state/version transition." The
   client's `version` is required, decoded and never compared
   (`boundary_proposal_service.go:78-101`). After a revision round the row is a draft
   again, and a transition sent for the earlier draft, with its version 1 where the row has
   6, goes through.
2. **A detection result is not that of a snapshot** (`detect_snapshot`).
   `model/topology_conflict.go:9` calls it so; parcel and neighbours are read in two
   statements (`topology_conflict_service.go:43`, `:58`).
3. **Two observations can supersede each other** (`supersession_cycle`). The
   replacement "must be an active observation on the same parcel"
   (`survey_observation_service.go:94`), but is checked outside the transaction.
4. **A parcel update can undo another one** (`lost_update`). `UpdateParcel` takes the
   version its client states for the one it compares (`land_parcel_service.go:84-87`)
   and does not compare it with the row it has read. A client that states the version a
   concurrent update is about to make matches, and its handler writes the row from before
   that update back, fields its request does not name included. gb-540.md:52 wants the
   difference of every write on record; this one is on no audit row, which names as the
   content before one that was there a version earlier, and both answers are 200. Without a stated version, or with one not beyond the row, nothing is lost
   (`NoLostUpdate`).

Seen while modelling, not worth a run of their own: a resolved conflict's
`resolved_by` is overwritten when it is closed (`ResolverOfRecord` states what it
really means); an update of a parcel whose version has changed is answered 500
(`land_parcel_service.go:119`), where README.md:151 asks for 409, and so is the creation of
a parcel whose code was taken after the look-up (line 51); a lost race in
`ApplyConflictSuggestion` is a 500, in `TransitionConflict` a 409; the audit row of `parcel.updated` records the new
content with the old version; an observation may be imported as superseded, with no
replacement; a rejected observation counts as an active replacement; the version of
a derived draft is the source's at the time of the read plus one, which the source
may have overtaken; gb-540.md:36 promises idempotency per input hash, the code gives
it per account and key; a replay returns the rows of a run as they are now.

In the geometry: gb-540.md:34 asks for the parcels involved, but a finding names one, and
of findings with one type and one geometry only the first is kept. So of two neighbours
that lose contact the second is not named, as the geometry of a gap is the whole candidate
boundary; nor is the second of two near by that the candidate does not touch, for both
have the empty geometry; nor one whose short contact is an earlier one's, too
(`TroubleReported` states whose naming can be relied on);
a neighbour that touches in a corner always
is a dangling edge; one application of a suggestion may not be the last, as a corner
snapped to an edge with one tolerance may go on to a vertex with another, up to
twice the tolerance from where it was surveyed; a self-intersection is never
reported, though the same line lists it, but refused with 422.

In the start-up: an update served by one instance between another's DROP and CREATE
TRIGGER leaves an old geometry for ever, since the backfill looks at NULL alone (TLC
finds it when `~overlapped` is dropped from `Mirrors`); two instances that both are
restarted can throw each other out at ADD CONSTRAINT or CREATE TRIGGER for ever (with
`Deployed = {i1, i2}` TLC finds the cycle against `ComesUp`). The compose file starts
one. In the client: a 401 that answers an old tab's request removes the token another
tab has just stored, since both use one `localStorage`.

## Plan

1. *(done)* `ProposalReview` with `ProposalLifecycle`; `Detection` with
   `IdempotentDetection`; `ConflictResolution`; `ObservationEvidence`;
   `ParcelRegister`; `RateLimiter`; proofs of the first two.
2. *(done)* `PlanarGeometry` and `TopologyAnalysis`, with the proofs about snapping.
3. *(done)* `Bootstrap` and `Session`.
4. `ConflictStore`: dropped, see "Not modelled".
5. *(done)* Proofs of `ParcelRegister`, `ObservationEvidence`, `ConflictResolution`,
   `RateLimiter` and the rest of `Detection`.
6. *(done)* Proofs of `Bootstrap` and `Session`, of `TroubleReported` and of the
   safety halves of the liveness properties.
7. What is left: holes in the rings of `PlanarGeometry`, and the findings about snapped
   rings that are no rectangles.
