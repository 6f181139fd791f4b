# Formal models of HomeBandhu

HomeBandhu runs a housing society: residents raise complaints, supervisors and
managers turn them into jobs, workers are offered the jobs and do them, and a
dispatcher acts when nobody does; guards check visitors in and out. A React
application talks to a FastAPI service; nearly every decision is taken by SQL
functions of the database (`src/backend/supabase/migrations`), each one
transaction. Most lock the rows they decide on; those of the complaint engine that do
not, and whose write depends on what they have read, are two steps in the model. The
models here are of four things: the complaint engine with the dispatch queue under it, what every portal
of the browser application shows and offers of the rows on the server, the hub
that tells a browser what has changed, and the gate that goes on working without
its network.

A migration may redefine a function of an earlier one. Every action below models
the **last** definition, together with the triggers its writes set off.

## Inventory

| Part | State it keeps | Operations | What is hard, what makes it correct |
|---|---|---|---|
| Complaint engine (`0031`, `0036`, `202608*`) | complaints, work orders, assignment rows | about thirty verbs of supervisors, workers, residents and the office | every pair of verbs may interleave; one live job, one holder, no double booking |
| Dispatch queue (`0037`, `0045`, `core/dispatcher.py`) | `dispatch_tasks` rows with a due time, a lease and attempts | enqueue, re-arm, close, claim, fire, fail | leases run out, processes die, a timer is re-armed in flight; nothing dropped, nothing done twice |
| Complaint timers (`20260813104000`) | two task kinds per complaint | warn, close | reopening and resolving again while timers are armed |
| Browser screens (`pages/*`, `store`, `lib/api`) | a cached copy of a row, a write in flight | read, press, settle, roll back | the copy is out of date when a button is pressed; answers are lost, reads overtake each other; what is offered is accepted, what is shown becomes true |
| Event stream in the tab (`lib/realtime`) | a connection, the last event id | open, replay, resync, map a topic to query keys | frames before the first id, frames nobody's map names; every change reaches the screen |
| Offline gate (`features/security/offline`) | a queue in `localStorage`, a cached list of passes | scan, queue, sync, fold, dismiss | answers lost after they took effect, a scan during a sync, a reload; nothing lost, nothing verified twice |
| Visitor passes and gate (`0032`, `0040`) | passes, events, the reconcile log | verify, reconcile, shifts, incidents, registers | a second verification is a departure |
| Department routing (`20260812090300`) | change requests | request, accept, decline, assign | a complaint must not move under a live job |
| Departures (`0043`, `0045`, `20260821200000`) | departures, items, a removal timer | request, approve, cancel, release, remove | a leaver's jobs are handed over exactly once |
| Hiring, providers, skills (`0034`, `0035`, `20260811*`) | applications, roster rows | apply, invite, decide | one application decided twice, one leadership post per person |
| Memberships, access requests, invitations | requests, invitations, memberships | request, approve, reject, claim, revoke | two decisions of one request, a claim racing a revocation |
| Amenities (`0023`, `0033`, `20260812090000`) | bookings, charges, deposits | request, approve, block, cancel, settle | overlap, settlement after cancellation |
| Money (`0021`, `0033`) | invoices, payments | issue, pay, settle | a payment settled twice |
| Notifications and push (`0030`, `0041`, `core/push.py`) | feed rows, subscriptions | notify, mark read, claim, send | marked as read before the server says so; at most one buzz |
| Realtime hub (`0024`, `0028`, `core/realtime.py`) | outbox rows, cursor, queues | emit, poll, push, backfill, resync, prune | rows commit out of order, queues overflow, connections are cut while the poller reads; a gap must be announced |
| Conversations (`0038`, `0046`) | threads, messages | open, post, lock | follow the job |
| Sessions, caches, settings, notices, geocoding, telemetry | small | single-row updates | little |

The server's parts interact through the database only. A verb writes a work order;
the trigger `sync_dispatch_tasks` arms or closes its timers;
`project_complaint_from_jobs` moves the complaint; `on_complaint_resolved` arms the
complaint's timers. The dispatcher claims due tasks and calls `fire_dispatch_task`,
whose handlers read the job again and write through the same triggers. The browser
reads through queries, writes through mutations that name the keys to read again,
and hears of everybody else's writes through the frames of one event stream.

## Modules

| Module | Models |
|---|---|
| `WorkOrders` | the complaint engine: every verb, every handler of the dispatcher, every trigger between complaints, jobs, assignment rows and timers |
| `JobBoard` | the abstract promise: who holds a job, who finishes it, what is over stays over |
| `MCWorkOrders` | instances of `WorkOrders` for TLC |
| `DispatchQueue` | `dispatch_tasks` and the dispatcher processes: lease, attempts, crash, re-arming |
| `TimerService` | what the queue promises whoever arms a timer: served once per arming, called off, or given up after enough faults |
| `MCDispatchQueue` | instances of `DispatchQueue` |
| `Screens` | the vocabulary of a browser component: its key, its writes, where it offers them |
| `Frames` | frames of the event stream and the portals' maps from a frame to query keys |
| `HomeLives`, `WorkLives`, `OfficeLives`, `Lives` | the life of each row a screen shows: states, the server's guards, other people's moves, the frames they publish; and the known differences |
| `ResidentScreens`, `WorkerScreens`, `AdminScreens`, `ManagerScreens`, `SecurityScreens` | the components of the five portals |
| `Portal` | one component in front of one row: the cache, the person, everybody else, the stream |
| `MCPortal` | every catalogued component, with its budgets |
| `EventHub` | the outbox, the poller and one browser's connection: queue, backfill, resync |
| `MCEventHub` | the instance of `EventHub` |
| `OfflineGate` | the gate's screen, its queue, the server's verification and its reconcile log |
| `MCOfflineGate` | the instance of `OfflineGate` |
| `WorkOrders_proofs`, `Jobs_proofs`, `Board_proofs`, `Timers_proofs` | theorems about `WorkOrders`, each module on the one before |
| `DispatchQueue_proofs`, `OfflineGate_proofs`, `Portal_proofs`, `EventHub_proofs` | theorems about the queue, the gate, the screens and the hub |

### WorkOrders

- `complaint[c]` is the row of `complaints`: its status, whether its priority is
  high, `reopened_count > 0`, `returned_to_pool_at` and whether somebody took it up.
- `order[o]` is the row of `work_orders`: status, `subject_kind`,
  `scheduled_start_at`, priority, and whether `cancelled_by` is the resident.
- `asg[o][w]` is the newest `work_order_assignments` row of the pair. Every
  reader but one looks at the newest row or at rows that are still open, of which
  a pair has at most one; the reader of old rows is the exclusion of decliners,
  which is kept apart in `refused`.
- `timers` and `ctimers` are the open rows of `dispatch_tasks`.
- `underway` are the calls of `confirm_complaint_resolution` and `reopen_complaint`
  that have read their complaint and not written it.
- `alerted` is history: the jobs whose staff were told that nobody could be found.

One action stands for one SQL function and has its name. A function that locks what it
decides on (`for update`, or the complaint's lock at `20260827210000:97` when a job is
raised) is one step, because nobody can come between its reading and its writing. A
resident's confirmation and reopening read the complaint with a plain `select` and write
it by id (`20260812090300:1148` and `:1169`, `:1066` and `:1090`): they may be overtaken
(`ReadToConfirm`, `ReadToReopen`), and then write whatever the status has become. The
functions that lock nothing and whose write does not depend on a read, such as
`update_complaint` and `update_work_order`, are one step as well. Times are opaque slots
with an overlap relation, null included (`NoSlot`), because what matters is which
of the four overlap tests reads which time: the candidate query and the worker's
verbs skip rows without a time, the supervisor's verbs do not (`Blocked`), and the
exclusion constraint reads the row's own time, which may not be the job's. Leave,
weekly hours, skills and departures are the set `away`, chosen anew at each call.

A timer is armed or not; an armed one may fire at any moment. This covers every
clock, every dispatcher and every order of firing, and firing early as well, which
`DispatchQueue` shows is possible. The ranking of candidates is left open: a ping
offers to any `OfferRound` of them, a booking takes any one.

### DispatchQueue

`row[t]` is the newest row of a timer (subject and kind; a partial unique index
allows one open row): its number, whether it is open and due, its lease and its
attempts. `hands[d]` is what dispatcher `d` has claimed and not yet fired,
`raised[d]` the failed task it has yet to record. A fire may raise after its
transaction committed, when the answer is lost; recording a failure may fail; a
process may die holding a batch. `WorkOrders` sees of all this only that open rows
fire in some order, or retire unfired when `MayRetire`.

That reading is the abstract module `TimerService`, which has no rows, leases or
dispatchers. `Standing(t)` is its view of a timer: armed while a row is open, given up
when no row is open for a need, idle otherwise; `Service` is the refinement mapping and
`KeepsTheService` the property.

### Portal and its catalogues

A behaviour of `Portal` is about one component, chosen in `Init`, and one row. The
component is data: `ResidentScreens` and its siblings say, one definition for each
half, what the code that declares its writes does with an answer
(`…Writes`: the prefixes `onSuccess` invalidates, whether the answer is written into
the cache, whether an error invalidates too, whether the row is changed at once and
put back) and in which shown states the markup offers each write (`…Offers`). The
row is data as well: its `Life` is a transition system with the database's guards
(`moves`), what timers, triggers and other people do to it (`others`) and the frames
published on each. `Frames` is `queriesForFrame` with the portals' maps.

- `row` is the server's row; `shown` what is on screen; `fetch` the read in flight
  (asked, answered, idle, failed) and `stray` an older one, which only the admin
  store can have. A copy of the row remembers whether others (`behind`) or this
  person (`own`) have moved the row since it was read.
- `press` is the write in flight, `late` one the client has given up on after its
  timeout and the server has yet to see, `stream` the tab's `EventSource`, `due` the
  frames published and not delivered, `left` what is left of the budget.
- `missed` and `verdict` are history, for the properties: whether a change was made
  known to nobody here, and which writes had a surprising outcome.

The cache keeps react-query's rules: data are shown while they are read again; an
invalidation cancels a read in flight and asks anew; the first read of a key is
joined instead. The admin portal's store (`DashboardDataBootstrap.jsx`) has neither
rule: two snapshots may be in flight and land in either order. Writes are never
retried automatically; a person may press again after an error.

Where the markup and the guards differ is written down in `Lives`: `OverOffered`
(offered on an up-to-date page and refused), `UnderOffered` (accepted from an old
page although the page as it now is would not offer it), `Unkeyed` (a repeated press
is carried out twice), and `Followed`, the screens that hear of everything others do.
The properties say that these lists are complete.

A row may be replaced by a newer one of the same key. A resident's visit is the newest job
of a complaint: when it was called off, failed or was completed, a job raised next brings
the page back to choosing a time (`pick`, `VisitRaised`), and since the routes resolve the
newest live job when the press arrives (`work_orders_service.py:366-438`), an answer to
the old visit reaches the new one and is taken (`0036:828` looks at the status only). These
are entries of `UnderOffered`, as is a cancellation that reaches an offer made since. Each
SQL function that moves such a row is one definition with the function's name, a set of
pairs of states (`DecideVisitorPass`, `RequestStaffDeparture`, `RefundAmenityDeposit`), and
a `Life` puts them together: those this screen presses, and those that others may press
meanwhile.

Three assumptions say what a catalogue's entries must be like, each a statement about
one entry at rest, with no behaviour in it. `WiringAssumption`: a write reads its own
screen again or puts its outcome there, takes back on an error what it has shown at
once, and asks for the row again where frames are relied on; the store's own writes are
answered by a frame that wakes the store; whoever any frame wakes a resync wakes too.
`CatalogAssumption`: moves and offers are of the row's states. `FitAssumption`: what is
offered has a guard that accepts it, and no guard accepts what the markup does not offer
on a row that may have followed (`Leads`) one it was offered on, up to `OverOffered` and
`UnderOffered`. TLC evaluates them on every catalogued component, and the theorems hold
for every catalogue that satisfies them.

### EventHub

One browser's `EventSource` against one process. A row has its id from `Insert` and
is seen from `Commit` on, in any order of the ids. `cursor` and `batch` are the
poller's, which reads in a worker thread (`Fetch`) and dispatches on the event loop
(`Dispatch`); `conn` is how far `subscribe` has come, with a step for each place where it
waits: registered, probed for pruned rows, backfill read, backfill back from its
thread, streaming, and between a frame and the check that may pay a resync (`Settle`).
`queue` and `dropped` are the subscriber's; `lastId` is the browser's. `known` and
`gaps` are history: what the browser heard of, and what it may miss for one of the
reasons that the action which adds to `gaps` states. `Portal` relies on this module's
promise: its `Resumed` replays what is due or resyncs.

### OfflineGate

`scan[g]` is the verification under way at gate `g`, `entry[s]` the queue's entry of
scan `s`, `request[g]` the reconcile request the gate waits for and `orphan[g]` what
is left at the server of one it no longer waits for; `card` and `outcome` are the
verdict and the banner on screen; `bundle[g]` is the cached list. `pass`, `log` and
`carried` are the server's: the pass with its admissions, `offline_reconcile_log`, and
(history) how often a scan let somebody in or out, as it was made and from the queue.
`VerifyFails` is any error of the on-line call, before or after the server has judged, its
timeout after fifteen seconds among them; a call that a gate gives up on, then or by a
reload, may still be carried out later (`stray`, `GivenUp`, `StrayVerified`).
After an `offline` event a scan is not decided by the device: the mutation has
react-query's default network mode and is held until the network returns (`held`,
`Resume`), and a reload loses it. Only a page that was loaded without a network decides
scans at once. A code of more than 200 characters (`TooLong`) is refused by the schema
(422) as a verification, which the screen takes for a lost connection and queues, and then
as an entry, with every request that holds it (`Refused`). `now` is before, in or after the
passes' window; before it the verdict is `not_yet_valid`, on line and off.
`AfterScan` is `verify_gate_credential`, whose second admission beyond the guest
count is a departure: this is why doing it twice matters.

## Runs

| Run | Shows | Instance |
|---|---|---|
| `one_job` | types; assignment rows and timers agree with the job; a wait has its deadline; finished jobs stay; the engine respects refusals; the engine implements `JobBoard` | 1 urgent complaint, 1 job, 2 members, 2 times, both subjects |
| `two_jobs` | one live job; no step brings a job to an ended or pooled complaint but a confirmation that was overtaken; failed visits are seen; work moves complaints forward | 1 complaint, 2 jobs one after the other, 1 member; confirmations and reopenings may be overtaken |
| `two_complaints` | no double booking through offers, rescheduling, the open board and the automatic bookings behind the gate, jobs without a time included | 2 complaints, one job each (one for the resident, one for a common area), 1 worker, 2 times, timers may retire |
| `waits` | an offered job has a timer or its staff know; waits end, under `FairSpec` | 1 job, 1 member, 1 supervisor who may take it up, 2 times |
| `queue` | a handler commits once per arming; nothing is stranded before there were as many faults as attempts; the queue implements `TimerService`; every need is met | 2 timers (one urgent, one that re-arms itself), 2 dispatchers, batches of 1, 3 attempts, 3 faults |
| `screens` | what is offered is accepted and what is accepted would be offered, up to the listed differences; one's own writes, other people's changes and refusals all reach the screen; repeated presses count once | every component of the five portals, from every starting state of its row |
| `hub` | whatever is for a browser reaches it or is covered by a resync, up to the named gaps; what is on its way arrives | 1 connection, 3 rows, a queue of 1, polls of 2, backfills of 1, 3 faults |
| `gate` | what was decided off line is neither lost nor carried out twice, news of a refusal stays, the provisional card does not outlive its answer, the queue drains unless it holds a code the server can never take | 1 gate, 1 pass for 1 guest, a code that is too long, 3 scans, requests of 2, 1 fault |

Four runs refute a statement of the repository, which `PROJECT.json` quotes. Each has a
theorem that says how far the statement does hold:

- `claim_one_place`: a worker accepts an offer after the job was moved, keeps the
  old time, and is booked again at the new one. Moving a job while somebody has an offer
  of it is the only step that leads there (`OnePlaceUnlessMovedUnderOffer`).
- `claim_forgotten`: an offer left standing by a reschedule ends with an offered
  job that has no timer and of which nobody was told. It is the same step, and again the
  only one, if jobs are raised with a time and timers are not retired (`OffersAreCaredFor`).
- `claim_stale_lease`: five processes that die mid-task strand the task. Fewer faults
  than a task has attempts strand none (`QueueStrandsNobodyYet`).
- `gate_rescan`: the answer to a verification is lost, or comes after the browser has
  stopped waiting; the device decides the scan itself and queues it, and reconciling
  verifies it a second time, which checks the visitor out. The code refuses to retry a
  verification for just this reason. Nothing else leads there: not reloads, failed syncs,
  or requests that outlive their page (`VerifiedOnceIfHeard`).

Differences seen and not made into runs:

- `docs/COMPLAINT_ENGINE_PRD.md:251` says "Exclusions (§5.5) apply to the engine's
  candidate list too"; `dispatch_candidates_at` leaves out who declined this job and
  nobody else. `EngineRespectsRefusals` states what the code does.
- The same document (352) says the status is not rewound when a complaint goes back
  to the pool; `resident_cancel_work` sets it to open.
- It says (E23) that a job cannot be completed without being started, while
  `complete_work_order` accepts a scheduled job on purpose; and (8.3) that everybody who
  held an accepted assignment is excluded after a reopening, while
  `complaint_excluded_staff` looks at completed jobs only.
- The same document (8.5, lines 391-399) refuses work on an ended complaint, since "a job
  quietly completing on a closed complaint would corrupt the projection". A confirmation closes the complaint whatever has become of it since it was read: resolved
  by its supervisor, read by the resident's confirmation, reopened from another page, given
  a new job, and then closed by the first call over the live job. `ConfirmedLate` in
  `OverIsIdle` is that step; `IdleUnlessOvertaken` proves that there is no other.
- The docstring of `reconcile` (`security_service.py:523-527`) says that "a
  queue of forty in which the eleventh is malformed still reconciles the other thirty-nine".
  Its loop stops at the first error,
  and a code that is too long makes the server refuse the whole request, now and at every
  later sync, with all that is sent with it. `HeldUp` in `QueueDrains` is that case: the
  scans behind it are kept (`NothingLost`) and never reconciled.
- `GateHome.jsx:24-27` says that the guard scans the same way whether or not there is a
  network, and that only the answer comes from somewhere else. After an `offline` event no
  answer comes: the scan waits for the network.
- A member whose leave is approved for a later day may be asked out again, since only
  pending requests are unique (`0043:139`); the old approval still removes them.
- Each entry of `OverOffered` and `UnderOffered` is a place where a page and the
  database disagree. The page is refused, or the database takes what the page would
  no longer offer; neither breaks an invariant of the engine.
- The gate's effect that clears a provisional card depends on the banner of *any*
  sync, so a new provisional card goes at once while the banner of an earlier sync is
  up; and a replayed entry leaves the queue whatever its stored verdict was, so a
  refusal whose first answer was lost is never shown. `RefusalIsShown` and
  `ProvisionalCardIsPending` say what is left.
- `fire_dispatch_task` does not look at the due time, so a task that is moved to a
  later time between its claim and its firing fires early (`20260823180000:1148`). In
  `WorkOrders` a timer may fire at any moment, so its properties allow for this.
- `docs/ARCHITECTURE.md:174` says that reconnects are covered. Each addition to `gaps` in
  `EventHub` is a way in which they are not, and TLC finds `GapsAreNamed` violated
  when any one of them is left out: a row whose transaction commits after one with a
  higher id; a backfill of more than one page (100 rows), or one that fails; a
  resync that is owed when the connection is cut, since the browser's last id may be past
  what was dropped (the queue takes detail again as soon as there is room, although
  line 200 says it stops); the first poll of a new process, which starts at the newest
  row; an outbox pruned empty, and rows pruned between probe and read.

### Bounds

Two members are the least with a bystander to an offer; two times the least with
a reschedule; two jobs the least for a predecessor and a successor; two complaints
the least for a worker with two jobs. `OfferRound` is 1, so that a round leaves
somebody out. `MCFirstRound` stops `two_complaints` at complaints taken up,
reopened or sent back, which the one-complaint runs pursue, and `MCOneOfEachKind`
gives its two jobs different subjects, which the courtesy gate needs. In `one_job`
the office sets statuses back to open only, so that every verb meets a complaint
of every status; in `two_jobs` it sets none, because by hand it may end a
complaint beside a live job. `OneLiveJob` does not depend on that, and is proved
for every setting. `MayRetire` (a timer whose handler raises five times) is on
only in `two_complaints`: `AwaitingHasDeadline` says so in its statement, and
`FailedVisitIsSeen`, `NobodyForgotten` and `WaitsEnd` speak of an engine whose
handlers do not keep raising. `MaxOvertaken` (how many kinds of calls may be between
their read and their write at a time) is 1 in `two_jobs`, whose properties can tell, and
0 elsewhere; any number of calls of that kind may be under way. The theorems hold for
every value.

`queue` scales the five attempts of the code to three and lets as many faults
happen, which is enough to use up every attempt of a task, to lose a lease twice,
and to re-arm a task while somebody holds it. A batch of one out of two timers
shows that a row that is not urgent is not starved; larger batches, with the five
attempts of the code, are in `claim_stale_lease`.

`screens` gives each component three budgets. Without a stream: one move by others, two
presses and a fault, so that a write given up on may still arrive behind the press
that repeats it. With one: two moves by others and a fault, or a move, a press and a
fault, so that a frame may be cut off, replayed, or overtake a read. One row and one
component are enough, because a component reads and writes one key and rows meet in the
server's guards only, which the life of the row contains. A life keeps the states that
some guard, some offer or some frame tells apart.

`hub` scales the queue of 64, the page of 100 and the batch of 500 to 1, 1 and 2:
three rows then overflow the queue, outrun a page and split over two polls. Three
faults allow a reconnection, a cut of it and a failed read or a restart.

`gate` has one gate and one pass for one guest, so that the second admission is
already a departure; three scans in requests of two, so that an entry waits behind a
full request; and one fault, so that a request or an answer is lost and sent again. `MaxTooLong` lets one
of the scans be of a code that is too long, so that it meets scans before and behind it. The
server's log and the device's queue meet per entry, so a second gate adds no new meeting
on one entry; two gates that share a pass are listed under "Not modelled".

Deadlock is not checked: every instance has finitely many ids, presses or scans and
stops when all are used up. Symmetry of members and of times is used in `one_job`, which
has no liveness property, and nothing in the model tells them apart.

### Fairness

- The dispatcher loop is started unconditionally with the application, polls for
  ever and survives every exception (`core/dispatcher.py`), so a timer that stays
  armed is fired: weak fairness of each firing in `WorkOrders`, and of claiming,
  firing and recording in `DispatchQueue`, together with the passing of time.
  Nothing is assumed of people: no verb is fair. `waits` leaves out rescheduling,
  because with it the property is false (`claim_forgotten`), and proposals without
  a time, which a resident may confirm into an offered job without a time that the
  engine skips silently. `EveryNeedMet` excuses a timer whose attempts are used up,
  since a row may then stay open for good (`claim_stale_lease`).
- In `Portal` the server answers what it is asked, and the browser hands on what it has and
  reconnects (`EventSource` by itself, `eventStream.js` after a fatal close). Nobody
  has to press, look or return to a page, and no fault has to happen.
- In `EventHub` the browser connects again, the generator yields what it has, and the
  poller reads while this browser is registered (`_run` survives every error but its
  cancellation). No transaction has to commit, and cuts and failures are bounded.
- In `OfflineGate` the network returns, the server works, and the guard presses "Sync
  now" while the banner of pending entries is up: a sync that failed, or an entry
  queued while the browser thought itself on line, has no other trigger. This is the only
  act of a person that any liveness property needs.

## Proofs

All theorems hold for every value of the constants that the named assumptions of the
modules allow. For `WorkOrders`: jobs belong to complaints, null is not a time, the
overlap relation is over times and symmetric, the inputs are of the right kind. For the
queue: its limits are positive numbers, the dispatchers finitely many. For the gate: scans
are numbered from one, and there is a gate, a pass and a guest. For `Portal`: the three
assumptions on the catalogue, above. For the hub: its limits are positive numbers.

| Theorem | Says | Rests on |
|---|---|---|
| `TypeCorrect` | `[]TypeOK` of `WorkOrders` | lemmas on what each helper writes, one step per verb and handler |
| `HolderAgrees` | `[]HolderMatchesJob` | the types |
| `BookedOnce` | `[]NoDoubleBooking` | the types |
| `OneJobAtATime` | `[]OneLiveJob` | the types; only a raise brings a job to life |
| `EndedAndPooledAreIdle` | `OverIsIdle`, if the office ends no complaint by hand | the types, `OneJobAtATime`, `StepsStayIdle` |
| `IdleUnlessOvertaken` | an ended or pooled complaint never has a live job, if moreover no confirmation is overtaken | the same |
| `FinishedForGood` | `FinishedJobsStay` | `AlwaysAgree` |
| `RefusalsRespected` | `EngineRespectsRefusals` | the types; the candidate query leaves out who is in `refused` |
| `EngineKeepsTheBoard` | `KeepsTheBoard`: `WorkOrders` implements `JobBoard` | `AlwaysAgree`, one step lemma per actor |
| `WorkGoesForward` | `WorkMovesForward` | `CalledOffIsOver`: who was called off is cancelled |
| `TimersFit` | `[]TimersFollowStatus` | what `sync_dispatch_tasks` leaves armed |
| `WaitsHaveDeadlines` | `[]AwaitingHasDeadline` | the same, if no timer retires |
| `FailuresAreSeen` | `[]FailedVisitIsSeen`, if no status is set by hand and no timer retires | `StepsStayIdle`, `AlwaysAgree` |
| `OffersAreCaredFor` | `[]NobodyForgotten`, if jobs are raised with a time, no timer retires, and no job is moved while somebody has an offer of it | `Cared`, an invariant per job |
| `OnePlaceUnlessMovedUnderOffer` | `[]OnePlaceAtATime`, if no job is moved while somebody has an offer of it | `TimesAgree`, `BookedOnce` |
| `QueueTypes`, `QueueActsOnce` | types and `ActsOncePerArming` of `DispatchQueue` | one inductive invariant, `QInv` |
| `QueueDropsNothing`, `QueueAttemptsCostFaults` | a need keeps its row until its last attempt has failed; attempts cost faults | `QInv` |
| `QueueStrandsNobodyYet` | `[]NoneStrandedYet` | `QInv`, `GivenUpForFaults` |
| `QueueKeepsTheService` | `KeepsTheService`: `DispatchQueue` implements `TimerService` | `QInv`, `OpenIsNeeded`, `GivenUpForFaults`, one step lemma per group of actions |
| `GateTypes`, `GateLosesNothing`, `GateReconcilesOnce` | types, `NothingLost`, `ReconciledOnce` | one inductive invariant, `IInv` |
| `GateCardsArePending` | `[]ProvisionalCardIsPending` | `IInv` and `ScreensFit` |
| `VerifiedOnceIfHeard` | `[]VerifiedOnce`, if no gate decides itself a scan that the server has verified or will | `IInv`, `ScreensFit` and `AllOnce` |
| `PortalTypes`, `ScreensCatchUp` | types and `AtRestAgrees` of `Portal` | one inductive invariant, `Inv` |
| `OwnWritesShown`, `RefusalsLeave` | `[]OwnWriteShown`, `[]RefusedLeavesScreen` | `Shows`, inductive given `Inv` |
| `OffersAccepted`, `StaleWritesFit` | `[]OfferedIsAccepted`, `[]StaleWriteIsOffered` | `Fitting`, inductive given the two before |
| `HubTypes`, `GapsNamed` | types and `GapsAreNamed` of `EventHub` | one inductive invariant, `HubInv` |

**The engine.** `TypeOK` is inductive, and given it so are `HolderMatchesJob`,
`NoDoubleBooking` and `OneLiveJob`, one after the other.

- `HolderMatchesJob` speaks of one job at a time. `RowsFit` is the property of one
  job's rows and status, `OneJobFits` says that a step which writes one job answers
  for that job only, and each verb then shows `RowsFit` of what it writes. A booking
  that withdraws offers only (a claim from the board, the dispatcher) is safe
  because, by the invariant itself, an offered, draft or waiting job has no accepted
  row; force, take up and assign withdraw accepted rows as well.
- `NoDoubleBooking` needs every accepted row to be an old one or to have been
  checked at the time the row itself carries (`Checked`). This is where the overlap
  tests meet: the supervisor's is stricter than the others (`UnblockedIsFree`), a
  row without a time overlaps nothing (`NullIsFree`), and an acceptance is safe by
  the exclusion constraint alone, since its first test reads the job's time.
- `OneLiveJob` follows from `OnlyRaisingRevives`: every other verb writes a live
  status only on a job that is live, and a raise is refused beside one.
- A complaint in play ends, or goes back to the pool, in three ways: its last live job
  is completed, a supervisor resolves it, the resident calls work off (`EndsIdle`). For a
  resident who calls work off, no live job is left because, by `OneLiveJob`, the
  one called off was the only one. A confirmation that writes what it read is the fourth
  way, and the only one that may leave a live job behind: `StepsStayIdle` excepts it, and
  `IdleUnlessOvertaken` assumes it away.
- `AlwaysAgree` collects types, holders and live jobs (`Agree`). `Board_proofs` shows of
  every action what it may do to one job's rows, and that this is a step of `JobBoard` or a
  stutter: the abstract `holder` is determined because an accepted row is unique.
- `Timers_proofs` shows that every writer of a job leaves what `sync_dispatch_tasks` would arm
  (`StepsSync`). `OffersAreCaredFor` needs more than its property says: a job that waits for
  its window, its resident or an answer has the timer of that wait (`CaredFor`). Its two
  assumptions and its condition on steps each exclude a way in which the code does forget;
  the condition excludes `claim_forgotten`.
- `OnePlaceUnlessMovedUnderOffer` compares the times of the jobs, where `NoDoubleBooking`
  compares those on the rows. `TimesAgree` says that an open row carries the time of its
  job; every verb that moves a job rewrites or closes its rows, except the rescheduling of
  a job on offer (`MovedUnderOffer`).

**The queue.** `QInv` adds to the types `Counted` (every open row has an arming of its own
that nobody has served), `NeedHasRow` and `Spent` (attempts beyond those in hand are paid for
by faults). `ActsOncePerArming` alone is not inductive: it says nothing of the row that the
next firing will serve.

`QueueKeepsTheService` shows that every step is one of the service's or none of its
business. `OpenIsNeeded` and `GivenUpForFaults` make `Standing` mean what it says; that a
row which fails for the last time was paid for by as many faults follows from `Spent`,
counting the dispatchers that still have a failure to record (`Recorders`). The other steps
turn one timer (`OneTurns`) or none (`NoneTurns`).

**The gate.** `IInv` adds to the properties that a scan under way is on record
(`ScanOnRecord`) and that an answer on its way is in the server's log
(`AnswersAreLogged`): only then may the device fold it. `ScreensFit` follows a scan from the
moment it is made: it is its gate's alone, in no queue yet, and a provisional card is of such a
scan or of a pending entry.

`VerifiedOnce` adds up what is done on line and from the queue, and `AllOnce` says why the
two never meet: a scan the server has verified as it was made is in no queue and on no
record, and one it has still to verify, at its gate or as a stray, has let nobody through.
`DecidedTwice` is the one step that breaks it.

**The screens.** `Inv` is the shape of the state and `Tracked`: a screen that is out of date
through something a frame was published for has a frame due, a read asked, a read
answered later than the change, or a read that failed (`Awaited`); and a read answered too
early is followed by a frame (`Overtaken`). Each step hands the obligation on: from the row
to the frame, the stale mark, the read, the screen.

`Shows` is about what is on screen. `Corrected`: once a write is answered, what it left
out of date is being read again, by a read that was answered after it. `Truthful`: a copy
that says of itself that it is up to date is the row (`Honest`), except for a write shown
before its answer came, which its rollback or the store's read corrects; and the row that a
rollback puts back was never itself shown early. Neither property is inductive alone: at
rest they speak of the screen, and on the way there the obligation lies with a read in
flight, the saved row of a rollback, or an answer that has yet to be applied.

`Fitting` follows every copy of the row, on screen, in a read, saved or in an answer: its
state `Leads` to the row's, through other people's moves and the writes, and from what a
write showed at once also back, since that may never come about (`Traced`). With it the
comparison of the tables in `FitAssumption` decides what a write can do when it arrives late.

**The hub.** `GapsAreNamed` is about a row that is missing now; what keeps it true is what
each holder of rows leaves out. `BatchWhole`: a poll's batch leaves out no row between the
cursor and its last one, commits out of order apart, which are in `gaps`. `QueueRises` and
`FillRises`: ids go up, so what is yielded next is the least that is left. `FillWhole`: a
backfill skips no row before its last one, unless a resync is owed. `QueueWhole`: before a
browser's first frame, no row after the head of its queue is missing from the queue and
from the polls to come. `AskedAgain`: a browser that is owed no resync has been told of
every row up to its last id, or has lost it for a named reason, so a connection that is cut
asks again for all it lacks. The order of rows is `InOrder`; that a set of ids has a least
one (`LeastOf`) rests on the library's theorem that finite subsets are well founded.

Only model-checked:

- Liveness (`WaitsEnd`, `EveryNeedMet`, `CatchesUp`, `StreamCatchesUp`, `QueueDrains`):
  fairness is defined with `ENABLED`, which is out of the prover's reach.
- `RepeatedOnce` and `ChangesAreFollowed`. They say that the lists `Unkeyed` and `Followed`
  are right for this catalogue, entry by entry: that whatever adds to a row has no key, that
  each move of others has a frame which wakes the screen. A theorem for every catalogue
  would have that as its assumption.
- The four refuted statements, which are false as the repository makes them; each has a
  theorem about the one step, or the number of faults, without which it holds.

No module uses a `RECURSIVE` operator.

## Not modelled

The components that `PROJECT.json` lists as not modelled or partly modelled, with the reason
of each. In particular:

- Of the engine: notes, comments, threads and notifications, which decide nothing; the
  ranking of candidates; the waiting for row locks, and two calls of which Postgres aborts
  one; the release of a departing worker's jobs (a move of others in `JobLife`, not composed
  with the engine), and with it the `ping` timer, which is armed nowhere else. The move of a
  complaint to another department is in the catalogue of screens and not composed with the
  jobs.
- Of the browser: sign-in, onboarding and registration, routing between pages, forms and
  layout; chains of several writes behind one button, such as saving a department with its
  staff, of which each write is modelled; two rows under one list key at once.
- Of the hub: several connections, whose only meeting is the poller's cursor; the fatal
  close, after which the browser starts without an id (`Portal` models it).
- Of the gate: two gates that share a pass before either has reconciled. The server's verdict
  depends on the order of reconciliation, and no document says what it should be.
- The push sender, which promises at most once and takes its loss by design; amounts of
  money, refunds among them, which the lives of invoices, bookings and deposits reduce to
  their statuses.

## What is left

1. Locks: the order in which functions take row locks, with the abort of one of two that
   wait for each other.
2. Departures and department routing composed with `WorkOrders`; the ledger of refunds.
