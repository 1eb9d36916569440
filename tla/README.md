# ZAS in TLA+

ZAS is a Django application that keeps the inventory of a network (sites, racks,
devices, modules, addresses), discovers devices, backs up their configurations
and checks that they can be reached. Web requests, Celery workers, the Celery
beat scheduler and management commands all write one PostgreSQL database; Redis
carries the messages between them. Nobody locks a row: the source has no
`select_for_update`, no `on_commit`, no `ATOMIC_REQUESTS`, no retry of a task and
no late acknowledgement. So most of what can go wrong is one process that goes
on with rows it loaded before another process committed, or that stops between
two of its commits. The modules here model that.

    tlc -workers 2 -config JobLifecycle.cfg MCJobLifecycle
    tlapm JobLifecycleProofs.tla

## 1. The system

| Component | State | Operations | Talks to |
|---|---|---|---|
| Automation jobs (`automation/tasks`, `automation/application`) | `AutomationJob`, `JobRun`, Redis messages, `reachability_last_run` | scheduled start, dispatch, run a reachability or backup job, persist the verdict, nightly cleanup, deletion | beat starts them; workers; runtime status; configuration history |
| Discovery (`network/tasks.py`, `network/services/discover_network.py`, `network/views/discovery.py`, `network/admin.py`) | `DiscoveryScanJob`, `DiscoveryCandidate` | scan of the ranges, classification, the operator's ignore / create / update, the admin's promotion and rejection | devices, which the API and the admin edit; auto-assignment |
| Auto-assignment (`network/services/auto_assignment_service.py`) | `AutoAssignJob`, `AutoAssignJobItem` | create a job, turn a candidate into a device, record the outcome | candidates, devices, racks, synchronization |
| Configuration history (`dcim/services/configuration_persistence_service.py`, `dcim/models/device_config.py`) | `DeviceConfiguration` rows, linked by `previous` | persist, record after a synchronization | backup jobs, synchronization, replacement |
| Rack occupancy (`dcim/models/device.py`, `rack.py`) | `Device.rack`, `position`, `is_stacked`; `Rack.occupied_units` | save, move, resize, delete a device; recompute a rack | forms, API, auto-assignment, synchronization |
| Synchronization (`network/services/sync_service.py`) | a device's interfaces, type, stack, modules, runtime row, neighbours | one transaction per device over one SSH session | storage inventory, racks, configuration history, topology |
| Command parsing (`network/adapters`, `sync_service.py`) | the entry being read | turn a command's output into neighbours, transceivers, stack members | synchronization, topology |
| Serial custody (`services/validation_service.py`, `asset`, `dcim/views/device_views.py`) | serial numbers of `DeviceModule` and `InventoryItem` | forms, Excel import, move to storage, replacement | synchronization |
| Schedules and settings (`automation/services/scheduler_sync.py`, `accounts/views/system_setting_view.py`) | `AutomationSchedule`, `PeriodicTask`, `SystemSettings` | edit by form, settings page, API, bootstrap command | beat |
| Runtime status (`reachability_persistence_service.py`) | `DeviceRuntimeStatus` | reachability results, synchronization, scans | jobs, synchronization |
| Topology (`topology/services`) | `TopologyNeighbor` | upsert, deletion of neighbours not seen, cleanup | synchronization, a task and a command of its own |
| IPAM (`ipam`) | `Prefix`, `IPAddress` | validation, next free address | forms, API |
| Locations (`core/organization_views.py`) | `Site`, `Area`, `Rack` | organization page, admin, API | devices, which protect them |
| Listings (`dcim/views/device_views.py`, `asset`, `ipam`, `network`, `automation`) | none: the query in the URL | filter, sort, cut into pages, export a spreadsheet | browser |
| SSH terminal (`automation/ssh_consumer.py`) | WebSocket, SSH channel, reader thread | connect, resize, keystrokes, disconnect | browser, device |
| Accounts | users | TACACS+ login, idle logout | jobs, schedules |

What is hard in each of them, and what makes it correct:

- **Automation jobs.** Every `save()` commits by itself; a worker, the starter,
  the cleanup and an operator's DELETE meet on one run. Correct means: the job
  repeats its run's verdict and never anticipates it, a finished run is settled,
  no run is forgotten while nothing fails, deleted rows stay deleted.
- **Discovery and auto-assignment.** Classification decides with lookups and
  saves later; two scans overlap; a job works on candidates it loaded once.
  Correct means: an exact match has its device or lost it in a known way, what a scan saw last was compared
  with the inventory, a job accounts for every candidate, and no candidate is
  assigned twice.
- **Configuration history.** Which row is the newest is read, compared and
  linked to in three statements, and a synchronization's row becomes visible
  minutes after its `collected_at`. Correct means: links go back in time, the
  lineage forks only when collections overlap, and the newest success is what was
  read last.
- **Rack occupancy.** The list is a cache that every writer of a device has to
  recompute for the right racks. Correct means: it is exact when nobody races,
  and positions do not collide.
- **Serial custody.** A serial belongs to one place; a synchronization deletes
  the others, without asking. Correct means: nothing physical is lost or doubled.
- **Schedules, settings, runtime status.** Whole-row saves of stale copies beside
  saves of single fields. Correct means: beat runs what the schedule says, a
  section of the settings stays as it was saved, what was measured stays.
- **Synchronization, topology.** `get_or_create` and `update_or_create` by columns
  that no constraint makes unique, and fields saved only if they differ from a
  copy. Correct means: the rows are those of the answers applied last.
- **IPAM, locations.** Check, then act: against rows that change in between, and
  along parents that the API links without the check. Correct means: no address
  twice in a VRF, no area out of sight, no cascade beyond what was asked for.
- **Listings, command parsing.** A copy of each filter for the spreadsheet; entries
  whose fields arrive line by line. Correct means: the sheet is the listing, and
  no entry mixes two neighbours.
- **SSH terminal.** Disconnecting while a thread is still opening the channel.

`PROJECT.json` lists every hazard at its line, with the properties that cover it.

## 2. Modules

| Module | What it is |
|---|---|
| `RunContract` | abstract specification: what is promised about one run row and its job row |
| `JobLifecycle` | the automation spine, one action per transaction; implements `RunContract` |
| `AssignContract` | abstract specification: what is promised about auto-assign jobs, their items and the devices |
| `Discovery` | scans, classification, review pages, the admin's actions on candidates, auto-assign jobs, insertion, edit and every kind of deletion of devices; implements `AssignContract` |
| `ConfigHistory` | the configuration rows of one device and everything that writes them |
| `RackOccupancy` | devices in racks and the cached list of occupied units |
| `PartLedger` | abstract specification: who may bear a serial number, and how it changes hands |
| `SerialCustody` | modules and stock items under all their writers; implements `PartLedger` |
| `ScheduleMirror` | settings, schedules and the periodic tasks of beat |
| `RuntimeStatus` | the runtime row of each device |
| `Topology` | the neighbours of one device |
| `DeviceSync` | interfaces, type and stack flag of one device |
| `AddressSpace` | prefixes and addresses |
| `Locations` | sites, areas, racks |
| `SshTerminal` | the web terminal |
| `Listings` | twelve listings and their spreadsheets |
| `CommandOutput` | the readers of seven kinds of command output |
| `Operations` | `ScheduleMirror`, `RuntimeStatus`, `Topology`, `DeviceSync`, `AddressSpace` and `Locations` as one specification |
| `Decisions` | `SshTerminal`, `Listings` and `CommandOutput` as one specification |
| `...Proofs` | theorems about `JobLifecycle`, `Discovery`, `ConfigHistory`, `RackOccupancy`, `SerialCustody`, `AddressSpace`, `Operations` and `Decisions` |
| `MC...` | the instances TLC checks |

`Operations` holds six of these modules and `Decisions` three. The components
in one of them share no state, so a behaviour is one of a single component:
`part` says which, and the variables of the others do not change. A state space is
thus the sum of its parts, never their product. `MCOperations` and `MCDecisions` are
instances of the two, whose properties are those that are proved.

Conventions. A row is a record, or an element of a function from its key; a value
of its own stands for a row that is not there. One action is one transaction, or
one statement where code commits each statement; code that goes on with values it
read earlier holds them in the record of its process. Exceptions and killed
processes are actions, bounded by `MaxFaults` and `MaxCrashes`. Variables that
the comments call *history* record what happened for the sake of a property and
guard no action. An operator marked *Regression* is no part of the specification:
it is what its neighbour would be after a plausible mistake (a dropped guard, a
query in the wrong place), and `PROJECT.json` names the property that notices.

### JobLifecycle

`run` and `job` are the two status columns, `queue` the messages in Redis,
`starter[r]` the next statement of the scheduled task, `worker[w]` of the Celery
task, `cleaner` of the cleanup. `CreateJob` is the only atomic pair
(`job_service.py`); `StampLastRun`, `MarkQueued` and `Publish` follow in the
code's order. `Take` acknowledges the message and loads the run; `MarkRunning` is
before the `try` block, `Execute` stands for `execute_reachability` with `persist`
or for `execute_backup`, and returns or raises. `finalize_success` is
`SaveRunOk`, `SaveJobOk`; `finalize_failure` is `SaveRunFailed`, `SaveJobFailed`;
`SaveFinishedAt` is the `finally` block. `Saves` is one `save(update_fields=...)`:
on a row that is gone it raises. `CleanupRuns` and `CleanupJobs` are the two
deletions of `cleanup_reachability_history`, the second with a query that is
evaluated only then.

### Discovery

One site. `scan[s]` and `assign[j]` hold a job's status and the locals of its
task. A candidate's `classified` and `accepted` are always written together and
are one field, `review`. Candidates have an identity beyond their address (`Ids`),
since a deleted row may be inserted anew by a later scan. `SelectCandidates`,
`ClassifyOne` and `ClassifyCommit` are the query, the lookups and the saves of
`_classify`. `LoadCandidates` fills the job's `candidate_map` once;
`AssignCandidate`, `AssignFails` and `AssignRollsBack` are the outcomes of
`assign()`; `RecordItem` creates the item, and ends the job if what it refers to
is gone. `OpenCandidate` and the `Session...` actions are the two halves of a POST
handler; so are `OpenPromotion`, `PromotionFinds` and `PromotionSaves` of the admin's
`promote_to_device`, each statement of which commits. `IgnoreSelected` and
`RejectSelected` are one UPDATE each.

Devices also change beside all of this. `InsertDevice` and `EditDevice` are the API,
the admin and the device page. An edit saves a whole row that was loaded earlier: a
device deleted meanwhile is inserted again under its primary key. `OpenDelete` loads
a device, which in a replacement is minutes before `DeleteDevice` and
`DropCandidates`, the two commits of `Device.delete`, go on with its name and
address as they were loaded (`dropping`). `BulkDelete` is "delete selected" of the
admin, a deletion by query that calls no `Device.delete` and drops no candidates;
`DeleteCandidate` is the admin on a candidate. A device that leaves an address is
recorded in `freed` with the way it left: `"deleted"` (the candidates go too, if the
process lives), `"moved"` (an "update" or an edit), or `"orphaned"` (nobody drops
the candidates of that address).

`AssignContract` knows of none of these: a job is asked (`Ask`) and started, answers
one candidate after the other (`Answer`), and completes with the counts of its answers or
fails; devices are inserted, edited and deleted by anybody (`Register`), and one that was deleted may come back. `RecordItem` is an
`Answer`, `SaveJob` is `Complete` or `Fail`, the insertion by `AssignCandidate`, the pages, the promotion, the API and
the admin, and all deletions are `Register`; scans, reviews and a killed worker are not seen at all. The
counts of a job are mapped once it is COMPLETED: before, the code counts a candidate
ahead of its item.

### ConfigHistory

One device. A row's `at` is its `collected_at`, a tick of `clock`.
`Collect`, `Compare` and `Create` are a backup and `persist`; `PersistRaises` and
`CreateFailure` are `execute_backup`'s handler, which stores a failure with no
hash. `FindPrevious`, `Insert` and `Commit` are `_record_config` in the long
transaction of a synchronization: the row is stamped at `Insert`, visible at
`Commit`. `Hash` is what `normalize` makes of a text: a configuration with volatile
lines (`Volatile`) has another raw hash than normalized hash. `Stops` is a rollback
or a kill. `alone` holds the task that no other one overlapped so far.

### RackOccupancy

`placed` and `occupied` are committed rows; `writer[w]` is a request or task with
the row it will write, the racks it still has to recompute, and what its open
transaction holds. `ReadPrevious`, `WriteRow`, `Recompute`, `UpdateRack` are
`Device.save` and `update_rack_occupied_units` statement by statement; `Finish` is
the return, or the commit. An UPDATE waits for the transaction that holds the row
(`DeviceLocked`, `RackLocked`), and two transactions that wait for each other are a
deadlock that PostgreSQL ends (`Raises`). `SubmitForm` validates with
`Device.clean`; `SaveUnchecked` is the API and a replacement, which do not look at
positions; `AutoAssign` picks a unit from the cached list; `SyncResizes` is a stack
that grew or shrank; `BulkDelete` is the admin's "delete selected", which bypasses
`Device.delete`.

### SerialCustody and PartLedger

`modules` and `items` are the rows that bear a serial number, `proc[p]` the plan
of a process: every writer looks at committed rows, decides, and commits later in
one transaction. `AddModules`, `EditModule`, `AddItem`, `SaveItem` validate as
`services/validation_service.py` does; `Import` applies `ImportLine` to the lines
of a file, each validated after those before it; `SyncPlan` is the inventory and
transceiver part of a synchronization with its `Reconcile`; `Retire` and
`StoreAll` are the two halves of a decommissioning; `Replace`, `Push`, `SkipSync`,
`SyncNew`, `DeleteOld`, `DeleteNew` are the statements of a replacement, each of
which commits. `Commit` checks the constraints of the database (foreign keys, and
the unique fields of items: modules have none).

`PartLedger` knows none of this. It says of each serial number that it has at most
one bearer while it is not in dispute, and that a step takes it, gives it up,
moves it, stores it with its device's retirement, or lets the device that reports
it settle it. A serial is in dispute when two writers overlapped on it.
`ImplementsLedger` maps the rows to bearers (`Bearers`).

A device may be replaced while its own replacement of another device is under way,
and each of the two processes then deletes the old or the new one. `ReplacementKeepsOne`
is therefore about every set of devices that replacements connect (`started`), not
about a pair: with two devices of a chain of three, both may well go.

### ScheduleMirror

`schedules`, `periodic` and `setting` are committed rows. `OpenPage`, `SaveSchedule`,
`Sync`, `LinkSchedule` are the page of a task and `sync_schedule`, statement by
statement; `Get` is the `get_or_create` of the settings page and of the bootstrap
command, with `Enforced` what each of them puts right. The API and the admin
(`EditSchedule`, `DeleteSchedule`, ...) write a schedule or a periodic task and stop there.

### RuntimeStatus, Topology

A reachability run (`check`) and a scan load a row and save all of it; a
synchronization holds its row in a transaction and saves two fields. `exact` has
the fields over which no stale row was saved. In `Topology` a collection looks for
each neighbour it heard, inserts or updates it, and then deletes what it has not
seen; it is a sequence of commits, or a part of a synchronization's transaction
(`tx`). An interface that is deleted before its neighbour is inserted ends the
collection at once, or at the commit.

### DeviceSync, CommandOutput

`DeviceSync` is what one device's answers become: `Load` takes the copy of the
device, `LockRuntime` is the first save of the long transaction, on which another
synchronization of the device waits, `Apply` and `Commit` are the interface rows,
the stack flag and the type. `Update` has the precedence of the commands (`Mode`,
`Status`), `Model` that of the inventory's entries. `Gone` is what the answers do not name, and `Created` the rows for
names that had none, under keys that PostgreSQL picks (`NewKeys`). Answers that make the code
raise (`Raises`, `Twice`) roll all of it back. How the answers are read is
`CommandOutput`. A line has its kind and the block it was written about; a block is
the set of the kinds that the device prints in it, in the order of `Lines`. `Begin`
and `GoOn` read the next line, and the state is what the reader carries on: the entry
`current` of `With` fields so far, and the name in `pending` of a row that goes on in
the next line.

### AddressSpace

A prefix is an interval of addresses. `PrefixForm` and `AddressForm` validate
against committed rows; `SaveForm` and `Save` insert later, against the
constraints of the database alone. The API's serializers check less (`PrefixApi`,
`ValidForApi`). `Ancestors` is what a walk along the parents meets, as the least set that
is closed under them; in a circle the code's walk meets the same and never ends.

### Locations

`request[p]` is what a request has loaded; the organization page asks whether an
area is a leaf, and deletes it by a later cascade (`RemoveArea`). The API's DELETE and the
admin's "delete selected" ask nothing: `DropAreas` chooses any areas, and `RemoveTrees` takes
what hangs below them too, unless a device protects a part of it. Only the admin and
the API move an area (`EditArea`), under what `AdminAllows` and `ApiAllows` compare. A
`save` inserts a row again that has been deleted meanwhile.

### SshTerminal

`task` is `start_ssh`, `worker` the thread of `_open_channel`, `reader` that of
`_reader_loop`, `handler` the message of the browser being handled, each at the
next statement that waits or reads what another one writes. `Dial` is two steps, the
connection and the start of the transport's own thread: `CloseTransport` on a transport
that is not started (`"new"`) does nothing, as paramiko's `close()` does.

### Listings

`db` is constant during a behaviour. A listing and a spreadsheet are two functions of
a query; `Page` shows a part of any order that the sort field allows (`Orders`), chosen
anew for each page as the database may, `Export` follows the link that the page has
written. A page past the last is the last, or, in the generic views (`Generic`), a 404. A
value that a filter does not offer counts as none (`Known`).

## 3. What is checked

Runs that pass:

- `job_lifecycle` - one reachability and one backup run on two workers, one crash,
  two failed statements. `JobFollowsRun`, `FinishedIsSettled`, `NoRunLeftBehind`,
  `MessageMeansQueued`, the refinement `ImplementsContract`, and `RunsComplete`
  under fairness. Runs only meet at the cleanup and the workers, so two runs of
  different type and two workers reach every pair of steps; two failed statements
  are what it takes to break both halves of a `finalize_*`.
- `discovery_scans` - two scans, a job, one request about candidates and one about
  devices (`OneOfEach`), on a scanned address whose name a device at another address
  has: mismatches, renames and moves. The first request is a page, or the admin's
  promotion, rejection or deletion of a candidate; the second an insertion, an edit, or
  a deletion in one of its three ways. Two requests are what it takes to open a page
  or a promotion and to move or delete its device under it. No faults here: a deletion
  that dies is an exception of the property anyway, and one of `discovery_jobs`.
  `MatchHasDevice`, `SeenIsExamined`, and `JobsEnd` under fairness.
- `discovery_jobs` - two auto-assign jobs on two nameless candidates with one fault
  and one request about devices (`OneChange`). The refinement `ImplementsContract`,
  `OneSuccessPerCandidate`. Two jobs compete for a device and for its item, the fault kills one
  of them or a deletion between its commits, the request edits or deletes the device of an
  answer that is not stored yet, or takes its name or address.
- `config_history` - two backups and a synchronization, two configurations (one
  with volatile lines), three rows, one fault. Three rows are a row, its successor
  and a rival. `PreviousIsOlder`, `ForksMeanOverlap`, `NewestIsLastRead`.
  Symmetric in the backups.
- `rack_occupancy` - two writers, two devices, two racks of two units, three
  writes, one fault, one device mounted at the start. Three writes are what it
  takes to race and then to repair, or to make two transactions wait for each
  other. `QuietListIsExact`, `PositionsApart`. Symmetric in devices, racks and
  writers. Forms offer types of one unit; devices of two units are stacks.

- `serial_custody` - two processes, three devices, a card and a transceiver slot, two
  serial numbers, one tag, three rows of each table, two writes and one deletion.
  Two writes overlap or follow each other; two serials are what an import of two
  lines or a report needs to mix them up; two devices and the stock are all the
  holders a serial can move between, and three devices a chain of replacements. The refinement `ImplementsLedger`,
  `RetireKeepsChosen`, `ImportTakesEveryLine`, `ReplacementKeepsOne`. Symmetric in
  devices, serials and processes.
- `operations` - two processes. Symmetric in them and in the rows of one kind.
  - schedules: the three tasks of the code, three writes, one by the API:
    `MirrorFollows`, `OnePerTask`, `SectionsKept`;
  - runtime rows of two devices, three writes: `MeasuredStays`;
  - neighbours: one heard by each protocol on a port of its own, three collections:
    two that overlap, and one that repairs or fails on what they left:
    `NeighboursFollow`;
  - a port, a port-channel and an SVI, seven answers chosen so that every rule of
    precedence and every exception occurs, three synchronizations and an edit:
    `AnswersFollow`;
  - a block of four addresses and one of its addresses, in a VRF and without, two
    prefixes, two addresses, four forms: `AddressesApart`, `ParentDecides`;
  - two sites, three areas, a rack, a device, four requests: a grandparent, a parent
    and a child: `AreasShown`.
- `decisions` - three components that keep no rows.
  - the terminal in every order of its threads, two sizes: `TerminalEnds`, under
    fairness, and `SizeArrives`;
  - two databases that have, for every filter, a row it takes and one it leaves, and
    every page of two rows: `SheetIsListing`;
  - every output of two blocks in each of the seven formats, in the device's order of
    lines and with every line it may leave out: `OneBlock`. What a reader carries over
    goes from a block to the next one, so two are enough.

Each run also checks the types of its modules, except `discovery_jobs`, which shares
them with `discovery_scans`.

Runs that are violated, where code and text disagree:

- `job_cleanup`, `CleanupTakesJobs`. `cleanup_reachability_history` deletes the
  runs and only then evaluates `job_ids`, which is empty by then. The jobs stay.
- `discovery_ignored`, `IgnoredStaysUnassigned`. "No device assigned" is what the
  page says; a job that loaded the candidate earlier still assigns it.
- `config_unchanged`, `OnlyChangesStored`. A failure row makes the next backup
  store an unchanged configuration again.
- `rack_units`, `NoUnitShared`. `Device.clean` compares positions only: where a device
  of two units, mounted at unit 1, takes units 1 and 2, a device of one unit is
  accepted at unit 2.

`CHECK_DEADLOCK FALSE` everywhere: the bounds on requests, rows and jobs end every
behaviour.

**Bounds.** All of them are CONSTANTS that guard an action: `MaxCrashes`,
`MaxFaults`, `MaxRequests` (in `Discovery` one for each kind of request), `MaxRows`, `MaxWrites`, `MaxDeletes`, `MaxDirect`, `MaxSyncs`,
`MaxRuns`, `MaxForms`, `MaxOps`, `MaxBlocks`, and the finite sets of rows that may ever
exist (`Runs`, `Scans`, `Jobs`, `Devices`, `Rows`, `PrefixIds`, `AddressIds`, `AreaIds`).

**Fairness.** `JobLifecycle!Fairness`: a task that is under way goes on (weak), and
a worker that is free again and again takes each message (strong, since another
message may win each time). `Discovery!FairSpec`: each job's task goes on. That
is what a running Celery worker does. Nothing is assumed of beat, of operators,
of deletions or of failures, and the liveness properties except behaviours with
a killed process or a failed statement, because the code has no retry.
`SshTerminal!Fairness`: the event loop and each thread go on by themselves, and a
call on a transport that is closed raises (weak, one for each). Nothing is assumed
of the browser, nor of the device, which may stop answering in the middle of a
login; `disconnect` runs only because the loop does.

**What the runs show beyond their properties.** While a property was found, the code
often turned out to keep it only up to a case that the property now names:

- An accepted candidate may be left without a device, and no scan looks at it again
  (`MatchHasDevice` names each way): the device was moved by another candidate's "update" or
  by an edit of its address, deleted by "delete selected", deleted by a request that had
  loaded it at another address, or deleted by a process that died before it dropped the
  candidates.
- A device that is edited while it is deleted comes back under its primary key, since a
  form saves the whole row (`EditDevice`).
- A schedule edited through the API or the admin is not mirrored, and beat goes on with
  the old plan until a page or the bootstrap command writes it (`MirrorFollows`).
- Two settings forms that create the reachability schedule at the same time make two,
  and every later save of the settings raises; pages and commands alone, one after
  the other, never do (`OnePerTask`).
- The stack flag and the device type are compared with the device as it was loaded: a
  change back that another synchronization made meanwhile is not corrected
  (`DeviceFollows`). An interface that somebody adds under a name that has one makes
  every later synchronization of the device raise.
- Two collections of one device insert a neighbour twice, and each later upsert of it
  raises and is logged (`NeighboursFollow`).
- The next free address skips deprecated rows and other prefixes; the form's check in
  the VRF then refuses the address it was offered itself, so the duplicate is not stored
  (`AddressesApart`).
- `_has_ancestor` decides nothing that the parent's own check and the unique network have
  not decided, unless a prefix is its own parent (`ParentDecides`). With parents in a circle
  the walk does not return; no property is about that.
- An area moved below itself is on no page, and the walk for its path never ends
  (`AreasShown`).
- A browser that leaves before the connection is made, or before its transport is
  started, leaves one that nobody closes (`TerminalEnds`, `late`); a key or a resize on a closed channel ends the consumer, and
  `disconnect` is not called.
- IOS prints the local interface of an LLDP neighbour before its chassis, and the reader
  begins a new entry at either: what it then has lacks a name or a local interface, so no
  details of such neighbours are ever recorded (`CommandOutput!Finalized`). `OneBlock` says
  what is recorded in the other formats.
- `ReachabilityEngine.measure` without any device leaves `summary` unbound
  (`reachability_engine.py:143`): the run of such a job fails.

## 4. What is proved

TLAPS proves, for all values of the constants that satisfy the named assumptions:

- `JobLifecycleProofs`: `TypeCorrect`, `JobNeverAnticipates`, `FinishedMeansSettled`,
  `NothingLeftBehind`, `MessagesMeanQueued`, and `Implementation`
  (`Spec => Contract!Spec`, for the safety part of the refinement). The
  invariants are not inductive alone: that the job of a run says SUCCESS only with
  its run is true because of the step the worker is in. `IInv` adds, for each step
  of a starter and of a worker, what the two rows then are (`StarterInv`,
  `WorkerInv`), that a message means the starter is done and nobody else holds
  the run (`QueueInv`, `OneHolder`), and that deleting a job took its run
  (`Cascade`). One lemma per action, one step per conjunct.
- `ConfigHistoryProofs`: `TypeCorrect`, `LineageIsAcyclic`, `ForksNeedOverlap`,
  `NewestIsCurrent`. `IInv` adds that the rows are distinct and in the past, that
  the newest row exists whenever there is one (`HasNewest`, which replaces an
  induction over the size of the set), what a task has read and inserted, and, for
  the task that is alone, that nothing changed since it read (`AloneSawAll`,
  `AfterAlone`). `NewestIsMax` and `NewestUnique` are the lemmas about `Newest`.

- `DiscoveryProofs`: `TypeCorrect`, `SeenCandidatesAreExamined`, `MatchesHaveDevices`,
  `CandidatesSucceedOnce`, `CompletedJobsAccount`, `DiscoveryImplementsContract`. `Types` adds to `TypeOK` what the locals of
  each task and the open page hold, and what the step a task is in says of its row. Each
  property then has an invariant of its own, inductive with `Types`. `SeenInv`: a scan that
  has its list has every open candidate it saw last on it, or another scan examined that
  one. `MatchInv`: whoever is about to write a match (verdicts of a scan, the
  devices a page loaded or a promotion found: `Settled`) has found a device, if the row it will write still exists; a
  candidate that is gone does not come back under its primary key (`Inserted`,
  `NotReborn`), and a device that leaves a candidate's address says so, by whichever of the
  ways the property names (`DeviceStays`), so that nothing needs to hold of rows that went meanwhile. `SuccessInv`:
  a success whose address no device left has its device there, so that a
  second insertion finds the address taken. `CountInv`: between two turns the candidates
  no longer left are those that have an item, one each; during a turn the candidate is
  counted and its item is to come. `CompletedJobAccounts` is what it says of a job at its end, and no
  run checks it by itself: `ImplementsContract` says more. The refinement needs `CountInv` and
  `ContractInv`: no two devices share a name or an address (`NoneShared`), an open page, which may be
  long out of date, renames one device at most and moves one at most (`OnePage`: when it was opened
  no two shared anything), and a success is about a device (`SuccessNames`). `TaskFollows` maps the steps
  of a task, `DevicesFollow` every other step that the contract sees, `NoneForgotten` says that
  a device that was inserted once is there or deleted ever after.

- `AddressSpaceProofs`: `DuplicatesAreRaces` (`Spec => []AddressesApart`), from no assumption
  at all: not even that networks nest. `AddressesApart` is not inductive, since an address may
  wait in a form while rows are saved, replaced and deleted and prefixes move. `IInv` adds that
  rows and forms have their types, that the prefix of an address exists (`Protected`), that
  rows and forms saw only other rows that are still there (`SawOthers`, `FormSawOthers`),
  and that no row and no form has the address of one that it saw (`RowsSawNone`,
  `FormsSawNone`), the form only as long as its prefix exists. A prefix that is deleted and
  inserted again under a form may be in another VRF: this is why `moved` is set there.
  `WalksNeverDecide` is `ParentDecides`, which holds of every state: what contains the network is
  met in the first step of the walk, or not needed (`WalkBegins`).

- `RackOccupancyProofs`: `TypeCorrect`, `QuietListsAreExact`, `PositionsStayApart`. What the
  properties say of a quiet moment is not inductive, since a list is computed by one
  statement and stored by another. `IInv` says what a writer under way knows. A rack
  of `exact` is *settled* unless a writer without a transaction is changing it
  (`Busy`, `Settled`); of a settled rack the stored list, the list about to be stored and the
  lists an open transaction holds are right (`OccupiedRight`, `UnitsRight`, `PendingRight`), the
  last two for racks the writer's own row does not touch. Row locks give that an
  open transaction knows the racks it will change (`Exclusive`, `HoldsRow`). The writer that
  is alone has recomputed what it touched, or has it still to do, and its lists are
  those of what it sees (`AloneReady`, `AloneUnits`, `AloneTouched`); nobody has the position
  it validated or chose (`AloneApart`). `SameUnits` is the lemma that makes all this local:
  the units of a rack depend on the devices in it alone.

- `SerialCustodyProofs`: `TypeCorrect`, `ReplacementsKeepOne`, `RetirementsAreWhole`,
  `ImportsAreWhole`, `CustodyImplementsLedger` and `OneBearerUnlessDisputed`. `Types` adds what
  a plan is: which fields each kind of request fills (`Shape`), that the rows it will
  write have keys of their own and serials it claims (`Writes`), that primary keys
  of rows to be inserted are nobody else's (`KeysApart`), and `Knows`, the reason for the
  refinement: of a serial that it claims and nobody has committed since it looked,
  a plan deletes or rewrites *every* row there is. A commit then leaves one row of it,
  and the kind of the plan says which action of the ledger that is (`LedgerAdded`);
  everything else is `GiveUp`. For replacements, `HeldOnce` says that no two processes carry
  out the same one, `Forest` that without one replacement what it connected falls into two
  parts (`Severed`), since a new device is always one that was never connected; `OneLeft` is
  the property for sets that are closed under the *finished* replacements only. When one
  more finishes and deletes one of its devices, both parts had a device, and one of
  them is not the deleted one. `FreshKeys` proves, from the cardinalities, that
  there are keys for new rows; it is where `Rows` and the slots must be finite. A form
  brings two modules at most, a file two lines: that is part of the model.

- `OperationsProofs`: all ten properties of the run `operations`, for `Operations` with any
  constants that satisfy `OperationsAssumption`: `TypesAlwaysHold`, `MirrorAlwaysFollows`,
  `OneForEachTask`, `SectionsAlwaysKept`, `NeighboursAlwaysFollow`, `AnswersAlwaysFollow`,
  `MeasuredAlwaysStays`, `AddressesAlwaysApart`, `ParentAlwaysDecides`, `AreasAlwaysShown`. Each
  component has an inductive invariant, which holds while it is its turn.
  - `SpaceInv` is that of `AddressSpaceProofs`, which is instantiated: `SameSpace` says
    that both instances of `AddressSpace` mean the same.
  - `RuntimeInv`. The next save may write a row loaded long ago, so `MeasuredStays` alone is not
    inductive. `StatusInv` adds that the row in a writer's hands is the committed one as
    long as nobody has overtaken it and the device is there (`LoadedIsCommitted`), and that the
    device of a row which a transaction has inserted or written cannot be deleted
    (`HeldIsPresent`): without the lock on the device its commit would bring back a row of
    nobody. `SavedRow` is the step that matters, for every kind of save: the fields not
    measured are those committed, or all of the device leaves `exact`.
  - `ScheduleInv`. `MirrorFollows` relates two tables that a request writes one after the other. The
    request that is alone has committed what it is going to mirror, and has mirrored what it is
    going to link (`AloneKept`). What another one, overtaken, may still write is a schedule under a
    key that it loaded: if that schedule is exact, it has just saved it itself, and it never
    links it a second time (`ExactKept`). For `OnePerTask`, as long as neither the API nor the
    admin wrote anything: rows are named after their tasks (`TitlesKept`), so that
    the constraints on names make tasks unique, a request saves the row of its task that it
    loaded (`KeysKept`), and links lead to the periodic task of the same task, a row that is being
    saved included (`LinksKept`).
  - `NeighbourInv`. No collection that is under way has asked for an exact protocol
    (`NobodyAsks`), so nobody but the cleanup, which gives it up, and the loss of a port touch its
    rows. `Straight` is what the collection that is alone has done so far: it has seen one row for each
    neighbour that it heard and has dealt with, in the table as it sees it itself (`Shown`), none of
    these rows old, and nothing else of its protocols once it has deleted. `KeysApart` keeps
    apart what open transactions have inserted and deleted, and has the ports of the rows
    that will be inserted in place, unless the collection has lost one: the foreign key.
  - `SyncInv`. One synchronization at a time has the lock on the runtime row (`OneApplies`); what it
    chose to keep and to delete is still what its answers say of the committed rows, and its copy of the
    device is the device, unless an edit or another commit has said otherwise (`Knows`). The
    lemmas before it say what a commit makes of rows: `WithoutRows`, what is created
    under new keys, and what `Update` sets.
  - `SiteInv`. While nothing is astray, each area is reached from one without a parent
    (`Path`), a parent's site is its child's, and this is also so of the rows that requests have
    loaded (`Fits`); a child of an area that is about to be deleted came after the question whether it
    was a leaf (`Asks`). `Under` is the least set that holds the roots and is closed under
    children; `UnderLeast` is the induction, as a fact about sets, with which moves, insertions and
    cascades are shown to leave other paths alone.

- `DecisionsProofs`: all four invariants of the run `decisions`, for `Decisions` with any
  constants that satisfy `DecisionsAssumption`: `SizeAlwaysArrives`, `SheetAlwaysIsListing`,
  `OneBlockAlways`, `TypesStay`.
  - `TerminalInv`. The size that a worker thread is going to apply is the one that was asked for last, or
    a resize came after its last look (`raced`); a resize that is being handled applies its own.
  - `ListInv`. Each page is a part of *some* order of the rows, and each was chosen anew. If the sort
    field tells the rows apart there is one order only (`OneOrder`): two orders that differ do so
    at a first place (`LeastNumber`), and what each has there comes later in the other, which the field
    forbids. So all pages are parts of one, and its parts are apart and leave nothing out
    (`PartsOfOrder`). That the link asks for what the page shows is `SheetOfLink`, one case for
    each listing; `FiniteListing` says that there are pages enough.
  - `ReaderInv`. What one reader carries differs from what another does, so each format has a part of it,
    which says what `current` and `entries` are made of after any lines. `Collected`: the current
    entry is of the last block alone, the entries are those of the blocks before, and it has both a
    name and a local interface once the line that brings the second is past. For NX-OS this needs
    that the local interface is there exactly from the third line on (`NxosInv`), so that neither the
    next block's chassis nor this block's interface finds a finished entry that is not to be one; for
    IOS, that the two never meet (`IosInv`). `SlotInv`: the row of a slot is as long as the output and has
    its serial number when that line is past. `CdpTableInv`: a name that waits is of a
    block without an entry, and if it is not the last block's then its own row lacked a cell.
    No induction over the lines is needed: reading one is a step, and `LineStep` says that it
    keeps all of this.

Assumptions: `RunsAssumption` and `BoundsAssumption` of `JobLifecycle`, those `ConfigHistory`
names, those of `Discovery` (there are finitely many addresses, ranges are addresses, the
names that people type are names, the devices known beforehand have distinct names and addresses, and no row is one of the values
for a row that is not there yet, or no longer, which differ, nor is the deletion of a device the value for none under way), `NoneAssumption`, `SizesAssumption` and `BoundsAssumption` of `RackOccupancy` (a rack
and every device have at least one unit, and no rack or device is the value that
stands for none), `OperationsAssumption` (the bounds are numbers, keys of schedules and of neighbours are numbers,
of which the least free one is taken, the names of tasks are distinct, networks nest or are
disjoint, answers are about interfaces that have names, and what stands for none is no row, area or type),
`DecisionsAssumption` (a page has a row at least, a table finitely many, with numbers for keys, the
size of a terminal that nobody resized is none that a browser sends, and what stands for none is no line),
and the four of `SerialCustody` (there are finitely many keys and slots, a
slot is a card's or a transceiver's, and no device, serial or tag is the value for none). TLC evaluates them in every run.

Every invariant that a passing run checks is a theorem, and so are the refinements. Only
model-checked: liveness (`RunsComplete`, `JobsEnd`, `TerminalEnds`), which needs fairness and
ENABLED and is out of the prover's reach.

## 5. What is not modelled

Of components that are modelled (`PROJECT.json` has this for each of them):

- PUT and PATCH of a run's or a job's status through the API or the admin: an
  operator may write any status there.
- Redis delivering a message a second time after its visibility timeout.
- A commit whose outcome the client never learns.
- More than one site in `Discovery`; editing ranges and filters; what somebody types into
  the admin's form of a candidate, `classified` and `accepted` included; the command that
  rewrites candidates' hostnames; the threaded `auto_assign` command; how a candidate's
  model, role and stack are chosen.
- Deletions in the admin, except of rows that a module has an action for; empty
  configurations, and the hash of the empty text, which is not told from the hash
  of a failure; the moment between a backup's `collected_at` and its commit, one
  step in `ConfigHistory`.
- `u_height` edited on a type or a rack, fractional positions, and that the members
  of a stack are rows of their own: a device's size is one number.
- Columns that no rule looks at: of modules and items all but serial and inventory
  numbers, of interfaces duplex, speed and VLANs, of neighbours all but port,
  protocol and name, of runtime rows two of the probes, which go the way of one.
- IPv6, VRFs that are created or deleted, roles other than primary, statuses other
  than deprecated; networks that overlap without nesting, which do not exist.
- Arguments, queues and start times of a periodic task; what a crontab says.
- What is typed into a terminal. What devices answer is a choice from a constant set,
  and the patterns that recognise a line, and the TextFSM templates, are given.
- Columns, layout and descending order of listings; rows edited while a browser turns
  pages.

Components with no module:

- Accounts, roles and TACACS+: decisions on one request and one user; the login
  talks to a server and keeps no state of its own.
- Other pages of single rows, charts, dashboards and tags: forms over a row with no
  state beyond it.
- The SSH engine and the network adapters' connections: third-party clients.
- REST viewsets: generic; reading keeps no state. Their writes are actions of the modules
  where a module has the row: devices (`RackOccupancy`, `Discovery`), modules
  (`SerialCustody`), schedules (`ScheduleMirror`), prefixes and addresses (`AddressSpace`),
  sites, areas and racks (`Locations`), interfaces (`DeviceSync`), and deletions of jobs and
  runs (`JobLifecycle`). VRFs, roles, vendors and device types are single rows that no
  module has.
- Scripts and verification commands, and modules that import what no longer exists.

## 6. Plan

Done: the spine of jobs, discovery, the configuration history, racks, serial custody
with its abstract ledger, the contracts of jobs and of auto-assignment, schedules and settings, runtime rows, neighbours, the
synchronization of a device, addresses, locations, the terminal, listings and command
output; proofs of every invariant that a run checks. Next, in this order:

1. The choices of `AutoAssignmentService` (model, role, stack members) as operators
   checked against their documentation, and the idle logout of `accounts`.
