# Verification of DRISHTI HyperShift

TLA+ models of the migration tool in `src/`, checked with TLC on small
instances, and theorems about them that TLAPS proves for every value of the
constants.  Paths below are relative to `src/backend/internal/` unless they
start with `worker/`, `docs/` or `cmd/`.

## 1. The system

| component | state it keeps | operations | correct when |
| --- | --- | --- | --- |
| migration engine `job/engine.go` | the job table, one mutex, the local variables of the running `ExecutePlan` | `ExecutePlan`, `Save`, `StartExternal`, `UpdateExternal`, `FinishExternal` | stored steps are a prefix of the order, a skipped step really happened, "waiting" means complete, the mutex is always released |
| plan and job handlers `api/inventory.go`, `api/migration.go` | the plan table; copies in each request | create, preflight, approve, delete, execute, validate, cutover, rollback | only checked and approved plans run, jobs keep their plan, a rollback is what it says |
| store `store/postgres.go` | tables `plans`, `jobs`, `job_steps`, `audit_events` | `PutPlan`, `ApprovePlan`, `DeletePlan`, `SaveJob`, `GetJob`, `AppendAudit` | a whole row at a time; approval and its event together |
| Proxmox target `platform/proxmox/target.go`, `import.go` | the VMs of the cluster | `ReserveVMID`, `CreateVM`, `ImportDisk`, `SetNetwork`, `StartVM`, `StopVM` | idempotent per plan; a VM belongs to one plan |
| VMware source `platform/vmware/` | power state, exported files | `PowerState`, `PowerOff`, `ExportDisk` | never copies a running guest |
| conversion worker `worker/internal/conversion/service.go` | converted files and their manifests | `Convert` | reuses only complete outputs |
| cutover `cutover/cutover.go` | none | `Cutover`, `Rollback` | target isolated and stopped before a rollback is recorded |
| validation, preflight `validation/`, `preflight/` | none | pure checks | - |
| remote migration `platform/proxmox/migration.go` | the Proxmox task | start, wait, verify | the job tells the outcome of its own task |
| connections `api/connections.go`, `credential/` | connections and secrets in memory | add, test, refresh, remove | one connection per endpoint |
| users and sessions `auth/`, `store/postgres_users.go` | users, sessions | login, logout, create, deactivate, change password | an administrator remains; sessions follow the user |
| schema migrations `store/migrate.go` | `schema_migrations` | `Up` | versions in order; each backend runs the SQL of a version at most once, and another's SQL changes nothing the second time |
| inventory readers, mock data, server, config, logging, frontend | - | - | no state the rest relies on |

Interaction: a handler reads a plan from the store, hands the *value* to the
engine (`ExecutePlan`), which queues on its mutex, then drives the source, the
worker and the target call by call and saves the whole job before and after
each step.  Other handlers read and write the same rows without that mutex;
the one exception is the save of a rollback (`Engine.Save`).  Handlers run
concurrently; the process may die anywhere; nothing is reconciled at start.

What is hard: values that were read before waiting for the mutex; whole-row
writes over newer rows; calls that fail after their effect; the retry of a
step that was half done; steps skipped by what the job table says; the global
mutex.  `PROJECT.json` lists each of these hazards at its line, with the
properties that cover it.

## 2. The modules

| module | content |
| --- | --- |
| `JobEngine` | the engine, its store and the three platforms in lab mode |
| `JobLifecycle` | the abstract specification: what is promised about stored jobs |
| `JobEngineRefinement` | the refinement mapping from `JobEngine` to `JobLifecycle` |
| `MigrationApi` | the plan and rollback handlers around `JobEngine` (extends it) |
| `ProxmoxTarget` | the operations on the Proxmox cluster, request by request |
| `TargetVMs` | the abstract specification: each of these operations in one step |
| `DiskExport` | the export of a disk, file by file |
| `ConversionWorker` | the worker behind it, file by file (extends `DiskExport`) |
| `DiskSteps` | the abstract specification: an exported and a converted disk |
| `RemoteMigration` | a migration from cluster to cluster: handler, goroutine, task |
| `Connections` | the registry of connections and the store of their passwords |
| `SchemaMigrations` | the start of several backends on one database |
| `Accounts` | users and sessions of these backends (extends `SchemaMigrations`) |
| `MCJobEngine`, `MCMigrationApi`, `MCProxmoxTarget`, `MCConnections`, `MCAccounts` | finite instances for TLC |
| `JobEngineProofs` | theorems of `JobEngine`, and that it implements `JobLifecycle` |
| `MigrationApiProofs` | theorems of engine and handlers together (extends `JobEngineProofs`) |
| `ProxmoxTargetProofs` | theorems of `ProxmoxTarget`, and that it implements `TargetVMs` |
| `ConversionProofs` | theorems of export and worker, and that they implement `DiskSteps` |
| `RemoteProofs`, `ConnectionsProofs`, `AccountsProofs` | theorems of these components |
| `NaturalLemmas` | what several proofs need of the naturals |

How they compose.  `MigrationApi` runs its handlers beside `JobEngine`, and
`ConversionWorker` its requests beside `DiskExport`, on shared state.
`JobEngine` takes an operation on the cluster, an export and a conversion for
one step each.  `ProxmoxTarget` and `ConversionWorker` look into these steps,
and implement `TargetVMs` and `DiskSteps`, in which they are one step again.
`RemoteMigration` is the second way a plan may be executed; `Connections` and
`Accounts` share no state with the others.

### JobEngine

One action is one call that leaves the process: a save, an audit append, or a
platform operation.  Between any two of them another request may arrive, the
process may die (`Crash`), or an operator may start the source
(`SourceStarted`).  The constant `Disturbances` says which of these happen, and
whether a call may return an error: before its effect or after it, which is
what a lost answer or an expired request context amounts to.

| state | code |
| --- | --- |
| `plans`, `jobs`, `audit` | the tables; `jobs[p]` is the job with id `"job-" + p` (engine.go:125-135) |
| `calls` | open execute requests with the plan value read in `executeMigration` (api/migration.go:249) |
| `owner`, `pc`, `step`, `disk`, `job` | the mutex, and the position and local variables of its holder |
| `power`, `exports`, `converted`, `vms` | vCenter power states, files of the job workspace, VMs of the cluster |

| actions | code |
| --- | --- |
| `Execute`, `Lock` | api/migration.go:243-261, engine.go:180 |
| `Load`, `Create`, `Start`, `AuditStart` | engine.go:183-212; `Create` fails when the plan row is gone (foreign key) |
| `SkipStep`, `BeginStep`, `CompleteStep`, `Fail`, `AuditFail` | `runStep` and `fail`, engine.go:364-410 |
| `ReadPower`, `PowerOff`, `VerifyPower` | step 1, engine.go:214-238 |
| `ReserveVMID`, `SavePlan` | between steps 1 and 2, engine.go:240-254 |
| `CreateVM`, `ExportDisk`, `ConvertDisk`, `EvidenceSaved`, `AttachDisk`, `IsolateNetwork`, `StartVM` | steps 2 to 6 |
| `Finish`, `AuditWait` | engine.go:344-352 |

Abstractions.  A plan row keeps what decides anything: status, verdict of the
preflight, whether its storage maps name none, some or all disks of the source,
approval of the shutdown, VM id.  The disks of a target are those the storage maps
name (engine.go:281): the engine migrates these and asks for no others.  A VM
keeps the plan its marker names, whether it runs, whether its network is
isolated and the plan whose disk is in each slot.  An exported file is
`absent`, `residue` of a failed attempt, `current`, or `stale` when the source
has run since.  A converted file without manifest is an `orphan`.  The job's
steps preflight, validate and cutover are never changed by any code and are
left out.  Times, messages and sizes are left out.  The inventory lookups of
`executeMigration` only refuse, which is the same as not executing.

### MigrationApi

Adds the handlers that write: `CreatePlan`, with the maps a client sends
(`MapsSent`, inventory.go:229-234); preflight as a read (`ReadForPreflight`) and
its writes (`MapDisks`, which completes an empty list only and finds nothing for
a source without disks, migration.go:162-176, 190-200; `FinishPreflight`);
`ApprovePlan`, one serializable transaction with its audit event, which says
whether the shutdown is authorized (`ApprovalEvents`); the mapping an execution
does itself when the list is still empty (`MapForExecution`, `MapFails`,
migration.go:313-319); delete as a read and a delete;
rollback as the reads of job and plan, the platform calls `IsolateTarget`,
`StopTarget`, `CheckSource`, and `SaveRollback`, which alone waits for the
mutex.  A handler keeps the row it read in `handlers[h]`.  `Abandon` is a call
of a handler that fails, `ApiCrash` ends handlers and executions.
`validateJob` and the report only read.  `cutoverJob` is left out: its first
change of the target is `SetNetwork` with `isolated = false`, which the Proxmox
target refuses (target.go:263-266), so in lab mode it always ends in an error
before it saves.  Of the audit events of handlers, only the approval's is kept:
the others have fresh ids and nothing reads them.

### ProxmoxTarget and TargetVMs

An operation of the adapter reads the cluster (`Check`), posts one change
(`Post`), waits for the task of that change (`WaitTask`) and reads again
(`Verify`).  Each is an action; `Abandon` gives up in between, on an error or a
deadline, and the task goes on without its poster.

| state | code |
| --- | --- |
| `vms`, `markers` | VMs with their owner marker, disks, network and power; the disk markers in their description (target.go:422-456, import.go:36-61) |
| `tasks` | the tasks of each VM that wait or run |
| `vmidOf`, `progress` | `TargetVMID` of each plan; operations that were answered, which are the steps of its job |
| `calls` | the operation of the engine and of a rollback, with the description it read |

| actions | code |
| --- | --- |
| `ReserveVMID` | target.go:93-103 |
| `Execute`, `Rollback` | the order of the operations, engine.go:240-342 and cutover/cutover.go:95-113 |
| `Check`, `Post`, `WaitTask`, `Verify`, `Abandon` | `CreateVM`, target.go:105-189; `ImportDisk`, import.go:25-102; `SetNetwork`, target.go:263-303; `StartVM`, 191-231; `StopVM`, 233-261; `waitTask`, 458-485 |

External: Proxmox takes the tasks of one VM one at a time and in the order they
were posted (its lock on the configuration of a VM); a task ends or fails
(`TaskDone`, `TaskFails`); another user creates VMs (`SomebodyCreates`), and an
operator connects the network of a VM (`Connect`).  An import writes back the
description it read, which is why a stale read matters.  `TargetVMs` has one
action for each operation, with the whole precondition in it.  Here a plan keeps
the id that was reserved for it; that an execution or a preflight may write over
the stored id is shown with the engine and its handlers (`DoubleExecute`,
and section 3).

### DiskExport, ConversionWorker and DiskSteps

One disk of a job.  A file is told apart by the content of the source disk it
was read from (1, 2, ...), or is `Broken` while `qemu-img` writes it; a checksum
stands for the content.

| state | code |
| --- | --- |
| `source`, `export` | the content of the disk; position of the running export |
| `descriptor`, `extent`, `record` | the files in the workspace (vmware/export.go) |
| `partial`, `output`, `manifest` | `.drishti-partial`, the output, `.drishti.json` (worker service.go) |
| `calls`, `answers`, `conversion` | requests, what they were told, the holder of the worker's mutex |

| actions | code |
| --- | --- |
| `BeginExport`, `Download`, `DownloadFails` | vmware/path_safety.go:10-50, export.go:128-147 |
| `RenameExtent`, `RenameDescriptor`, `HashExport`, `WriteRecord` | export.go:154-175, 231-276, with what each error path removes |
| `Send`, `Answer`, `Refuse` | converter/converter.go:82-118, worker http.go:22-45 |
| `Acquire`, `ReadInput`, `InspectOutput`, `RemovePartial` | worker service.go:82-127, 234-252, 283-295 |
| `StartCopy`, `CopyDone`, `CopyFails` | service.go:133-142, runner.go:47-71 |
| `CheckInput`, `Publish`, `MeasureOutput`, `WriteManifest` | service.go:143-167, 254-281 |

A caller may leave at any time; its request still waits for the mutex and is
stopped only where the code looks at the context.  Worker and backend die
independently; an operator clears files away.  The source runs only between
exports (`SourceRuns`): that it does not run during one is what the check of its
power state is for (export.go:64), which is made once, so a guest started
during a download is out of this model.  `DiskSteps` has an export and a
conversion as something absent, pending, whole, or left behind.

### RemoteMigration

The path from Proxmox to Proxmox, as it runs once `EnableLabRemoteMigration`
(api/migration.go:61-68) has been called; `cmd/hypershift/main.go` does not call
it.

| state | code |
| --- | --- |
| `plans`, `jobs` | status, VM id and power of the plan row; state, task id and evidence of the job |
| `calls` | requests with the plan they read |
| `waiters` | the goroutine of each task (api/migration.go:283-293) |
| `tasks`, `sources`, `targets` | Proxmox: tasks, power of the sources, VMs of the other cluster |

| actions | code |
| --- | --- |
| `Preflight`, `InspectClusters`, `FinishPreflight`, `ApprovePlan` | api/migration.go:107-145, proxmox/migration.go:42-99, store/postgres.go:201-235 |
| `Execute`, `CheckAgain`, `ReadNextVMID`, `PostMigration` | api/migration.go:243-272, proxmox/migration.go:42-158 |
| `SaveTarget`, `StartExternal` | api/migration.go:273-282, engine.go:413-433 |
| `PollRunning`, `PollStopped`, `PlatformFails`, `Timeout` | engine.go:462-472, proxmox/migration.go:201-231 |
| `VerifySource`, `VerifyTarget`, `FinishExternal` | proxmox/migration.go:258-286, engine.go:435-460 |

Nodes, storages and bridges only decide whether a preflight passes; any verdict
is taken that the power of the source allows.  Nothing keeps a plan to one
request, or a request away from a goroutine that still waits: any number of them
overlap in the model as in the code.  External: operators switch VMs on and off
and create others on the target cluster; that they remove one is out of this
model.

### Connections

The registry (`mock/inventory.go`, which outside mock mode keeps the real
connections) and the passwords (`credential/memory.go`) are two stores with a
lock each, and `Add` takes its lock twice.  A handler is one action per access:
`Create`, `Probe`, `CheckDuplicate`, `AppendEntry`, `PutCredentials`, `Audit`
(connections.go:98-169, inventory.go:93-111); `Delete`, `RemoveEntry`,
`ForgetCredentials` (connections.go:180-203); `Read`, `Lookup`,
`GetCredentials`, `Contact` (connections.go:207-296).  `Restart` loses
everything, since nothing of it is stored.  An entry remembers the client whose
request registered it, which is history.  A delete may come between the entry
and the password of a create: the model has it, and no property says that the
two stores agree afterwards, since they do not (section 3).

### SchemaMigrations and Accounts

`SchemaMigrations` is the start of each backend: read which versions are
recorded (postgres.go:49-70), apply each one that is missing in a transaction of
its own (migrate.go:70-92, postgres.go:72-87).  `Accounts` goes on from there:
`CountUsers` and `BootstrapUsers` (main.go:85-98, postgres_users.go:65-100),
then requests.

| state | code |
| --- | --- |
| `recorded`, `phase`, `seen` | `schema_migrations`; the start of each backend and what it knows of the schema |
| `applied` | history: how often each backend has run the SQL of each version |
| `accounts` | the table `auth_users`, shared: state of the account and how often its password was changed |
| `sessions` | the session behind the cookie of each client, in the memory of one backend |
| `requests` | the open request of each client, with the account it read |
| `dropped`, `late` (of a session) | history: whose sessions each backend has dropped after a deactivation; whether the account was inactive when the session was stored |

| actions | code |
| --- | --- |
| `Login`, `StoreSession`, `ExpireSession`, `Logout` | auth/service.go:136-186, 274-291, 304-312 |
| `ChangePassword`, `UpdatePassword` | auth/user_handlers.go:150-177, postgres_users.go:206-227 |
| `CreateUser`, `InsertUser` | user_handlers.go:69-114, postgres_users.go:141-156 |
| `DeactivateUser`, `CommitDeactivation` | user_handlers.go:124-147, postgres_users.go:158-195 |
| `InvalidateSessions`, `Refuse` | service.go:188-196, user_handlers.go:178-186 |

A session has a time at which it ends, fixed when it is stored, and a request
with it does not look at the account again: `ExpireSession` is that time, which
may come or not, and no fairness is assumed of it.  Deactivations are
serializable transactions.  Mock mode, in which users live in memory under one
lock, is left out.

## 3. What is checked

A run that must pass explores its instance completely.  The number of states
and the time are for two workers.

| run | instance | properties | states |
| --- | --- | --- | --- |
| `Concurrent` | 1 plan, 2 requests, 2 disks, 2 VM ids; store and platform calls fail, crashes | `EngineInv`, `EffectsInv`, `WaitingIsComplete`, `ImplementsLifecycle`, `StrandedOnlyByFault`, `RequestReturns` | 0.2 million, 50 s |
| `Sequential` | 2 plans that share a source, 1 request at a time, 2 disks, 2 VM ids; all disturbances | `SequentialInv`, `PlanNamesItsVM`, `VMsKeepToTheirPlan`, `RunningTargetIsComplete` | 3.1 million, 90 s |
| `Undisturbed` | 2 plans, 2 requests, 2 disks, 3 VM ids, no disturbance | `ExecutionCompletes` | 0.2 million, 45 s |
| `Workflow` | 1 plan, 1 request, 1 other handler; platform calls fail, crashes, an operator | `ApiInv`, `StepsFollowOrder`, `SucceededStepsHappened`, `ShutdownOnRecord` | 1.9 million, 85 s |
| `Deletion` | 1 plan, 1 request, 2 other handlers; crashes | `JobsKeepTheirPlan` | 1.0 million, 45 s |
| `Cluster` | 2 plans, 2 VM ids, 2 disks, 2 tasks of a VM at a time | `TargetInv`, `AnsweredStaysDone`, `RunningVMIsComplete`, `OthersUntouched`, `ImplementsTargetVMs` | 1.1 million, 55 s |
| `Conversion` | 1 disk with 2 contents, 2 requests | `ConversionInv`, `EvidenceIsTrue`, `ExportIsWhole`, `PublishedIsKept`, `ImplementsDiskSteps`, `RequestEnds` | 0.4 million, 75 s |
| `Remote` | a cold and a live plan, 1 request at a time, 1 VM id, 2 tasks | `RemoteInv`, `SuccessHasAMigration`, `RunningJobEnds` | 0.9 million, 140 s |
| `Connections` | 2 clients, 3 endpoints, 2 passwords, 3 entries | `ConnectionsInv`, `RegisteredOncePerClient`, `ContactsAreAccepted` | 0.3 million, 10 s |
| `Accounts` | 2 backends, 3 schema versions, 2 clients, 2 administrators of whom 1 is in the bootstrap file | `AccountsInv`, `MigrationsApplyOnce`, `AdministratorRemains`, `ServedUsersExist`, `OnlyLateLoginsRemain`, `AccountsMoveForward` | 0.6 million, 45 s |

`EngineInv`, `EffectsInv`, `SequentialInv`, `ApiInv`, `TargetInv`,
`ConversionInv`, `RemoteInv`, `ConnectionsInv` and `AccountsInv` are the inductive
invariants of section 4; each contains the type invariant of its module.

What the runs show:

- `StepsFollowOrder` (by itself in `Workflow`, as a part of `EngineInv` in
  `Concurrent`): the stored steps are a succeeded prefix, then at most one
  attempted step, whatever fails and however requests and rollbacks interleave.
  This is what makes skipping sound.
- `SucceededStepsHappened` (by itself in `Workflow`, as a part of `EffectsInv` in
  `Concurrent`): a step stored as succeeded has happened on the
  platform - for every disk - so the skip of a later execution loses nothing.
- `WaitingIsComplete`: the state "awaiting validation" is reached only with all
  six steps done.
- `ImplementsLifecycle`: job table and steps move only as `JobLifecycle` allows:
  no succeeded step is ever taken back by `ExecutePlan`.
- `StrandedOnlyByFault`: a job is left running with nobody at it only by a death
  of the process or a failed call of the store; whatever a platform refuses, the
  job ends before the mutex is released.  That a crash does leave it running
  is `RunningMeansExecuting` in the second table below.
- `RequestReturns`: no path keeps the mutex.  `ExecutionCompletes`: with
  nothing going wrong every admissible execution finishes.
- `PlanNamesItsVM`, `VMsKeepToTheirPlan`, `RunningTargetIsComplete`: with one
  client at a time, lost answers and crashes neither lose the VM of a plan, nor
  mix the disks of two plans, nor start a VM that lacks a disk.  The disks are those of the storage maps; a
  disk the maps leave out is not missed (`ApprovedMapsEveryDisk` below).  With two clients
  `DoubleExecute` shows the first of the three broken.
- `ShutdownOnRecord`: although preflight, approval and execution write whole rows
  over each other, a source is shut down only by an execution of its own plan,
  which passed a preflight, after an approval of this very shutdown went into
  the audit log - also when an operator starts the source between the engine's
  look at its power and the shutdown.  Whether the approval still stands is
  another matter (run `RevokedApproval`).
- `JobsKeepTheirPlan`: no job survives its plan; the foreign key is what
  guarantees it, and the run shows that a late `SavePlan` or preflight cannot
  do harm either.
- `AnsweredStaysDone`: an operation on the cluster that was answered has
  happened, on the VM of its plan, and is not undone by a task that an attempt
  before it left in the queue, nor by the rollback of a plan that was given the
  same id.  `RunningVMIsComplete`: such a task never starts or changes a VM
  that lacks a disk.  `OthersUntouched`: an id that was free when it was
  reserved and is taken when it is used belongs to somebody else, and stays so.
- `ImplementsTargetVMs`: with all that going on between check and change, every
  change of the cluster is still one whose precondition holds when it is made.
  This is what lets `JobEngine` take an operation for one step.
- `EvidenceIsTrue`: what the worker tells of an output, in its manifest or its
  answer, is so, even when the input is exported anew while a conversion runs.
  `ExportIsWhole`: no disk is put together from two exports.
  `PublishedIsKept`: a complete output is not replaced or taken away by a later
  request.  `ImplementsDiskSteps` is what lets `JobEngine` take an export and a
  conversion for one step each.  `RequestEnds`: no request waits for ever for
  the mutex of the worker.
- `SuccessHasAMigration`: a remote migration is stored as succeeded only when a task moved
  the VM of that plan and what stands under its id is what the task made,
  whatever saves fail, although goroutines of several executions of the plan
  record their ends in one job, and although
  another plan was given the same VM id.  That it is the task the job names
  does not hold when two executions overlap (`SuccessIsOfItsTask`
  below).  `RunningJobEnds`: a
  job does not stay running unless the goroutine that waits for its task was
  lost; when it was, nothing ends the job (`RunningIsInProgress` below).
- `RegisteredOncePerClient`: a client that sends its requests one after another
  never has two connections of one id, whatever other clients create and delete
  in between.  Two clients at once may register one endpoint twice (`RegisteredOnce`
  below).  `ContactsAreAccepted`: a reader that takes endpoint and password
  one after the other sends a password that an endpoint of that id accepted,
  whatever is deleted and created in between; this is the endpoint it talks to
  unless `slugify` gives two endpoints one id.
- `MigrationsApplyOnce`: whichever backends start together, die and start again,
  versions are recorded in order and no backend runs the SQL of one twice.  Two
  backends may each run it: nothing locks the schema, and the SQL then finds
  what it creates (`IF NOT EXISTS`, and `ON CONFLICT DO NOTHING` for the record).
  `AdministratorRemains`: two administrators who deactivate
  each other at the same time do not both succeed.  `ServedUsersExist`: no
  backend serves without users, no session is of a user or a password that
  never was.  `AccountsMoveForward`: nothing a handler read before a slow hash
  brings an account or a password back.  `OnlyLateLoginsRemain`: once a backend
  has dropped the sessions of a deactivated user, any session of that user there
  is of a login that had read the account before the deactivation and stored its
  session after it.  Such sessions exist and last a whole TTL (`DeactivatedIsOut` below).

**Bounds.**  Two requests are enough for one to hold the mutex and one to wait
with an older plan; two handlers for one to write between the read and the
write of the other; two disks for a step that is half done; two plans for a
conflict about a VM id or a source.  In `Sequential`, the second disk makes a
half-imported VM a real case; plans and ids are interchangeable there, since all
plans have the same source (`PlansAndIdsAreAlike`).  `Undisturbed` has more VM ids than plans
because a second execution may reserve another one.  In `Workflow` and `Deletion` a
client sends no storage maps (`MapsSent`), which exercises the mapping of the
preflight and of the execution; maps of some and of all disks pass the same
guards.  `Deletion` stops once the
engine is past the creation of the target VM (`PlansInUse`): beyond it no code
touches a plan or the reference to it, so nothing is lost for the
property; its two handlers are interchangeable (`HandlersAreAlike`).

In `Cluster`, two tasks of a VM (`MaxTasks`) are one left behind by an attempt
and one of its retry, or one of the engine and one of a rollback; plans and ids
are interchangeable (`PlansAndIdsAreAlike`).  In `Conversion`, two contents
(`MaxContent`) are what the first and a later export may differ in.  In
`Remote`, one VM id for two plans is the conflict of interest, and two tasks
(`MaxTasks`) are one for each plan or a repetition of one, whose goroutines may
both be waiting; that two requests are open at once is left to the proof of
`RemoteInv`.  In `Connections`, two endpoints of VMware differ in the
passwords they accept, one of Proxmox has none, and `MaxEntries` is one entry for
each; clients are interchangeable (`ClientsAreAlike`).  In `Accounts`, two
administrators are enough to deactivate each other, and one change of a password
(`MaxPassword`) to have an older one; backends and clients are interchangeable
(`BackendsAndClientsAreAlike`).  Three versions of the schema
let one backend be in the middle of those the other has still to apply.

`Workflow`, `Deletion` and `Accounts` tell states apart by a view (`WhatIsRead`, in
`MCMigrationApi` and in `MCAccounts`), which leaves out what no action reads any more:
the engine's own audit events, the rest of a plan of which a rollback needs the
target only, the account a creation has looked at, what a committed transaction
had read, and which backend ran which version once every version is on record
and no backend is about to run one.  Two states it takes for one have the same
steps ahead of them; what `ApiInv` and `AccountsInv` say of the parts left out is
therefore proved (section 4) rather than checked in every state.

All other counters are bounded by the instance.  Deadlock is checked in every
run but those of `MigrationApi`, where nothing is left to do when every plan has
been deleted.

**Fairness.**  Engine (`FairSpec`): the holder of the mutex keeps moving
(`WF(EngineStep)`): every call has a deadline or ends with the platform task.
A waiting request gets the mutex if it is released again and again
(`SF(Lock(r))`): Go's `sync.Mutex` hands over to a waiter that has starved for
a millisecond.  Worker (`ConversionSpec`): the same two, for `ConvertStep` and
`Acquire(r)`; `qemu-img` runs under a timeout.  Remote (`RemoteSpec`): the
goroutine of a task comes to its end (`WF(WaiterEnds)`), since it polls under a
timeout, and a task of Proxmox ends (`WF(TaskEnds)`).  No fairness is assumed of clients, operators,
crashes or failures.

### Where documentation and code disagree

Each of these runs checks one sentence of the documentation and finds the
behaviour of the code that contradicts it.  Paths of the sentences are relative
to `docs/` and `docs/knowledge-base/`.

| run | sentence | behaviour |
| --- | --- | --- |
| `DoubleExecute` | operations are idempotent or resumable, rollback is always available (04-safety-and-rollback.md:30, 33) | the second of two requests uses the plan it read before the first stored its VM id, reserves another id and stores that: validation and rollback look for a VM that does not exist |
| `RevokedApproval` | power off "only when the approved plan separately authorizes" it (vmware-export-lab-runbook.md:11) | a queued execution uses the approval it read before it queued |

Six more formulas of the modules state what a document or a comment says and
what the code does not keep.  They belong to no run; each is found violated, in
seconds, when it takes the place of the properties of the configuration named
here.

| formula, configuration | sentence | behaviour |
| --- | --- | --- |
| `DeactivatedIsOut`, `Accounts.cfg` (also with one backend) | a deactivation "invalidates all active sessions for the disabled user" (authentication.md:53-55; auth/user_handlers.go:133 writes the same to the audit log) | a login that read the account before the deactivation stores its session after the others were dropped, and no request looks at the account again: the session is served for a whole TTL (service.go:160, 274-291).  A lost answer and another backend leave sessions, too, see below |
| `ApprovedMapsEveryDisk`, `Workflow.cfg` with `MapsSent = {"some"}` | "each source disk is assigned to a Proxmox storage pool" (03-migration-planning.md:31) | a client may send maps for some of the disks (inventory.go:229); the preflight completes only an empty list (migration.go:162) and checks only mapped disks (preflight/engine.go:48), so the plan is approved and executed without the others |
| `RunningMeansExecuting`, `Concurrent.cfg` | running means "Execution in progress" (07-migration-lifecycle.md:80) | a crash, or a failed save of the end, leaves the job running, and nothing resets it |
| `RunningIsInProgress`, `Remote.cfg` | the same | the goroutine of a remote migration dies with the process, is cut off by its twelve hours, which also end its save (api/migration.go:283-292), or is never started, as the event of the job cannot be written: the task ends and the job stays running |
| `SuccessIsOfItsTask`, `Remote.cfg` with `VMIds = {1, 2}`, `LivePlans = {}` | "FinishExternal records the terminal state of an asynchronous Proxmox task" (comment at job/engine.go:435) | two executions of one plan share its job: the goroutine of the first task records its end in the job of the second, which still runs |
| `RegisteredOnce`, `Connections.cfg` | "rejects a duplicate connection (same platform kind + endpoint)" (02-managing-connections.md:58-59) | `Add` checks and appends under two locks (mock/inventory.go:95-109): of two requests at once both are registered |

Further consequences, seen while modelling and not kept as runs.  Of the engine
and its handlers:

- With two requests, `RunningTargetIsComplete` and `VMsKeepToTheirPlan` fail
  for the reason `DoubleExecute` shows: the second execution goes on with
  another VM than the first.
- A preflight writes back the row it read (api/migration.go:172) over the VM id an
  execution has stored since: the plan no longer names its VM, and a rollback
  finds no target (`PlanNamesItsVM` in `Workflow.cfg`).
- A skipped export is reused although the source has run since
  (04-safety-and-rollback.md:30 has "safely resumable").
- The id of the failure event depends on the job only, so the second failure of
  a job is not recorded ("every state transition is recorded",
  04-safety-and-rollback.md:31).
- A rollback stops the target and then waits for the mutex: an execution may
  start it again before the rollback is saved ("Rollback isolates and stops the
  target", vmware-export-lab-runbook.md:18).
- An execution after a rollback skips all steps and reports a job that awaits
  validation, while "the target is now running but isolated"
  (07-migration-lifecycle.md:38) no longer holds.
- The engine's `SavePlan` writes the approved row it was given over a preflight
  that has ended the approval.
- `deletePlan` checks the row it read and deletes by id, so it may remove a
  plan that was approved since (03-migration-planning.md:71 says only drafts
  are removed; the comment at api/inventory.go:275 says "archives (does not
  hard-delete)", but the row is deleted).

Of the export and the worker:

- After a failure at the second disk of an export, the retry is refused because
  of the file of the first (vmware/path_safety.go:44), against
  "All steps idempotent and resumable" (docs/release-notes.md:49).  The same
  holds after a failed hash (export.go:171), which leaves the extent.
- A `.manifest.json` that an operator left behind makes every export fail at
  its last file, and remove what it has downloaded (export.go:104).
- The checksum the worker compares before and after a conversion is the one of
  the descriptor; it tells exports apart since VMware gives each a new content
  id.
- The power of the source is read once (export.go:64): a guest that is started
  during the download gives an export of two moments.

Of the target:

- `ownedVMNode` (target.go:416) accepts the marker of any plan: the rollback of a
  plan whose id was taken by another stops the VM of that one.
- A plan whose reserved id was taken by somebody else keeps it, and fails for
  ever at the creation.
- A start whose answer was lost is retried on a VM that runs, which Proxmox
  refuses; a start that is still queued behind the read of a rollback that
  found the VM stopped starts it after the rollback.

Of connections:

- A delete between the entry and its password leaves a password without a
  connection; a delete of one of two entries of an id takes the password of the
  other, which then has none.
- A create is answered with an error when its audit event cannot be written,
  although the connection exists.
- `slugify` may give two endpoints one id; the second is then rejected.

Of remote migrations:

- The source of a live migration runs on as the target, so its verification
  (proxmox/migration.go:282) refuses every live migration that succeeded.
- One error of a poll ends the job as failed while the task goes on.
- Each execution takes a new VM id: one that fails leaves the plan with the name
  of a VM that does not exist.

Of users and sessions:

- A deactivation that commits but whose answer is lost drops no session at all
  (auth/user_handlers.go:124-147); repeating it does, since a deactivation of an
  inactive account is answered as done.
- A deactivation drops sessions in the memory of the backend that serves it;
  those at another backend last until they expire.  known-limitations.md:17-21
  says that sessions are local to a process.

## 4. What is proved

Every theorem is of the specification the runs check (`Spec`, `ApiSpec`,
`TargetSpec`, `ConversionSpec`, `RemoteSpec`, `ConnectionsSpec`,
`AccountsSpec`), for all values of its constants: any plans, sources, VM ids,
requests, handlers, backends and clients, any number of disks and any set of
disturbances.  Each has the form `Spec => []P` unless it says otherwise.

| module | theorem | P |
| --- | --- | --- |
| `JobEngineProofs` | `Invariance` | `EngineInv` |
| | `StepOrder`, `WaitingComplete` | `StepsFollowOrder`, `WaitingIsComplete` |
| | `Refinement` | `Spec => ImplementsLifecycle` |
| | `EffectsInvariance`, `StepsHappened` | `EffectsInv`, `SucceededStepsHappened` |
| | `SequentialInvariance`, `PlansNameTheirVMs`, `VMsStayApart`, `TargetsRunWhole` | with one request at a time: `SequentialInv`, `PlanNamesItsVM`, `VMsKeepToTheirPlan`, `RunningTargetIsComplete` |
| | `OnlyFaultsStrand` | `Spec => StrandedOnlyByFault` |
| `MigrationApiProofs` | `ApiInvariance` | `ApiInv` |
| | `ShutdownsAreOnRecord`, `PlansOutliveJobs` | `ApiSpec => ShutdownOnRecord`, `JobsKeepTheirPlan` |
| | `OrderUnderHandlers`, `StepsHappenedUnderHandlers` | `StepsFollowOrder`, `SucceededStepsHappened` |
| `ProxmoxTargetProofs` | `TargetInvariance` | `TargetInv` |
| | `AnswersStayDone`, `RunningVMsAreComplete` | `AnsweredStaysDone`, `RunningVMIsComplete` |
| | `OthersStayUntouched`, `TargetRefinement` | `TargetSpec => OthersUntouched`, `TargetSpec => ImplementsTargetVMs` |
| `ConversionProofs` | `ConversionInvariance` | `ConversionInv` |
| | `ExportsAreWhole`, `EvidenceHolds` | `ExportIsWhole`, `EvidenceIsTrue` |
| | `PublishedStays`, `DiskRefinement` | `ConversionSpec => PublishedIsKept`, `ConversionSpec => ImplementsDiskSteps` |
| `RemoteProofs` | `RemoteInvariance`, `SuccessIsEarned` | `RemoteInv`, `SuccessHasAMigration` |
| `ConnectionsProofs` | `ConnectionsInvariance` | `ConnectionsInv` |
| | `EntriesAreUnique`, `ContactsStayAccepted` | `RegisteredOncePerClient`, `ContactsAreAccepted` |
| `AccountsProofs` | `AccountsInvariance` | `AccountsInv` |
| | `SchemaComplete`, `AdministratorSurvives`, `SessionsHaveUsers`, `DroppedForGood` | `MigrationsApplyOnce`, `AdministratorRemains`, `ServedUsersExist`, `OnlyLateLoginsRemain` |
| | `ForwardOnly` | `AccountsSpec => AccountsMoveForward` |

**Assumptions.**  The named assumptions on the constants say that the `No...`
values are outside their sets, that there is a disk, that every plan has a
source, every endpoint an id, and that the bootstrap file lists finitely many
users (`AccountsAssumption`), and that storage maps name none, some or all disks
(`MapsAssumption`).  One hypothesis is stated in the theorems that need it:
`OneClient` - all requests are one - because two requests of one plan do reserve two VM ids (run `DoubleExecute`); the requests of
that client are still abandoned, lost and repeated at will, whatever the set of
disturbances.

**The arguments.**  Each invariant is the conjunction that is inductive, and
the steps of the proof are its conjuncts under each action.

- `EngineInv`.  `StepsFollowOrder` is not inductive: `CompleteStep` stores the
  holder's *copy* of the job, so one has to know that the copy agrees with the
  stored job on the succeeded steps (`CopyOK`), that all steps before the current
  one have succeeded (`PositionOK`), that the mutex has a holder exactly while
  `ExecutePlan` runs (`HolderOK`), and which states are ever stored (`StoredOK`).
  There is one lemma for each kind of step: a save, whose three outcomes are
  treated once (`SaveThen`), a return, a step that leaves the jobs alone, and the
  actions of the platforms only.  The refinement uses the invariant: a save of a
  storable value is a step of `JobLifecycle` or a stutter.
- `EffectsInv` adds how far the step at hand has come (`ProgressOK`): disks before
  the current one are done, and at `complete` the whole step has happened.  No
  action takes an effect away (a VM keeps its marker, a slot its disk, an export
  only gets stale), so what a stored step needs stays true.
- `SequentialInv` adds that the holder's VM id is the stored one
  (`TargetIsStored`) and that this VM is the plan's own with the disks attached
  so far (`TargetOK`, `AttachedToOwnVM`).  With two clients the first of these is
  false, and nothing else of the chain survives.
- `ApiInv` is about values in flight: every row that is stored, or held by a
  request or a handler that may write it back, is one that may stand in the table
  (`RowOK`), and a job that a rollback has read is in order.  That makes whole-row
  writes over newer rows harmless.  For the steps that happened the same is said
  of the job a rollback has read (`ApiEffectsInv`).
- `TargetInv` is about the queues: what a waiting task was posted for still
  holds when its turn comes (`PurposeOK`).  An import writes back the markers
  below its own disk, and imports wait in the order of the disks (`Before`), so
  none undoes a later one; a start waits only while its plan has not been told
  that it runs, and an answered start leaves no other in the queue (`StartsOK`),
  so none runs after an operator has connected the network.  With this, a check
  that is out of date by the time of its task does no harm, and each task is a
  step of `TargetVMs` or changes nothing.
- `ConversionInv` orders the contents of the source disk: what the worker reads
  later is never older, so equal checksums before and after a copy mean that
  nothing came in between (`InputOK`); and no output exists where one is about to
  be published (`OutputOK`).
- `RemoteInv`: what each request and each goroutine stands for, whichever others
  there are of the same plan.  A goroutine that is about to record a success has
  seen its task go well (`WaiterOK`), and a task that went well keeps the VM it
  made under its id (`TaskOK`), as Proxmox refuses a second VM of that id and
  no action removes one; so the success, in whatever job of the plan it is recorded,
  is of a migration that took place.
- `ConnectionsInv`: a request that has found no entry of its id finds none of its
  own client when it appends (`CallOK`), since the client has no other request
  open; and no password is kept, or in hand, that an endpoint of its id did not
  accept (`CredentialsOK`).
- `AccountsInv`: what a handler has read of an account is not ahead of the table
  (`RequestsOK`).  A deactivation counts the administrators in a serializable
  transaction, so the last one stays.  An account whose sessions were dropped
  stays inactive (`DroppedAreInactive`), so a session stored later is late.  A
  backend that is at the migrations takes the versions it has run for applied
  (`OwnWorkIsSeen`), so it does not run one again.

**Only model-checked.**  The liveness properties (`RequestReturns`,
`ExecutionCompletes`, `RequestEnds`, `RunningJobEnds`): they need fairness and
`ENABLED`, which the prover does not reach.  The two runs that find a
disagreement are counterexamples of TLC.  All invariants,
action properties and refinements of the passing runs are proved.

## 5. Not modelled, and the plan

Not modelled, and why:

- Validation and preflight are pure functions of what they read; no state is
  kept, and no decision after them depends on more than their verdict, which the
  models take as any.
- Cutover: in lab mode its first change of the target is refused
  (target.go:263-266), so it ends before it saves.
- Mock mode and live or production modes: executions are locked there
  (cmd/hypershift/main.go:142), and users in memory are one step per operation.
- The two queries of `GetJob` (postgres.go:334) are read as one.  A save in
  between gives the state of one moment with the steps of another.  The one
  handler that writes such a value back is the rollback, which overwrites the
  state and keeps the steps: what it saves is what one read at the time of the
  second query gives.
- The inventory readers convert answers and keep nothing; rendering of reports,
  logging, TLS and the frontend change no state.

Left for later: a model of the audit log that tells the events of a job apart (the
events with repeated ids, section 3), and a proof that `MigrationApi` keeps
`RunningTargetIsComplete` with one client and no handler that rolls back at the
same time.
