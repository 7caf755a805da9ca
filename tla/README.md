# Verification of the PCD-to-PCD migration POD

The program under `src/app` is a FastAPI service ("the POD") that moves virtual
machines between two OpenStack clouds (PCD environments) that share a storage
array.  No data is copied: the source server is deleted, its Cinder volumes are
un-managed on the source and managed on the destination, and a server is booted
from them there.  What can go wrong is the order of irreversible calls to two
clouds, a failure between any two of them, and a rollback that has only the
checkpoints in a Kubernetes resource to go by.  That is what the modules here
are about.

Line numbers are those of the files under `src/`; `app/` is left out where the
file name is unambiguous.

## 1. The system

| component | state it keeps | operations | talks to |
|---|---|---|---|
| **migration engine** `engine/runner.py`, `production.py`, `staging.py`, `cutover.py`, `verify.py`, `rollback.py` | where the run is; the port ids, server id and `dot_original` it has in memory | preflight, stage (S1), cutover (C1, C2, C2b, C2c, C3, C4, C5), verify (V1, V2), `rollback_in_place` (regime A), `reverse_migrate` (regime B) | the cloud clients; the Migration resource |
| **cloud clients** `osclients/prod_clients.py`, `cinder.py`, `nova.py`, `neutron.py` | none; the state is the clouds' | stop, start, delete, create server; attach, detach; read and set `delete_on_termination`; unmanage with retries, manage, waits; create and delete port | Nova, Cinder and Neutron of both clouds |
| **migration control plane** `api/migrations.py`, `store/migrations.py`, `engine/runner.py`, `main.py` | `status.phase`, `status.steps` of the Migration resource; the token secret | launch, cancel, reauth; `set_phase`, `checkpoint`; `store_source_token`, `clear_source_token`; startup | Kubernetes; background tasks |
| **shared backend resolution** `osclients/blueprint.py`, `shared.py` | none: a function of two blueprints, the root volume's host and the destination's pools | `parse_nfs_backends`, `export_for_pool`, `dest_pool_for_export`, `resolve_shared` | Resmgr blueprints, Cinder |
| **plan assembly and wiring** `engine/assembly.py`, `plan.py`, `wiring.py`, `deps.py` | the plan a run works by | `assemble_runner`, `_LazyRunner.run`, `shared_resolver`, which runs twice | all of the above, before `run()` is entered |
| **preflight and assessment** `engine/preflight.py`, `base.py`, `osclients/assess.py`, `discovery.py`, `profile.py`, `api/source.py` | none | the checks P1 to P9 over a profile; the read-only discovery | Nova, Neutron, Cinder |
| **destination store** `store/destinations.py`, `api/destinations.py` | the DestinationPCD resource and its credentials secret | register, test, list, read credentials, delete (no caller) | Kubernetes, Keystone |
| **kubernetes adapters** `store/adapters.py`, `crd.py`, `secrets.py` | none | create-or-replace, read, delete of secrets and resources | Kubernetes |
| **source sessions, connections** `osclients/connections.py`, `sessions.py`, `api/authurl.py` | none: SDK objects are built on demand | construct SDK objects, find the root volume, normalise URLs | OpenStack SDK |
| **reauthentication mapping** `osclients/reauth.py` | none | turns an expired token into `ReauthRequired` | used by tests only |
| **settings** `config.py` | poll counts and delays | | |

How they interact.  `launch` creates the Migration resource, stores the token in
a secret and schedules a background task (`api/migrations.py:44-52`).  The task
assembles the plan and then calls `MigrationRunner.run`, which drives the phases
and writes a checkpoint after each step (`production.py:61,77,83`).  `cancel`
and `reauth` write the *same* resource from their own requests; there is no
lock, no resource version and no queue between them and the runner.  The runner
learns of a cancel by reading the phase at two places (`runner.py:30,36`), and
the rollback learns what to undo by reading the checkpoints (`runner.py:72`).

What is hard about it:

- **Partial failure.**  Any of some thirty calls may be refused, or take effect
  and lose its answer.  Some of them cannot be taken back (`cutover.py:28`).
- **Asynchronous clouds.**  A detach, an unmanage, a manage, a boot and a delete
  return before they are done; bounded polls stand between the steps.
- **Two rollback regimes** selected by one checkpoint that is written some time
  after the deed it stands for (`production.py:88`, `cutover.py:28-34`).
- **Lost updates.**  `set_phase` and `checkpoint` are read-modify-writes of the
  whole status (`store/migrations.py:48-58`).
- **Crash.**  The POD keeps everything but the resource in memory.
- **Facts read one by one.**  The assembly makes some twenty reads of two clouds
  that go on changing; most facts are read two or three times, for the preflight
  and for the plan apart, and half of the failures are absorbed into a default.
- **Two migrations of one VM.**  `launch` never asks whether there is another.

What makes each part correct, in one sentence each: never two servers of one VM
and never a lost volume (engine); a checkpoint is never ahead of the clouds
(engine); a finished run tells the truth about where the VM is, as far as its
checkpoints let it (engine, the contract); every run ends (engine, unmanage loop); one
driver per migration, no checkpoint lost, no token left behind, unless a request that
nothing refuses comes in between (control plane); the pool chosen for the
handover mounts the export the volume is on (resolution); a passed preflight is about the
plan that is carried out (assembly); a listed destination has its credentials
(destination store); two migrations of a VM never cut over at once (pair).

## 2. The modules

| module | what it is |
|---|---|
| `Clouds` | the two clouds and the array: the effect of every client call, and what the clouds do on their own |
| `MigrationContract` | abstract: what the owner of the VM is promised, with two variables, `host` and `outcome` |
| `MigrationEngine` | one run, call by call, over `Clouds`, with failures and cancels whose two halves come at any moment; implements `MigrationContract` |
| `MCMigrationEngine`, `EngineClaims` | its instance for TLC; what the documents say and the code does not do |
| `MigrationEngineProofs` | the inductive invariant and the theorems about the handover |
| `MigrationOutcomeProofs` | five more invariants and the theorems about how a run ends; what one run keeps when another one shares its clouds |
| `MigrationPair`, `MCMigrationPair` | two `MigrationEngine`s over the same `Clouds`: two migrations of one VM |
| `MigrationPairProofs` | the two put together: the inductive invariant and the theorems of the pair |
| `MigrationControl` | the resource and the token, the requests and the runs that write them, the crash |
| `MCMigrationControl`, `ControlClaims` | as above |
| `MigrationControlProofs` | its inductive invariant and theorems |
| `VolumeRelease` | abstract: what the engine takes `CinderOps.unmanage` to do |
| `CinderUnmanage`, `MCCinderUnmanage`, `CinderUnmanageProofs` | the retry loop, which implements `VolumeRelease`; proofs |
| `SharedBackend`, `MCSharedBackend`, `SharedBackendProofs` | the resolution as operators over all blueprints; proofs |
| `DestinationStore` | one destination: its registration, its connectivity test, its credentials |
| `Assembly`, `MCAssembly` | the reads of `assemble_runner` over two changing clouds, the verdict of the preflight and the plan; EXTENDS `DestinationStore` |
| `AssemblyProofs` | the invariants of both and their theorems |
| `LeastElement` | one lemma about naturals that the proofs share |

How they fit: `MigrationEngine` EXTENDS `Clouds`.  `Clouds!Unmanaged` is the
last step of `VolumeRelease` taken at once, and `CinderUnmanage` shows that the
code's loop is a `VolumeRelease`; so the engine can take an unmanage as one
call.  `MigrationControl` is the other view of a run: `MigrationEngine` has
every cloud call of one run, `MigrationControl` a few steps per phase of each of
several runs, with reauths, tokens and crashes.  Both split each write of the
resource in two.  `Assembly` is
what the single step `Assemble` of `MigrationEngine` stands for, and its `Plan` is
what the engine works by.  `MigrationPair` INSTANCEs the engine twice, with the
clouds shared and everything else renamed.

### MigrationEngine and the code

`pc` is the next call of the run, named after the step of the code that makes it:
`"C3"` is inside the C3 loop, `"C3k"` is about to write the C3 checkpoint. `todo` is
what the current loop has left.  `cr` is the status of the resource: the set of
checkpoint names in it and its phase (the phase `Failed` with the message "cancelled
by user" is `"Cancelled"` here, because `_cancelled` tells the two apart).  `seen` is
the status that a `set_phase` or a `checkpoint` of the run has got and not yet patched
back, `req` are the cancel requests with the checkpoints each has got.  `saved` is
history: the checkpoints ever written, which nothing in the model reads.  `given` are
the checkpoints the rollback was given, which a cancel may have taken some from.
`handling` says that the run is in its `except` block, where nothing catches an
exception but the one for `ReverseMigrateError`.

| actions | code |
|---|---|
| `Assemble`, `Start`, `Preflight`, `Reject` | `wiring.py:80-83`, `runner.py:22-31` |
| `Stage` | `staging.py:4-16`, `production.py:56-61`: the ports, their undoing when one fails, the checkpoint |
| `HonourCancel` | `runner.py:35-40` |
| `C1` .. `C5`, `Verify`, `Complete` | `cutover.py:12-68`, `verify.py:11-28`, `runner.py:44-46` |
| `Except` | `runner.py:49-57`, `production.py:86-93` |
| `RollbackInPlace` | `rollback.py:12-32` |
| `UndoDestination`, `RebuildSource` | `rollback.py:35-91` |
| `GetStatus`, `PatchStatus` | `store/migrations.py:48-58`: the two calls of every `set_phase` and `checkpoint` |
| `Cancel` | `api/migrations.py:70-73`: `ReadForCancel` and `WriteForCancel` are the same two calls, in a request of its own |
| `Clouds` | external: what Nova and Cinder finish after a call has returned |

`Call`, `Poll`, `Read`, `GetStatus` and `PatchStatus` are the ways a step meets the
world; each has its failures built in, and `Handler` is where an exception raised at `pc`
goes, which is the `try` structure of `stage_ports`, `reverse_migrate` and
`run`.  A rollback started for a cancel that itself fails is caught by the
`except` block, which starts a second one; a second failure escapes.

`todo` is a set: the loops of the code have a fixed order, the model takes every
order, which includes it.  What the rest of a rollback undoes comes from the
checkpoints, as in the code, never from what really happened.  `plan` is
`plan.volume_ids`, what Nova lists when the plan is made (`Clouds!Listed`); every
loop over volumes runs over it.  A port of the destination carries the migration
that made it (`dst.ports`), since a rollback deletes ports by the ids in its own
checkpoint.

### MigrationControl and the code

A run is the little program `Main`, whose operations are those of
`runner.py:24-46` in order; `S1`, `C2c`, `C5` and `V1` stand for the steps the
control plane can tell apart.  `set_phase` and `checkpoint` are
`ReadStatus` followed by `WriteStatus` (in a run) or `ReadForRequest` followed
by `WriteForRequest` (in an endpoint); the write puts back the *whole* status
read, phase and steps.  `UndoCancelled` is the rollback of `runner.py:36-40`,
`Undo` the one of the `except` block.  `Finally` and `ClearToken` are the two
calls of the `finally` block.  `Crash` drops every run and every request;
`main.py:23-27` starts none again (`resume_inflight` has no caller).

A reauth may be posted at any moment, as nothing in `api/migrations.py:83-90` refuses
it.  `did`, `saved`, `timely` and `crossed` are history: steps carried out,
checkpoints ever written, whether a cancel landed in time, whether a reauth came
that no run was waiting for (one posted when the phase was not `NeedsReauth`, or
while another was being handled: `Awaited`).  Nothing in the model reads them.

### MigrationPair and the code

Each of the two runs has its own resource, its own memory and its own background
task; they meet in `src`, `dst` and `lost`.  `StepOfOne` and `StepOfTwo` are one
step of one run with the other's variables unchanged.  Nothing in the code keeps
the two apart on purpose.  What does is Neutron: `stage_ports` asks for the
address that the VM has on each network (`staging.py:11`), a second port with it
is refused, and every rollback deletes its ports as its last act
(`rollback.py:29-31`, `84-85`).  The model therefore takes both launches to name
the same networks and addresses, and the VM to have a NIC (`PairAssumption`); see
the divergences for when that is not so.  `CancelOf` is a step of a cancel request
for one of the two; `Cancels1` and `Cancels2` are the requests each gets.

### Assembly, DestinationStore and the code

`step` is the next read of the background task.  A read that raises is a `Fetch`:
it can be done iff the cloud and the credentials allow it, and otherwise, or when
it is refused, the task is at `"raised"`.  A read whose failure the code absorbs
leaves its name in `blind` and the default in `got`.  So does the read of the flag
of a volume that Nova does not list for the VM, or lists without a flag (`Unseen`;
`tells` says whether Nova shows flags): nothing fails, `attachment_dot` answers False
(`prod_clients.py:129-135`) and the flag counts as read; `blind` has `"unseen"`.

| action | code |
|---|---|
| `Launch`, `ReadToken`, `Clients` | `api/migrations.py:42-51`; `assembly.py:13-16`, `40-41` |
| `ReadProfile`, `Assess` | `build_migration_profile`, once for the plan and once for the preflight (`assembly.py:26`, `discovery.py:65`) |
| `Connect`, `Authorize`, `Catalog` | `discovery.py:67-83` |
| `Source`, `Dest`, `Flags` | `shared_resolver` (`wiring.py:102-130`), run by `assess` with `pass` = 1 and by `assemble_runner` with `pass` = 2 |
| `Match` | `assembly.py:31-35` |
| `RootFound` | `_root_volume` (`connections.py:152-177`): the mapping, else the device, else the first bootable volume, else the first volume |
| `Passed`, `Plan` | `preflight.py`, `assess.py`; `build_plan` |
| `Change` | external: the VM or the destination changes between two reads |
| `Register`, `Crash`, `Test` | `store/destinations.py:18-36`, `api/destinations.py` |

`Kube` is a call to Kubernetes: it succeeds, is refused, or takes effect while the
POD sees an exception.  `faults` and `unanswered` are history: how many calls
failed that need not have, and whether a resource was created whose creator was
told that it failed.

### CinderUnmanage, SharedBackend

`CinderUnmanage` has one action per call of the loop (`cinder.py:21-36`):
`First`, `Poll`, `Reset`, `Again`, `GiveUp`, and `Driver` for Cinder.  A poll may
say "gone" whenever a read can fail, since `volume_status_or_none` maps every
exception to None.  `SharedBackend` is the resolution as operators with the
names of the functions; its specification has one step so that the operators
can be checked over every small input and proved about.

## 3. What TLC checks

Passing runs:

| run | instance | what it shows |
|---|---|---|
| `engine_faults` | 3 volumes (root, two data), 2 NICs, `delete_on_termination` TRUE, every call may be refused or time out, one cancel, its read and its write at any two moments, fair (860 thousand states) | the safety properties of `MigrationEngine`, that it implements `MigrationContract`, `EveryStepNearer` and `RunEnds` |
| `vm_pair` | two migrations of a VM with a root and a data volume and 2 NICs, each failing anywhere, the first cancelled with a stale status that lacks its cutover (`CancelTakesCutover`; 1.9 million states) | the ports keep the two apart: `OneAtATime`, `OwnerActs`, `CompletedStands`, `BothRolledBack`; the VM is never in two places: `NeverTwoServers`, `HandedOver` |
| `assembly_verdict` | six VMs, four destinations and two launches, every failure, a crash, one change of the clouds (4.9 million states) | what a passed preflight says of the plan; what a registration leaves behind |
| `control_cancel` | one run, two cancels, no failures, fair | a cancel never aborts a cutover, and everything settles |
| `control_reauth` | the launched run, two reauths posted at any moment, one cancel, failing steps, one crash (`TwoRunsAtMost`; 5.2 million states) | two drivers, a checkpoint lost before any cancel, or a token left behind, only after a reauth that no run waited for; no run that goes back |
| `unmanage_loop` | the code's six attempts, every failure | the loop is a `VolumeRelease`; it ends whatever the driver does |
| `backend_resolve` | all blueprints over two categories and two backends, one backend name in both categories, up to two pools | `ResolvedIsShared` |

The bounds and why they are enough.  Two data volumes are the least with which a loop
can stop between two of them, and two NICs likewise for ports, and for each of two
migrations to win one.  SYMMETRY permutes the NICs in `vm_pair` and the two reauths in
`control_reauth`, which have no liveness property; loops treat their items alike.  In
`vm_pair` one data volume is the least with which a plan can lack one, and only the
first migration is cancelled, since the two are alike.  Its cancel is the one that
leaves a rollback least to go by (`CancelTakesCutover`): it reads the resource after the source server
was stopped and before C1 is recorded, and writes it back after the run has failed and
before the rollback reads the checkpoints, so that they are those of a run that only
staged.  `engine_faults` has the cancel of one run at any two moments, and the
theorems of `MigrationPairProofs` have any cancels of either.  `TwoRunsAtMost` bounds
`control_reauth` once a reauth has come that no run waited for: from there on no
cancel and no crash, and no third run at the same time. Two runs at once have a state
for each pair of their places; the theorems of `MigrationControlProofs` have no such
bound.  The flag is TRUE in the engine's runs, the harder case: the theorems hold for
both values.  The six VMs of `assembly_verdict` are one for each way the root volume
can be found, or not, one of them with a Nova that shows no flags, and the
destinations one for each check that can fail; one change (`MaxChanges`) is the least
that can fall between two reads, and every property that mentions a change speaks of
none or of any.  One crash suffices because nothing is restarted by a crash; two
reauths are the least with which one can meet another or the run of another; two
cancels because a cancel never reads another's effect.  The theorems of
`MigrationControlProofs` hold for any number of all three. `MaxCrashes`, `MaxChanges`
and `MaxFaults` (where a history stops counting) are the only counter bounds,
`CancelTakesCutover` and `TwoRunsAtMost` the only constraints.  The six attempts are
the code's default and the proof covers every number.  Deadlock is not checked: every
one of these systems stops when it is done.

The safety properties, by what they would catch:

- `SingleHost`, `HandoverOrder`: a second server, or a handover out of order,
  after any failures and with a late effect of a lost call.
- `CheckpointsHappened`: a checkpoint ahead of the clouds, in the resource or in a
  status that somebody is about to write back, which would make the rollback undo
  what never happened.
- `OnlyCancelsForget`: a step that is not recorded, or recorded out of order, and a
  checkpoint that goes missing without a cancel.  That a cancel may erase some is what
  the code does: see `RollbackSeesCheckpoints` below.
- `LossOnlyInReverse`: the flag restored too early, the server deleted with it.
- `ReverseOnlyWithoutSource`, `RolledBackHasSource`, `StagedPortsReleased`,
  `CancelLeavesSourceAlone`, `CompletedMeansMoved`: what each way to end means.  Two
  of them have a condition that only a cancel with a stale status can make false.
  `RolledBackHasSource` speaks of a rollback that was shown the stop of the source
  server (`StopShown`): without the record of C1 it finds nothing to start and reports
  success, server or not; without any other checkpoint the start it attempts is refused
  when there is no server.  The ports in `CancelLeavesSourceAlone` are given back if
  the checkpoint of the staging was there to say so.
- `ContractHolds`: refinement of `MigrationContract`.  `host` is computed from
  the clouds' servers, `outcome` from where the run ended.  The contract's
  `"attention"` and `"stranded"` outcomes are deliberately weak: the code
  promises no more there; and of `"mistaken"`, a rollback that reported success
  without having been shown the stop, it says nothing but that it ended.
- `OneDriver`, `CheckpointsExact`, `TokenGoesWithRun`, `CutoverNeverAborted`,
  `EventuallySettled`: the control plane.  Nothing refuses a reauth, so one that no
  run was waiting for puts two runs on one migration.  The first three say that this
  is *all* that can (`crossed`), and that a cancel is all else that can take a
  checkpoint away; no race of the launch, the runs, the awaited reauths, the cancels
  and a crash does.  `CheckpointsExact` says besides that no stale write brings in a
  checkpoint that was not written, with no condition.
- `RunsGoOn`: a cancel, a reauth or a restart that sends a run back, so that it does a
  step again, or comes to life after its end; a retry inside a run.
- `OneAtATime`, `OwnerActs`: a cutover that starts while another migration of
  the VM is at work or is undoing its own; a loser of the race for the ports
  whose rollback touches the winner's server.
- `CompletedStands`, `BothRolledBack`: a late rollback that takes away what the
  other one completed; two rollbacks that together leave the VM nowhere.
- `NeverTwoServers`, `HandedOver`: what `SingleHost` and `HandoverOrder` say of one
  run, for two that may have made their plans from different facts: a server that
  one creates while the other has one, a volume that one takes in while the other
  still has it on the source.  `HandedOver` goes volume by volume, since a plan made
  in the middle of the other's cutover may lack one.
- `EveryStepNearer`: a failure that sends a run round again, in a loop, a rollback
  or the `except` block.
- `PassedMeansRead`: a failed read absorbed into a value that passes.  The flag of a
  volume that Nova shows none for does pass; the property says what it takes: a Nova
  that never shows flags, or a volume that left the VM after it was found.
- `PassedPlanWorks`, `IncompleteOnlyIfChanged`: a plan made of other facts than
  those that were checked: a wrong root volume, a pool of another export, a
  flavor that is not there, a flag that is not the volume's.  What they exempt
  is what the code does not check, and is listed below.
- `ListedIsUsable`, `RegistrationAllOrNothing`: a destination without
  credentials, or credentials without a destination, after a failure or a crash
  between the two writes.

Fairness.  `MigrationEngine`: weak fairness of the runner alone, a thread of
the process that nothing stops.  The clouds get none: the polls are bounded, so
`RunEnds` holds even if a cloud never finishes anything.  `MigrationControl`:
weak fairness of every run, and of a request once it has begun; a client need
not send any.  The `control_cancel` run has no crash.  `CinderUnmanage`: weak
fairness of the caller, none of the driver.

### What the documents say and the code does not do

Each has a run of its own that must find the violation.

1. **`RollbackKeepsData`** (README.md:26, rollback.py:1).  Run to C5 with the
   flag TRUE; the V1 poll gives up; the `except` block takes the reverse
   migration, because C2c is recorded; it deletes the destination server, whose
   root attachment was created with the source's `delete_on_termination`, and
   the root volume's data with it.  The same behaviour contradicts
   README.md:28-29 ("Once the destination VM exists (C5) the runner never
   auto-rolls-back").
2. **`NeverManagedByBoth`** (README.md:27).  C3's unmanage spends its attempts
   while Cinder still works on it, and returns normally; C4 manages the file on
   the destination.
3. **`RegimeAHasSource`** (rollback.py:2-3).  The source server is deleted;
   `wait_available` gives up; C2c is not recorded yet, so the rollback takes
   regime A on a server that is gone.  Its next call is refused, the exception
   escapes the `except` block, and the phase stays `Cutover`.
4. **`RollbackSeesCheckpoints`** (README.md:30-31).  A cancel reads the status,
   the run writes S1, the cancel writes back what it read: S1 is gone from the
   resource when the rollback looks, and the staged ports stay.  What else this
   can lead to is the first of the divergences below.
5. **`TimelyCancelHonoured`** (README.md:47-48).  A cancel lands between the
   read and the write of `set_phase("Staging")` (or before any `set_phase` of
   the run) and is overwritten; the cutover follows.

Divergences met while modelling that have no run of their own.  The rollbacks:

- A cancel that reads the status before C1 is recorded and writes it back after the
  source server was deleted takes C1 to C2c away.  If a step then fails, the
  rollback is the one in place, has nothing to undo but the ports, and the phase is
  `RolledBack` with no server on the source (`RolledBackHasSource` and `ContractHolds`
  without `StopShown` are violated); when the cancel lands after C5, the destination
  server runs on, and the phase is `RolledBack` all the same.
- A cancel whose read and write lie around the S1 checkpoint leaves the staged ports
  on the destination.
- After C3 every reverse migration manages the volumes again under new ids and
  then boots the source server from `plan.volume_ids`, the old ones, which no
  longer exist (`rollback.py:77`; the comment at 73 speaks of the "re-managed
  root volume"): the creation is always refused.
- The in-place rollback undoes recorded steps only.  A C2 that fails half-way
  leaves data volumes detached, a C1 whose answer is lost leaves the server off,
  and the phase is `RolledBack` all the same (deck line 143 says "reattach,
  restore the flag, power back on").

The control plane:

- A reauth that comes between `set_phase("NeedsReauth")` and the `finally`
  block's look at the phase has its new token cleared (`runner.py:62-66`).
- A reauth posted while a run is at work, or two posted at the same `NeedsReauth`,
  put two runs on the migration, which drive it side by side
  (`api/migrations.py:83-90`; `OneDriver` without `crossed` is violated).
- A run whose assembly raises never reaches the `finally` block: its token stays
  in the secret, also after a cancel made the phase terminal.
- `runner.py:76` says "Called on startup"; nothing calls `resume_inflight`.

Two migrations of one VM (`api/migrations.py:42-52` refuses none):

- Only the ports keep them apart: nothing does when the VM has no NIC, or when
  the second launch names other networks or addresses.
- Ports that a rollback did not get to delete make every later migration of the
  VM fail in staging, until someone deletes them by hand.
- A second migration assembled while the first has the flag cleared, or a data
  volume detached, has a plan with that flag, or without that volume;
  `CompletedStands` speaks of plans that have every volume.

Resolution, assembly and preflight:

- `volume_status_or_none` takes any failure of the read for success
  (`prod_clients.py:33`).
- `blueprint.py:36` wants category and backend to match when a backend name
  repeats; a backend without NFS mounts is dropped first, so a pool of it can be
  given another category's export of the same backend name.
- Only the root volume's host is resolved (`shared.py:11`) and every volume is
  managed into the pool found; a data volume elsewhere is discovered in C4.
- `discovery.py:56-59` says that facts which need live verification "default to
  the BLOCKING value", quota among them; `volumes_detachable` and `quota_ok` are
  passed as True (the TODO at 93 admits it), so P7 and P8 check nothing.
- P6 is "must hold the fixed IP and it must be free"; the addresses in use are
  always `[]` (`discovery.py:75`), so only the first half is checked, and for the
  address of the profile, while `stage_ports` uses the one in the launch body.
- An unreachable destination makes the resolver, which `assess` calls as well,
  raise: P2 is never reported as failed, and the phase stays `Pending`.
- A VM booted from an image that has no volume makes the resolver raise in the
  same way, before P3 can say so.
- A flavor chosen by hand is not looked up; P5 passes for any id.
- The second resolution may find no pool, or may fail to read the flag and take
  it for off, after the first has passed (`assembly.py:38`).
- The flag of a volume that Nova does not list for the VM, or lists without a flag,
  is taken for off and for readable and flippable (`prod_clients.py:129-135`,
  `wiring.py:123-127`): P9 passes, although `discovery.py:56-59` says that what cannot
  be verified blocks.  C2b reads it in the same way, and C2c then deletes the server.
- A failed read of the attachments or of a volume lets `_root_volume` guess, and
  the preflight passes with the wrong root (`connections.py:152-177`).

The destination store:

- A lost answer to the creation of the resource makes the clean-up delete the
  secret of a destination that is listed (`store/destinations.py:31-34`).
- A lost answer to the creation of the secret, followed by a replace that fails,
  leaves a secret that no resource names; so does a crash between the two.
- Overlapping connectivity tests: the last write wins, whichever read is newer.

## 4. What TLAPS proves

`MigrationEngineProofs`, for any set of volumes with a root in it, any set of NICs,
either value of the flag, any other migrations that hold ports, any cancel requests
and any combination of failures (assumptions `CloudAssumption`, `EngineAssumption`):

- `TypeCorrect`: `TypeOK`.
- `Invariant`: the inductive invariant `IInv`.
- `SingleHostHolds`, `HandoverOrderHolds`, `LossOnlyInReverseHolds`,
  `ReverseOnlyWithoutSourceHolds`: the safety properties, from `IInv`.
- `ImplementsContract`: `Spec => ContractHolds`, every step of the engine is a
  step of the contract or leaves `host` and `outcome` alone.

The argument.  None of the properties is inductive: `HandoverOrder` says nothing
of *why* the run is at C4.  What the resource says is of little use: a cancel may
write back any status it read earlier.  So the invariants speak of `saved`, what
was ever written, and `RecordInv` ties the statuses to it: none, in the resource, held
or given to a rollback, has more than `saved`, and all are equal to it until a cancel
has been written.  `IInv` is `TypeOK` and `RecordInv` with four more parts.
`StepsInv` ties the checkpoints written to the clouds at any label (C2c means the source
server is gone; C3 that every volume was asked for; C4 that every volume has
settled on the destination; no destination server without C4).  `ForwardInv` ties the
label to the clouds while the run goes forward, with the progress of the three
volume loops that matter (`C2wait`, `C3`, `C4`).  `RollbackInv` says what the
rollbacks may count on: the one in reverse is given the C2c checkpoint, so that the
source is gone; the one in place may be wrong, but gets past the start of the
server only if there is one or if it was not shown the stop; and a rebuilt source is
there only at the end.  `PlanInv` says that the plan, made
once all volumes were attached, has them all.  Each part is kept by each group
of actions (`BeforeCutover`, `LeaveSource`, `ReachDestination`, `RollbackStep`,
`CloudsInv`), typing first.  The refinement needs `IInv` twice: `OutcomeMatches`
(an ended run tells the truth) and `RunnerHost` (a server appears only where the
VM is nowhere).

- `EveryStepNearerHolds`: every step of a run goes down an order.  `Place` numbers
  the labels so that every transition goes up, except the one with which the `except`
  block starts the rollback over, which sets `handling` and so happens once (`IInv`:
  not in the `except` block while handling); within a loop `todo` shrinks, and at a
  write of the resource the status is read before it is written.  For finite
  sets of volumes and NICs the order is well-founded, so no run takes infinitely many
  steps.  The other half of `RunEnds`, that a run which has not ended can take a
  step, speaks of ENABLED and is TLC's.

`MigrationOutcomeProofs` has what is left of the engine's safety properties:
`OnlyCancelsForgetHolds`, `CheckpointsHappenedHolds`, `CompletedMeansMovedHolds`,
`RolledBackHasSourceHolds`, `StagedPortsReleasedHolds` and
`CancelLeavesSourceAloneHolds`, from the same assumptions.  `IInv` does not know
who made a port, what is still to be restored, or that the last volume has
arrived, so there are five more invariants, each inductive given `IInv` (and
`SourceInv` given `PortsInv` too): `PrefixInv` (the label says which checkpoint was
the last to be written), `PortsInv` (loop by loop, which ports are this migration's),
`SourceInv` (until C1 nothing was touched, and a rollback outside the `except` block,
which only a cancel starts, has nothing to restore), `DestInv` (what C5 and V1
establish) and `PhaseInv` (`RolledBack` is in the resource, or in a status the run
holds, only when a rollback has written it, and its lost answer sends the run nowhere
but to the end or, before C1, to a second rollback).

`MigrationPairProofs`, for two migrations of one VM with any volumes, at least one
NIC, any failures and any cancels (`CloudAssumption`, `PairAssumption`):

- `PairInvariant`: the inductive invariant `PairInv`.
- `PairTypeCorrect`, `OneAtATimeHolds`, `OwnerActsHolds`, `CompletedStandsHolds`,
  `BothRolledBackHolds`, `NeverTwoServersHolds`, `HandedOverHolds`: every property
  of the `vm_pair` run.

The argument.  `IInv` is of no use here: it says of the clouds what a run that is
alone in them finds.  Saying of each pair of labels what the two runs may have done
would be hopeless, so `MigrationOutcomeProofs` has an invariant of *one* run that
holds whatever the other does, `RunInv`.  Its parts differ in why the other run cannot
break them.  `RecordInv`, `PrefixInv` and `ControlInv` speak of the run's own resource
and memory, and of its own ports; so does `PortsInv`, and a run makes a port only
where there is none and deletes only its own (`PortsApart`).  `HostsInv` is about the
clouds alone and every step of any run keeps it: the root volume leaves the source
server only with the server, and the destination has something only after the source
was asked to let go of it.  `HeldInv` is what a run has done to the clouds and relies
on finding there; another run would break it, but a run changes a server or a volume
only while it owns every staged port (`ServersOwned`), and while `HeldInv` says
anything this one owns them.  `RunNext` shows that a run, the clouds and a cancel keep
`RunInv`, `OthersNext` that any step of which those guarantees are known keeps it too;
neither mentions a second engine.  `MigrationPairProofs` takes both twice, once per
run: a step of one is a `RunNext` for it and an `OthersNext` for the other.
`OneAtATime` and `OwnerActs` follow because two runs never both own the ports of a VM
that has a NIC (`OneOwner`).  `BothRolledBack` needs one thing of both runs together,
the third conjunct of `PairInv`: a VM without a server on the source is in the hands
of a run that took it and has not given it back, or whose rollback was not shown that
it had been taken (`Away`; `HomeNext`).  `SameOne` and `SameTwo` only say that the
engine named by `MigrationPair` and the one the proofs are about are the same.

`MigrationControlProofs`, for any sets of cancels and reauths, any number of
crashes and any failures of the steps (assumption `ControlAssumption`):

- `ControlTypeCorrect`: `TypeOK`.
- `RunsGoOnHolds`: no step takes a run back, from the types, what a run may hold at
  each place (`Reading`), and that it is not begun before its request is answered
  (`Fresh`).
- `ControlInvariant`, `OneDriverHolds`, `CheckpointsExactHolds`,
  `TokenGoesWithRunHolds`.

None assumes anything of the clients: a reauth may come at any moment, and the
properties say what a reauth that no run waited for (`crossed`) is needed for.

The argument.  That one run drives at a time says nothing of who may start the
next one, so the part `Apart` of the invariant `CInv`, which holds until such a
reauth comes, counts a run that waits for its thread, and a
request that has stored its token, as good as a driver (`OneWriter`), and makes
`NeedsReauth`, which invites a reauth, mean that there is neither.  Since a status
is written back long after it was read, it also speaks of the statuses that
are *held*: none that a run holds says `NeedsReauth`, and before the first cancel none
lacks a checkpoint (`SavedExact`).  That a run is alone when it writes then gives
the exact checkpoints.  `TokenExact` adds that `NeedsReauth` in the resource is
explained by a run that asked for a token or by a reauth that has replaced it, which
is why a `finally` block that keeps the token may do so.  Each part is kept by a
step of a run (`RunOneWriter`, `RunSavedExact`, `RunTokenExact`), of a request (the
same three, `Request...`) and by a crash (`CrashInv`).  `WrittenInv` needs none of it
and holds for good: no status, in the resource or held, has a checkpoint that was not
written, and none is written of a step that was not carried out.

`CinderUnmanageProofs`, for any number of attempts and any failures:
`UnmanageTypeCorrect` (with the bound on posts) and `UnmanageImplementsRelease`.

`SharedBackendProofs`, for all blueprints and pool lists: `ResolutionExact`, from
`StrictMatch` (a listed pool is decided by category and backend together, and
the fallbacks never matter) and `FirstMatch` (the first match exists and is
found).

`AssemblyProofs`, for any VMs, destinations and launches that satisfy
`AssemblyAssumption`, any number of changes and any failures (`StoreFaults`):

- `AssemblyTypeCorrect`: `TypeOK`.
- `ListedIsUsableHolds`, `RegistrationAllOrNothingHolds`, from `StoreInv`, which says
  where a registration must be for each of its two objects to be there.
- `PassedMeansReadHolds`, from `BlindInv`: each read that raised has left the value
  that blocks, and nothing later overwrites it, because a fact is read at one label
  only of the first resolution; and from `AttachedInv`: what was taken for the root is
  attached as long as nothing changes, so Nova shows its flag if it shows any.
- `PassedPlanWorksHolds`, `IncompleteOnlyIfChangedHolds`, from `FactsInv`: while
  nothing has changed, what was read is what there is (`ProfileInv`, `ResolverInv`,
  `PlanInv`, `AttachedInv`).  The two resolutions then agree, although they were read
  apart; `RootFoundRight` adds that a root volume that shows is found whatever way is
  taken, for which the first bootable volume must exist (`GuessAttached`, from the
  lemma of `LeastElement`).

Model-checked only: the liveness properties `RunEnds`, `CutoverNeverAborted`,
`EventuallySettled` and `UnmanageEnds`, which are out of the prover's reach, as is
ENABLED.  Every invariant and every action property of a passing run is a theorem.

## 5. What is not modelled

- **P7, P8 and the MACs in use**, which `assess` passes as constants; the
  scores and wording of the assessment, the VM list and the discovery endpoints.
- **`DestinationRepo.delete`, `CrdStore.delete`, `resume_inflight`**, which have
  no caller in the program.
- **Failures of the Kubernetes API in the control plane**: `MigrationEngine`
  has them for the writes of a run and `DestinationStore` for a registration,
  `MigrationControl` has none.
- **A VM that is stopped when its migration starts**: `CloudInit` has it running.
- **Two runs of one migration on the clouds**, which a reauth that no run waited for
  brings about: `MigrationControl` has them on the resource, `MigrationEngine` has one
  run.  Nor does `MigrationEngine` have a reauth, since the production clients never
  raise `ReauthRequired`.
- **Three migrations of one VM**, and two with different networks: see above.
- **A change of the clouds after the assembly** that a migration did not make:
  `MigrationEngine` starts from what the plan says.
- **Construction of connections and sessions, URL normalisation, settings**: SDK
  objects and values, no state.
- `set_image_metadata`: `plan.image_meta` is `{}`, for which it does nothing.

## 6. Plan

Done in this order: the engine with its clouds and its contract, the control
plane, the unmanage loop, the resolution, the outcome proofs, the pair, the
destination store and the assembly with their proofs, the proofs of the pair.  What
is left:

1. A measure like `Place` for the unmanage loop, the provable half of `UnmanageEnds`;
   `EveryStepNearer` and `RunsGoOn` are those of `RunEnds` and `EventuallySettled`.
2. Failures of the Kubernetes API in `MigrationControl`: a write that is refused
   or whose answer is lost, in the `finally` block above all.
3. A VM that is stopped at the start, whose rollback starts it.
4. Two runs of one migration over the same `Clouds`, as `MigrationPair` has for two
   migrations: they own the same ports, so nothing keeps them apart, and the question
   is which of the properties of one run survive.
