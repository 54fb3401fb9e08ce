# home-k8s: models of its control programs

home-k8s is a GitOps repository: most of it is configuration that Flux, Helm and
Kyverno interpret. What has behaviour of its own is a set of programs that act on a
live cluster: they silence alerts around a maintenance, merge image updates, pause a
download queue when the uplink fails, hold applications still while they are backed up,
take the backups, and prove on a CI host that the backups can be restored. Each of them
talks to services that fail, runs next to other copies of itself or next to people, and
can be killed at any point. This directory models those programs in TLA+, checks the
models with TLC, and proves the main results with TLAPS.

Paths below are relative to the root of the repository; `apps/` is `kubernetes/apps/`.

## Inventory

| Component | State | Operations | Talks to |
|---|---|---|---|
| **Begin lock** `scripts/cluster-maintenance` (`KubernetesBeginLock`) | a `Lease` object; the acquisition loop, the renewal thread and its error in each process | `__enter__`, `renew_loop`, `assert_healthy`, `__exit__` | other invocations, through the `Lease` |
| **Maintenance windows** `scripts/cluster-maintenance` | silences on every Alertmanager member, a notice on the status page, a local state file | `begin`, `renew`, `end`, `repair`, `status`, `probe` | Alertmanager members, the status page, the begin lock |
| **Alert admission rules** `scripts/cluster-maintenance` | none (pure) | selectors, scopes, baselines, recovery incidents | called by `begin`, `end`, `repair` |
| **SAB WAN guard** `apps/arrs/sab-wan-guard/app/guard.py` | a journal on a volume; timers in memory | `Guard.tick`, `Journal.save`, the loop of `main` | UniFi gateway, SABnzbd, its user |
| **Fast-update runner** `apps/renovate/renovate/app/config/fast-update-runner.cjs` | a selected pull request, a window, a merged revision | `readyPull`, `maintenance`, the merge, `verifyRollout`, `end` | GitHub, Flux, `cluster-maintenance` |
| **Grimmory fence** `apps/media/grimmory/app/fence.sh` | request, active, pending and child files; a process group; an absolute hold | `supervise`, `acquire`, `check`, `release` | the orchestrators of the captures |
| **Startup holds** `kopiur-startup-hold.py` (two copies), `.sh` | a marker file; a deadline on two clocks | `start`, `status`, `evidence`, `check` | the kubelet, the captures, three native drills |
| **Capture bundles** five `capture*.py` hooks and their consumers | generations of a bundle, staging directories, a lock, PITs and native snapshots | capture, rotate, restore, accept | the application, the backup controller's snapshots |
| **Recovery drills** seven scripts `scripts/kopiur*` | containers, volumes and fixture repositories on a shared host, and the lists of them | the steps of each drill; the cleanups | Docker, two backup backends, signals and deadlines |
| **Queue precheck** `scripts/renovate-queue-precheck.py` | what some ten calls of `gh` answered | `main` | GitHub |
| **Quiescence lease** `apps/arrs/sonarr/app/recurring.sh` and its siblings | boot, request and active files | `supervise`, `acquire`, `check`, `release` | the recurring captures |
| **Mosquitto provisioning**, **delivery helpers**, **repository checks**, **application provisioning**, **manifests** | none of their own | one sequential pass each | the broker, GitHub, files, controllers |

What is hard, and what makes a component correct:

* *Begin lock.* Several hosts write one object, each with its own clock; writes are
  applied without an answer; a renewal may be in flight while the lease is released
  or taken over. Correct: nobody healthy inside next to somebody else; an abandoned
  lease does not shut everybody out.
* *Maintenance windows.* The silence, the notice and the state file are three stores
  without a transaction; Alertmanager members agree only eventually; the fast-update
  runner kills the helper after 120 s. Correct: windows do not overlap, no silence or
  notice is forgotten, a state file is given up only when its window is over on every
  member, and an operator who keeps trying gets there.
* *SAB WAN guard.* SABnzbd does not say who paused its queue, so the journal has to
  know, through crashes, failed journal writes and lost answers. Correct: it resumes
  only what it paused, at most once, only after a calm time, and it does act when it
  should.
* *Fast-update runner.* Four reads decide what is merged while people push; the window
  has to last through merge and verification; four observations of a round are of
  different moments; an answer of GitHub may be lost after the merge. Correct: what
  lands was vetted, under a window that covers the planned rounds of its
  verification, and "verified" means the cluster.
* *Fence and startup hold.* Parties communicate by files and deadlines, one file
  operation at a time, across kills and replacements of the container. Correct: while a
  passed check promises so the application does not write, and it runs again in the end.
* *Capture bundles.* A hook may raise or be killed anywhere, the application writes on,
  and a snapshot may be taken at any moment. Correct: an accepted bundle is of one moment,
  one interruption does not cost the last good generation, nothing stays open at a
  server, repetition gets through.
* *Recovery drills.* Any Docker command may fail or be carried out without an answer, and
  a signal or the deadline may come anywhere. Correct: nothing of the run is left, and a
  receipt is given only for what was proved.
* *Queue precheck.* GitHub changes between the calls. Correct: a mutation is allowed only
  if the inventory missed nothing that was there throughout.

## Plan

Done: `BeginLock`, `MaintenanceLease`, `Maintenance`, `SabWanGuard` and their proofs, then
`FastUpdate`, `NativeFence`, `StartupHold`, `CaptureBundle`, `DockerDrill`,
`QueuePrecheck`, and the proofs of all of these, the drills last. What could follow: the
alert rules of `cluster-maintenance` as pure operators against a reference definition; the
shell hooks and the quiescence lease of the recurring captures; the provisioning of
Mosquitto.

## Modules

| Module | What it is |
|---|---|
| `BeginLock` | the abstract lock: a holder, whether its lease is live, who is inside |
| `MaintenanceLease` | `KubernetesBeginLock` in detail; implements `BeginLock` |
| `Maintenance` | the commands that open, extend and close a window; uses the lock as `BeginLock` allows |
| `SabWanGuard` | the guard, its journal, and its environment |
| `FastUpdate` | the fast-update lane over a window, GitHub and a cluster |
| `NativeFence` | the supervisor and the commands of the Grimmory fence |
| `StartupHold` | PID 1 of a held container, its commands, a capture, three drills |
| `CaptureBundle` | five capture hooks and what their consumers accept |
| `DockerDrill` | six recovery drills as sequences of Docker commands with cleanups |
| `QueuePrecheck` | the precheck's calls against a moving GitHub |
| `MaintenanceLeaseProofs`, `MaintenanceProofs`, `FastUpdateProofs`, `NativeFenceProofs`, `StartupHoldProofs`, `QueuePrecheckProofs`, `CaptureBundleProofs` | theorems and proofs |
| `DrillAndGuardProofs` | theorems and proofs of `DockerDrill` and of `SabWanGuard`, one after the other; the two have nothing in common |
| `MCMaintenanceLease`, `MCMaintenance` | values of the constants for TLC (the other modules are run directly: their constants are numbers and small sets) |

The two maintenance modules meet in `BeginLock`: `Maintenance` is shown to do to its lock
only what it allows (`LockUsed`), and `MaintenanceLease` is proved to implement it
(`Refinement`). The properties of `Maintenance` are therefore about the lock as
`BeginLock` has it, which includes leases that lapse under their holder. `FastUpdate`
has the window as `Maintenance` leaves it: open with ticks left, or over, refused while
another one is open, and possibly open without anybody knowing its identifier.

Definitions marked `Broken:` are not part of any specification. Each stands before the
definition it varies and is that definition with a plausible mistake in it; with it in
place, the property it is meant for is violated. They show that the properties see
the code's mistakes.

### MaintenanceLease

| Model | Code |
|---|---|
| `lease` (holder, age and clock of `renewTime`) | the `Lease` object; ages replace timestamps, so that behaviours have no last tick |
| `since` | how long a write has been under way: `renewTime` is taken before `kubectl` is launched, at some moment since the read |
| `current` | the reads whose `resourceVersion` is still the object's |
| `pc`: `get`, `create`, `replace` | the turns of the loop in `__enter__` |
| `pc`: `inside`, `release_get`, `release_put` | the `with` block; `__exit__` |
| `thread`, `wait`, `failed` | `renew_loop`, the time since its last write landed, `renewal_error` |
| `late` | the 15 s deadline of `__enter__` |

In the run a tick is 15 s: `LeaseDuration` is 8 ticks (120 s), `Interval` 2 (the 30 s of
`LEASE_RENEW_INTERVAL_SECONDS`). `Skew` is how far each host's clock is ahead. A write lands with a
`renewTime` that is up to `since` old (`WriteStamped`), at most `MaxFlight` ticks; when `Timely`
holds, a renewal lands before the last one is more than `MaxDelay` ticks, and a part of one, ago.
The run has `MaxFlight` 2, the 30 s after which `kubectl` is given up, and `MaxDelay` 3; with
`MaxDelay` 4 `HealthyExclusion` is violated. That is an assumption about `kubectl` and the scheduler, not
something the code enforces: its own timeouts, 30 s each for the write of an acquisition, the wait,
the read and the write of a renewal, add up to the 120 s of the lease and leave nothing for the
clocks. A write that lands after its caller has given it up is left out but for its immediate form
(`AcquireLost`, `RenewFail`); it passes the same test of the `resourceVersion`.
`AcquireLost` is a `create` or `replace` applied without an answer; `RenewFail`
includes a replace that was applied and reported as failed.

### Maintenance

| Model | Code |
|---|---|
| `holder`, `live`, `lost` | the lock of `begin`; `renewal_error` |
| `view[m][i]` | what member `m` answers for silence `i`: ticks left, 0 expired, `Gone` a 404 |
| `scope[i]` | the scope in the silence's comment |
| `posted` | open notices of the status page |
| `file[f]` | a state file: `silenceId`, `noticeId`, `endsAt`, `alertmanagerEndedAt` |
| `mine[p]` | the state a running command has built or loaded |
| `pc`: `notice` ... `unpost` | `coordinated_begin` and `begin`, with their two cleanups |
| `pc`: `r_...` | `coordinated_renew` and `renew` |
| `pc`: `e_...`, `p_save` | `coordinated_end` and `coordinated_repair`, which share their end |
| `fate`, `unlocked`, `leaked` | history only: how a silence was lost, which were created without the lock, which notices were lost |

Every call that another actor can come between is a step. Every call may fail or be
applied without its answer arriving; `Crash` kills a command anywhere. Writes go to
`Primary`; `Gossip` brings them to the others whenever it likes; `Collect` is the
retention of expired silences. `Unrelated` is the relation the scopes declare
(`other.namespaces` within `scope.unrelatedNamespaces`), and need not be symmetric.

Abstractions: the reads of all members within one verification are one step (each
member's answer is still of any age, through gossip); `clear_state` compares and unlinks
in one step; an alert that refuses a command
is a free choice at the steps where the code asks; the file lock used in tests is not
modelled; the state file is written atomically (`os.replace`) and is never corrupt.
What Alertmanager does with a `POST` for an expired silence (a new silence under a new
identifier) and with a `DELETE` for one (an error) is taken from its API.

### SabWanGuard

| Model | Code |
|---|---|
| `wan` | what `classify_wan` would answer now |
| `queue` | SABnzbd's queue, and who paused it (nobody in the code can see that) |
| `disk`, `journal` | the journal on the volume, `Journal.state` |
| `seen` | the local variables `wan` and `paused` of `tick` |
| `since`, `poll`, `elapsed` | `now - primary_since`, `now - last_poll`, time since the tick began |
| `calm`, `doubt`, `credit`, `raced` | history only |

A tick of the model is 30 s: `Hold` is 120 s, `MaxGap` 60 s, and the period of 25 s is
rounded up to one tick. `Save` may fail with either value on the disk, and then ends the
process, as `SystemExit` does. `Send` may be applied, applied without an answer, or
refused. `Recover` is the operator's procedure in the guard's README. `Tick` may come between
any two steps, so that a poll or a call may take any time.

### FastUpdate

| Model | Code |
|---|---|
| `pc`, `head`, `rev`, `due` | the position in `main`; `candidate.pr.head.sha`; `result.sha`; the deadline of `verifyRollout` |
| `seen` | what a round of `verifyRollout` has observed of the source and the Kustomization |
| `left` | what the window has left, for the helper and for the alerts |
| `request`, `late` | the merge request under way; one whose caller has gone |
| `pull`, `green`, `main` | the pull request, the heads with successful checks, the history of `main` as the pin at each revision |
| `flux`, `spec`, `pods` | revision fetched and applied; the HelmRelease; the Deployment |
| `landed` | history only: the merged head |

A commit is the pin it leaves at the target: another revision that keeps the pin is a
descendant that contains the change, one that changes it is not. Two heads of three are
unfit (one changes several files, one other content). `Begin` may be killed with a window
left behind; every call may fail; `Stall` lets a run be stopped between the status it
read and the merge for as long as it likes, at the cost of a fault. `RoundLimit` is not
constrained: the timeouts of the calls of one round add up to about 250 s, and the run lets
a round outlast what the ten minutes leave for it.

### NativeFence

| Model | Code |
|---|---|
| `sup` | the position of PID 1 in `supervise` and its `cleanup` |
| `java` | the process group: dead, running, told to stop, stopped |
| `request`, `active`, `pending`, `child` | the files of `/runtime-escrow`, each holding a token |
| `lock`, `at`, `tok` | the `flock` of `acquire`; the command a client runs; the token it was given |
| `left` | ticks to a token's deadline, on both clocks |
| `promise`, `wrote`, `clean`, `overtaken` | history only |

Every file operation is a step, and the four reads of a check are four steps.
`Terminated` is a SIGTERM after the trap is set, `Killed` the end of the container at any
moment (with the commands running in it), `Lost` the end of one `acquire` alone. `overtaken`
records that a `release` held up between its comparison and its `rm` removed the
request of somebody else: the code does not exclude it, and two properties except it.

### StartupHold

| Model | Code |
|---|---|
| `pid1`, `start` | the position of `start`; what `identity` and the nonce tell apart |
| `due`, `end` | ticks to `deadline` on the wall clock, to `monotonic_end` |
| `marker` | `active.json` |
| `stage`, `got`, `reply` | `read_marker` of a `status`, `evidence` or `check` under way |
| `known`, `first` | the evidence a client holds; that of a drill's first holder |
| `at`, `outcome`, `containers` | a drill: its step, how it ended, what it has on the host |
| `promise`, `wrote`, `clean`, `reviewed`, `revived` | history only |

`Clients` has one capture, and each of the three drills with and without a replacement of
the holder. `StepClock` moves the wall clock against the monotonic one by a tick, at most
`MaxSteps` times and not while a client relies on a check. `revived` records that a step
put a deadline ahead again that had passed: the holder may have seen it pass, and then
leaves although a check still finds a marker with time left (`kopiur-startup-hold.py:108`
asks the clock, `:111` removes the marker). The code does not exclude this, and
`PromiseKept` and `Undisturbed` except it. `Rollout` sets another deadline, as a reviewed
manifest does.

### CaptureBundle

| Model | Code |
|---|---|
| `Program(app)` | the hook as a sequence of steps; those from `finally` on always run |
| `live` | version of each part of the source: database, blobs, packs, schema, ... |
| `current`, `previous`, `pending`, `litter` | the generations; the staging of a live process; that of a dead one |
| `parts`, `seal`, `at` | the files of a bundle, its checksums or receipt, the moment it should be of |
| `complete`, `retained` | Stash's `COMPLETE`; Home Assistant's `homeassistant.tar.pending` |
| `lock`, `remote` | the `flock`; the PIT, native snapshot or generated backup a process has open |
| `open`, `unclosed` | how many PITs or native snapshots the server keeps; history: how many runs could not close theirs |
| `Accepts` | `restore.py` and the `original-native.py` programs over two equal snapshots |

`Fail` raises at any step (and goes on at the finally block), `Kill` ends the process
anywhere; both may leave the step half done (`Halfway`). A removal or a copy that is half
done leaves a directory that is not whole. A request to open or to close something at the
server may be carried out or not when its answer is lost (`Unheard`). That a PIT expires by
itself is left out, which only makes fewer of them open; a backup generated by Home Assistant
belongs to its own retention and is not counted.

`Start` lets a hook without a lock (TubeArchivist, Home Assistant) begin only when no other
runs. `concurrencyPolicy: Forbid` sees to that for the schedule; a `Snapshot` created by hand
meanwhile is not covered by it, and what is shown of these two hooks (`AcceptedIsOneMoment`
and `Alone` rely on it) assumes that nobody does so.

### DockerDrill

| Model | Code |
|---|---|
| `Program` | a script as blocks of commands, each with the block an exception goes on at |
| `containers`, `volumes`, `repos` | what is on the host and in the backends |
| `listed`, `todo` | the lists a cleanup goes by; what a sweep has still to do |
| `raised`, `failures` | the exception under way; the failures a cleanup has noted |
| `expired` | the deadline of the request or of the cleanup is over |
| `busy`, `stray` | a capture that goes on without its `docker exec`; volumes held by a `docker run --rm` without its client |
| `restored` | the version each backend gave back |
| `hindered`, `orphans` | history only: a cleanup met a fault itself or never ran; volumes created without being listed |

Every command may fail, or fail after it was carried out; `Expire` is the deadline. SIGTERM is an
exception where the script has set a handler (`Interrupt`) and its end where it has not
(`Terminate`): `kopiur-grimmory-fence-native.py` sets none, `kopiur-identity-transport.py` only in
`serve_main`, when the tools volume is there already. What a restored database, file tree or API must contain is a version: 1 is
what the request expects. A loop of equal commands is one of them. How the commands of one body follow one another
matters to the properties by what they create, mount, boot, remove and verify; the rest of these
sequences carries no property of its own. At this commit `APPS = {"grimmory"}`
(`kopiur-identity-transport.py:26`), so that of the programs of the identity transport only
`grimmory` can be reached; `pds` and `original` are modelled as the scripts have them. The definitions of the
specification carry the prefix `Drill` (`DrillSpec`), since its proofs stand in one module
with those of the guard.

### QueuePrecheck

| Model | Code |
|---|---|
| `status`, `checks`, `head`, `core`, `graphql` | GitHub |
| `pc` | the next call of `main`, in its order (`Calls`) |
| `listed`, `length` | the identifiers of the recent runs read so far, and how many items they came in: fewer than the items if one came twice |
| `counted` | the identifiers found active |
| `valid`, `complete`, `identified` | `..._snapshots_valid`, `..._complete`, the identity of the required checks |
| `throughout`, `backward`, `green`, `others` | history only |

The limits are scaled down (a page of 1, a limit of 3 for the recent and of 2 for the older
runs), so that a run created between two pages shows one twice. A list of runs is a set
of numbers with the newest first (`Place`). A run takes any status after any other
(`RunMoves`). Mostly that is the next one of `Lifecycle`, the order in which the code asks; but
a later job may wait for a runner or an approval, which takes a run in progress back to
`queued` or `waiting`. `backward` records the runs for which that happened during the inventory.

## Runs

Twelve runs; the bounds are in the `.cfg` of the same name.

| Run | Shows | Bounds |
|---|---|---|
| `lease_timely` | with clocks one tick apart, writes that land within two ticks of their `renewTime` and renewals that land in time, two invocations are never healthy inside at once; abandoned leases run out | 2 invocations, the real duration, interval and `kubectl` timeout; an invocation starts again any number of times |
| `maint_contended` | windows do not overlap, admissions hold at the `PUT`, the lock is used as it should | 2 invocations, 2 members, 2 silences, one of the two also renews |
| `maint_solo` | no silence or notice is lost unaccounted for; state is given up only when its window is over everywhere; stray silences run out | 1 invocation, all subcommands, 2 members, 2 silences, 1 notice, windows of 1 or 2 ticks |
| `maint_stuck` | an operator who keeps trying is never stuck | 1 invocation, all subcommands, 2 members |
| `guard` | nothing in doubt, one resume for one confirmed pause, only in calm, and no ownership of what was seen paused; the guard does pause, and does release | the code's constants |
| `fast_update` | what lands was vetted; the rounds of a verification are under the window and its verdict is true of the cluster; no pull request stays ready for ever | 3 heads, 1 other commit, 2 faults, a window of 6 ticks with 5 asked for at the merge, rounds of up to 3 |
| `fence` | a promise of a check is kept, to one client at a time, across its four reads; the application runs again | 2 clients, 3 requests of 2 ticks, 2 kills, 1 wait that times out |
| `startup` | a promise of a check is kept on both clocks, old evidence is never good again, the deadline holds across restarts; drills do not accuse wrongly; the application runs again | the capture and 6 drill variants, holds of 3 ticks, 2 steps of the clock, 2 kills, 2 rollouts, 1 Docker fault |
| `captures` | an accepted bundle is of one moment; one interruption costs no generation; what stays open is accounted for; repetition gets through | 5 applications, 2 processes, 2 faults, 1 write of the application |
| `drills` | a cleanup that runs leaves nothing; receipts are honest; originals boot offline; what is mounted exists | 6 drills, 3 faults |
| `precheck` | an allowed mutation counted what was there throughout, but for runs taken back, and keeps the reserve; candidates were green | 2 old and 2 recent runs, 2 heads, 2 changes of runs or 3 of pull requests, 1 call of others |
| `capture_lost` | the finding below | openviking alone, 1 process, 2 kills |

Two members suffice where members can disagree: every rule of the code is "on all
members" or "on the first one". Two silences suffice because an overlap is between two,
and a renewal makes at most one new one before it ends; identifiers are reused once
nothing refers to them. Time left is relative, so that no run stops at a last tick. Two
faults are what it takes to interrupt a run and then the run that follows it; in the
drills three are a failed body, a failed command of its cleanup and a deadline. Two
capture processes are the scheduled one and a manual one; two clients of the fence are
what an overlap is between; the requests are one more than they need, so that a token can
be stale. Three heads are a fit one and one of either unfit kind, in the order that lets a
push make the pull request unfit. The commits, steps, kills, rollouts and calls of others
are bounded because each is an unlimited choice of the environment.

Deadlock is checked, except where behaviours end (`drills`, `precheck`) or a bound of
the environment leaves nothing to do (`fast_update`, `fence`).

## Properties and what they say

* `HealthyExclusion`, `HealthyOwnsLease`: as long as `assert_healthy()` passes, the
  lease is in the caller's name, its `renewTime` no older than the flight of the last write and
  the time since, and so in force for everybody. The proof needs
  `CurrentReadsAreTrue` as well: a read that can still be used for a replace saw what is
  there, which is what `resourceVersion` is for, in acquisition, renewal and release.
* `LockUsed`: the windows use the lock as `BeginLock` allows.
* `NoOverlap`, `AdmissionHolds`: two active windows are compatible, because what
  `begin` saw under the lock still holds when it writes - unless the lock was lost in
  between, or a renewal came too late (`unlocked`).
* `Tracked`: what is active is in a state file or in somebody's hands,
  or was lost in one of five ways: an answer that did not come, a cleanup that failed,
  a release of the lock that timed out, a crash, a late renewal. `StraysEnd`: what was lost runs out.
* `ClearedWhenOver`: the state file goes last.
* `NeverStuck`: trying `end` and `repair` again and again clears the state file.
* `NoCommandInDoubt`, `ResumesOnce`, `ResumesInCalm`, `OwnsWhatItSaw`: the guard's
  promises, each across crashes, failed writes and lost answers.
* `BackupPauses`, `PrimaryReleases`: the guard acts when everything calms down.
* `MergedIsVetted`: pushes between the reads of `readyPull` cannot bring an unvetted
  head to `main`, because the merge names the head that was vetted. It holds also for
  merges that land after their run has given up.
* `CoveredRounds`: every round of the verification, the last one too, begins under the
  window, and is under it as long as it takes no more than what 30 s of merge and 8 minutes of
  verification leave of the ten minutes: 90 s (`Slack`). A last round that takes longer
  outlasts the window.
* `VerifiedStands`: although the observations of a round are of different moments, what
  they add up to is true at the end of the round, unless Flux has gone on.
* `ReadyIsMerged`: windows of killed helpers run out, and the lane gets through.
* `PromiseKept`, `Undisturbed` (both holds): a check that passes for some time means no
  writer for that time, and none since the evidence was taken. `Exclusive`: to one client only.
* `DeadlineHolds`: kills and restarts do not shorten a hold. `WriterReturns`: nothing
  makes it last for ever.
* `NoFalseAlarm`: the drills are right about the holder.
* `AcceptedIsOneMoment`: whatever moment the volume is snapshotted at, what the consumer
  accepts is whole and consistent. `NothingLeftOpen`: no more is left open than runs that
  were killed while they held something, could not close it, or never heard that they had opened it. `PriorKept`, `RetriesPublish`: as their comments say, with the exceptions named there.
* `NothingLeft`, `ReceiptHonest`, `BootsAlone`: what a drill may claim. `MountsExist`: no
  command mounts a volume that is not made yet or is gone again; Docker would make an
  empty one under that name, and the cleanup would not know of it.
* `ActiveCounted`, `QuotaReserve`, `CandidateGreen`: what the report
  of the precheck says of a GitHub that has moved on. `ActiveCounted` also says what it does
  not say: a run that was active throughout is missed only if it was taken back.

### Fairness

`Tick` is fair: time passes. An invocation that is not killed runs on (it is a plain
sequential program whose calls all have timeouts), which is weak fairness of its steps;
nobody has to start a command, and renewal threads may starve. `NeverStuck` assumes
more, and says so in `RetrySpec`: the operator tries again (strong fairness of `end`
and `repair`), a call that is tried for ever succeeds once, gossip arrives, and
retention runs. It is what the error messages of the command ask of its user. For the
guard, the container is restarted by Kubernetes and its loop runs (weak fairness of
`Step`); `BackupPauses` and `PrimaryReleases` speak of behaviours in which failures,
crashes, late polls, the user and the uplink finally rest (a tick makes at most five calls
with a timeout of 8 s, so that only a suspended process polls more than 60 s apart), since a call that fails at every poll
excuses the guard for ever.

`FastUpdate`: the CronJob starts the runner again and again and it runs on; GitHub
carries out a merge request it has and finishes checks; faults are bounded, so the
lane is judged by what it does once they are over. `NativeFence` and `StartupHold`: PID 1 runs on,
the kubelet restarts the container, a started command goes on; no client has to check
or release. `CaptureBundle`: the schedule starts its hook again and again and a started
hook goes on; no manual run and no write of the application has to happen.
`DockerDrill` and `QueuePrecheck` state no liveness: they end by themselves.

## Findings

* `capture_lost`: a killed openviking capture leaves its finished package in `pending-*`
  after the two older generations have been moved on, and the next run sweeps it. Two
  kills in the rotations of two runs in a row lose the last complete package, which
  `apps/tools/openviking/backup-native/capture.py:103` promises to keep ("Keep the prior
  complete capture."). One kill never does (`PriorKept`).

Divergences that the models contain and that no run is spent on:

* `begin` checks the lease only after it has written the silence
  (`scripts/cluster-maintenance:1034`). A process held up between its admission and its
  `PUT` for the 120 s of the lease writes next to the window of its successor;
  `scripts/tests/test-cluster-maintenance.py:795` promises exactly one active window. `NoOverlap`
  excepts such silences (`unlocked`).
* A `kubectl` that times out while the lock is released raises (`:754`, `:778`) after the
  window has been verified: `begin` fails without handing on the identifier, no state file is
  written and the silence stays. The test of a failed release
  (`test-cluster-maintenance.py:1247`) covers an answered error only.
* `renew` drops the identifier that `put_silence` returns (`:1124`). If the silence has expired
  since it was read, Alertmanager makes a new one, and the cleanup looks at the old one.
* The state file is checked before the lock is taken and replaced after it was released
  (`:1069`): two begins with unrelated scopes that share it overwrite one another's state.
* A pause by the user between the guard's read of the queue and its own pause becomes the
  guard's (`guard.py:194`), though its README says that a queue already paused is never
  owned. SABnzbd offers nothing to tell the two apart; `OwnsWhatItSaw` is what does hold.
* The lease of `begin` is 120 s from a `renewTime` taken before `kubectl` starts; the timeouts of the
  acquisition and of one renewal add up to as much (see `MaintenanceLease` above), so the exclusion
  of two healthy invocations rests on calls that are quicker than their timeouts.
* The ten minutes that `maintenanceActive` asks for (`fast-update-runner.cjs:283`) cover the merge and
  the beginning of every round. A last round whose calls all use up their timeouts ends about
  760 s after the status read: up to 160 s of it are without a window.
* A merge whose answer is lost leaves `merged` false, and the window is ended as unused
  (`fast-update-runner.cjs:424`) while the rollout runs.
* `release` of the Grimmory fence compares and then removes (`fence.sh:192`): held up in
  between it removes the request of the next holder.
* A PIT or native snapshot that was opened without its answer arriving (tubearchivist
  `capture.py:58`, before the `try`; victoria-metrics `capture-native.py:55`, where the name that
  `:87` asks for stays unset) is not closed: the PIT until its `keep_alive` ends, the snapshot for good.
* SIGTERM leaves the containers and volumes of `kopiur-grimmory-fence-native.py`, which has no
  handler, and the tools volume of `kopiur-identity-transport.py` until `serve_main` (`:227`) has set its.
* A run that was active all the time, but went back to an earlier status between two queries
  (`renovate-queue-precheck.py:191`), is not counted.
* A Home Assistant download cut off by a kill is validated, and rejected, by every later
  run (`capture.py:77`) and never removed. Killed VictoriaMetrics captures leave their
  `pending-<uuid>` for good (`capture-native.py:52`).
* The cleanup of `kopiur-bazarr-original.py` stops at a restorer that was never created
  (`:255`) and then leaves the tools volume; volumes created without an answer are left by
  `kopiur_pds_native.py:52`, `kopiur_pds_original.py` and `kopiur-identity-transport.py:296`.

## Theorems

TLAPS proves the following for every value of the constants that satisfies the
assumption of the module (any number of invocations, members, silences, scopes and
files; any duration, period, gap and hold time).

* **MaintenanceLease.** `TypeCorrect`; `ReadsTrue`. `Exclusion`: assuming
  `TimelyRenewals` (`Timely /\ MaxFlight + MaxDelay + 1 + MaxSkew < LeaseDuration`), at most one
  invocation is healthy. `HealthyExclusion` is not inductive: it needs that the healthy
  one's lease is in its name and its `renewTime` no older than a flight and what its thread has
  waited (`HealthyOwnsLease`, theorem `Ownership`), so that it is active for every clock (`HolderIsSafe`), and that
  a usable read tells the truth (`CurrentReadsAreTrue`), so that nobody else can replace
  it (`OnlyHolderWrites`). `Refinement`: assuming `MaxSkew = 0` and nothing else, every step is a
  step of `BeginLock` or leaves the lock alone; `BeginLock` lets an acquisition land with a lease
  that has run out already, and so does `Maintenance`, which rests on it.
* **Maintenance.** `TypeCorrect`, which needs that whoever is past its `PUT` has a
  silence in hand (`InHand`). `Overlap` and `Admission`, together as `Disjoint`: the
  windows that count are the active ones created under the lock; all steps but the
  admission, the `PUT` and the takeover of the lock leave fewer of them (`Fewer`) and
  let nobody reach its `PUT` with the lock (`NoneAtPut`), and so keep both;
  `AdmissionHolds` is exactly what the `PUT` needs. `LockRefinement`. `NothingLost` and
  `ClearedLast`, assuming `OwnFiles`: no two invocations use the same state file, as the
  command demands (`:1516`) and the fast-update runner sees to; without it the hazard at
  `:1069` applies. Neither follows by itself: `Kept` adds what a command holds at
  each of its steps (nothing before its `PUT` and after its cleanup; a copy of its state
  file in `renew`, `end` and `repair`), what its flags say of the silence it holds, and
  that from `e_save` on that silence is over on every member.
* **SabWanGuard.** `TypeCorrect`; `ResumeTheorem`, `DoubtTheorem`, `CalmTheorem`,
  `OwnerTheorem`, from one inductive invariant `Guarded`: journal, disk and place agree
  (`Agree`); ownership stands for a confirmed pause (`Earned`); doubt is on record
  (`Recorded`); a queue found running is the user's only if he acted (`Found`); the
  timer never exceeds the calm time (`Covered`).

* **FastUpdate.** `TypeCorrect`. `VettedTheorem`: a merge under way, also one whose run has
  given up, names a head that was fit and green, and so does every head the run still works
  with (`VetInv`). `CoverTheorem`: at each step of the run up to the beginning of a round
  the window has left what the limits of merge and verification can still use (`CoverInv`);
  `CoverAssumption`, that the ten minutes are more than these two, is all it needs: nothing is
  assumed of how long a round takes. `StandsTheorem`:
  each observation of a round still says something about the present, as long as Flux
  has applied nothing since (`StandsInv`).
* **QueuePrecheck.** `TypeCorrect`. `GreenTheorem`: a candidate was in `green`. `ReserveTheorem`:
  after the sample only others use the quota. `CountTheorem`, however the
  runs move: a run that was active throughout is counted, or was taken back, or is still to come
  in a page or a status that is queried later, or the inventory is already known to be
  incomplete - for any number of runs, page size and limits.
* **StartupHold.** `TypeCorrect`, `PromiseTheorem`, `EvidenceTheorem`, `DeadlineTheorem`, assuming `Plenty` (a
  start can be told from any six others: a random nonce). `HoldInv`: while PID 1 waits,
  the marker of its start carries the end it waits for, an answer in preparation is no better than the
  marker was, and a promise ends before the hold does; the evidence a client knows is of a
  start that has not run the writer. The invariant speaks of the capture; the drills do
  not touch what it is about. `AlarmTheorem` is about them, assuming besides that the clients
  are the modelled ones and that `Minimums` is not empty: `DrillInv` says for each step
  of a drill which start it holds the evidence of, what the marker and the deadlines are as
  long as no Docker operation failed, and what the answer under way can still turn out to be.
* **NativeFence.** `TypeCorrect`. `PromiseTheorem`, `ExclusionTheorem`, `EvidenceTheorem`, from `FenceInv`. The
  difficulty is that `acquire` and the supervisor write through the same pending file:
  `FileInv` says what it can hold at each step of PID 1, and that whatever activates a stale
  token finds that the request is another. `GrantInv`: a granted token is never requested
  or activated a second time, and an active one has not seen the writer. `LiveInv`: a
  granted token that has not expired is still the request, the supervisor holds it or is gone,
  and no other acquire is past its examination.

* **CaptureBundle.** `HooksApart`, `OneMoment`, `PriorTheorem`, `OpenTheorem`, for any number of
  hook processes, faults and writes of the application, assuming `Apart` (`None` is not a
  process, a bundle, a reading or a download). `Alone`: the flock, or the schedule
  of the hooks without one, keeps the bodies apart, so that a process that takes its lock
  or ends does not touch what another one stages. `WorkInv` says for each of the five
  hooks what it has done at each of its steps: for Stash that the inventories
  before and after enclose the database backup, so that when they agree every part is of its
  moment; for TubeArchivist the same of the schema around the PIT. `KeepInv`
  locates the whole bundle through the two renames, without a fault and after one; `OpenInv`
  names the steps at which a process may have something open, and keeps the account of `open`
  against what the running process holds and what earlier ones could not close. Versions only grow, which is what makes
  "seen before, seen again, equal" mean "unchanged"; a source that went back to
  earlier contents unseen is outside of the model.

* **DockerDrill.** `NothingLeftTheorem`, `ReceiptHonestTheorem`, `BootsAloneTheorem`,
  `MountsExistTheorem`, `DrillTypeTheorem`, for any of the six scripts and any number of
  faults, assuming that `NoSweep` is not a list of names. A SIGTERM without a handler
  (`Terminated`) leaves everything where it is and ends all promises. The programs are concatenated lists of up to a hundred commands, so nothing is
  said of a single position. Instead each part of a program is shown to have what is closed
  under concatenation (`Piece`: an online container is removed before anything boots and
  the other way round; a capture follows the start of its mover; `Checked`, `Restores`:
  what a part verifies; `Has`: with these volumes at its start a part mounts only what is
  there, and leaves those at its end), and each block gets a role (`Roles`: set-up, body, cleanup of the
  movers, cleanup, receipt, last) with the shape and the successors of that role
  (`Shapes`). The inductive invariant `TidyInv` then speaks of roles. `ListInv`:
  whatever is on the host is in its ledger, or is an orphan, so that a cleanup can know
  it. `FaultInv`: until a body is left nothing has failed, so that a fault is behind the
  process or its exception is under way. `CaptureInv`: only movers capture, and the one
  started last is there when it does. `SweptInv` is the core: a cleanup that has met no
  fault of its own has emptied every ledger whose sweep is behind it (`Behind`, `Empty`);
  a sweep still has in `todo` all that remains of its ledger (`Remaining`); from the purge
  of a backend on it holds no fixture, because no capture is running any more - which is
  why the movers are swept before the fixtures are purged. `PointInv`: what the commands of
  the body so far have verified is known of `restored` (`Known`). `NetInv`: what is online
  or booted was started by a command of the body so far and not yet removed (`OpenBy`),
  which with the shape of the program gives `BootsAlone`; for bazarr, whose cleanup
  stops at the first name it cannot remove, also that its ledger holds one name at a
  time (`OneBy`). `MountInv`: in a body there are the volumes its commands so far have made
  and not removed (`HasAt`), which with `Has` covers what the body mounts; the tools volume is
  there from the set-up through the cleanup of the movers, whose own container mounts it; and
  a volume goes only when nothing holds it (`VolumeGoes`). `BoundInv` counts the faults
  and knows what an orphan can be.

Only model-checked: the liveness properties (`LeaseRunsOut`, `StraysEnd`, `NeverStuck`,
`BackupPauses`, `PrimaryReleases`, `ReadyIsMerged`, `WriterReturns`, `RetriesPublish`), which
are beyond the prover. Every invariant and every action property that a run checks is
proved. `CurrentReadsAreTrue` and the type invariants are proved and in no run; of
`CaptureBundle`'s the bound on the versions is not proved, only that they are numbers
(`Types`): it counts the writes by a sum over the parts of an application, which would
need induction over data.

## Not modelled

`PROJECT.json` gives the status of every component.

* *Alert admission rules*: pure predicates over label sets; `Maintenance` takes their
  verdict as a choice of the environment.
* *The quiescence lease of the recurring captures and the shell and JavaScript hooks*:
  each is its own variation of the fence or of the rotation, and what is shown for
  `fence.sh` and the Python hooks is not claimed for them.
* *radarr's `kopiur-quiesce.sh`, the shell variant of the startup hold*: the latter goes through
  the same steps with whole seconds.
* *Mosquitto provisioning, `pr-deliver`, `reconcile-app`, `talos-check-gate`, application
  provisioning*: one sequential pass each, repeated or given up as a whole.
* *The native proofs and `kopiur-postgres-drill`*: what a restored database must contain
  is data; their ownership of containers is that of the drills.
* *Repository checks and generators*: files in, verdict out.
* *Manifests*: interpreted by controllers that are not in this repository.

The formatting of messages, TLS and port forwarding are left out everywhere.
