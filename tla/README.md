# elanprint-rs: TLA+ models and proofs

elanprint-rs drives an ELAN match-on-chip fingerprint sensor (04f3:0c90) over
USB and offers it to the desktop as `net.reactivated.Fprint`, the D-Bus
interface of fprintd. The sensor keeps the templates and compares touches; the
host keeps a mapping file that says which slot belongs to whose finger. This
directory models the parts of the code in which order matters, checks them with
TLC, and proves their safety properties with TLAPS.

Paths below are relative to `crates/` of the repository.

## 1. The system

| part | crate | state | operations | talks to |
|---|---|---|---|---|
| sensor | external | templates per slot, "armed" bit of the session, answers on the status endpoint | `fw_ver`, `enrolled_num`, `finger_info`, `check_collision`, `commit`, `delete`, touch-waits, `abort` | USB |
| transport | `elanprint-usb` | open handle | `open`, `send`, `recv`, `cmd` | sensor |
| wire protocol | `elanprint-proto` | enrolment machine | encode, parse, `Enroll::step` | none |
| mapping file | `elanprint-store` | `(user, finger) -> slot` | `insert`, `remove`, `writable_slots`, `reconcile`, `save` | disk |
| worker | `elanprintd/worker.rs` | handle, `armed`, claim, store; `OpState` (busy, claimed user); `OpSink` | `claim`, `release`, `suspend`, `resume`, `list`, `delete_finger`, `verify`, `enroll` | transport, store |
| D-Bus front | `elanprintd/main.rs`, `access.rs` | worker mutex, `op_cancel` | the methods and properties of `Device`, who may act, sleep listener, SIGTERM | worker, clients, NSS |
| desktop client | `elanprint-login/client.rs` | tasks, their channels and tokens | login, enrol, delete, list, connect | D-Bus front |
| window | `elanprint-login/app.rs` | mode, screen, list of fingers, which tasks it follows | clicks, `poll` | desktop client's tasks, keyring tab |
| retry policy | `elanprint-algo` | `VerifySession` | `begin`, `step` | desktop client |
| keyring setup | `elanprint-keyring-setup` | sealed blob, its predecessor, recovery file, PAM stacks | enable, rotate, roll back, wire, disable, forget, show | TPM, PAM, gnome-keyring |
| keyring tab | `elanprint-login/keyring_tab.rs` | stage, cached report, job | a button for each command | keyring setup |
| PAM module | `pam-elanprint-keyring` | helper process, two reader threads | `pam_sm_authenticate` | `systemd-creds`, libpam |
| tool | `elanprint-cli` | none of its own | reads, enroll, wipe-device, sync, abort | transport, store |

How they interact. Clients call the D-Bus front. A zbus method with `&mut self`
holds the interface's write lock from start to return, so one call is served at
a time and property getters wait for it. A call that needs the sensor takes the
worker's mutex; a verification or an enrolment is a task of its own that takes
it later, while its call has long returned. Three small shared cells go round
the mutex on purpose: the busy flag, the claimed user (`OpState`), and the
cancellation token of the running operation (`op_cancel`). The worker talks to
the sensor in exchanges of one command and one answer, and to the mapping file
by opening and saving it whole. Operations answer by signals, sent from a
forwarding task. The desktop client is one such client with several tasks; the
command line tool bypasses the daemon and opens the sensor itself. The keyring
part is separate: it reaches the others only in that a fingerprint login gives
gnome-keyring no password, so a sealed key is handed to it instead, by a PAM
module that runs a helper process under a time limit. The tab and the tool run
the same commands; neither hears of the other.

What is hard here: an answer nobody has read stays on the endpoint and is taken
for the answer to a later command; the sensor cannot say which slots are taken,
only how many; cancellation, replugging and a crash can come between a command
and its answer; flag, token and mutex are given up in three steps; the claim is
checked before, and used after, an await; a setup of the keyring is a dozen
fallible steps on four stores that must agree at login. PROJECT.json lists each
hazard at its line.

What makes each part correct:

- mapping file and worker: the slot a finger is mapped to holds that finger's
  template or none, with the one exception of finding 12; nothing is erased but on request; a match names the finger
  that touched; each operation ends once, and gives back flag and mutex;
- D-Bus front: an operation acts only for the user its caller was let in for;
  nobody waits for ever;
- desktop client: the sensor is free when its tasks have ended; a task that
  waits for the end of its operation has not missed it;
- window: what it shows is what goes on, it opens only on a match its own login
  has heard, and the list of fingers is the daemon's;
- keyring: the key the keyring is on is never lost; what is said at the end is
  so; the tab offers nothing on an old report;
- PAM module: the whole secret or nothing, always an answer, nothing left behind;
- tool: it commits, prunes and reports only on answers to its own commands.

## 2. Modules

| module | models | builds on |
|---|---|---|
| `Store` | the mapping file as a function, and the store crate's operators | |
| `StoreProofs` | theorems about the operators of `Store` | `Store` |
| `Registry` | abstract specification: prints are listed, live, reported | |
| `Worker` | `worker.rs` with transport, enrolment machine, file and sensor | `Store`, refines `Registry` |
| `WorkerProofs` | theorems about `Worker` | `Worker`, `StoreProofs` |
| `Daemon` | `main.rs`: calls, tasks, flag, token, locks, sleep, shutdown | |
| `DaemonProofs` | theorems about `Daemon` | `Daemon` |
| `Desktop` | `client.rs` and `app.rs` as clients of the daemon | `Daemon` |
| `DesktopProofs` | theorems about `Desktop`, which refines `Daemon` | `Desktop`, `DaemonProofs` |
| `Session` | `elanprint-algo` as operators: status bytes, policy, `step_status` | |
| `Window` | `app.rs`, with `client.rs` seen from the window | `Session` |
| `WindowProofs` | theorems about `Window` and `Session` | `Window` |
| `Keyring` | the sessions of the keyring setup, and what they mean at login | |
| `KeyringTab` | the tab that runs them, and the tool that runs them too | `Keyring` |
| `KeyringProofs` | theorems about `Keyring` and `KeyringTab` | `KeyringTab` |
| `Unseal` | abstract specification: one answer, whole or none | |
| `PamModule` | the PAM module, its helper, pipes, threads and time limits | refines `Unseal` |
| `PamProofs` | theorems about `PamModule` | `PamModule` |
| `Cli` | sessions of the command line tool, `reconcile` | `Store` |
| `CliProofs` | theorems about `Cli` | `Cli`, `StoreProofs` |
| `MC*` | what TLC needs: symmetry sets, tables of uids; `MCWindow` the reference for `Session` | their module |

`Worker` and `Daemon` split the daemon at the mutex: `Worker` has every step
under it and the two cells its callers share (busy flag, token); `Daemon` has
every step around it and keeps only the claim of what goes on under it.
`Desktop` and `Window` split the client at the channel: `Desktop` has each
task's calls to the daemon and one followed task, `Window` has everything the
window follows and only whether a task's calls succeed.

### Store and Registry

`prints` is a total function from (user, finger) to a slot or `NoSlot`.
`Writable(count, prints)` is `writable_slots`: ids at or above the device's count
that nobody is mapped to. `Registry` is what the worker promises about prints:
an enrolment makes a print listed and live in one step; an erase ends its life
and may leave it listed; only a live print is ever reported as a match.

### Worker

An exchange is two steps: `Send`, on which the sensor acts and puts its answer
on the endpoint, and a `Read…` action, which takes the *oldest* unread answer
(`Incoming`) and decides where the call goes on. Every label of `pc` is one
exchange or one step without USB; `op`, `user`, `finger`, `slot`, `got` are the
locals of the call that holds the mutex.

| action | code |
|---|---|
| `BeginClaim`, `OpenHandle`, `ReadFirmware`, `ReadArm` | `claim`, `read_firmware`, `send_arm` |
| `TryBegin`, `StartVerify`, `StartEnroll`, `Close` | `OpState::try_begin`, the operation's task, `OpSink::close`, `OpToken::drop` |
| `Lookup`, `MatchAnswer`, `OtherAnswer` | `verify_inner` |
| `ReadInfo`, `TryNext` | `free_slot` |
| `SampleAnswer`, `ReadCollide`, `ReadCommit`, `Record` | `Enroll::step`, `record` |
| `BeginDelete`, `ReadErase`, `Forget` | `delete_finger` |
| `TimeOut`, `StopOnCancel`, `Disconnected`, `NoHandle` | `round`, `usb` and the `?` of their callers |
| `Abort`, `Release`, `Suspend`, `Resume` | `abort_session` and its callers |
| `Cancel`, `Replug`, `Crash` | the token; the cable; a killed daemon |

`Reads` also keeps the tail of an answer that was read in part: a 70 byte record
taken from the 64 byte packets of the status endpoint for an answer of two or
three bytes leaves six bytes behind, which are the next answer. Whether byte 1
of a record, and of its tail, is zero is not known to the code, so `RecordCodes`
is any set of numbers. A record with a zero there passes for a clear collision
check; `misread` is history and says that the enrolment under way has taken one,
`doubtful` has the prints that were last recorded by such an enrolment.

A replug and a crash may come between any two steps. After a crash the sensor
and its unread answers are as they were.

### Daemon

One call per client at a time (`pc`), the interface's write lock (`iface`), the
queue for the worker's mutex (`line`, first come first served), flag, token and
operation. The points where a call can be overtaken are the awaits of the code:
the uid lookup between `guard` and its use, the lock of `op_cancel` between
`try_begin` and the spawn, the wait for the worker, and the end of a task, which
gives up flag and worker first and clears `op_cancel` later (`OpEnds`, `End`). The
sleep listener and the main task empty `op_cancel` in one step (`SleepSignal`,
`Terminate`) and queue for the worker in a later one (`SleepAsks`, `MainAsks`),
so an operation may begin, or store its token, between the two.
`LookupUid` is `lookup_uid`: the account's uid, or none, for a backend that is
slow or an unknown name; `MayAct` is `may_act`. An operation carries the client
that asked for it (`by`), so that `ActsForGuardedUser` can compare the two uids
at the moment the operation acts. The same property is about a claim or a delete
that has passed its guard and waits for the worker: the user it names is still
one its caller may act for, and a delete's is still the one who has the claim.

### Desktop

The clients of `Daemon` become the tasks of the window. A task claims, listens,
starts, waits for a terminal status, stops and releases, one D-Bus call at a
time; each call is served by the unchanged actions of `Daemon`. The window
follows one task (`shown`) and forgets it on cancel or answer while the task
still winds up, so tasks overlap. A terminal status is sent after the operation
may have ended and reaches every listener of its kind.

### Session and Window

`Step` is `step_status`; statuses are what D-Bus may carry, a string nobody
knows included. `MCWindow` compares `Step` over all sequences of up to four
statuses with a definition by the first status that ends the session, and
`VerifyStatus` with what a byte may become, over all 256.

| action | code |
|---|---|
| `SwitchMode`, `StartLogin`, `CancelLogin`, `StartEnroll`, `CancelEnroll`, `RequestDelete`, `Connect` | the buttons of `controls` and its callees, with what greys them out |
| `Poll` | `poll`: `poll_enroll`, `poll_list_pending`, the connection, the login's events, each channel emptied |
| `Connects`, `Lists`, `Deletes` | the threads, whose answers wait in `connecting` and in `list` |
| `SetUp`, `Hear`, `HearEnroll`, `Quit`, `StreamEnds`, `StopAndRelease` | `verify`, `enroll`, `drive`, `drive_enroll`, `apply` |
| `Send` | a `send` on the bounded channel: waits while it is full, returns when nobody follows |

`at` is a task's place, `rest` what it has yet to send before it is there.
`matched`, `cut` and `missed` are history: the followed login has heard a
terminal match; the bus has ended a login without an answer; a print was
recorded that the window has not been told of.

### Keyring

One session at a time, of one step after the other, each of which may fail
(`End("failed")`) or be preceded by a kill. `sealed`, `prev`, `recovery` are the
three files, `keyring` the password gnome-keyring's file is on. A copy or a
write that fails may have emptied its file. `Authtok` is what the PAM module
leaves in PAM_AUTHTOK, `Opens` whether the login then opens the keyring.

### KeyringTab

`stage` is the tab's; `"working"` is a job, `"rekeying"` the re-key, which the
code shows as the same stage. A job takes the steps of `Keyring`; `PollJob` and
`PollRekey` turn its end into a stage and look at the machine again (`seen`), as
`poll` does, or do not. While the tab holds no session, the tool may run any
(`Tool`), and `stale` says that it has. `by` is who runs the session: the tab,
the tool, or a helper that pkexec has started for a window which was closed
meanwhile (`Reopen` with `Orphaned`): root's part of that job goes on, nobody
gets its answer, and what it does counts as the tool's for `stale`. The tool's
rotation says that the old key was restored whatever its rollback came to
(`NotRestored`), the tab's does not.

### PamModule

`mod` is the place of the thread that libpam called, in the order of `run` and
`reap`. Both `recv_timeout` and the grace period may end at any moment, whether
or not the answer is there. The helper is free: it writes to either pipe, closes
its stdout early, exits in any way or never; a write to a pipe whose reader is
gone ends it. Writes and reads are counted in chunks.

### Cli

`session` with its abort on error, and each command as its sequence of
exchanges, in the sensor model of `Worker`. Ctrl-C sets the token at any step;
the process may be killed at any step. `dirty` is a history variable: the
session began with an unread answer on the endpoint. A record is 70 bytes, with
its byte 1 (`RecordCodes`) and its byte 69, and may be read in part as in
`Worker`; `Drains` is the read before a commit's answer that empties the
endpoint. `Ask`, the prompt of `wipe-device`, is the human's step and not the
tool's.

## 3. Runs

All bounds are constants of the `.cfg` files. `E` is for a run that finds no error, `V` for a
violation that is one of the findings in section 6.

| run | | shows |
|---|---|---|
| `worker` | E | `Ownership`, `MatchIsGenuine`, `ArmedTouchWait`, `CommitAboveCount`, `OneTerminal`, `ErasesAsAsked`, the inductive `IInv`, and the refinement of `Registry` |
| `worker_liveness` | E | a cancelled operation drops the flag; claim, delete and cancelled operation give back the mutex |
| `daemon` | E | `ActsForGuardedUser`, `BusyWhileOp`; calls return, an operation reaches the worker, suspend and exit come through |
| `daemon_stop` | V | a stop may find the token cleared by the task before |
| `keyring` | E | `RotationKeepsKey`, `EndsInStep`, `WiredAfterSeal`, `KeyedAfterSave`, `TabTellsTheTruth`, the inductive `TabIInv` |
| `keyring_rotation`, `keyring_unconfirmed` | V | a failed rotation; a setup given up at the code |
| `desktop` | E | `SensorIsReleased`, `DrivesToTheEnd`, no deadlock of client and daemon, the inductive `AppIInv`, of which the `IInv` of `Daemon` is a part |
| `window` | E | `ScreenTellsTheTruth`, `ListIsCurrent`, `NobodyDrivesAlone`, the inductive `IInv`; the retry policy against its reference |
| `pam` | E | the inductive `IInv`, `WholeOrNothing`, `Reaped`, `PipesDrained`, `ReadersEnd`, and the refinement of `Unseal` |
| `cli` | E | `CommitCleared`, `PrunesProven`, `WipeIsTold`, the inductive `IInv`, `InterruptEnds`, no deadlock |
| `cli_interrupt` | V | a session ended by Ctrl-C sends no abort |

Why the bounds suffice.

- `worker`: two users with one finger each on a sensor of two slots. Two users
  are what a foreign template needs; two prints fill the device, and an orphan
  beside a tracked slot leaves no candidate. Byte 1 of a record is 0, 1 or 255:
  the value that passes for success, one that stands for every other, and the
  one that says stuck. Two samples are the first number at which a sample is not
  first and last at once. The proofs are for every number.
- `worker_liveness`: one print, since nothing in the waiting depends on which;
  the other users' calls are those of the same one; byte 1 is 0 or 255.
- `daemon`: root and one account's client, two accounts: the smallest instance
  with a caller who may not act for both. Both claim, release, start and stop;
  the other methods are shared out (`SomeCalls`). One ended task at a time
  (`MaxEnders`) and one print; `daemon_stop` has two ended tasks, so that a
  task's late cleanup can hit the operation after next.
- `keyring`: six keys. A fresh key is unlike the five values it is compared with
  (`Fresh`), so a sixth is always there; keys are symmetric.
- `window`: two tasks, a cancelled one beside its successor; two fingers, so that
  a list can be wrong about one and right about the other; channels of one
  event, so that they fill. Tasks and fingers are symmetric.
- `pam`: a secret of two chunks through a pipe of one, so that a part of it can
  be read and the pipe fills; stderr up to twice its cap.
- `desktop`: two tasks, enough for a cancelled one and its successor. Tasks are
  symmetric.
- `cli`: one user, two fingers, two slots, two samples: an entry whose template
  is there beside one that is gone, an orphan, and an endpoint that starts a
  session clean or not; byte 1 of a record is 0 or 255.

Deadlock is checked where the model cannot stop by itself (`desktop`, `cli`). It
is off for `worker` (a daemon whose callers are all gone may idle), `daemon` (the
process exits), `keyring` (a session that cannot begin), `pam` (one call) and
`window` (a quiet window is not stuck).

Each property has a mutant of the code under it, a definition next to the
original that starts with "Mutant:", which breaks the property under the same
configuration.

## 4. Fairness

- `Worker`: `Proceed`, the daemon's own steps under the mutex, is weakly fair
  because every exchange has a timeout (`Command::timeout`) and looks at the
  token; the start of a queued operation is strongly fair because tokio's mutex
  is first come first served. Nothing is assumed of fingers, clients or cable,
  so an operation nobody cancels may wait, in retries, for ever.
- `Daemon`: tasks that can run do (`WF`), the interface's lock is given to every
  caller in the end (`SF`), and an operation ends: a touch-wait has 30 seconds,
  and nobody fails touches for ever. So an operation that a suspend or a shutdown
  has failed to cancel delays it, and `SleepIsFollowed` and `ExitIsReached` say
  that it is not put off for ever, not that it is prompt. Nothing is assumed of
  calls, sleep signals and SIGTERM, which may never come.
- `PamModule`: the module's steps and the two reader threads are weakly fair:
  each of its waits has a time limit, and a killed process dies. Nothing is
  assumed of the helper, so `ReadersEnd` and `ImplementsUnseal` hold for one that
  hangs.
- `Cli`: the tool's own steps are weakly fair. The line that the prompt of
  `wipe-device` waits for may never be typed, and the file that
  `--hold-before-commit` waits for may never come. `read_line` does not look at
  the token, so a Ctrl-C at the prompt ends nothing; `InterruptEnds` is about an
  interrupted session that is anywhere else, the wait for the file included, and
  about one at the prompt from the moment a line has been typed.

## 5. What is proved

Every safety property that a passing run checks is proved for every value of the
constants, but for `PipesDrained`, which says ENABLED. The method is the same
throughout: a type invariant and the reasons of the properties, in named parts,
make an inductive invariant; TLC checks it first, on the bounds of section 3;
one lemma per process or group of actions shows that a step keeps it; properties
and refinements follow from it. Four theorems state things that no run has as a
property of its own, each marked below with a star.

### The mapping file

`StoreProofs` proves what `insert` and `remove` make of *any* file that no slot
is mapped twice in (`OneOwner`), from `StoreAssumption` alone, which says that
the last slot has a number:

| theorem or lemma | statement |
|---|---|
| `WritableIsFree` * | `insert` never refuses a slot of `writable_slots`, and its print is then the slot's only owner |
| `InsertKeeps` | an insert that is not refused keeps `OneOwner`, and adds its slot to the tracked ones in the place of the print's old one |
| `DropKeeps`, `RemoveKeeps` | dropping entries keeps `OneOwner`, and takes just their slots from the tracked ones |

The daemon and the tool change the file only in these ways, so `WorkerProofs`
and `CliProofs` cite the same lemmas.

### The worker

`WorkerProofs` proves, for any users, any fingers, any `MaxSlot`, any number of
samples, and from the named assumptions `StoreAssumption` and
`WorkerAssumption` only:

| theorem | statement |
|---|---|
| `Inductive` | `Spec => []IInv` |
| `TypeCorrect` | `Spec => []TypeOK` |
| `OwnershipHolds` | `Spec => []Ownership` |
| `MatchesAreGenuine` | `Spec => []MatchIsGenuine` |
| `TouchWaitsAreArmed` | `Spec => []ArmedTouchWait` |
| `CommitsAboveCount` | `Spec => []CommitAboveCount` |
| `TerminalOnce` | `Spec => OneTerminal` |
| `ErasesOnlyAsAsked` | `Spec => ErasesAsAsked` |
| `InsertsSucceed` * | `Spec => []InsertSucceeds` |
| `RegistryImplemented` | `Spec => ImplementsRegistry` |

The argument. `Ownership` is not inductive: it needs to know that a commit is
recorded for a slot which really took the template, although the answer that
says so may have been meant for another command. `IInv` has the reasons, by part:

- `EnrollInv`, `DeleteInv`: what an enrolment or a delete works on. An enrolment
  works for a print without an entry, on a slot nobody is mapped to; the file
  does not change meanwhile, because it changes only under the mutex.
- `AnswerInv`: which stale answers are harmless. An enrolment may well read a
  stale count or a stale record, but then every later answer is one late. Of all
  answers only the collision check's has three bytes, and no three byte answer
  can be a left over one before it; so an answer that passes for a clear
  collision check *is* that check's, or it is a slot record with a zero in byte
  1. In the first case the endpoint is empty when commit goes out, and the status
  commit reads is its own. In the second the enrolment is `misread`, and its
  print, if it is recorded, `doubtful`.
- `CountInv`: as long as nothing is left over, the slot is at or above the
  sensor's own count; with the above this gives `CommitAboveCount`.

  Finding 12 is the exception, and no theorem excludes it by an assumption: the
  codes of a record are any numbers, zero among them. `Ownership` is about every
  print that is not doubtful: however many enrolments misread a record, they do
  no harm to the prints of others, because the slot a print is recorded on is
  one nobody is mapped to, misread or not. `MatchIsGenuine` and the registry
  promise nothing of a doubtful print, `CommitAboveCount` nothing of a misread
  enrolment, and `ErasesAsAsked` allows the delete of a doubtful print to erase
  a template that is not its own, though none that anybody else is mapped to. A
  print is doubtful until it is recorded anew by an enrolment that misread nothing.
- `ArmInv`: the worker's `armed` implies the sensor's, on a live handle.
- `BusyInv`: flag, queue, operation and terminal events go together.

The step lemmas have one case per action: `TypeStep` for types, `CountStep` for
`CountInv`, `InvStep` for the rest. The action properties and the refinement
follow from `IInv` at the step's start; every step of the worker maps to one
action of `Registry` or to a stutter. `InsertSucceeds` says that a template the
sensor has committed can be recorded: `writable_slots` gave the slot out several
exchanges earlier, and a refusal now would leave an orphan. It follows from
`EnrollInv`, which `InsertKeeps` keeps.

### The PAM module

`PamProofs` proves, for a secret of any length, pipes of any size, any cap on
stderr and any noise, from `PamAssumption` only:

| theorem | statement |
|---|---|
| `Inductive` | `Spec => []IInv` |
| `TypeCorrect` | `Spec => []TypeOK` |
| `TokenIsWhole` | `Spec => []WholeOrNothing` |
| `HelperReaped` | `Spec => []Reaped` |
| `HelperIsHeard` | `Spec => []FullPipesAreRead` |
| `AnswersOnce` | `Spec => Promise!Safety`, the safety of `ImplementsUnseal` |

The argument. `WholeOrNothing` needs to know that bytes and success *together*
mean the whole secret, although they come from two threads. `FlowInv` counts
chunks: read plus in the pipe is what was written, until a read fails, and a
reader that saw the end of the pipe has all of it, because nothing is written
after the end. `HelperInv` says a success means everything was written, and that
the status is how the helper really ended. `PlaceInv` ties both to the place of
the calling thread. The step lemmas go by process: helper, readers, module.

`DrainInv` adds that a reader that has ended leaves an empty pipe, which nobody
fills again, and that the module waits only with both readers started. From it
follows `FullPipesAreRead`: a full pipe has a reader with a chunk to take. That
is `PipesDrained` with the guards of the readers' actions in the place of ENABLED.

### The D-Bus front

`DaemonProofs` proves, for any clients, accounts and uids, any number of prints
and of ended tasks, from `DaemonAssumption` (uids are numbers, and no placeholder
is one of the things it stands for):

| theorem | statement |
|---|---|
| `Inductive` | `Spec => []IInv` |
| `TypeCorrect` | `Spec => []TypeOK` |
| `ActsForItsUser` | `Spec => []ActsForGuardedUser` |
| `FlagFollowsOp` | `Spec => []BusyWhileOp` |
| `ClaimsAreGuarded` * | `Spec => ClaimChanges` |

The argument. An operation reads the claim long after the guard that let its
caller in. `IfaceInv` says that a call past its guard holds the interface's
lock, so that nobody claims or releases between guard and `try_begin`, and
`GuardInv` that what the guard has read is still so there. From then on the busy
flag stands in for the lock (`OpInv`): a release may empty the claim, but a
claim fails while the flag is up, so the claim is that of the operation's user
or nobody's, up to the moment the operation reads it; then it holds the worker,
and the claim with it. A claim or a delete keeps the interface's lock while it
waits for the worker, so `GuardInv` holds for it up to its turn. `BusyWhileOp` is
a part of the invariant, since both arguments need it.

`ClaimChanges` is about the claim's steps: it goes to a user only from nobody,
while no operation has the flag, in a claim of a caller who may act for that
user; any other change empties it. A claim that comes during an operation
changes nothing, so it cannot swap the user under a verification.

### The desktop client

`DesktopProofs` proves, for any number of tasks, from `DesktopAssumption` and
`DaemonAssumption`:

| theorem | statement |
|---|---|
| `AppInductive` | `AppSpec => []AppIInv` |
| `AppTypeCorrect` | `AppSpec => []AppTypeOK` |
| `Releases` | `AppSpec => []SensorIsReleased` |
| `IsTold` | `AppSpec => []DrivesToTheEnd` |
| `DaemonImplemented` | `AppSpec => Spec` |
| `DaemonStaysSafe` | `AppSpec => [](ActsForGuardedUser /\ BusyWhileOp)` |

The argument. `CallInv` ties a task's place to the call it has out, `ClaimInv`
says that a claim that stands has a task that will still release it, since all
tasks are of one user, and any of them releases for all; `SignalInv` follows the
end of an operation from the start that a task has asked for, over the signal,
to the task that hears it. `DaemonImplemented` needs no invariant: whatever a
task does is a call, a step of the daemon, or nothing to the daemon; so
`DaemonKeeps` and `DaemonStaysSafe` take the daemon's theorems as they are.

### The window

`WindowProofs` proves, for any tasks, any fingers and channels of any capacity,
from `WindowAssumption`:

| theorem | statement |
|---|---|
| `GrantsTerminalMatch` | a `Step` of any session grants only on a terminal match |
| `Inductive` | `Spec => []IInv` |
| `TypeCorrect` | `Spec => []TypeOK` |
| `ScreenIsTrue` | `Spec => []ScreenTellsTheTruth` |
| `ListStaysCurrent` | `Spec => []ListIsCurrent` |
| `NobodyIsLeftAlone` | `Spec => []NobodyDrivesAlone` |
| `TriesAreCounted`, `EndedStaysEnded` | `Step`, for any policy: see below |

The argument. The screen is moved by events that were sent earlier, so
`ChannelInv` is about what is still to come: what a followed task has in its
channel or has yet to send (`Saying`) holds an end only if the task has left the
sensor, and a grant only if the task has heard a match. `Poll` empties a channel
at once, and what it reads is among `Saying`. `FingersInv` says the same of a
list that waits to be read. `ThreadInv` and `ConnectInv` keep apart the answers
that share a channel; `EnrollInv` says for whom the daemon enrols.

Every login ends with its session's first denial (finding 8). What a session
does up to its last try is proved of `Step` alone: only a denial counts, one at a
time; the one that uses up the last try locks the session and no other status
does; an answer that is an error leaves the tries (`TriesAreCounted`); and an
ended session answers nothing but errors, whatever the bus still says
(`EndedStaysEnded`). The run compares whole sequences with the reference.

### The keyring

`KeyringProofs` proves, for any set of keys, from `KeyringAssumption`:

| theorem | statement |
|---|---|
| `Inductive` | `TabSpec => []TabIInv` |
| `TypeCorrect` | `TabSpec => []TabTypeOK` |
| `RotationIsSafe` | `TabSpec => []RotationKeepsKey` |
| `DoneIsInStep` | `TabSpec => []EndsInStep` |
| `TabIsTrue` | `TabSpec => []TabTellsTheTruth` |
| `WiresAfterSeal` | `TabSpec => WiredAfterSeal` |
| `KeysAfterSave` | `TabSpec => KeyedAfterSave` |

The argument. `SessionInv` says which session can be at which step and that its
new key is a key; `SealedInv` that from the read-back on the blob holds the new
key, and from the saved file on the recovery file does, up to the re-key;
`RotationInv` where the old key is at every step of a rotation: in the blob, in
both, in the kept one; `StacksInv` that a setup passes over no stack but the
password's. For the tab, `HoldingInv` ties the stage to the step of the session
that the tab has begun. The tool's sessions take the same steps, with `stale` and `by` to
tell them apart; `OrphanStep` is the helper that outlives its window. `DoneIsInStep`
is about every setup and rotation that says it is done, whoever runs it, and
about the tab's rotations that say the old key is back; the tool's say so without
knowing (finding 13).

### The tool

`CliProofs` proves, for any users and fingers, any number of slots and samples,
from `StoreAssumption` and `CliAssumption`:

| theorem | statement |
|---|---|
| `Inductive` | `Spec => []IInv` |
| `TypeCorrect` | `Spec => []TypeOK` |
| `CommitsCleared` | `Spec => []CommitCleared` |
| `PrunesOnlyProven` | `Spec => PrunesProven` |
| `WipesAreTold` | `Spec => WipeIsTold` |
| `FileStaysSound` * | `Spec => []OneOwner(store)` |

The argument. In a session that found the endpoint clean the only answer there
is that of the command which is out, until something fails, and then the session
sends nothing but its abort; so no record is cut in such a session, and none
passes for another answer, whatever its byte 1 (`CleanInv`). What that answer says was so when the
sensor gave it, and stays so while it lies there (`TruthInv`); what `sync` keeps
of seventeen answers, in `SyncInv`, stays so because its session writes nothing.
`FileStaysSound` needs none of it: a prune drops entries (`DropKeeps`), whatever
it believes of the sensor.

### Only model-checked

- Liveness (`StopEnds`, `MutexFreed`, `CallsReturn`, `OpReachesWorker`,
  `SleepIsFollowed`, `ExitIsReached`, `InterruptEnds`, `ReadersEnd`, the liveness
  of `ImplementsUnseal`) and `PipesDrained`: fairness and ENABLED are out of the
  prover's reach.
- The retry policy against its reference, over sequences of statuses: that would
  be an induction over a sequence. `GrantsTerminalMatch`, `TriesAreCounted` and
  `EndedStaysEnded` are about each step of it.
- That the four violations are reached.

## 6. Findings

Where the code does other than the repository says. Four are violation runs; the
others were found while modelling and have no run of their own.

1. `daemon_stop`: the end of one operation clears the next one's token, and
   stop, release, suspend and shutdown then cancel nothing.
2. `keyring_rotation`: a rotation that fails after sealing does not put the old
   blob back. `RotationKeepsKey` shows that the old key is still in `prev`.
3. `keyring_unconfirmed`: a setup given up at the recovery code has already
   wired the password stack.
4. `cli_interrupt`: after Ctrl-C the tool's abort goes through the cancelled
   token and is never sent. The `dirty` of `CommitCleared`, `PrunesProven` and
   `WipeIsTold` is what this (or a kill) costs: without it all three fail, since
   the next session reads the old answer.
5. `writable_slots` "can never hand out a live slot"
   (`elanprint-store/src/lib.rs:124-127`); an orphan above the count is one.
   `Ownership` holds all the same: orphans belong to nobody.
6. A claim after a replug keeps the dead handle (`elanprintd/worker.rs:299`).
7. A claim during an operation waits for it instead of failing with
   `AlreadyInUse` (`elanprintd/main.rs:144`).
8. The three tries of the policy are never used: every login has a session of
   its own, which ends with the first denial (`elanprint-algo/policy.rs:16`).
9. A login whose stream the bus ends leaves the window at "touch the sensor"
   with nobody there (`elanprint-login/client.rs:284`); hence `cut` in
   `ScreenTellsTheTruth`.
10. An enrolment that is cancelled after its last sample is recorded, and the
    list of fingers does not show it (`elanprint-login/app.rs:289`); hence
    `missed` in `ListIsCurrent`.
11. The tab says that saved passwords open with the sensor as soon as the stack
    is wired, and has no way on from a setup whose re-key was refused
    (`elanprint-login/app.rs:1034`). `TabTellsTheTruth` therefore asks for an
    open keyring only where the tab has said that the setup is done.
12. A slot record that was left unread, with a zero in byte 1, is taken for a
    clear collision check (`elanprint-proto/src/enroll.rs:218`), and the answer
    of that check, or the rest of the record, for commit's success; the print is
    then recorded on a slot that may hold another's template. The parser's tests
    build such a record (`elanprint-proto/src/lib.rs:634`). `Ownership` without
    `\ doubtful` is violated.
13. The tool says that the old key was restored although its rollback has failed
    (`elanprint-keyring-setup/src/main.rs:240`). `EndsInStep` without
    `by # "tool"` is violated.

## 7. Abstractions

- Sensor: the status endpoint keeps the newest answer nobody has read besides
  the one of the last command ("a trailing read returns the previous value",
  docs/findings.md); `abort` on a live handle is delivered and clears it; commit
  writes the slot the enrolment was for. Stale answers on the touch endpoint are
  left out: a touch-wait that was cancelled is taken to have ended with its abort.
- `recv` cuts a long answer to the expected length and hands on a short one;
  lengths are 2, 3 and 70, and 6 for what a cut record leaves on the endpoint.
  Byte 0 echoes the command and is not looked at by the
  code, nor here.
- A crash is a killed process. Power loss, in which a saved file may be undone,
  is not modelled.
- In `Worker`, flag and token are taken in one step; `Daemon` has them apart.
- `Desktop`: no sleep and no shutdown during a task (`Daemon` has them), safety
  only.
- `Window`: which finger is chosen for a login, the first click of a delete (it
  only arms the second), colours and texts are left out; a task's set-up either
  succeeds or fails; a signal whose body does not decode is taken with the end
  of the stream. An enrolled finger can be enrolled again in the window, as in
  the code, whose choice is not reset; the daemon refuses it.
- `PamModule`: a write to a pipe is one chunk; log lines are left out; a `kill`
  that fails is not modelled (the child is the module's own).
- `KeyringTab`: the checks of `require_ready` hold (TPM, module, fingerprint
  stack, keyring file), and do not change during a setup.
- `Keyring`: one session at a time, which nothing in the code enforces; an error
  from gnome-keyring means that nothing was changed, though the code could not
  tell a refusal from a reply that was lost (`elanprint-keyring-setup/src/keyring.rs:55`).
- `Cli`: the sensor stays plugged in; the daemon does not use it between
  sessions; a wipe erases all or nothing.

Not modelled: drawing, texts and the sysfs scan of the desktop client, which
keep no state; packaging and capture tools, which run by hand; `probe` and
`enroll-plan`, which send nothing; byte layouts of commands; `reset` and
`clear_halt`, which nobody in the daemon or the tool's sessions calls; image
capture.

## 8. What is left

Models and proofs are complete for what sections 2 and 5 list. What the models
do not reach yet, most important first:

1. stale answers on the touch endpoint, in `Worker`;
2. that a cancelled task of the desktop client ends, on a smaller instance, with
   sleep and shutdown in it;
3. two keyring sessions at once;
4. power loss between a save and its directory entry.
