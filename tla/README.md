# MIMO-INIT in TLA+

TLA+ models of the update machinery of MIMO-INIT, the TLC runs that check them on
small instances, and TLAPS proofs of their most important properties. Paths such as
`run.go:192` are relative to `src/internal/<package>/` unless given in full.

## 1. The system

MIMO-INIT is one Go binary. It carries a compressed archive of everything a MIMO storage
node needs (target binaries, scripts, unit files, boot texts) and its SHA-256, and knows
two updates:

* `mimo update --sys` (`RunUpdate`) turns a machine into a MIMO node: unpack to
  `/tmp/mimo-output`, verify, install packages, run a *transaction* of actions with
  rollback, activate services, disable cloud-init;
* `mimo update --target` (`RuntgtUpdate`) replaces the files below a running SPDK target:
  save its configuration over RPC, `kill -9` it, copy without a transaction, start it again.

It also offers `bdev` commands that forward one request to the target each.

### Inventory

| Component | State | Operations | What makes it correct |
|---|---|---|---|
| transaction engine (`transaction`) | `actions`, `executed`, in memory only | `New`, `Add`, `Run`, `Rollback`, `Cleanup` | after an error everything that succeeded is undone, newest first, once, even if an Undo fails; after nil everything is in place |
| MOTD action (`motd`) | `/etc/update-motd.d`, `/var/lib/mimo/motd-backup` | Do moves the scripts into the backup, Undo copies them back | no script is lost, none is replaced by an older one; an Undo brings back what the Do took |
| copy actions (`fileops`) | destinations of `config.json`'s `file_mappings` | Do: `RemoveAll` + `CopyDir`/`CopyFile`; Undo: `RemoveAll` | success means complete; rollback leaves no new files |
| boot actions (`grub`) | `/etc/default/grub`, `init-top/mimo-msg`, what the two generators made of them, contents captured at registration | Do writes and generates, Undo writes the capture back | an undone file has its former content |
| system update (`run`) | where the process is; nothing on disk of its own | `RunUpdate`, `extractAndVerify`, `RunPkgDep`, `RunTransaction` | nothing is installed from a package that does not verify; success is complete; what is committed stays; the update ends |
| target update (`run`, `spdk`) | pid and command line (memory), `/tmp/spdk_full_config.json` | `RuntgtUpdate`, `SaveSpdkConfigAndGetCommand`, `RestartSpdkWithSavedConfig` | a killed target can be started again, with its own configuration and arguments; files are not replaced under a running one |
| package extraction (`decompress`) | `/tmp/mimo-output` | `ExtractResources`, `Decompress`, `VerifyHash` | a package that verifies is whole; what is unpacked is the package, but for hard links, which are skipped |
| service activation (`systemd`) | units systemd has loaded, enabled, started | `EnableServices` | a unit is started from the file just installed |
| cloud-init removal (`system`) | the marker file | `DisableCloudInit` | the marker exists after success |
| environment, configuration (`env`) | `/etc/profile.d/mimo_root.sh` | `MustBeRoot`, `EnsureMimoRoot`, `Load...Config`, `ConfirmPrompt` | a bad configuration stops the update |
| command line (`cmd`, `main.go`), `bdev` commands (`rpclient`) | RPC client | cobra commands | the update does not need a running target |
| packaging script (`pack_resources.sh`) | archive and hash in `resources/` and in `internal/decompress` | tar, sha256sum, two copies, `go build` | the program it builds accepts its own package, whatever earlier runs left |
| payload, bundled Go toolchain | none at run time | - | - |

### Interaction

The engine calls the closures that `motd`, `fileops` and `grub` registered; they share
nothing but the file system. `RunUpdate` calls the packages in sequence. The target update
has real concurrent partners: the target process and its operators, who may reconfigure,
stop, lose or start it between any two calls of the updater, and other updaters, because
nothing keeps two updates apart: they share the staging directory, the saved configuration
and the installation. Successive updates interact through what they leave on disk: the MOTD
backup, the staging directory, the destinations, the saved configuration, the socket file,
and the command line of the target that one of them has started. Successive runs of the
packaging script interact through the files they leave in the work tree.

### What is hard

Nothing is journaled, so a process that dies leaves whatever there is, and the next
update starts from it. A Do that fails half way is not undone. An Undo can fail too.
Errors are dropped in several places (`RemoveAll`, `RunPkgDep`, enable/start, `Rollback`'s
result). Archive entries of unknown types are skipped and names are joined unchecked. `log.Fatalf` skips deferred calls. The hash is checked after unpacking. The
saved configuration is truncated before it is written, by the update that is about to
kill the only process holding it. A pid is read several commands before it is killed,
another updater may have read the same one, and `kill -9` succeeds on a process that is
already dying. The deferred `RemoveAll` of one updater removes
the sources another one is copying. `PROJECT.json` lists each of these hazards with its
line and the properties aimed at it.

## 2. Modules

| Module | Models | Composed of |
|---|---|---|
| `Saga` | what the engine promises: the abstract specification | |
| `Transaction` | `transaction.go` | refines `Saga` (`IsSaga`) |
| `Motd` | `motd.go` | |
| `Fileops` | `fileops.go`: actions without a next-state relation of their own | |
| `Boot` | `grub.go`: likewise | |
| `SysUpdate` | `RunUpdate` and what it calls | instances of `Transaction`, `Motd`, `Fileops`, `Boot` |
| `TargetUpdate` | `RuntgtUpdate`, `spdk.go`, the target, for any number of updaters | |
| `SpdkCmd` | the restart command of `spdk.go` (`stripConfigArg`) | |
| `Package` | `pack_resources.sh`, `go build`, the hash that the program checks | |
| `TransactionProofs`, `SagaProofs`, `MotdProofs`, `TargetProofs`, `SpdkCmdProofs`, `PackageProofs` | theorems | each extends the module it is about |
| `SysProofs`, `SysEffectProofs` | theorems about `SysUpdate`: its course, then what it does to the machine | instances of `TransactionProofs` and `MotdProofs` |
| `MC*` | the small instances for TLC | |

Definitions whose comment begins with "Slip:" are not part of the model. Each is a
plausible mistake in the definition that follows, used to show that a property notices it.

### Transaction

`actions`, `executed` and the loop index `cur` are the code's. `txnPc` is the place in
New/Run/Rollback/Cleanup, `result` what `Run` returned. One iteration of `Run`'s loop is
`SkipDo` (nil Do), `DoOk` or `DoErr`; one of `Rollback`'s is `SkipUndo`, `UndoOk` or `UndoErr`.
The history variable `effect` records how the calls for an action ended, which is all that
an engine without knowledge of the closures can be held to. `TxnCrash` is the death of the
process, also in the middle of a closure. `Saga` says the same without loops: a stack of
steps that is popped on the way back, and a set of residues.

### Motd

The two directories map script names to a body and an execute bit. Bodies are model
values; `Cut` is the body of a file whose copy stopped half way. `copyFile` keeps the mode
of an existing destination and makes a new one without execute permission, as `os.Create`
does. A crash is the error outcome of the iteration, followed by nothing. `Vendor` is apt
(an external actor) installing a script while no transaction runs. The history variables
`latest` and `cutUndo` are what the distribution installed last, and the scripts whose Undo
has been cut short since.

### Fileops and Boot

A file of the package has one name: `tmp[f]` is its unpacked copy, `dst[f]` the installed one.
`CopyBegin` is Stat and `RemoveAll`, whose dropped error leaves any part of the old tree;
`CopyFile` is one step of the walk; `CopyErr` every error return with what it leaves. The source
of a mapping in `Dir` is a directory, which may be empty; any other is a file, and without it
the Do fails. In `Boot`
the texts are told apart as far as rollback needs: the vendor's, the vendor's with MIMO's
command line, MIMO's alone, empty, cut. `grubCfg` and `initImg` are what the external
generators last read, so that an update that writes the file and fails to run the
generator is visible.

### SysUpdate

`runPc` follows `RunUpdate`. Every call has its success and its error outcomes; an error
goes to `return`, where the deferred `RemoveAll` of the staging directory runs and its own
error is dropped. `Load` also has the `log.Fatalf` outcome that skips it. `Register` adds the
actions in the order of `RunTransaction`, capturing the boot files where the code does.
`Do...` and `Undo...` join one step of a closure with the engine's step. `Crash` can happen
anywhere; it is SIGKILL, not a power loss, after which files need not be as they were written,
because nothing is ever synced. `Start(v)` begins another update, possibly of another release,
on what is there, and calls `EnsureMimoRoot`, which writes the `profile` file unless `MIMO_ROOT`
is set (`RootSet`).

`Extract` creates the entries in `Regular(v)`: the names of the release without those that tar
has stored as hard links (`Linked`), which `ExtractResources` skips with a warning. A release
may also have names that lead out of the staging directory (`Outside`); they are written to
where they lead, which here is among the destinations. All this comes before `Verify`.
`Genuine` is the set of releases whose archive matches its hash. The history `leftover` holds
the files of earlier updates that an update has met, in the staging directory or behind a
`RemoveAll` whose error was dropped: only these may be in a destination beside the package.

### TargetUpdate

Every updater `u` of the set `Updater` follows `RuntgtUpdate` and, in the middle, the commands
that `SaveSpdkConfigAndGetCommand` runs one by one: `lsof`, `ps`, Stat of rpc.py, the shell's
truncation of the file (`SaveBegin`), the RPC (`SaveEnd`), `kill -9`. Unpacking, the walk of a
copy and the deferred `RemoveAll` go file by file, so that two updaters interleave within
them: a file that `u` is writing is marked by `u` and reads as cut, a file that has gone
since the directory was listed is an error. The environment (marked external in the map) is
the target: it starts, is reconfigured, exits or crashes, its socket stays or goes. A process
has a number, so that a pid read earlier can be stale. A process that has ended serves nobody,
but stays in `dying` until it is `Reaped`: until then `lsof` may list it and `ps` and `kill -9`
succeed on it, as on Linux; afterwards they fail. The code does not wait for the end. `orig` holds the updaters with `spdkOrigCmd # ""`. `starting` separates the
`bgCmd.Start()` of a restart from the moment at which the target is up, or fails to come up.
The histories: `known` (processes started when the updater looked), `seen` (configurations
the target had since it was found), `down` (an update killed it), `late` (updaters whose kill
hit a process that had ended already), `hasty` (`lsof` has listed such a process to some
updater), `alone`, `overlap`. As in `SysUpdate`, names packed as hard links (`Linked`) are not
unpacked.

### SpdkCmd

A command line is a sequence of words. `SkipPair` and `KeepWord` are the iterations of the
loop in `stripConfigArg`, whose index jumps inside the body; `Build` puts the saved
configuration in front. Afterwards the next update takes the new command apart
(`NextUpdate`), or one that an operator typed (`ByHand`). `WellFormed` says which lines a
running target can have: a `-c` without an argument does not start it.

### Package

One action for each command of the script that writes a file, with the outcome of `set -e`
on failure; the pipe into awk hides a failing sha256sum, so an empty hash is an outcome. An
archive is the revision it was made of and whether it is whole; a hash is the archive it was
computed from. Opening truncates, so `Pack` and `CpTar` leave the beginning of a file. `Killed`
may come anywhere, `Edit` changes the payload between commands, `GoBuildByHand` builds from
whatever lies there. What a program unpacks is the subject of the two updates. `tar -h` follows
symbolic links, so link entries do not occur there.

## 3. Runs

### Passing

| Run | Instance | Shows |
|---|---|---|
| `transaction` | 4 actions: two ordinary, one without Undo, one without Do; any number of transactions | completeness of rollback and commit, order, once only, termination, refinement of `Saga` |
| `motd` | 2 scripts, 2 bodies, any number of updates | no script lost but to a cut Undo, none replaced by an older one; Undo brings back what Do took |
| `sys_update` | one update of either of 2 releases (a genuine one that packs one file as a hard link, and one that does not verify and has a name leading to a destination), a unit file and a directory of two files, one script | completeness of success, that what is committed stays, rollback, hash before install, reload before start, termination, that the composition drives the engine as `Transaction` says, and the invariant `SysInv` of the proofs |
| `sys_rerun` | two updates of two releases over each other's remains, one directory | completeness of success, rollback and `SysInv` when the first update failed or died |
| `target_update` | two updates by one updater, up to two target processes, two configurations, two mappings, one file packed as a hard link | a killed target has a configuration, its own; restart only over a complete installation; termination |
| `two_updates` | three updates by two updaters, at once or not, up to two target processes, one configuration, one directory | who restarts a target does so after its end, and one updater only has ended it; nothing is replaced under a target that was running when the updater looked; a restart never runs the old program; an update that ran alone is complete, whatever overlapping ones left |
| `restart_command` | every line of up to 6 words over `-c`, another option and two files, and all lines the restarts produce | arguments kept in order, one configuration, a fixed point after the first restart |
| `package` | two revisions of the payload, any number of script runs and builds | a program that verifies embeds a whole archive; a script build matches its hash or has an empty one |

Why the bounds are enough to be interesting. Four actions give every mixture of nil
closures on either side of a failure. Two scripts allow a script that an earlier update saw
and one that it did not; two bodies allow a stale backup. `transaction`, `motd`,
`restart_command` and `package` have no bound on the number of updates or runs: their state
spaces are finite. In `sys_update` the directory has two files so that a copy can stop
between them, and release `v2` packs one of them as a hard link, so that a skipped name and
leftovers under it show. The number of
updates, `MaxRuns`, bounds a counter in `Start`: one update with everything, two with a
smaller machine (2 is the least with which remains matter), and three in `two_updates`: two
that overlap and one that finds what they left. `MaxLaunch = 2` allows the target that
was found, which may be killed and still be dying, and another one that is started, by hand or
by an updater, meanwhile. Six words (`MaxLen`) hold two `-c` pairs and an
argument in every order. Symmetry is used in `two_updates` only, on the updaters, which are
interchangeable and of which no liveness is asked there. Deadlock checking is off where
`MaxRuns` stops the system, on for the others.

### Disagreements between comments and code

These runs state what a comment or a message of the repository says and find it violated.
`PROJECT.json` quotes the lines.

| Run | The text says | What happens |
|---|---|---|
| `copy_rollback` | copies are "transactional" | the Undo of a copy removes the destination; what was there before is gone |
| `grub_rollback` | the original grub content is preserved for Undo | if `update-grub` fails, the action was not executed, is not undone, and the modified file stays |
| `motd_mode` | "Undo restores from backup" | restored scripts are not executable, so run-parts ignores them |

What else the models made visible, without a run of its own:

* A staging directory that a killed update leaves behind is unpacked over, not emptied:
  files of the older release that the newer one no longer ships are installed with it.
  `SuccessIsComplete` says that whatever is in a destination beside the package is such a
  leftover.
* A file that the payload holds under two names (`tar -h` stores the second one as a hard link)
  is installed under one of them only. The update prints that entries were skipped, not which,
  and succeeds. Under the skipped name there is nothing, or what a killed update left.
* Before the hash is checked, `EnsureMimoRoot` has written its profile file and the archive has
  been unpacked, to wherever its names lead. What `pack_resources.sh` packs has no `..` in its
  names, but the program does not check it.
  `UnverifiedNeverInstalled` is about everything after the unpacking.
* The MOTD backup is never emptied, so an Undo also brings back scripts that an earlier,
  successful update had retired. They are the latest ones, as `NoStaleScript` says.
* A script is lost if its Undo is cut short (a full disk, a kill) and another update follows:
  the truncated script is copied over its only good backup. `NoScriptLost` names exactly this
  exception (`cutUndo`).
* A second updater that runs beside the first can truncate the saved configuration after the
  target was killed. `DownHasConfig` and `KillKeepsConfig` hold as long as no two overlap.
* The same happens to an update that is started while the target killed by an earlier one is
  still dying: `lsof` lists it, `ps` and Stat succeed, and the shell truncates the configuration
  before `save_config` fails. If another target is up by then, `save_config` and the kill
  succeed, and files are replaced under the new one. `DownHasConfig` and
  `ReplacedOnlyWhenStopped` name this exception (`hasty`).
* `kill -9` also succeeds on a target that another updater has killed a moment before, so two
  updaters may both go on to restart it. What holds is `StoppedOnce`: the target has ended, and
  one of them has ended it.
* The command line of a killed target is only in the memory of the process that killed it. If
  that process dies or a copy fails, a later update does not restart the target and says so
  (spdk.go:29-31). It gets that far only if somebody has removed the socket file that `kill -9`
  leaves: otherwise it fails at `lsof`. The saved configuration is still there
  (`DownHasConfig`).
* What is reconfigured between `save_config` and `kill -9` is lost; the saved configuration is
  one the target had after it was found.
* `stripConfigArg` knows `-c FILE` only. `--config FILE`, `--json FILE` and `-cFILE` stay in the
  command, behind the saved configuration.

### Fairness

The liveness properties (`RunEnds`, `UpdateEnds`, `TargetUpdateEnds`) assume weak fairness of the
updater's own steps taken together: the process is scheduled, the calls it makes return, and the
operator answers the prompts. The code calls commands without a timeout, so a command that
never returns is outside what the code can promise. Nothing is assumed of the target, of
operators, of apt, of crashes, of which outcome a call has, or of a next update being started.

## 4. Proofs

All for every value of the constants that satisfies the named assumptions.

* **Engine** (`TransactionProofs`, from `ClosureAssumption`: the actions with a Do or an Undo
  are actions). `RollbackComplete` is not inductive: that nothing is still applied at the end
  depends on `executed` having listed everything that was. The inductive invariant `TxnInv`,
  also checked by TLC, says: registered actions are distinct; `executed` is an ordered
  part of them; in `Run` an action is in effect exactly if it is in `executed`; in `Rollback`,
  exactly if it is in the first `cur` entries, and those above have been tried. Theorems:
  `Invariant`, `RollbackIsComplete`, `CommitIsComplete`, `RollbackNewestFirst` (order in
  `executed` carried over to the order of registration) and the action property `UndoneOnce`.
* **Refinement** (`SagaProofs`). `TransactionIsSaga`: with `Stack` (the part of `executed` still to
  be undone), `Residue` and `Outcome`, every step of the engine is a step of the saga or a
  stutter. Uses `TxnInv`.
* **MOTD** (`MotdProofs`, from `MotdAssumption`: `Absent` and `Cut` are no script's body).
  `MotdTypes`. `UndoBringsScriptsBack`, by `UndoInv`: of the scripts there at the start, each is
  in place or has a good copy in the backup. `NothingLost` and `NothingStale`, by `LatestInv`,
  for the scripts outside `cutUndo`: a script in the directory is the distribution's latest,
  one that is not there has its latest in the backup, and the loops never meet a script
  that is in both places with different bodies.
* **Target** (`TargetProofs`, from `TargetAssumption`), for any number of updaters and every
  interleaving of them with the target, the operators and crashes.
  `TargetTypes` needs `MemoryInv`, what an updater's memory says about where it is.
  `StoppedFirst` and `MimoStoppedOnce` rest on `StopInv`: a running target is the last one
  started, and one that is dying is not running; unless `lsof` has listed a dying process, from
  `load` on an updater faces a target that is gone or younger than what it knew; two updaters
  with the same pid get past the kill only if one of them came late. `KilledHasConfig` and `KillKeepsOwnConfig` rest on `SoloInv` (without an overlap a
  running updater is alone) and `ConfigInv`: the file is only truncated after a live process
  was found, which was therefore not killed by an update; only a complete save lets the kill
  go ahead; a new target ends the obligation. `AloneCompletes` rests on `CompleteInv`: an
  updater that no other ran beside has unpacked every file and copied every mapping below its
  index, whatever was there before. `NeverTheOldProgram` rests on `GoneInv`: once an updater
  has passed the mapping that holds the target, no step of any updater brings the installed
  program back, since what any of them creates in the staging directory is the release.
* **Restart command** (`SpdkCmdProofs`, from `CmdAssumption`), for lines of any length and any
  number of restarts: `CmdTypes`, `ArgumentsKept`, `SavedIsTheConfig`, `RestartIsStable`. `LoopInv`
  says that the index never stands behind a `-c` and that `newParts` holds the kept words before
  it, each at the place its rank gives it; `SameInv` follows the loop over a line that it has
  built itself.
* **Package** (`PackageProofs`, from `PackageAssumption`), for any payload, any number of script
  runs and kills: `PackageTypes`, `VerifiedWhole`, `ScriptMatches`.
  `ScriptInv` relates the four files at each command and says that no hash of a cut archive is
  ever written; `BinInv` carries this into the program.

* **System update** (`SysProofs`, `SysEffectProofs`, from `SysAssumption` and `MappingAssumption`),
  for any releases, scripts and mappings and any number of updates that fail at any call, die
  anywhere and follow one another. `MappingAssumption` says of `MappingSeq` what `config.json`
  shows: every destination is listed once, none lies below another, and the mappings are
  actions other than the MOTD and boot ones. Without it two copy actions would share files
  and the Undo of one would remove what the other installed.
  The theorems of the components are used, not repeated: `SysProofs` has `TransactionProofs`
  and `MotdProofs` as instances over the variables of the system, shows that every step of the
  update is a step of the engine and of the MOTD action or none (`EngineDriven`, `MotdDriven`),
  and so obtains `TxnInv`, `SystemDrivesTransaction` and `UpdatesKeepScripts` for the whole.
  `SystemTypes`, `UnverifiedStaysOut` and `InstalledUnitsStart` then need `PcInv` (where the
  update is when its transaction is where) and `GateInv` (only a genuine release is past the
  hash; what systemd has read is what is installed).
  `RollbackIsClean` and `SuccessInstallsAll` are not inductive: what a rollback leaves was
  decided by every Do and Undo before it, and what a success means by an unpacking several
  calls earlier. `SysInv`, also checked by TLC on one and on two updates, adds `PlanInv` (the
  transaction has the actions of the plan, and a copy is under way only inside the Do of its
  mapping), `BackInv` (a destination is as before until its Do begins and gone after its Undo;
  the captured grub text is the one from before), `StageInv` (the staging directory holds the
  package, and else leftovers only, until the update returns, and a walk leaves nothing of it
  behind), `DoneInv` (a Do
  that returned nil has had its effect, and no later action takes it back) and `LastInv` (nor
  does anything after the commit). `CommitLasts` is the action property that goes with it. `InitramfsUndoUnreachable` shows why `Boot` needs no Undo for
  the initramfs action: it is registered last, so it has never been executed when a Do fails.

Every invariant and action property that a passing run checks is proved. Only model-checked:
liveness (`RunEnds`, `UpdateEnds`, `TargetUpdateEnds`), which is outside the prover's reach, and
the violations, which are counterexamples.

## 5. Not modelled

* Of the repository's files nearly all are a Go toolchain below `file/go`, third-party code
  that the program only copies to a machine. It is not modelled, so the models cover a very
  small share of all lines, and most of what MIMO-INIT itself consists of: some 1600 lines
  below `internal`, `cmd` and `rpclient`, and the packaging script.
* Text: the grub file's line search beyond what `WithCmdline` says, version strings (only
  printed), log output. Words with white space or shell characters in the restart command,
  which bash would split again.
* Mode bits of copied files. Two runs of the packaging script at once, and a payload that
  is edited while tar reads it.
* `MIMO_ROOT` other than the default: the restart and rpc.py use it, the mappings do not, so
  `RestartRunsRelease` is stated for the case that the mappings hold the target and that it is
  not packed as a hard link. `MustBeRoot`
  ends the process before it has done anything.
* A target on `/var/tmp/mimo.sock`, the default that `cmd/root.go` names: the updater looks at
  `/var/tmp/spdk.sock` only, and what is said about stopping the target is said of one that
  listens there.
* Two system updates at once, or a system update beside a target update. The overlap that
  `TargetUpdate` has, in the same staging directory and destinations, is the kind they would have.
* Reuse of pids. What a dying target still holds (hugepages, devices) shows as a restart that
  fails.
* Power loss. The code never syncs a file, so after one nothing that was written can be relied
  on.
* Names that lead out of the staging directory reach the destinations only, not the boot files
  or the MOTD directories, and only in `SysUpdate`.
* The Undo of the initramfs action (never called: `InitramfsUndoUnreachable`), `DisableMotd`
  and `LoadConfig` (called by nothing), the services that `DisableCloudInit` stops, whose
  errors are ignored, and whether a unit is enabled for the next boot. The profile file of
  `EnsureMimoRoot` in the target update, where it is written in the same way.
* The command line and the `bdev` commands: stateless, one library call each, and the library
  is not in the repository.

## 6. Plan

Done, in this order: the engine and its abstraction; the MOTD action; copy and boot
actions; the system update as their composition; the target update, then for several updaters
at once, and for a target that takes its time to die; the restart command; the package from
script to program; the proofs of
all of these, the system update last because it rests on those of its components.

Next:

1. A system update beside a target update, as a second kind of updater of `TargetUpdate`.
2. `MIMO_ROOT` as a constant of `TargetUpdate`.
