----------------------------- MODULE SysUpdate -----------------------------
(***************************************************************************)
(* "mimo update --sys" (internal/run/run.go, RunUpdate): unpack the        *)
(* embedded package, check its hash, install dependencies, run the         *)
(* transaction of RunTransaction, enable the services, disable cloud-init. *)
(* The transaction engine and the three kinds of actions are the modules   *)
(* Transaction, Motd, Fileops and Boot; this module drives them the way    *)
(* the code does, over several updates of one machine: updates that fail   *)
(* at any call, die at any point, and are run again, possibly with another *)
(* version of the program.                                                 *)
(***************************************************************************)
EXTENDS Naturals, Sequences

CONSTANTS
  Version,   \* releases of the program
  Manifest,  \* Manifest[v]: the names packed into release v
  Linked,    \* Linked[v]: those that are packed as hard links
  Outside,   \* Outside[v]: destinations its entry names lead to from the staging directory
  Genuine,   \* releases whose embedded hash matches their archive
  MappingSeq,\* the file_mappings of config.json, in order
  Under,     \* Under[m]: the files below the source and dst of m
  Dir,       \* the mappings whose source is a directory
  Unit,      \* the files installed as *.service
  File, Script, Body, Absent, Cut, Vendored,
  RootSet,   \* MIMO_ROOT is in the environment of the updates
  MaxRuns    \* bound: updates started on the machine

Mapping == {MappingSeq[k] : k \in 1..Len(MappingSeq)}
\* The order of registration in RunTransaction.
Plan == <<"motd">> \o MappingSeq \o <<"grub", "init">>
Action == {Plan[k] : k \in 1..Len(Plan)}

ASSUME SysAssumption ==
  /\ Genuine \subseteq Version /\ Unit \subseteq File /\ MaxRuns \in Nat /\ RootSet \in BOOLEAN
  /\ Manifest \in [Version -> SUBSET File] /\ Linked \in [Version -> SUBSET File]
  /\ Outside \in [Version -> SUBSET File]
  /\ Under \in [Mapping -> SUBSET File] /\ Dir \subseteq Mapping
  /\ Absent \notin Version /\ Cut \notin Version /\ Vendored \notin Version
  /\ Absent \notin Body /\ Cut \notin Body /\ Absent # Cut

\* config.json lists every destination once, and none lies below another.
ASSUME MappingAssumption ==
  /\ MappingSeq \in Seq(Mapping)
  /\ \A j, k \in 1..Len(MappingSeq) : MappingSeq[j] = MappingSeq[k] => j = k
  /\ \A m, n \in Mapping : m # n => Under[m] \cap Under[n] = {}
  /\ Mapping \cap {"idle", "motd", "grub", "init"} = {}

VARIABLES actions, executed, txnPc, cur, result, effect
VARIABLES motdDir, motdBak, motdPc, motdTodo, motdStart, latest, cutUndo
VARIABLES tmp, dst, copyPc, copyTodo
VARIABLES grubFile, grubCfg, initFile, initImg, origGrub, origInit
VARIABLES
  runPc,     \* where RunUpdate is
  pkg,       \* the release that is running
  ret,       \* how the last update ended
  units,     \* EnableServices: services still to be enabled and started
  loaded,    \* the version of each unit that systemd has read
  started,   \* the version of each unit that was last asked to start
  marker,    \* /etc/cloud/cloud-init.disabled exists
  profile,   \* /etc/profile.d/mimo_root.sh: as it was, or os.WriteFile was called on it
  runs       \* updates started so far
VARIABLES
  before,    \* history: dst and grubFile when the transaction started
  leftover   \* history: files of earlier updates that this one has met

Txn == INSTANCE Transaction WITH HasDo <- Action, HasUndo <- Action
M == INSTANCE Motd
C == INSTANCE Fileops WITH Content <- Version \cup {Vendored}
B == INSTANCE Boot

txnVars == <<actions, executed, txnPc, cur, result, effect>>
motdVars == <<motdDir, motdBak, motdPc, motdTodo, motdStart, latest, cutUndo>>
copyVars == <<tmp, dst, copyPc, copyTodo, leftover>>
bootVars == <<grubFile, grubCfg, initFile, initImg, origGrub, origInit>>
sdVars == <<units, loaded, started, marker, profile>>
runVars == <<runPc, pkg, ret, runs, before>>
vars == <<txnVars, motdVars, copyVars, bootVars, sdVars, runVars>>

SysTypeOK ==
  /\ Txn!TxnTypeOK /\ M!MotdTypeOK /\ C!CopyTypeOK /\ B!BootTypeOK
  /\ runPc \in {"idle", "extract", "verify", "pkgdep", "load", "register",
                "txn", "systemd", "enable", "cloud", "return"}
  /\ pkg \in Version
  /\ ret \in {"none", "ok", "error", "fatal", "crash"}
  /\ units \in SUBSET Unit
  /\ loaded \in [Unit -> Version \cup {Vendored, Absent, Cut}]
  /\ started \in [Unit -> Version \cup {Vendored, Absent, Cut}]
  /\ marker \in BOOLEAN /\ profile \in {"before", "written"}
  /\ leftover \in SUBSET File
  /\ runs \in 0..MaxRuns
  /\ before \in [dst : C!Tree, grub : B!Text]

-----------------------------------------------------------------------------
\* A machine on which some destinations exist already (/etc/os-release, an
\* earlier install) and others do not.
Init ==
  /\ Txn!TxnInit /\ M!MotdInit /\ B!BootInit
  /\ tmp = [f \in File |-> Absent]
  /\ \E S \in SUBSET Mapping :
       dst = [f \in File |-> IF \E m \in S : f \in Under[m] THEN Vendored ELSE Absent]
  /\ copyPc = "idle" /\ copyTodo = {} /\ leftover = {}
  /\ runPc = "idle" /\ ret = "none" /\ runs = 0
  /\ pkg \in Version
  /\ units = {} /\ marker = FALSE /\ profile = "before"
  /\ loaded = [u \in Unit |-> dst[u]]
  /\ started = [u \in Unit |-> Absent]
  /\ before = [dst |-> dst, grub |-> grubFile]

Goto(p) == runPc' = p /\ UNCHANGED <<pkg, ret, runs, before>>

\* return err; the deferred RemoveAll comes next.
Fail == runPc' = "return" /\ ret' = "error" /\ UNCHANGED <<pkg, runs, before>>

\* If MIMO_ROOT is not set it is persisted; whether that fails is only logged.
EnsureMimoRoot == profile' = IF RootSet THEN profile ELSE "written"

\* RunUpdate is called, by root, in a new process.
Start(v) ==
  /\ runPc = "idle"
  /\ runs < MaxRuns
  /\ runPc' = "extract"
  /\ pkg' = v
  /\ ret' = "none"
  /\ runs' = runs + 1
  /\ EnsureMimoRoot
  /\ leftover' = {f \in File : tmp[f] # Absent}
  /\ UNCHANGED <<txnVars, motdVars, tmp, dst, copyPc, copyTodo, bootVars,
                 units, loaded, started, marker, before>>

\* Slip: a file that is there already is not written again.
UnpackedNew(S) == [f \in File |-> IF f \in S /\ tmp[f] = Absent THEN pkg ELSE tmp[f]]

Unpacked(S) == [f \in File |-> IF f \in S THEN pkg ELSE tmp[f]]

\* The names that ExtractResources creates: a hard link is an entry type it does
\* not know; it counts it, warns, and goes on.
Regular(v) == Manifest[v] \ Linked[v]

Strayed(S) == [f \in File |-> IF f \in S THEN pkg ELSE dst[f]]

\* ExtractResources writes over whatever /tmp/mimo-output holds already, and a name
\* with ".." in it is joined as it is and written to where it leads.
Extract ==
  /\ runPc = "extract"
  /\ \/ tmp' = Unpacked(Regular(pkg)) /\ dst' = Strayed(Outside[pkg]) /\ Goto("verify")
     \/ /\ \E S \in SUBSET Regular(pkg), T \in SUBSET Outside[pkg] :
             \/ tmp' = Unpacked(S) /\ dst' = Strayed(T)
             \/ dst' = Strayed(T) /\ \E f \in Regular(pkg) : tmp' = [Unpacked(S) EXCEPT ![f] = Cut]
             \/ tmp' = Unpacked(S) /\ \E f \in Outside[pkg] : dst' = [Strayed(T) EXCEPT ![f] = Cut]
        /\ Fail
  /\ UNCHANGED <<txnVars, motdVars, copyPc, copyTodo, leftover, bootVars, sdVars>>

VerifyHash == pkg \in Genuine

\* Slip: the result of VerifyHash is not looked at.
Ignored == Goto("pkgdep")

\* Slip: a package that does not verify is unpacked again.
Retried == Goto("extract")

Rejected == Fail

\* The second half of extractAndVerify: the hash is checked after unpacking.
Verify ==
  /\ runPc = "verify"
  /\ IF VerifyHash THEN Goto("pkgdep") ELSE Rejected
  /\ UNCHANGED <<txnVars, motdVars, copyVars, bootVars, sdVars>>

\* RunPkgDep: its failures are warnings; apt may install a MOTD script.
PkgDep ==
  /\ runPc = "pkgdep"
  /\ UNCHANGED motdVars \/ \E s \in Script, b \in Body : M!Vendor(s, b)
  /\ Goto("load")
  /\ UNCHANGED <<txnVars, copyVars, bootVars, sdVars>>

\* LoadFileOpsConfig; log.Fatalf ends the process and runs no deferred call.
Load ==
  /\ runPc = "load"
  /\ \/ runPc' = "register" /\ before' = [dst |-> dst, grub |-> grubFile]
        /\ UNCHANGED <<pkg, ret, runs>> /\ Txn!New
     \/ runPc' = "idle" /\ ret' = "fatal" /\ UNCHANGED <<pkg, runs, before, txnVars>>
  /\ UNCHANGED <<motdVars, copyVars, bootVars, sdVars>>

\* The Register...Actions calls; registering grub reads both boot files.
Register ==
  /\ runPc = "register"
  /\ IF Len(actions) < Len(Plan)
       THEN /\ Txn!Add(Plan[Len(actions) + 1])
            /\ IF Plan[Len(actions) + 1] = "grub" THEN B!Capture ELSE UNCHANGED bootVars
            /\ UNCHANGED runVars
       ELSE Txn!Run /\ Goto("txn") /\ UNCHANGED bootVars
  /\ UNCHANGED <<motdVars, copyVars, sdVars>>

DoMotd ==
  /\ Txn!Reached("motd")
  /\ \/ M!MotdDoBegin /\ UNCHANGED txnVars
     \/ \E s \in Script : M!MotdMove(s) /\ UNCHANGED txnVars
     \/ M!MotdDoErr /\ Txn!DoErr("motd")
     \/ M!MotdDoOk /\ Txn!DoOk("motd")
  /\ UNCHANGED <<copyVars, bootVars, sdVars, runVars>>

DoCopy(m) ==
  /\ Txn!Reached(m)
  /\ \/ /\ C!CopyBegin(m) /\ UNCHANGED txnVars
        /\ leftover' = leftover \cup {f \in Under[m] : dst'[f] # Absent}
     \/ \E f \in File : C!CopyFile(f) /\ UNCHANGED <<txnVars, leftover>>
     \/ C!CopyErr(m) /\ Txn!DoErr(m) /\ UNCHANGED leftover
     \/ C!CopyOk(m) /\ Txn!DoOk(m) /\ UNCHANGED leftover
  /\ UNCHANGED <<motdVars, bootVars, sdVars, runVars>>

DoGrub ==
  /\ \/ B!GrubDoOk /\ Txn!DoOk("grub")
     \/ B!GrubDoErr /\ Txn!DoErr("grub")
  /\ UNCHANGED <<motdVars, copyVars, sdVars, runVars>>

DoInit ==
  /\ \/ B!InitDoOk /\ Txn!DoOk("init")
     \/ B!InitDoErr /\ Txn!DoErr("init")
  /\ UNCHANGED <<motdVars, copyVars, sdVars, runVars>>

UndoMotd ==
  /\ Txn!Unwinding("motd")
  /\ \/ M!MotdUndoBegin /\ UNCHANGED txnVars
     \/ \E s \in Script : M!MotdRestore(s) /\ UNCHANGED txnVars
     \/ M!MotdUndoErr /\ Txn!UndoErr("motd")
     \/ M!MotdUndoOk /\ Txn!UndoOk("motd")
  /\ UNCHANGED <<copyVars, bootVars, sdVars, runVars>>

UndoCopy(m) ==
  /\ \/ C!CopyUndoOk(m) /\ Txn!UndoOk(m)
     \/ C!CopyUndoErr(m) /\ Txn!UndoErr(m)
  /\ UNCHANGED <<motdVars, leftover, bootVars, sdVars, runVars>>

UndoGrub ==
  /\ \/ B!GrubUndoOk /\ Txn!UndoOk("grub")
     \/ B!GrubUndoErr /\ Txn!UndoErr("grub")
  /\ UNCHANGED <<motdVars, copyVars, sdVars, runVars>>

\* Slip: the deferred Cleanup is missing.
NotDeferred ==
  txnPc = "returned" /\ txnPc' = "closed" /\ UNCHANGED <<actions, executed, cur, result, effect>>

Deferred == Txn!Cleanup

\* Run returns; the deferred Cleanup runs; RunUpdate looks at the error.
TxnReturn ==
  /\ runPc = "txn"
  /\ \/ (Txn!Commit \/ Txn!Abort) /\ UNCHANGED <<motdVars, runVars>>
     \/ Deferred /\ M!MotdEnd /\ IF result = "nil" THEN Goto("systemd") ELSE Fail
  /\ UNCHANGED <<copyVars, bootVars, sdVars>>

services == {u \in Unit : dst[u] # Absent}

\* Slip: the units are not read again.
NotRead(u) == loaded[u]

\* What systemd knows of a unit after daemon-reload.
Reread(u) == dst[u]

\* EnableServices up to daemon-reload, whose failure is the only one it returns;
\* with no service installed it is not even called.
DaemonReload ==
  /\ runPc = "systemd"
  /\ \/ /\ Goto(IF services = {} THEN "cloud" ELSE "enable")
        /\ units' = services
        /\ loaded' = [u \in Unit |-> IF services = {} THEN loaded[u] ELSE Reread(u)]
     \/ services # {} /\ Fail /\ UNCHANGED <<units, loaded>>
  /\ UNCHANGED <<txnVars, motdVars, copyVars, bootVars, started, marker, profile>>

\* The loop over the services, in the map's random order.
EnableAndStart(u) ==
  /\ runPc = "enable"
  /\ u \in units
  /\ started' \in {started, [started EXCEPT ![u] = loaded[u]]}
  /\ units' = units \ {u}
  /\ IF units' = {} THEN Goto("cloud") ELSE UNCHANGED runVars
  /\ UNCHANGED <<txnVars, motdVars, copyVars, bootVars, loaded, marker, profile>>

DisableCloudInit ==
  /\ runPc = "cloud"
  /\ \/ marker' = TRUE /\ runPc' = "return" /\ ret' = "ok" /\ UNCHANGED <<pkg, runs, before>>
     \/ UNCHANGED marker /\ Fail
  /\ UNCHANGED <<txnVars, motdVars, copyVars, bootVars, units, loaded, started, profile>>

\* The deferred RemoveAll(cleanTmp), whose error is dropped.
Return ==
  /\ runPc = "return"
  /\ Goto("idle")
  /\ tmp' \in C!RemoveAllErr(tmp, File)
  /\ B!BootEnd
  /\ UNCHANGED <<txnVars, motdVars, dst, copyPc, copyTodo, leftover, sdVars>>

\* SIGKILL: files stay as they are, memory is gone.  (After a power loss they need
\* not be as they were: nothing is ever synced.)
Crash ==
  /\ runPc # "idle"
  /\ runPc' = "idle" /\ ret' = "crash" /\ UNCHANGED <<pkg, runs, before>>
  /\ CASE txnPc \in {"open", "run", "rollback"} -> Txn!TxnCrash
       [] txnPc = "returned" -> Txn!Cleanup
       [] OTHER -> UNCHANGED txnVars
  /\ M!MotdEnd /\ C!CopyEnd /\ B!BootEnd
  /\ units' = {}
  /\ UNCHANGED <<leftover, loaded, started, marker, profile>>

\* A step of the running update, whatever the calls it makes return.
Progress ==
  \/ Extract \/ Verify \/ PkgDep \/ Load \/ Register
  \/ DoMotd \/ DoGrub \/ DoInit \/ UndoMotd \/ UndoGrub \/ TxnReturn
  \/ \E m \in Mapping : DoCopy(m) \/ UndoCopy(m)
  \/ DaemonReload \/ DisableCloudInit \/ Return
  \/ \E u \in Unit : EnableAndStart(u)

\* The machine is left alone once no further update is started.
Next == (\E v \in Version : Start(v)) \/ Progress \/ Crash

Spec == Init /\ [][Next]_vars

\* The calls RunUpdate makes return, so it goes on until it ends or dies.
FairSpec == Spec /\ WF_vars(Progress)

-----------------------------------------------------------------------------
(* Properties *)

\* Mapping m is in place: every file of the package that is unpacked is there,
\* whatever else is there is left over from an earlier update, and a mapping of a
\* single file has some file.
Installed(m) ==
  /\ \A f \in Under[m] \cap Regular(pkg) : dst[f] = pkg
  /\ \A f \in Under[m] \ Regular(pkg) : dst[f] # Absent => f \in leftover
  /\ m \in Dir \/ \E f \in Under[m] : dst[f] # Absent

\* What the transaction is to achieve.
Complete ==
  /\ \A m \in Mapping : Installed(m)
  /\ grubCfg \in {"mimo", "vendor+mimo"} /\ initImg = "mimo"
  /\ M!Present(motdDir) = {}

\* An update that reports success (run.go:136) has installed every file of its
\* package but those packed as hard links, which are skipped (decompress.go:79-82);
\* of these, and of other names, a destination has at most what an earlier update
\* left in the staging directory or RemoveAll (fileops.go:143) could not remove,
\* and it boots with MIMO's command line and message.
SuccessIsComplete == ret = "ok" => Complete /\ marker

\* Once the transaction has committed, what it did is never half taken back: the
\* update may fail at daemon-reload or at the cloud-init marker (run.go:128-134)
\* or die, and the machine keeps the complete release.
CommitIsFinal ==
  [][\/ runPc \in {"systemd", "enable", "cloud"}
     \/ runPc = "return" /\ Complete
     => Complete']_vars

\* After a rollback in which every Undo returned nil (run.go:88, fileops.go:149,
\* grub.go:63), no mapping is left with new files except the one whose Do
\* failed, mappings not reached are untouched, and an undone grub file has the
\* content that was captured.
RolledBack ==
  txnPc = "returned" /\ result = "error" =>
    /\ \A m \in Mapping : \A f \in Under[m] :
         CASE effect[m] = "undone" -> dst[f] = Absent
           [] effect[m] = "none"   -> dst[f] = before.dst[f]
           [] OTHER                -> TRUE
    /\ effect["grub"] = "undone" /\ B!NonEmpty(origGrub) => grubFile = before.grub
    /\ effect["grub"] = "none" => grubFile = before.grub

\* Once it is unpacked, a release whose hash does not match changes nothing: no
\* destination, MOTD script, boot file, unit or marker (run.go:100-102 comes before
\* everything that installs).  Before the check come only EnsureMimoRoot
\* (run.go:109) and what unpacking writes, wherever the names lead.
UnverifiedNeverInstalled ==
  [][/\ pkg \notin Genuine /\ runPc # "extract" =>
          UNCHANGED <<dst, motdDir, motdBak, bootVars, units, loaded, started, marker>>
     /\ runPc # "idle" => UNCHANGED profile]_vars

\* A unit is only started from the file this update installed (systemd.go:37-50):
\* daemon-reload comes after the copy and before the start.
StartsInstalledUnit ==
  [][\A u \in Unit : started'[u] # started[u] => started'[u] = dst[u] /\ ret = "none"]_vars

\* The update ends: by returning, by log.Fatalf or by dying.
UpdateEnds == runPc # "idle" ~> runPc = "idle"

\* The composed system runs its transaction as Transaction says, so what is
\* proved of that module holds of RunTransaction.
DrivesTransaction == Txn!TxnSpec

-----------------------------------------------------------------------------
(* The inductive invariant of RunUpdate. *)

Untouched == {"idle", "extract", "verify", "pkgdep", "load"}
Committed == {"systemd", "enable", "cloud"}

\* Where RunUpdate is and where its transaction is.
PcInv ==
  /\ runPc = "register" <=> txnPc = "open"
  /\ runPc = "txn" <=> txnPc \in {"run", "rollback", "returned"}
  /\ runPc \notin {"idle", "return"} => ret = "none"
  /\ units # {} => runPc = "enable"

\* Only a verified package gets past the hash, and systemd has read the units.
GateInv ==
  /\ runPc \in {"pkgdep", "load", "register", "txn"} \cup Committed => pkg \in Genuine
  /\ runPc \in Untouched \/ pkg \notin Genuine => origGrub = "absent" /\ origInit = "absent"
  /\ runPc = "enable" => \A u \in Unit : loaded[u] = dst[u]

\* The transaction has the actions of the plan, and a copy is only under way
\* inside the Do of its own mapping.
PlanInv ==
  /\ runPc = "register" => \A k \in 1..Len(actions) : k <= Len(Plan) /\ actions[k] = Plan[k]
  /\ runPc = "txn" => actions = Plan
  /\ copyPc = "idle" => copyTodo = {}
  /\ copyPc # "idle" => Txn!Reached(copyPc) /\ copyTodo \subseteq Under[copyPc]

\* What the Do and Undo closures have done to the destinations and the grub file.
BackInv ==
  runPc \in {"register", "txn"} =>
    /\ \A m \in Mapping : \A f \in Under[m] :
         /\ effect[m] = "none" /\ copyPc # m => dst[f] = before.dst[f]
         /\ effect[m] = "undone" => dst[f] = Absent
    /\ origGrub \in {before.grub, "absent"}
    /\ effect["grub"] = "none" => grubFile = before.grub
    /\ effect["grub"] = "undone" /\ B!NonEmpty(origGrub) => grubFile = before.grub

\* The staging directory holds the package, and else only leftovers, until
\* RunUpdate returns.
TmpInv ==
  /\ runPc \in {"verify", "pkgdep", "load", "register", "txn"} =>
       \A f \in Regular(pkg) : tmp[f] = pkg
  /\ runPc \in {"extract", "verify", "pkgdep", "load", "register", "txn"} =>
       \A f \in File \ Regular(pkg) : tmp[f] # Absent => f \in leftover

\* What a copy has passed is installed, and it does not pass nothing.
WalkInv ==
  copyPc # "idle" =>
    /\ \A f \in Under[copyPc] \cap Regular(pkg) : f \in copyTodo \/ dst[f] = pkg
    /\ \A f \in Under[copyPc] \ Regular(pkg) : dst[f] # Absent => f \in leftover
    /\ \A f \in copyTodo : tmp[f] # Absent
    /\ copyPc \in Dir \/ copyTodo # {} \/ \E f \in Under[copyPc] : dst[f] # Absent

StageInv == TmpInv /\ WalkInv /\ (motdPc = "do" => M!Present(motdDir) \subseteq motdTodo)

\* An action that is in effect has had its effect ...
DoneInv ==
  txnPc = "run" \/ (txnPc = "returned" /\ result = "nil") =>
    /\ \A m \in Mapping : effect[m] = "applied" => Installed(m)
    /\ effect["motd"] = "applied" => M!Present(motdDir) = {}
    /\ effect["grub"] = "applied" => grubCfg \in {"mimo", "vendor+mimo"}
    /\ effect["init"] = "applied" => initImg = "mimo"

\* ... and what a committed transaction has done lasts until the next update.
LastInv ==
  /\ runPc \in Committed \/ ret = "ok" => Complete
  /\ ret = "ok" => marker

\* What RunUpdate (run.go:106-137) maintains from step to step, over any number
\* of updates: the transaction it drives, the gate of the hash, the staging
\* directory, and what each action has done and undone.
SysInv ==
  /\ Txn!TxnInv /\ PcInv /\ GateInv /\ PlanInv
  /\ BackInv /\ StageInv /\ DoneInv /\ LastInv

-----------------------------------------------------------------------------
(* What the comments of the code say and the code does not do. *)

\* "make file copy operations reusable and transactional" (fileops.go:5): after
\* a rollback without errors the files that were there before are there.
CopyIsTransactional ==
  txnPc = "returned" /\ result = "error" /\ (\A a \in Action : effect[a] # "stuck") =>
    \A m \in Mapping : effect[m] = "undone" =>
      \A f \in Under[m] : dst[f] = before.dst[f]

\* "safer rollback" with "original content for Undo" preserved (grub.go:5-7):
\* when the update has failed at the grub step and been rolled back, a grub file
\* that was there is what it was.
GrubIsTransactional ==
  txnPc = "returned" /\ result = "error" /\ effect["grub"] = "partial" /\ B!NonEmpty(before.grub) =>
    grubFile = before.grub
=============================================================================
