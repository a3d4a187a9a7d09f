---------------------------- MODULE TargetUpdate ----------------------------
(***************************************************************************)
(* "mimo update --target" (internal/run/run.go, RuntgtUpdate, with         *)
(* internal/spdk/spdk.go): look for a running MIMO target by its socket,   *)
(* save its configuration, kill it, replace the installed files without a  *)
(* transaction, and start it again from the saved configuration.           *)
(*                                                                         *)
(* Nothing keeps two updates apart: every updater process works in the     *)
(* same staging directory, on the same saved configuration and the same    *)
(* installed files.  The target and its operators go on meanwhile: between *)
(* any two calls MIMO may be reconfigured, may die, or be started by hand. *)
(* An updater may be killed at any point and run again.                    *)
(***************************************************************************)
EXTENDS Naturals, Sequences

CONSTANTS
  Updater,     \* processes that may run the update
  MappingSeq,  \* the file_mappings of config.json, in order
  Under,       \* Under[m]: the files below the source and dst of m
  Dir,         \* the mappings whose source is a directory
  Linked,      \* the names that are packed as hard links
  File, Absent, Cut,
  Installed, Release,  \* contents: what is installed now, what is packed
  TgtFile,     \* build/bin/spdk_tgt below MIMO_ROOT
  RpcFile,     \* scripts/rpc.py below MIMO_ROOT
  Config,      \* configurations of the target
  None,        \* there is no saved configuration
  MaxRuns,     \* bound: updates started on the machine
  MaxLaunch    \* bound: MIMO processes over time

Mapping == {MappingSeq[k] : k \in 1..Len(MappingSeq)}
Content == {Installed, Release, Absent, Cut}

ASSUME TargetAssumption ==
  /\ MappingSeq \in Seq(Mapping) /\ Under \in [Mapping -> SUBSET File]
  /\ Dir \subseteq Mapping /\ Linked \subseteq File /\ {TgtFile, RpcFile} \subseteq File
  /\ Installed # Release /\ Absent # Cut /\ {Absent, Cut} \cap {Installed, Release} = {}
  /\ Updater \cap Content = {} /\ {None, Cut} \cap Config = {}
  /\ MaxRuns \in Nat /\ MaxLaunch \in Nat \ {0}

VARIABLES
  tmp,       \* /tmp/mimo-output; an updater u stands for a file that u is writing
  dst,       \* the destinations
  proc,      \* the MIMO process, by number (0: there is none)
  cfg,       \* its live configuration
  sock,      \* /var/tmp/spdk.sock exists
  saved,     \* /tmp/spdk_full_config.json
  dying,     \* MIMO processes that have ended and are not reaped yet
  starting,  \* updaters whose restart command is running and MIMO is not up yet
  launches   \* MIMO processes so far; the last one's number
VARIABLES    \* of every updater
  pc,        \* where RuntgtUpdate is
  idx,       \* loop index over the file mappings
  todo,      \* files still to be unpacked, or to be visited by Walk
  pid,       \* pid
  orig,      \* the updaters that have spdkOrigCmd # ""
  ret,       \* what RuntgtUpdate returns
  runs       \* updates started so far
VARIABLES
  known,     \* history: launches when the updater looked for the socket
  seen,      \* history: configurations MIMO had since it was started or found by lsof
  down,      \* history: an update killed MIMO, and none is up since
  late,      \* history: updaters whose kill hit a process that had ended already
  hasty,     \* history: an update has found a process that had ended already
  alone,     \* history: updaters that no other one has run beside
  overlap    \* history: two updates have run at once

fileVars == <<tmp, dst>>
mimoVars == <<proc, cfg, sock, saved, dying, starting, launches, seen, down, hasty>>
memVars == <<idx, todo, pid, orig, ret, known, late>>
runVars == <<runs, alone, overlap>>
vars == <<fileVars, mimoVars, pc, memVars, runVars>>

Location == {"idle", "unpack", "proceed", "detect", "stop", "lsof", "ps", "helper",
             "save", "saving", "kill", "load", "copy", "walk", "restart", "return"}

Up == proc # 0
Complete(f) == dst[f] \in {Installed, Release}
Read(f) == IF tmp[f] \in Updater THEN Cut ELSE tmp[f]

FileTypes == tmp \in [File -> Content \cup Updater] /\ dst \in [File -> Content]

MimoTypes ==
  /\ proc \in 0..MaxLaunch /\ launches \in 0..MaxLaunch
  /\ cfg \in Config \cup {None} /\ (Up => cfg \in Config)
  /\ saved \in Config \cup {None, Cut} /\ seen \subseteq Config
  /\ starting \subseteq Updater /\ dying \subseteq 1..MaxLaunch

MemTypes ==
  /\ pc \in [Updater -> Location] /\ idx \in [Updater -> 1..(Len(MappingSeq) + 1)]
  /\ todo \in [Updater -> SUBSET File] /\ ret \in [Updater -> {"nil", "error"}]
  /\ pid \in [Updater -> 0..MaxLaunch] /\ known \in [Updater -> 0..MaxLaunch]
  /\ late \subseteq Updater
  /\ orig \subseteq Updater /\ \A u \in orig : pid[u] # 0

FlagTypes ==
  /\ sock \in BOOLEAN /\ down \in BOOLEAN /\ hasty \in BOOLEAN
  /\ overlap \in BOOLEAN /\ alone \subseteq Updater /\ runs \in 0..MaxRuns

TgtTypeOK == FileTypes /\ MimoTypes /\ MemTypes /\ FlagTypes

-----------------------------------------------------------------------------
\* An installed machine, MIMO running or not, with whatever an update of some
\* release that was killed has left in the staging directory.
Init ==
  /\ tmp \in [File -> Content]
  /\ dst = [f \in File |-> Installed]
  /\ \/ proc = 0 /\ cfg = None /\ seen = {}
     \/ proc = 1 /\ cfg \in Config /\ seen = {cfg}
  /\ launches = proc
  /\ sock = Up /\ saved = None /\ dying = {} /\ starting = {} /\ down = FALSE /\ hasty = FALSE
  /\ pc = [u \in Updater |-> "idle"] /\ idx = [u \in Updater |-> 1]
  /\ todo = [u \in Updater |-> {}] /\ ret = [u \in Updater |-> "nil"]
  /\ pid = [u \in Updater |-> 0] /\ orig = {}
  /\ known = [u \in Updater |-> 0] /\ late = {}
  /\ runs = 0 /\ alone = {} /\ overlap = FALSE

-----------------------------------------------------------------------------
(* The target and its operators. *)

\* A MIMO process starts: it replaces a stale socket by its own.
Launched(c) ==
  /\ ~Up /\ launches < MaxLaunch
  /\ Complete(TgtFile)
  /\ proc' = launches + 1 /\ launches' = launches + 1 /\ cfg' = c
  /\ sock' = TRUE /\ down' = FALSE /\ seen' = {c}
  /\ UNCHANGED <<saved, dying, hasty, fileVars, pc, memVars, runVars>>

LaunchByHand(c) == Launched(c) /\ UNCHANGED starting

Reconfigure(c) ==
  /\ Up
  /\ cfg' = c
  /\ seen' = seen \cup {c}
  /\ UNCHANGED <<proc, sock, saved, dying, starting, launches, down, hasty, fileVars, pc, memVars, runVars>>

\* The process ends: it serves nobody any more, but it has a pid, and may have its
\* files open, until it is reaped.
Ended == proc' = 0 /\ cfg' = None /\ dying' = dying \cup {proc}

\* A clean exit unlinks the socket, a crash leaves it.
ProcEnds ==
  /\ Up
  /\ Ended
  /\ sock' \in BOOLEAN
  /\ UNCHANGED <<saved, starting, launches, seen, down, hasty, fileVars, pc, memVars, runVars>>

Reaped(p) ==
  /\ p \in dying
  /\ dying' = dying \ {p}
  /\ UNCHANGED <<proc, cfg, sock, saved, starting, launches, seen, down, hasty, fileVars, pc, memVars, runVars>>

RemoveStaleSock ==
  /\ ~Up /\ sock
  /\ sock' = FALSE
  /\ UNCHANGED <<proc, cfg, saved, dying, starting, launches, seen, down, hasty, fileVars, pc, memVars, runVars>>

\* The command that RestartSpdkWithSavedConfig has started gets as far as
\* running the target with -c, or fails.
RestartedUp(u) ==
  /\ u \in starting /\ saved \in Config
  /\ Launched(saved)
  /\ starting' = starting \ {u}

RestartFails(u) ==
  /\ u \in starting
  /\ starting' = starting \ {u}
  /\ UNCHANGED <<proc, cfg, sock, saved, dying, launches, seen, down, hasty, fileVars, pc, memVars, runVars>>

Environment ==
  \/ \E c \in Config : LaunchByHand(c) \/ Reconfigure(c)
  \/ \E u \in Updater : RestartedUp(u) \/ RestartFails(u)
  \/ ProcEnds \/ RemoveStaleSock \/ \E p \in dying : Reaped(p)

-----------------------------------------------------------------------------
(* An updater u. *)

At(u, p) == pc[u] = p
Goto(u, p) == pc' = [pc EXCEPT ![u] = p] /\ UNCHANGED memVars
\* The memory of an updater that has no more use for it, or is gone.
Forget(u) ==
  /\ idx' = [idx EXCEPT ![u] = 1] /\ todo' = [todo EXCEPT ![u] = {}]
  /\ pid' = [pid EXCEPT ![u] = 0] /\ orig' = orig \ {u}
  /\ known' = [known EXCEPT ![u] = 0] /\ late' = late \ {u}
\* return: only the deferred call follows.
Leave(u, r) == pc' = [pc EXCEPT ![u] = "return"] /\ ret' = [ret EXCEPT ![u] = r] /\ Forget(u)
Fail(u) == Leave(u, "error")
\* The process is gone; log.Fatalf runs no deferred call.
Exit(u) == pc' = [pc EXCEPT ![u] = "idle"] /\ ret' = [ret EXCEPT ![u] = "nil"] /\ Forget(u)

\* RuntgtUpdate is called; ExtractResources will skip the hard links.
Start(u) ==
  /\ At(u, "idle") /\ runs < MaxRuns
  /\ pc' = [pc EXCEPT ![u] = "unpack"] /\ todo' = [todo EXCEPT ![u] = File \ Linked]
  /\ runs' = runs + 1
  /\ LET beside == \E v \in Updater \ {u} : ~At(v, "idle")
     IN  alone' = (IF beside THEN {} ELSE {u}) /\ overlap' = (overlap \/ beside)
  /\ UNCHANGED <<fileVars, mimoVars, idx, pid, orig, ret, known, late>>

\* u closes the file it is writing; what is in it is c.  A file that another
\* updater has truncated or removed since u created it is not u's to complete.
Closed(u, c) == [f \in File |-> IF tmp[f] = u THEN c ELSE tmp[f]]

\* Slip: a file that is there already is not written again.
CreatedOnce(u, f) == [Closed(u, Release) EXCEPT ![f] = IF @ = Absent THEN u ELSE @]

Created(u, f) == [Closed(u, Release) EXCEPT ![f] = u]

Visited(u, f) == todo' = [todo EXCEPT ![u] = @ \ {f}] /\ UNCHANGED <<pc, idx, pid, orig, ret, known, late>>

\* extractAndVerify: ExtractResources writes file after file over whatever is
\* there, then the hash is checked.
Unpack(u) ==
  /\ At(u, "unpack")
  /\ \/ \E f \in todo[u] : tmp' = Created(u, f) /\ Visited(u, f)
     \/ todo[u] = {} /\ tmp' = Closed(u, Release) /\ Goto(u, "proceed")
     \/ tmp' \in {Closed(u, Cut), Closed(u, Release)} /\ Fail(u)
  /\ UNCHANGED <<dst, mimoVars, runVars>>

\* LoadVersionConfig, whose errors are fatal, and the first prompt; the versions
\* are only printed.
Proceed(u) ==
  /\ At(u, "proceed")
  /\ Exit(u) \/ Goto(u, "detect") \/ Leave(u, "nil")
  /\ UNCHANGED <<fileVars, mimoVars, runVars>>

\* os.Stat(cleanSock)
Detect(u) ==
  /\ At(u, "detect")
  /\ \/ /\ pc' = [pc EXCEPT ![u] = IF sock THEN "stop" ELSE "load"]
        /\ known' = [known EXCEPT ![u] = launches]
        /\ UNCHANGED <<idx, todo, pid, orig, ret, late>>
     \/ Fail(u)
  /\ UNCHANGED <<fileVars, mimoVars, runVars>>

\* Slip: the update goes on when the operator does not want to stop MIMO.
DeclinedIgnored(u) == Goto(u, "load")

\* ConfirmPrompt returns false, also when the answer cannot be read.
Declined(u) == Leave(u, "nil")

ConfirmStop(u) ==
  /\ At(u, "stop")
  /\ Goto(u, "lsof") \/ Declined(u)
  /\ UNCHANGED <<fileVars, mimoVars, runVars>>

\* A MIMO answers on the socket.
Served == Up /\ sock

\* Slip: that lsof has listed nothing is not noticed.
HoldersOrNone == IF sock THEN dying \cup {proc} ELSE {}

\* The processes lsof may list first for the socket: the one that serves it, or one
\* that has ended and still has its files open.
Holders == IF sock THEN dying \cup ({proc} \ {0}) ELSE {}

Lsof(u) ==
  /\ At(u, "lsof")
  /\ \/ \E p \in Holders :
          /\ pid' = [pid EXCEPT ![u] = p] /\ pc' = [pc EXCEPT ![u] = "ps"]
          /\ seen' = (IF p = proc THEN {cfg} ELSE seen) /\ hasty' = (hasty \/ p # proc)
          /\ UNCHANGED <<idx, todo, orig, ret, known, late>>
     \/ Fail(u) /\ UNCHANGED <<seen, hasty>>
  /\ UNCHANGED <<fileVars, proc, cfg, sock, saved, dying, starting, launches, down, runVars>>

\* ps has something to say of a process that is not reaped, too.
Ps(u) ==
  /\ At(u, "ps")
  /\ \/ /\ proc = pid[u] \/ pid[u] \in dying
        /\ orig' = orig \cup {u} /\ pc' = [pc EXCEPT ![u] = "helper"]
        /\ UNCHANGED <<idx, todo, pid, ret, known, late>>
     \/ Fail(u)
  /\ UNCHANGED <<fileVars, mimoVars, runVars>>

StatHelper(u) ==
  /\ At(u, "helper")
  /\ IF dst[RpcFile] # Absent THEN Goto(u, "save") ELSE Fail(u)
  /\ UNCHANGED <<fileVars, mimoVars, runVars>>

\* The shell truncates the file before rpc.py is run.
SaveBegin(u) ==
  /\ At(u, "save")
  /\ saved' = Cut
  /\ Goto(u, "saving")
  /\ UNCHANGED <<fileVars, proc, cfg, sock, dying, starting, launches, seen, down, hasty, runVars>>

\* Slip: the exit status of save_config is not looked at.
SaveErrIgnored(u) == Goto(u, "kill")

SaveErr(u) == Fail(u)

\* rpc.py save_config asks whoever serves the socket now.
SaveEnd(u) ==
  /\ At(u, "saving")
  /\ \/ Served /\ Complete(RpcFile) /\ saved' = cfg /\ Goto(u, "kill")
     \/ UNCHANGED saved /\ SaveErr(u)
  /\ UNCHANGED <<fileVars, proc, cfg, sock, dying, starting, launches, seen, down, hasty, runVars>>

\* Slip: whatever MIMO is running is killed.
AnyAlive(u) == Up

Alive(u) == Up /\ proc = pid[u]

\* Slip: a MIMO that cannot be killed is taken for a stopped one.
KillErrIgnored(u) == Goto(u, "load")

KillErr(u) == Fail(u)

\* kill -9 leaves the socket file behind.  It also succeeds, and does nothing, on a
\* process that has ended and is not reaped; nobody waits for the end.
Kill(u) ==
  /\ At(u, "kill")
  /\ \/ Alive(u) /\ Ended /\ down' = TRUE /\ Goto(u, "load")
     \/ /\ pid[u] \in dying /\ UNCHANGED <<proc, cfg, dying, down>>
        /\ pc' = [pc EXCEPT ![u] = "load"] /\ late' = late \cup {u}
        /\ UNCHANGED <<idx, todo, pid, orig, ret, known>>
     \/ UNCHANGED <<proc, cfg, dying, down>> /\ KillErr(u)
  /\ UNCHANGED <<fileVars, sock, saved, starting, launches, seen, hasty, runVars>>

\* The head of the loop over the file mappings, and what follows the loop.
Loop(k) == IF k <= Len(MappingSeq) THEN "copy" ELSE "restart"

\* LoadFileOpsConfig
LoadMappings(u) ==
  /\ At(u, "load")
  /\ Goto(u, Loop(1)) \/ Exit(u)
  /\ UNCHANGED <<fileVars, mimoVars, runVars>>

Removed(S) == [f \in File |-> IF f \in S THEN Absent ELSE dst[f]]

\* An iteration up to RemoveAll(dstPath): the source is there (a directory may be
\* empty), and the old target is removed.  Any error returns.
CopyHead(u) ==
  /\ At(u, "copy")
  /\ LET m == MappingSeq[idx[u]]
         listed == {f \in Under[m] : tmp[f] # Absent}
     IN  \/ /\ m \in Dir \/ listed # {}
            /\ dst' = Removed(Under[m])
            /\ pc' = [pc EXCEPT ![u] = "walk"] /\ todo' = [todo EXCEPT ![u] = listed]
            /\ UNCHANGED <<idx, pid, orig, ret, known, late>>
         \/ (\E S \in SUBSET Under[m] : dst' = Removed(S)) /\ Fail(u)
  /\ UNCHANGED <<tmp, mimoVars, runVars>>

\* Slip: nothing is said of a file that was not copied in full.
CopyOrCut(f) == {Read(f), Cut}

\* What CopyFile leaves at the destination when it returns nil.
Copied(f) == {Read(f)}

\* CopyDir and CopyFile: a file that has gone since the directory was listed is
\* an error; so is one that was not created, not copied in full or not chmod'ed.
Walk(u) ==
  /\ At(u, "walk")
  /\ \/ \E f \in todo[u] :
          /\ tmp[f] # Absent
          /\ \E c \in Copied(f) : dst' = [dst EXCEPT ![f] = c]
          /\ Visited(u, f)
     \/ /\ todo[u] = {}
        /\ idx' = [idx EXCEPT ![u] = @ + 1] /\ pc' = [pc EXCEPT ![u] = Loop(idx[u] + 1)]
        /\ UNCHANGED <<dst, todo, pid, orig, ret, known, late>>
     \/ /\ \/ UNCHANGED dst
           \/ \E f \in todo[u], c \in {Cut, Release} :
                c \in {Cut, Read(f)} /\ dst' = [dst EXCEPT ![f] = c]
        /\ Fail(u)
  /\ UNCHANGED <<tmp, mimoVars, runVars>>

\* Slip: Run, which waits for the target to exit, instead of Start.
WaitsForExit(u) == UNCHANGED <<pc, memVars>>

DoesNotWait(u) == Leave(u, "nil")

\* RestartSpdkWithSavedConfig: skipped if this process captured no command.
Restart(u) ==
  /\ At(u, "restart")
  /\ \/ u \notin orig /\ UNCHANGED starting /\ Leave(u, "nil")
     \/ u \in orig /\ starting' = starting \cup {u} /\ DoesNotWait(u)
     \/ u \in orig /\ UNCHANGED starting /\ Fail(u)
  /\ UNCHANGED <<fileVars, proc, cfg, sock, saved, dying, launches, seen, down, hasty, runVars>>

\* The deferred RemoveAll(cleanTmp), file after file; its error is dropped.
Return(u) ==
  /\ At(u, "return")
  /\ \/ \E f \in File :
          tmp[f] # Absent /\ tmp' = [tmp EXCEPT ![f] = Absent] /\ UNCHANGED <<pc, memVars>>
     \/ UNCHANGED tmp /\ Exit(u)
  /\ UNCHANGED <<dst, mimoVars, runVars>>

Crash(u) ==
  /\ ~At(u, "idle")
  /\ Exit(u)
  /\ tmp' = Closed(u, Cut)
  /\ UNCHANGED <<dst, mimoVars, runVars>>

Progress(u) ==
  \/ Unpack(u) \/ Proceed(u) \/ Detect(u) \/ ConfirmStop(u)
  \/ Lsof(u) \/ Ps(u) \/ StatHelper(u) \/ SaveBegin(u) \/ SaveEnd(u) \/ Kill(u)
  \/ LoadMappings(u) \/ CopyHead(u) \/ Walk(u) \/ Restart(u) \/ Return(u)

Next == Environment \/ \E u \in Updater : Start(u) \/ Progress(u) \/ Crash(u)

Spec == Init /\ [][Next]_vars

\* The calls return and the operator answers the prompts.
FairSpec == Spec /\ \A u \in Updater : WF_vars(Progress(u))

-----------------------------------------------------------------------------
(* Properties *)

\* While MIMO is down because an update killed it, the configuration it had
\* been saved with is on disk in full (spdk.go:99-117), whatever happens to
\* this update and to the ones after it, as long as no two run at once and none
\* takes a MIMO that is still dying for a running one.
DownHasConfig == ~overlap /\ ~hasty /\ down => saved \in Config

\* When a kill -9 ends a running MIMO (spdk.go:110-117), the saved configuration is
\* one that this very MIMO had while the update was saving it: never another
\* process's, never an older update's.  What is changed between save_config and
\* kill -9 is lost.
KillKeepsConfig ==
  [][(\E u \in Updater : At(u, "kill") /\ pc'[u] = "load") /\ proc' # proc /\ ~overlap
       => saved \in seen]_vars

\* An update that no other one ran beside restarts MIMO, and succeeds, only over
\* an installation that has every file that is unpacked (hard links are skipped,
\* decompress.go:79-82), and with a complete configuration (run.go:192-220),
\* whatever dead or overlapping updates (run.go:112) have left before.
AloneIsComplete ==
  \A u \in alone : At(u, "restart") =>
    /\ \A m \in Mapping : \A f \in Under[m] \ Linked : dst[f] = Release
    /\ u \in orig => saved \in Config

\* A restart command never brings the old program up again, not even when other
\* updates are replacing the files meanwhile (spdk.go:56, run.go:202): this is
\* for the default MIMO_ROOT, where the mappings replace the target, and for a
\* target that is not packed as a hard link.
RestartRunsRelease ==
  (\E m \in Mapping : TgtFile \in Under[m]) /\ TgtFile \notin Linked =>
    \A u \in starting : dst[TgtFile] # Installed

\* No updater replaces files under a MIMO that was running when it looked for one
\* (run.go:169-184), as long as lsof lists no process that has ended.
ReplacedOnlyWhenStopped ==
  [][\A u \in Updater :
       pc[u] \in {"copy", "walk"} /\ dst' # dst /\ ~hasty => ~Up \/ proc > known[u]]_vars

\* An updater that is to restart the MIMO it found does so after that one has ended
\* (spdk.go:110-120), and of several that found the same one, only one has ended
\* it: kill -9 succeeded for the others while it was still dying, which nothing
\* in the code tells them.
StoppedOnce ==
  \A u, v \in orig :
    /\ pc[u] \in {"load", "copy", "walk", "restart"}
    /\ pc[v] \in {"load", "copy", "walk", "restart"}
    => /\ proc # pid[u]
       /\ u # v /\ pid[u] = pid[v] => u \in late \/ v \in late

\* Every update ends: by returning, by log.Fatalf or by dying.
TargetUpdateEnds == \A u \in Updater : ~At(u, "idle") ~> At(u, "idle")
=============================================================================
