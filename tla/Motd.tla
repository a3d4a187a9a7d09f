-------------------------------- MODULE Motd --------------------------------
(***************************************************************************)
(* internal/motd/motd.go: the transaction action that moves the scripts of *)
(* /etc/update-motd.d into /var/lib/mimo/motd-backup and, when undone,     *)
(* copies the backup back.  Both directories outlive the process, and the  *)
(* backup also outlives a successful update.                               *)
(*                                                                         *)
(* A loop iteration of Do (copy, then remove) is one step.  Every error    *)
(* return of an iteration, with what it leaves on disk, is an outcome of   *)
(* MotdDoErr; a crash in the middle is that outcome with nothing after it. *)
(***************************************************************************)
CONSTANTS Script,     \* file names under /etc/update-motd.d
          Body,       \* what a script can contain
          Absent,     \* body of a file that is not there
          Cut         \* body of a file whose copy was cut short

ASSUME MotdAssumption == Absent \notin Body /\ Cut \notin Body /\ Absent # Cut

VARIABLES motdDir,    \* /etc/update-motd.d
          motdBak,    \* /var/lib/mimo/motd-backup
          motdPc,     \* where the action is
          motdTodo,   \* entries of ReadDir still to be visited
          motdStart,  \* history: motdDir when the Do began
          latest,     \* history: the body the distribution last installed
          cutUndo     \* history: scripts whose Undo was cut short since then

motdVars == <<motdDir, motdBak, motdPc, motdTodo, motdStart, latest, cutUndo>>

Entry == [body : Body \cup {Absent, Cut}, exec : BOOLEAN]
NoFile == [body |-> Absent, exec |-> FALSE]
Present(d) == {s \in Script : d[s].body # Absent}

MotdTypeOK ==
  /\ motdDir \in [Script -> Entry]
  /\ motdBak \in [Script -> Entry]
  /\ motdPc \in {"idle", "do", "done", "undo", "undone"}
  /\ motdTodo \subseteq Script
  /\ motdPc = "do" => motdTodo \subseteq Present(motdDir)
  /\ motdPc = "undo" => motdTodo \subseteq Present(motdBak)
  /\ motdPc \notin {"do", "undo"} => motdTodo = {}
  /\ motdStart \in [Script -> Entry]
  /\ latest \in [Script -> Body \cup {Absent}]
  /\ cutUndo \subseteq Script

-----------------------------------------------------------------------------
\* A fresh machine: scripts as the distribution ships them, no backup.
MotdInit ==
  /\ latest \in [Script -> Body \cup {Absent}]
  /\ motdDir = [s \in Script |-> [body |-> latest[s], exec |-> latest[s] # Absent]]
  /\ motdBak = [s \in Script |-> NoFile]
  /\ motdPc = "idle"
  /\ motdTodo = {}
  /\ motdStart = motdDir
  /\ cutUndo = {}

\* copyFile's os.Create: a file that exists keeps its mode, a new one is made
\* without execute permission; the source's mode is not looked at.
copyFile(e, b) == [body |-> b, exec |-> e.exec]

\* Slip: a script that is in the backup already is not copied again.
BackupOnce(s) ==
  IF motdBak[s].body = Absent THEN [motdBak EXCEPT ![s] = copyFile(@, motdDir[s].body)]
                              ELSE motdBak

Backup(s) == [motdBak EXCEPT ![s] = copyFile(@, motdDir[s].body)]

\* Slip: the loop does not advance.
RestAll(s) == motdTodo

\* The entries that are left after s.
Rest(s) == motdTodo \ {s}

MotdDoBegin ==
  /\ motdPc = "idle"
  /\ motdPc' = "do"
  /\ motdTodo' = Present(motdDir)
  /\ motdStart' = motdDir
  /\ UNCHANGED <<motdDir, motdBak, latest, cutUndo>>

MotdMove(s) ==
  /\ motdPc = "do"
  /\ s \in motdTodo
  /\ motdBak' = Backup(s)
  /\ motdDir' = [motdDir EXCEPT ![s] = NoFile]
  /\ motdTodo' = Rest(s)
  /\ UNCHANGED <<motdPc, motdStart, latest, cutUndo>>

\* Do returns an error: nothing was opened, a copy was cut short, or the copy
\* is complete and the original could not be removed.
MotdDoErr ==
  /\ motdPc = "do"
  /\ motdPc' = "idle"
  /\ motdTodo' = {}
  /\ \/ UNCHANGED motdBak
     \/ \E s \in motdTodo : \E b \in {Cut, motdDir[s].body} :
          motdBak' = [motdBak EXCEPT ![s] = copyFile(@, b)]
  /\ UNCHANGED <<motdDir, motdStart, latest, cutUndo>>

MotdDoOk ==
  /\ motdPc = "do"
  /\ motdTodo = {}
  /\ motdPc' = "done"
  /\ UNCHANGED <<motdDir, motdBak, motdTodo, motdStart, latest, cutUndo>>

\* Slip: Undo walks the directory it has just emptied, not the backup.
UndoEntriesWrongDir == Present(motdDir)

UndoEntries == Present(motdBak)

MotdUndoBegin ==
  /\ motdPc = "done"
  /\ motdPc' = "undo"
  /\ motdTodo' = UndoEntries
  /\ UNCHANGED <<motdDir, motdBak, motdStart, latest, cutUndo>>

MotdRestore(s) ==
  /\ motdPc = "undo"
  /\ s \in motdTodo
  /\ motdDir' = [motdDir EXCEPT ![s] = copyFile(@, motdBak[s].body)]
  /\ motdTodo' = Rest(s)
  /\ UNCHANGED <<motdBak, motdPc, motdStart, latest, cutUndo>>

MotdUndoErr ==
  /\ motdPc = "undo"
  /\ motdPc' = "idle"
  /\ motdTodo' = {}
  /\ \/ UNCHANGED <<motdDir, cutUndo>>
     \/ \E s \in motdTodo :
          /\ motdDir' = [motdDir EXCEPT ![s] = copyFile(@, Cut)]
          /\ cutUndo' = cutUndo \cup {s}
  /\ UNCHANGED <<motdBak, motdStart, latest>>

MotdUndoOk ==
  /\ motdPc = "undo"
  /\ motdTodo = {}
  /\ motdPc' = "undone"
  /\ UNCHANGED <<motdDir, motdBak, motdTodo, motdStart, latest, cutUndo>>

\* The transaction is over, or the process is gone.
MotdEnd ==
  /\ motdPc' = "idle"
  /\ motdTodo' = {}
  /\ motdStart' = motdDir
  /\ UNCHANGED <<motdDir, motdBak, latest, cutUndo>>

\* apt, run by pkgdep.sh or between two updates, installs a script.
Vendor(s, b) ==
  /\ motdPc = "idle"
  /\ motdDir' = [motdDir EXCEPT ![s] = [body |-> b, exec |-> TRUE]]
  /\ latest' = [latest EXCEPT ![s] = b]
  /\ cutUndo' = cutUndo \ {s}
  /\ UNCHANGED <<motdBak, motdPc, motdTodo, motdStart>>

MotdNext ==
  \/ MotdDoBegin \/ MotdDoErr \/ MotdDoOk
  \/ MotdUndoBegin \/ MotdUndoErr \/ MotdUndoOk \/ MotdEnd
  \/ \E s \in Script : MotdMove(s) \/ MotdRestore(s)
  \/ \E s \in Script, b \in Body : Vendor(s, b)

MotdSpec == MotdInit /\ [][MotdNext]_motdVars

-----------------------------------------------------------------------------
(* Properties *)

\* Over any number of updates, failed, undone or killed half way, what the
\* distribution last installed is still in the directory or in the backup
\* (motd.go:44-51 copies before it removes), unless the Undo of this very script
\* was cut short (disk full, a kill): only then may the next Do copy a truncated
\* script over its good backup.
NoScriptLost ==
  \A s \in Script \ cutUndo :
    latest[s] # Absent => latest[s] \in {motdDir[s].body, motdBak[s].body}

\* The backup is never emptied and Undo restores all of it (motd.go:56-69), yet no
\* old version of a script replaces or outlives a newer one: whatever is in the
\* directory is the latest the distribution installed.
NoStaleScript ==
  \A s \in Script \ cutUndo : motdDir[s].body \in {Absent, latest[s]}

\* After an Undo that returned nil (motd.go:55-72) every script that was there
\* when the Do began is back, with the body it had.
UndoBringsBack ==
  motdPc = "undone" =>
    \A s \in Present(motdStart) : motdDir[s].body = motdStart[s].body

\* "Undo restores from backup." (motd.go:24): a script that run-parts could
\* execute before the Do can be executed again after the Undo.
UndoRestoresMode ==
  motdPc = "undone" => \A s \in Script : motdStart[s].exec => motdDir[s].exec
=============================================================================
