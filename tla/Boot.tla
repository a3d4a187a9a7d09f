-------------------------------- MODULE Boot --------------------------------
(***************************************************************************)
(* internal/grub/grub.go: the two transaction actions that change how the  *)
(* machine boots.  Both write a file and run the tool that generates the   *)
(* boot artefact from it; both close over the file's content as it was     *)
(* when the action was registered.                                         *)
(***************************************************************************)
VARIABLES grubFile,  \* /etc/default/grub
          grubCfg,   \* what update-grub last generated grub.cfg from
          initFile,  \* init-top/mimo-msg
          initImg,   \* the mimo-msg that update-initramfs last packed
          origGrub,  \* origGrub, captured at registration
          origInit   \* origInit, captured at registration

bootVars == <<grubFile, grubCfg, initFile, initImg, origGrub, origInit>>

(* Contents, as far as they are told apart: the machine's own settings, the
   same with MIMO's kernel command line, MIMO's text without the complete
   settings of the machine, and what a write that was cut short leaves
   (os.WriteFile truncates first). *)
Text == {"absent", "empty", "cut", "vendor", "vendor+mimo", "mimo"}
Unreadable == "absent"   \* a failed ReadFile leaves the capture nil, like no file

BootTypeOK ==
  /\ grubFile \in Text /\ grubCfg \in Text /\ initFile \in Text
  /\ initImg \in Text /\ origGrub \in Text /\ origInit \in Text

\* len(orig) > 0
NonEmpty(t) == t \notin {"absent", "empty"}

\* Replace the GRUB_CMDLINE_LINUX_DEFAULT line, or append one.
WithCmdline(t) ==
  IF t \in {"vendor", "vendor+mimo"} THEN "vendor+mimo" ELSE "mimo"

\* What os.WriteFile leaves of the old content when it fails.
WriteErr(old) == {old, "empty", "cut"}

-----------------------------------------------------------------------------
\* A machine as installed: its generated artefacts match its files.
BootInit ==
  /\ grubFile \in {"absent", "vendor"} /\ grubCfg = grubFile
  /\ initFile = "absent" /\ initImg = "absent"
  /\ origGrub = "absent" /\ origInit = "absent"

\* RegisterGrubAndInitActions; a read error other than "no such file" is
\* treated the same way.
Capture ==
  /\ origGrub' \in {grubFile, Unreadable}
  /\ origInit' \in {initFile, Unreadable}
  /\ UNCHANGED <<grubFile, grubCfg, initFile, initImg>>

GrubDoOk ==
  /\ grubFile' = WithCmdline(origGrub)
  /\ grubCfg' = grubFile'
  /\ UNCHANGED <<initFile, initImg, origGrub, origInit>>

\* The write failed, or it succeeded and update-grub failed.
GrubDoErr ==
  /\ grubFile' \in WriteErr(grubFile) \cup {WithCmdline(origGrub)}
  /\ UNCHANGED <<grubCfg, initFile, initImg, origGrub, origInit>>

\* Slip: the modified text is written back.
RestoredModified == WithCmdline(origGrub)

Restored == origGrub

\* update-grub is best effort, and only run when there was something to restore.
GrubUndoOk ==
  /\ grubFile' = IF NonEmpty(origGrub) THEN Restored ELSE grubFile
  /\ grubCfg' \in IF NonEmpty(origGrub) THEN {grubCfg, Restored} ELSE {grubCfg}
  /\ UNCHANGED <<initFile, initImg, origGrub, origInit>>

GrubUndoErr ==
  /\ NonEmpty(origGrub)
  /\ grubFile' \in WriteErr(grubFile)
  /\ UNCHANGED <<grubCfg, initFile, initImg, origGrub, origInit>>

InitDoOk ==
  /\ initFile' = "mimo"
  /\ initImg' = "mimo"
  /\ UNCHANGED <<grubFile, grubCfg, origGrub, origInit>>

\* mkdir, the write or update-initramfs failed.  The action is the last one of
\* the transaction, so its Undo is never called by Rollback.
InitDoErr ==
  /\ initFile' \in WriteErr(initFile) \cup {"mimo"}
  /\ UNCHANGED <<grubFile, grubCfg, initImg, origGrub, origInit>>

\* The process is gone, and the captures with it.
BootEnd ==
  /\ origGrub' = "absent" /\ origInit' = "absent"
  /\ UNCHANGED <<grubFile, grubCfg, initFile, initImg>>
=============================================================================
