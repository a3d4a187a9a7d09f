------------------------------ MODULE Fileops ------------------------------
(***************************************************************************)
(* internal/fileops/fileops.go: the transaction actions that install the   *)
(* unpacked package.  There is one action per file mapping of config.json; *)
(* its source is a file, or a directory that CopyDir walks.                *)
(*                                                                         *)
(* A file is named once: tmp[f] is its unpacked copy, dst[f] the path it   *)
(* is installed to.  Walk visits names in lexical order; no property       *)
(* depends on it, so the model visits them in any order.  The copied mode  *)
(* bits are left out.                                                      *)
(***************************************************************************)
CONSTANTS File,      \* every path some package or the machine has under a dst
          Mapping,   \* the entries of file_mappings
          Under,     \* Under[m]: the files below the source and dst of m
          Dir,       \* the mappings whose source is a directory
          Content,   \* what a complete file can contain
          Absent,    \* the file does not exist
          Cut        \* the file was created and its copy cut short

VARIABLES tmp,       \* below /tmp/mimo-output
          dst,       \* below the destinations
          copyPc,    \* the mapping whose Do is running, or "idle"
          copyTodo   \* files CopyDir's Walk has still to visit

copyVars == <<tmp, dst, copyPc, copyTodo>>

Tree == [File -> Content \cup {Absent, Cut}]

CopyTypeOK ==
  /\ tmp \in Tree
  /\ dst \in Tree
  /\ copyPc \in Mapping \cup {"idle"}
  /\ copyTodo \in SUBSET File

Removed(t, S) == [f \in File |-> IF f \in S THEN Absent ELSE t[f]]

\* What os.RemoveAll on the files S leaves of t: nothing of S, or, when it
\* meets an error on the way, some of it.
RemoveAllErr(t, S) == {Removed(t, R) : R \in SUBSET S}

-----------------------------------------------------------------------------
\* Stat finds the source (a directory may be empty); the error of RemoveAll(d) is
\* dropped.
CopyBegin(m) ==
  /\ copyPc = "idle"
  /\ m \in Dir \/ \E f \in Under[m] : tmp[f] # Absent
  /\ dst' \in RemoveAllErr(dst, Under[m])
  /\ copyPc' = m
  /\ copyTodo' = {f \in Under[m] : tmp[f] # Absent}
  /\ UNCHANGED tmp

\* Slip: nothing is said of a file that could not be copied.
CopiedOrCut(f) == {tmp[f], Cut}

\* What CopyFile leaves when it returns nil.
Copied(f) == {tmp[f]}

CopyFile(f) ==
  /\ f \in copyTodo
  /\ dst' \in {[dst EXCEPT ![f] = c] : c \in Copied(f)}
  /\ copyTodo' = copyTodo \ {f}
  /\ UNCHANGED <<tmp, copyPc>>

CopyOk(m) ==
  /\ copyPc = m
  /\ copyTodo = {}
  /\ copyPc' = "idle"
  /\ UNCHANGED <<tmp, dst, copyTodo>>

\* Do returns an error: the source is missing, or a file was not created, not
\* copied in full, or copied and not chmod'ed.
CopyErr(m) ==
  /\ \/ copyPc = "idle" /\ UNCHANGED dst
     \/ copyPc = m /\ UNCHANGED dst
     \/ copyPc = m /\ \E f \in copyTodo :
          \E c \in {Cut, tmp[f]} : dst' = [dst EXCEPT ![f] = c]
  /\ copyPc' = "idle"
  /\ copyTodo' = {}
  /\ UNCHANGED tmp

\* Slip: Undo leaves the destination alone.
CopyUndoOkNothing(m) == UNCHANGED copyVars

\* Undo removes the destination.
CopyUndoOk(m) ==
  /\ dst' = Removed(dst, Under[m])
  /\ UNCHANGED <<tmp, copyPc, copyTodo>>

CopyUndoErr(m) ==
  /\ dst' \in RemoveAllErr(dst, Under[m])
  /\ UNCHANGED <<tmp, copyPc, copyTodo>>

\* The process is gone.
CopyEnd ==
  /\ copyPc' = "idle"
  /\ copyTodo' = {}
  /\ UNCHANGED <<tmp, dst>>
=============================================================================
