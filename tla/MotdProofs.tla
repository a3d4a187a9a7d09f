----------------------------- MODULE MotdProofs -----------------------------
(***************************************************************************)
(* Proofs about module Motd, for any set of scripts and any number of      *)
(* updates of the machine.                                                 *)
(***************************************************************************)
EXTENDS Motd, TLAPS

\* What the loops of Do and Undo maintain about the scripts that were there
\* when the Do began (motd.go:41-52, 60-69): a script is still in place, or
\* its copy in the backup is good; a restored one is good as well.
UndoInv ==
  \A s \in Script :
    /\ motdPc = "do" /\ s \in motdTodo => motdDir[s] = motdStart[s]
    /\ /\ motdPc \in {"do", "done", "undo"} /\ motdStart[s].body # Absent
       /\ ~(motdPc = "do" /\ s \in motdTodo)
       => motdBak[s].body = motdStart[s].body
    /\ /\ motdPc \in {"undo", "undone"} /\ motdStart[s].body # Absent
       /\ s \notin motdTodo
       => motdDir[s].body = motdStart[s].body

\* Over all updates, for the scripts whose Undo was not cut short: one in the
\* directory is the distribution's latest, one that is not there is in the backup.
LatestInv ==
  \A s \in Script \ cutUndo :
    /\ motdDir[s].body \in {Absent, latest[s]}
    /\ latest[s] = Absent => motdBak[s].body = Absent
    /\ motdDir[s].body = Absent /\ latest[s] # Absent => motdBak[s].body = latest[s]
    /\ motdPc = "do" /\ s \notin motdTodo => motdDir[s].body = Absent
    /\ motdPc = "done" \/ (motdPc = "undo" /\ s \in motdTodo) => motdDir[s].body = Absent

-----------------------------------------------------------------------------
\* Every step keeps the variables in their types (motd.go:25-77), and the
\* entries still to be visited exist.
LEMMA MotdTypeStep == MotdTypeOK /\ [MotdNext]_motdVars => MotdTypeOK'
<1> SUFFICES ASSUME MotdTypeOK, [MotdNext]_motdVars PROVE MotdTypeOK'
  OBVIOUS
<1> USE MotdAssumption DEF MotdTypeOK, Entry, Present, NoFile, copyFile, Backup, Rest, UndoEntries
<1>1. CASE MotdDoBegin
  BY <1>1 DEF MotdDoBegin
<1>2. CASE MotdDoErr
  <2>1. CASE UNCHANGED motdBak
    BY <1>2, <2>1 DEF MotdDoErr
  <2>2. ASSUME NEW s \in motdTodo, NEW b \in {Cut, motdDir[s].body},
               motdBak' = [motdBak EXCEPT ![s] = copyFile(@, b)]
        PROVE  MotdTypeOK'
    BY <1>2, <2>2 DEF MotdDoErr
  <2> QED BY <1>2, <2>1, <2>2 DEF MotdDoErr
<1>3. CASE MotdDoOk
  BY <1>3 DEF MotdDoOk
<1>4. CASE MotdUndoBegin
  BY <1>4 DEF MotdUndoBegin
<1>5. CASE MotdUndoErr
  BY <1>5 DEF MotdUndoErr
<1>6. CASE MotdUndoOk
  BY <1>6 DEF MotdUndoOk
<1>7. CASE MotdEnd
  BY <1>7 DEF MotdEnd
<1>8. ASSUME NEW s \in Script, MotdMove(s) PROVE MotdTypeOK'
  BY <1>8 DEF MotdMove
<1>9. ASSUME NEW s \in Script, MotdRestore(s) PROVE MotdTypeOK'
  BY <1>9 DEF MotdRestore
<1>10. ASSUME NEW s \in Script, NEW b \in Body, Vendor(s, b) PROVE MotdTypeOK'
  BY <1>10 DEF Vendor
<1>11. CASE UNCHANGED motdVars
  BY <1>11 DEF motdVars
<1> QED
  BY <1>1, <1>2, <1>3, <1>4, <1>5, <1>6, <1>7, <1>8, <1>9, <1>10, <1>11 DEF MotdNext

\* The machine as installed has the types.
LEMMA MotdTypeInit == MotdInit => MotdTypeOK
BY MotdAssumption DEF MotdInit, MotdTypeOK, Entry, NoFile

\* What the loops of Do and Undo maintain, step by step.
LEMMA UndoStep == MotdTypeOK /\ UndoInv /\ [MotdNext]_motdVars => UndoInv'
<1> SUFFICES ASSUME MotdTypeOK, UndoInv, [MotdNext]_motdVars PROVE UndoInv'
  OBVIOUS
<1> USE MotdAssumption DEF MotdTypeOK, Entry, Present, NoFile, copyFile, Backup, Rest, UndoEntries,
    UndoInv
<1>1. CASE MotdDoBegin
  BY <1>1 DEF MotdDoBegin
<1>2. CASE MotdDoErr \/ MotdUndoErr \/ MotdEnd
  <2>1. motdPc' = "idle"
    BY <1>2 DEF MotdDoErr, MotdUndoErr, MotdEnd
  <2> QED BY <2>1
<1>3. CASE MotdDoOk
  BY <1>3 DEF MotdDoOk
<1>4. CASE MotdUndoBegin
  BY <1>4 DEF MotdUndoBegin
<1>5. CASE MotdUndoOk
  BY <1>5 DEF MotdUndoOk
<1>6. ASSUME NEW s \in Script, MotdMove(s) PROVE UndoInv'
  BY <1>6 DEF MotdMove
<1>7. ASSUME NEW s \in Script, MotdRestore(s) PROVE UndoInv'
  BY <1>7 DEF MotdRestore
<1>8. ASSUME NEW s \in Script, NEW b \in Body, Vendor(s, b) PROVE UndoInv'
  BY <1>8 DEF Vendor
<1>9. CASE UNCHANGED motdVars
  BY <1>9 DEF motdVars
<1> QED
  BY <1>1, <1>2, <1>3, <1>4, <1>5, <1>6, <1>7, <1>8, <1>9 DEF MotdNext

\* After an Undo that returned nil (motd.go:55-72) every script that was there
\* when the Do began is back with its content.
THEOREM UndoBringsScriptsBack == MotdSpec => []UndoBringsBack
<1>1. MotdInit => UndoInv
  BY DEF MotdInit, UndoInv
<1>2. MotdTypeOK /\ UndoInv => UndoBringsBack
  BY DEF MotdTypeOK, UndoInv, UndoBringsBack, Present
<1> QED BY <1>1, <1>2, MotdTypeInit, MotdTypeStep, UndoStep, PTL DEF MotdSpec

-----------------------------------------------------------------------------
\* Do copies before it removes, Undo restores only what Do took away
\* (motd.go:44-51, 60-69): both keep the latest scripts.
LEMMA LatestStep == MotdTypeOK /\ LatestInv /\ [MotdNext]_motdVars => LatestInv'
<1> SUFFICES ASSUME MotdTypeOK, LatestInv, [MotdNext]_motdVars PROVE LatestInv'
  OBVIOUS
<1> USE MotdAssumption DEF MotdTypeOK, Entry, Present, NoFile, copyFile, Backup, Rest, UndoEntries,
    LatestInv
<1>1. CASE MotdDoBegin
  BY <1>1 DEF MotdDoBegin
<1>2. CASE MotdDoErr
  <2>1. CASE UNCHANGED motdBak
    BY <1>2, <2>1 DEF MotdDoErr
  <2>2. ASSUME NEW s \in motdTodo, NEW b \in {Cut, motdDir[s].body},
               motdBak' = [motdBak EXCEPT ![s] = copyFile(@, b)]
        PROVE  LatestInv'
    <3>1. s \in Script /\ motdDir[s].body # Absent
      BY <1>2 DEF MotdDoErr
    <3> QED BY <1>2, <2>2, <3>1 DEF MotdDoErr
  <2> QED BY <1>2, <2>1, <2>2 DEF MotdDoErr
<1>3. CASE MotdDoOk
  BY <1>3 DEF MotdDoOk
<1>4. CASE MotdUndoBegin
  BY <1>4 DEF MotdUndoBegin
<1>5. CASE MotdUndoErr
  BY <1>5 DEF MotdUndoErr
<1>6. CASE MotdUndoOk
  BY <1>6 DEF MotdUndoOk
<1>7. CASE MotdEnd
  BY <1>7 DEF MotdEnd
<1>8. ASSUME NEW s \in Script, MotdMove(s) PROVE LatestInv'
  BY <1>8 DEF MotdMove
<1>9. ASSUME NEW s \in Script, MotdRestore(s) PROVE LatestInv'
  BY <1>9 DEF MotdRestore
<1>10. ASSUME NEW s \in Script, NEW b \in Body, Vendor(s, b) PROVE LatestInv'
  BY <1>10 DEF Vendor
<1>11. CASE UNCHANGED motdVars
  BY <1>11 DEF motdVars
<1> QED
  BY <1>1, <1>2, <1>3, <1>4, <1>5, <1>6, <1>7, <1>8, <1>9, <1>10, <1>11 DEF MotdNext

\* A fresh machine has the latest scripts in place and no backup.
LEMMA LatestInit == MotdInit => LatestInv
<1> SUFFICES ASSUME MotdInit PROVE LatestInv
  OBVIOUS
<1>1. \A s \in Script : motdDir[s].body = latest[s] /\ motdBak[s].body = Absent
  BY DEF MotdInit, NoFile
<1>2. motdPc = "idle"
  BY DEF MotdInit
<1> QED BY <1>1, <1>2 DEF LatestInv

\* No script the distribution installed is ever lost, however often updates
\* fail, are undone or are killed, but for one whose own Undo was cut short.
THEOREM NothingLost == MotdSpec => []NoScriptLost
<1>1. MotdTypeOK /\ LatestInv => NoScriptLost
  BY DEF MotdTypeOK, LatestInv, NoScriptLost
<1> QED BY <1>1, LatestInit, LatestStep, MotdTypeInit, MotdTypeStep, PTL DEF MotdSpec

\* The backup that is never emptied does not bring an old script back over a
\* newer one (motd.go:56-69).
THEOREM NothingStale == MotdSpec => []NoStaleScript
<1>1. LatestInv => NoStaleScript
  BY DEF LatestInv, NoStaleScript
<1> QED BY <1>1, LatestInit, LatestStep, MotdTypeInit, MotdTypeStep, PTL DEF MotdSpec

\* The variables keep their types; an entry still to be visited exists.
THEOREM MotdTypes == MotdSpec => []MotdTypeOK
BY MotdTypeInit, MotdTypeStep, PTL DEF MotdSpec
=============================================================================
