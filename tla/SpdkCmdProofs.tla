--------------------------- MODULE SpdkCmdProofs ---------------------------
(***************************************************************************)
(* The restart command is right for command lines of any length, over any  *)
(* number of restarts.  The loop invariant LoopInv says that the index     *)
(* never stands behind a "-c" and that newParts holds the kept words       *)
(* before it; SameInv follows the loop over a line it has built itself.    *)
(***************************************************************************)
EXTENDS SpdkCmd, FiniteSetTheorems, SequenceTheorems, TLAPS

Below(k) == Kept \cap 2..k

LoopInv ==
  /\ parts[i - 1] # ConfigOpt
  /\ \A k \in 1..Len(newParts) : newParts[k] # ConfigOpt
  /\ Len(newParts) = Cardinality(Below(i - 1))
  /\ \A k \in Below(i - 1) : newParts[Cardinality(Below(k))] = parts[k]
  /\ newCmd # << >> =>
       i = Len(parts) + 1 /\ newCmd = <<SpdkTgt, ConfigOpt, Saved>> \o newParts

SameInv ==
  prev # << >> =>
    /\ Len(parts) >= 3
    /\ parts[1] = SpdkTgt /\ parts[2] = ConfigOpt /\ parts[3] = Saved
    /\ \A k \in 4..Len(parts) : parts[k] # ConfigOpt
    /\ \/ i = 2 /\ newParts = << >>
       \/ i >= 4 /\ Len(newParts) = i - 4 /\ \A k \in 1..(i - 4) : newParts[k] = parts[k + 3]

CmdInv == CmdTypeOK /\ LoopInv /\ SameInv

-----------------------------------------------------------------------------
\* What the restart command looks like, whatever words are kept (spdk.go:56).
LEMMA CommandShape ==
  ASSUME NEW s \in Seq(Word), NEW c, c = <<SpdkTgt, ConfigOpt, Saved>> \o s
  PROVE  /\ c \in Seq(Word) /\ c # << >>
         /\ Len(c) = 3 + Len(s)
         /\ c[1] = SpdkTgt /\ c[2] = ConfigOpt /\ c[3] = Saved
         /\ \A k \in 1..Len(s) : c[k + 3] = s[k]
         /\ \A k \in 4..Len(c) : c[k] = s[k - 3]
BY CmdAssumption, SMTT(30)

\* The positions counted by Below are finitely many.
LEMMA BelowFinite ==
  ASSUME NEW k \in Int
  PROVE  IsFiniteSet(Below(k)) /\ Cardinality(Below(k)) \in Nat
<1>1. IsFiniteSet(2..k)  BY FS_Interval
<1>2. Below(k) \subseteq 2..k  BY DEF Below
<1> QED  BY <1>1, <1>2, FS_Subset, FS_CardinalityType

\* A position counts at most as many kept words as a later one.
LEMMA BelowMonotone ==
  ASSUME NEW k \in Int, NEW n \in Int, k <= n
  PROVE  Cardinality(Below(k)) <= Cardinality(Below(n))
<1>1. Below(k) \subseteq Below(n)  BY DEF Below
<1> QED  BY <1>1, BelowFinite, FS_Subset

\* A kept position is counted by itself.
LEMMA BelowPositive ==
  ASSUME NEW k \in Kept
  PROVE  k \in Int /\ Cardinality(Below(k)) >= 1
<1>1. k \in Int /\ k \in Below(k)  BY DEF Below, Kept
<1>2. Cardinality(Below(k)) # 0  BY <1>1, BelowFinite, FS_EmptySet
<1> QED  BY <1>1, <1>2, BelowFinite

-----------------------------------------------------------------------------
\* Every state the loop starts in satisfies the invariant.
LEMMA CmdInit == Init => CmdInv
<1> SUFFICES ASSUME Init PROVE CmdInv  OBVIOUS
<1>1. parts \in Seq(Word) /\ WellFormed(parts)  BY CmdAssumption DEF Init
<1>2. CmdTypeOK  BY <1>1 DEF Init, CmdTypeOK, WellFormed
<1>3. Below(1) = {}  BY DEF Below
<1>4. i - 1 = 1 /\ Len(newParts) = 0 /\ newCmd = << >>  BY DEF Init
<1>5. Cardinality(Below(i - 1)) = 0 /\ Below(i - 1) = {}  BY <1>3, <1>4, FS_EmptySet
<1>6. parts[i - 1] # ConfigOpt  BY <1>1, <1>4 DEF WellFormed
<1>7. LoopInv  BY <1>4, <1>5, <1>6 DEF LoopInv
<1> QED  BY <1>2, <1>7 DEF CmdInv, SameInv, Init

\* The loop is started over another line, built by hand or by a restart.
LEMMA CmdCaptured ==
  ASSUME NEW l \in Seq(Word), WellFormed(l), Captured(l), prev' \in {<< >>, l}
  PROVE  (CmdTypeOK /\ LoopInv)'
<1>1. parts' = l /\ i' = 2 /\ newParts' = << >> /\ newCmd' = << >>  BY DEF Captured
<1>2. CmdTypeOK'  BY <1>1 DEF CmdTypeOK, WellFormed
<1>3. Below(1)' = {}  BY DEF Below
<1>4. (i - 1)' = 1 /\ Len(newParts') = 0  BY <1>1
<1>5. Cardinality(Below(i - 1)') = 0 /\ Below(i - 1)' = {}  BY <1>3, <1>4, FS_EmptySet
<1>6. parts'[(i - 1)'] # ConfigOpt  BY <1>1, <1>4 DEF WellFormed
<1> QED  BY <1>1, <1>2, <1>4, <1>5, <1>6 DEF LoopInv

\* Skipping a pair keeps the invariant: neither of its words is a kept one.
LEMMA CmdSkip == CmdInv /\ SkipPair => CmdInv'
<1> SUFFICES ASSUME CmdInv, SkipPair PROVE CmdInv'  OBVIOUS
<1> USE DEF CmdInv
<1>1. /\ parts' = parts /\ newParts' = newParts /\ newCmd' = newCmd /\ prev' = prev
      /\ i' = i + 2 /\ i \in Nat /\ Len(parts) \in Nat /\ i >= 2 /\ i < Len(parts)
      /\ parts[i] = ConfigOpt /\ parts[i + 1] # ConfigOpt
  BY DEF SkipPair, IsPair, AfterPair, CmdTypeOK, WellFormed
<1>2. CmdTypeOK'  BY <1>1 DEF CmdTypeOK
<1>3. Kept' = Kept  BY <1>1 DEF Kept
<1>4. \A k \in Int : Below(k)' = Below(k)  BY <1>3 DEF Below
<1>5. i \notin Kept /\ i + 1 \notin Kept  BY <1>1 DEF Kept
<1>6. Below(i + 1) = Below(i - 1)  BY <1>1, <1>5 DEF Below, Kept
<1>7. (i - 1)' = i + 1  BY <1>1
<1>8. Below(i - 1)' = Below(i - 1)  BY <1>1, <1>4, <1>6, <1>7 DEF Below
<1>9. \A k \in Below(i - 1) : Below(k)' = Below(k)  BY <1>4 DEF Below
<1>10. LoopInv'  BY <1>1, <1>7, <1>8, <1>9 DEF LoopInv
<1>11. SameInv'  BY <1>1 DEF SameInv
<1> QED  BY <1>2, <1>10, <1>11

\* Keeping a word keeps the invariant: one more word is counted.
LEMMA CmdKeep == CmdInv /\ KeepWord => CmdInv'
<1> SUFFICES ASSUME CmdInv, KeepWord PROVE CmdInv'  OBVIOUS
<1> USE DEF CmdInv
<1>1. /\ parts' = parts /\ newCmd' = newCmd /\ prev' = prev
      /\ newParts' = Append(newParts, parts[i])
      /\ i' = i + 1 /\ i \in Nat /\ Len(parts) \in Nat /\ i >= 2 /\ i <= Len(parts)
      /\ parts[i] \in Word /\ newParts \in Seq(Word)
      /\ parts[i] # ConfigOpt
  BY DEF KeepWord, IsPair, CmdTypeOK, WellFormed
<1>2. CmdTypeOK'  BY <1>1 DEF CmdTypeOK
<1>3. Kept' = Kept  BY <1>1 DEF Kept
<1>4. \A k \in Int : Below(k)' = Below(k)  BY <1>3 DEF Below
<1>5. i \in Kept  BY <1>1 DEF Kept, LoopInv
<1>6. Below(i) = Below(i - 1) \cup {i} /\ i \notin Below(i - 1)  BY <1>1, <1>5 DEF Below, Kept
<1>7. (i - 1)' = i  BY <1>1
<1>8. Below(i - 1)' = Below(i)  BY <1>1, <1>4, <1>7 DEF Below
<1>9. Cardinality(Below(i)) = Cardinality(Below(i - 1)) + 1
  <2>0. i - 1 \in Int  BY <1>1
  <2>1. IsFiniteSet(Below(i - 1)) /\ Cardinality(Below(i - 1)) \in Nat
    BY <2>0, BelowFinite, Zenon
  <2> QED  BY <1>6, <2>1, FS_AddElement
<1>10. newCmd = << >>  BY <1>1 DEF LoopInv
<1>11. Len(newParts) = Cardinality(Below(i - 1)) /\ Len(newParts) \in Nat
  BY <1>1 DEF LoopInv
<1>12. Len(newParts') = Cardinality(Below(i))  BY <1>1, <1>9, <1>11
<1>13. \A k \in 1..Len(newParts') : newParts'[k] # ConfigOpt  BY <1>1 DEF LoopInv
<1>14. ASSUME NEW k \in Below(i) PROVE newParts'[Cardinality(Below(k))] = parts[k]
  <2>1. CASE k = i  BY <1>1, <1>9, <1>11, <2>1
  <2>2. CASE k # i
    <3>1. k \in Below(i - 1) /\ k \in Kept /\ k \in Int /\ k <= i - 1
      BY <1>1, <1>6, <2>2 DEF Below, Kept
    <3>2. Cardinality(Below(k)) \in 1..Len(newParts)
      BY <1>1, <1>11, <3>1, BelowPositive, BelowMonotone, BelowFinite
    <3>3. newParts[Cardinality(Below(k))] = parts[k]  BY <3>1 DEF LoopInv
    <3> QED  BY <1>1, <3>2, <3>3
  <2> QED  BY <2>1, <2>2
<1>15. \A k \in Below(i) : Below(k)' = Below(k)  BY <1>4 DEF Below
<1>16. LoopInv'  BY <1>1, <1>7, <1>8, <1>10, <1>12, <1>13, <1>14, <1>15 DEF LoopInv
<1>17. SameInv'
  <2> SUFFICES ASSUME prev # << >> PROVE SameInv'  BY <1>1 DEF SameInv
  <2>1. i >= 4  BY <1>1 DEF SameInv
  <2>2. Len(newParts') = i' - 4 /\ \A k \in 1..(i' - 4) : newParts'[k] = parts[k + 3]
    BY <1>1, <2>1 DEF SameInv
  <2> QED  BY <1>1, <2>1, <2>2 DEF SameInv
<1> QED  BY <1>2, <1>16, <1>17

\* Building the command changes nothing the loop has computed.
LEMMA CmdBuild == CmdInv /\ Build => CmdInv'
<1> SUFFICES ASSUME CmdInv, Build PROVE CmdInv'  OBVIOUS
<1> USE DEF CmdInv
<1>1. /\ parts' = parts /\ newParts' = newParts /\ i' = i /\ prev' = prev
      /\ newCmd' = <<SpdkTgt, ConfigOpt, Saved>> \o newParts
      /\ i = Len(parts) + 1 /\ newParts \in Seq(Word)
  BY DEF Build, CmdTypeOK
<1>2. newCmd' \in Seq(Word)  BY <1>1, CommandShape
<1>3. CmdTypeOK'  BY <1>1, <1>2 DEF CmdTypeOK
<1>4. Kept' = Kept  BY <1>1 DEF Kept
<1>5. \A k : Below(k)' = Below(k)  BY <1>4 DEF Below
<1>6. LoopInv'  BY <1>1, <1>5 DEF LoopInv
<1> QED  BY <1>1, <1>3, <1>6 DEF SameInv

\* The command that was built is a line the next update can take apart.
LEMMA CmdNextUpdate == CmdInv /\ NextUpdate => CmdInv'
<1> SUFFICES ASSUME CmdInv, NextUpdate PROVE CmdInv'  OBVIOUS
<1> USE DEF CmdInv
<1>1. newCmd = <<SpdkTgt, ConfigOpt, Saved>> \o newParts /\ newParts \in Seq(Word)
  BY DEF NextUpdate, LoopInv, CmdTypeOK
<1>2. /\ newCmd \in Seq(Word) /\ newCmd # << >> /\ Len(newCmd) >= 3
      /\ newCmd[1] = SpdkTgt /\ newCmd[2] = ConfigOpt /\ newCmd[3] = Saved
      /\ \A k \in 4..Len(newCmd) : newCmd[k] # ConfigOpt
  <2>1. \A k \in 4..Len(newCmd) : k - 3 \in 1..Len(newParts) /\ newCmd[k] = newParts[k - 3]
    BY <1>1, CommandShape
  <2>2. \A k \in 4..Len(newCmd) : newCmd[k] # ConfigOpt  BY <2>1 DEF LoopInv
  <2>3. Len(newCmd) >= 3  BY <1>1, CommandShape
  <2> QED  BY <1>1, <2>2, <2>3, CommandShape
<1>3. WellFormed(newCmd)  BY <1>2, CmdAssumption DEF WellFormed
<1>4. Captured(newCmd) /\ prev' = newCmd  BY DEF NextUpdate
<1>5. (CmdTypeOK /\ LoopInv)'  BY <1>2, <1>3, <1>4, CmdCaptured
<1>6. SameInv'  BY <1>2, <1>4 DEF SameInv, Captured
<1> QED  BY <1>5, <1>6

\* The invariant is inductive.
LEMMA CmdStep == CmdInv /\ [Next]_vars => CmdInv'
<1> SUFFICES ASSUME CmdInv, [Next]_vars PROVE CmdInv'  OBVIOUS
<1>1. ASSUME NEW l \in Line, ByHand(l) PROVE CmdInv'
  <2>1. l \in Seq(Word) /\ WellFormed(l)  BY CmdAssumption
  <2>2. Captured(l) /\ prev' = << >>  BY <1>1 DEF ByHand
  <2>3. (CmdTypeOK /\ LoopInv)'  BY <2>1, <2>2, CmdCaptured
  <2> QED  BY <2>2, <2>3 DEF CmdInv, SameInv
<1>2. CASE UNCHANGED vars
  <2>1. /\ parts' = parts /\ i' = i /\ newParts' = newParts /\ newCmd' = newCmd
        /\ prev' = prev
    BY <1>2 DEF vars
  <2>2. Kept' = Kept  BY <2>1 DEF Kept
  <2>3. \A k : Below(k)' = Below(k)  BY <2>2 DEF Below
  <2> QED  BY <2>1, <2>3 DEF CmdInv, CmdTypeOK, LoopInv, SameInv
<1> QED  BY <1>1, <1>2, CmdSkip, CmdKeep, CmdBuild, CmdNextUpdate DEF Next

\* The invariant of the loop holds over any number of updates and restarts.
LEMMA CmdInvariant == Spec => []CmdInv
BY CmdInit, CmdStep, PTL DEF Spec

-----------------------------------------------------------------------------
\* Type correctness: the loop never leaves the line, and every line it takes
\* apart is well formed, the ones it has built included (spdk.go:37-59).
THEOREM CmdTypes == Spec => []CmdTypeOK
<1>1. CmdInv => CmdTypeOK  BY DEF CmdInv
<1> QED  BY <1>1, CmdInvariant, PTL

\* The restart command has all the other arguments, in their order, and no
\* "-c FILE" pair of the old command (spdk.go:37-51).
THEOREM ArgumentsKept == Spec => []KeepsArguments
<1>1. CmdInv => KeepsArguments
  <2> SUFFICES ASSUME CmdInv, newCmd # << >> PROVE KeepsArguments  BY DEF KeepsArguments
  <2>1. /\ i - 1 = Len(parts) /\ Len(parts) \in Nat /\ newParts \in Seq(Word)
        /\ newCmd = <<SpdkTgt, ConfigOpt, Saved>> \o newParts
    BY DEF CmdInv, LoopInv, CmdTypeOK
  <2>2. Below(i - 1) = Kept  BY <2>1 DEF Below, Kept
  <2>3. Len(newCmd) = 3 + Cardinality(Kept)
    BY <2>1, <2>2, CommandShape DEF CmdInv, LoopInv
  <2>4. ASSUME NEW k \in Kept PROVE newCmd[3 + Cardinality(Below(k))] = parts[k]
    <3>1. k \in Int /\ k <= i - 1  BY <2>1 DEF Kept
    <3>2. Cardinality(Below(k)) \in 1..Len(newParts)
      BY <2>1, <3>1, BelowPositive, BelowMonotone, BelowFinite DEF CmdInv, LoopInv
    <3>3. newParts[Cardinality(Below(k))] = parts[k]  BY <2>2 DEF CmdInv, LoopInv
    <3>4. newCmd[Cardinality(Below(k)) + 3] = newParts[Cardinality(Below(k))]
      BY <2>1, <3>2, CommandShape
    <3> QED  BY <3>2, <3>3, <3>4
  <2> QED  BY <2>3, <2>4 DEF KeepsArguments, Below
<1> QED  BY <1>1, CmdInvariant, PTL

\* The only "-c" of a restart command is the one with the saved configuration
\* (spdk.go:56).
THEOREM SavedIsTheConfig == Spec => []OneConfig
<1>1. CmdInv => OneConfig
  <2> SUFFICES ASSUME CmdInv, newCmd # << >> PROVE OneConfig  BY DEF OneConfig
  <2>1. newCmd = <<SpdkTgt, ConfigOpt, Saved>> \o newParts /\ newParts \in Seq(Word)
    BY DEF CmdInv, LoopInv, CmdTypeOK
  <2>2. \A k \in 4..Len(newCmd) : k - 3 \in 1..Len(newParts) /\ newCmd[k] = newParts[k - 3]
    BY <2>1, CommandShape
  <2> QED  BY <2>1, <2>2, CommandShape DEF OneConfig, CmdInv, LoopInv
<1> QED  BY <1>1, CmdInvariant, PTL

\* A restart of a restarted MIMO runs the same command (spdk.go:37-59).
THEOREM RestartIsStable == Spec => []StableRestart
<1>1. CmdInv => StableRestart
  <2> SUFFICES ASSUME CmdInv, newCmd # << >>, prev # << >> PROVE newCmd = parts /\ prev = parts
    BY DEF StableRestart
  <2>1. prev = parts  BY DEF CmdInv, CmdTypeOK
  <2>2. /\ newCmd = <<SpdkTgt, ConfigOpt, Saved>> \o newParts /\ newParts \in Seq(Word)
        /\ i = Len(parts) + 1 /\ parts \in Seq(Word)
    BY DEF CmdInv, LoopInv, CmdTypeOK
  <2>3. /\ Len(parts) >= 3 /\ Len(newParts) = Len(parts) - 3
        /\ parts[1] = SpdkTgt /\ parts[2] = ConfigOpt /\ parts[3] = Saved
        /\ \A k \in 1..(Len(parts) - 3) : newParts[k] = parts[k + 3]
    BY <2>2 DEF CmdInv, SameInv
  <2>4. /\ newCmd \in Seq(Word) /\ Len(newCmd) = Len(parts)
        /\ newCmd[1] = SpdkTgt /\ newCmd[2] = ConfigOpt /\ newCmd[3] = Saved
        /\ \A k \in 4..Len(newCmd) : newCmd[k] = newParts[k - 3]
    BY <2>2, <2>3, CommandShape
  <2>5. \A k \in 4..Len(parts) : k - 3 \in 1..(Len(parts) - 3) /\ newParts[k - 3] = parts[k]
    BY <2>2, <2>3
  <2>6. \A k \in 1..Len(parts) : newCmd[k] = parts[k]
    BY <2>2, <2>3, <2>4, <2>5
  <2>7. newCmd = parts  BY <2>2, <2>4, <2>6, SeqEqual
  <2> QED  BY <2>1, <2>7
<1> QED  BY <1>1, CmdInvariant, PTL
=============================================================================
