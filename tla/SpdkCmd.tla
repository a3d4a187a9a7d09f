------------------------------ MODULE SpdkCmd ------------------------------
(***************************************************************************)
(* The command that RestartSpdkWithSavedConfig (internal/spdk/spdk.go)     *)
(* builds from the command line of the MIMO that was killed: the loop of   *)
(* stripConfigArg drops the pairs "-c FILE", and a "-c" with the saved     *)
(* configuration is put in front.  The MIMO started that way is the one    *)
(* whose command line the next update takes apart, so the loop is run over *)
(* its own results as well as over the lines operators type.               *)
(*                                                                         *)
(* A line is the sequence of words strings.Fields finds in what ps prints, *)
(* and bash splits the new command into the same words: words hold neither *)
(* white space nor anything the shell interprets.                          *)
(***************************************************************************)
EXTENDS Integers, Sequences, FiniteSets

CONSTANTS
  Word,   \* words of a command line
  Line,   \* the lines by which MIMO may have been started by hand
  ConfigOpt, \* "-c"
  SpdkTgt,   \* the program below MIMO_ROOT
  Saved      \* /tmp/spdk_full_config.json

\* "-c" has an argument, which is not "-c" again: MIMO does not start otherwise.
WellFormed(l) ==
  /\ l # << >> /\ l[1] # ConfigOpt
  /\ \A k \in 1..Len(l) : l[k] = ConfigOpt => k < Len(l) /\ l[k + 1] # ConfigOpt

ASSUME CmdAssumption ==
  /\ {ConfigOpt, SpdkTgt, Saved} \subseteq Word
  /\ ConfigOpt \notin {SpdkTgt, Saved}
  /\ Line \subseteq Seq(Word) /\ \A l \in Line : WellFormed(l)

VARIABLES
  parts,     \* the words of spdkOrigCmd
  i,         \* the loop's index, counted from 1
  newParts,  \* newParts
  newCmd,    \* the words of newCmd; << >> while it is not built
  prev       \* history: the restart command that parts came from, or << >>

vars == <<parts, i, newParts, newCmd, prev>>

CmdTypeOK ==
  /\ parts \in Seq(Word) /\ WellFormed(parts)
  /\ i \in 2..(Len(parts) + 1)
  /\ newParts \in Seq(Word) /\ newCmd \in Seq(Word)
  /\ prev \in {<< >>, parts}

\* spdkOrigCmd is l: the loop is about to look at the first argument.
Captured(l) == parts' = l /\ i' = 2 /\ newParts' = << >> /\ newCmd' = << >>

Init ==
  /\ parts \in Line /\ prev = << >>
  /\ i = 2 /\ newParts = << >> /\ newCmd = << >>

\* Slip: "-c" is only seen when two more words follow.
IsPairOffByOne(k) == parts[k] = ConfigOpt /\ k + 1 < Len(parts)

IsPair(k) == parts[k] = ConfigOpt /\ k < Len(parts)

\* Slip: the option is dropped and its argument stays.
AfterOption(k) == k + 1

\* Slip: the word after the pair is dropped too.
AfterPairAndOne(k) == k + 3

AfterPair(k) == k + 2

SkipPair ==
  /\ i <= Len(parts) /\ IsPair(i)
  /\ i' = AfterPair(i)
  /\ UNCHANGED <<parts, newParts, newCmd, prev>>

KeepWord ==
  /\ i <= Len(parts) /\ ~IsPair(i)
  /\ newParts' = Append(newParts, parts[i])
  /\ i' = i + 1
  /\ UNCHANGED <<parts, newCmd, prev>>

Build ==
  /\ i > Len(parts) /\ newCmd = << >>
  /\ newCmd' = <<SpdkTgt, ConfigOpt, Saved>> \o newParts
  /\ UNCHANGED <<parts, i, newParts, prev>>

\* A later update finds the MIMO that this command has started.
NextUpdate == newCmd # << >> /\ Captured(newCmd) /\ prev' = newCmd

\* Or one that was started by hand meanwhile.
ByHand(l) == newCmd # << >> /\ Captured(l) /\ prev' = << >>

Next == SkipPair \/ KeepWord \/ Build \/ NextUpdate \/ \E l \in Line : ByHand(l)

Spec == Init /\ [][Next]_vars

-----------------------------------------------------------------------------
(* Properties *)

\* What stripConfigArg is meant to keep: the arguments that are neither "-c" nor
\* directly behind one.
Kept == {k \in 2..Len(parts) : parts[k] # ConfigOpt /\ parts[k - 1] # ConfigOpt}

\* The restarted MIMO has all the arguments of the one that was killed, each at
\* its place among the others, and none of its "-c FILE" pairs (spdk.go:37-51).
KeepsArguments ==
  newCmd # << >> =>
    /\ Len(newCmd) = 3 + Cardinality(Kept)
    /\ \A k \in Kept : newCmd[3 + Cardinality(Kept \cap 2..k)] = parts[k]

\* The saved configuration is named once, and no other "-c" comes after it, over
\* however many restarts (spdk.go:56).
OneConfig ==
  newCmd # << >> =>
    /\ newCmd[2] = ConfigOpt /\ newCmd[3] = Saved
    /\ \A k \in 4..Len(newCmd) : newCmd[k] # ConfigOpt

\* Restarting a MIMO that was itself restarted gives the same command: nothing
\* piles up from update to update (spdk.go:37-59).
StableRestart == newCmd # << >> /\ prev # << >> => newCmd = prev
=============================================================================
