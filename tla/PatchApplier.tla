---------------------------- MODULE PatchApplier ----------------------------
(***************************************************************************)
(* The script that applies a patch inside the container (_DOCKER_APPLIER_  *)
(* SCRIPT in tools/patch/applier.py), one file after another, and the      *)
(* project's files, which the user may edit at any time.  The script       *)
(* does not depend on the process that started it: it goes on when that    *)
(* process dies, and stops where it stands when the container is killed.   *)
(*                                                                         *)
(* One container is kept; starts counts how many there were, so that a     *)
(* second one would not go unnoticed.                                      *)
(***************************************************************************)
EXTENDS Naturals

CONSTANTS
    Patch,     \* the patches; each rewrites every file
    NumFiles,  \* the files of a patch are 1..NumFiles, in its order
    MaxEdits   \* bound: the edits the user makes

ASSUME SizeAssumption == NumFiles \in Nat \ {0} /\ MaxEdits \in Nat

VARIABLES
    disk,    \* the content of each file: Base, Edited, or a patch's
    script,  \* [state, patch, at, broken, killed]
    starts,  \* how many containers were started
    edits    \* how many edits the user has made

applierVars == <<disk, script, starts, edits>>

File == 1 .. NumFiles

\* Of a file that a patch creates, Base is its absence.
Base == "base"
Edited == "edited"
NoPatch == "no patch"

ASSUME ContentAssumption == Base \notin Patch /\ Edited \notin Patch

Content == Patch \cup {Base, Edited}

\* Where the script stands; "at" is the file it has reached.  Its ends are exit
\* codes 0, 20 and 21; a killed one keeps the place it was killed at.
Working == {"staging", "checking", "replacing", "verifying", "undoing"}
Ends == {"applied", "rolled_back", "rollback_failed"}

Script == [state  : Working \cup Ends \cup {"none"},
           patch  : Patch \cup {NoPatch},
           at     : 0 .. NumFiles,
           broken : BOOLEAN,
           killed : BOOLEAN]

NewScript(p) ==
    [state |-> "staging", patch |-> p, at |-> 0, broken |-> FALSE, killed |-> FALSE]

ApplierInit ==
    /\ disk = [f \in File |-> Base]
    /\ script = [state |-> "none", patch |-> NoPatch, at |-> 0,
                 broken |-> FALSE, killed |-> FALSE]
    /\ starts = 0
    /\ edits = 0

\* verify_prepared_patch and verify_applied_patch: every file holds the patch.
Applied(p) == \A f \in File : disk[f] = p

\* prepare_patch: every file is as the patch was made for.
OnBaseline == \A f \in File : disk[f] = Base

StartScript(p) ==
    /\ script' = NewScript(p)
    /\ starts' = starts + 1
    /\ UNCHANGED <<disk, edits>>

At(state) == script.state = state /\ ~script.killed

Goto(state, file) ==
    script' = [script EXCEPT !.state = state, !.at = file]

\* An exception anywhere: undo the files replaced so far, in reverse order.
Undo(replaced) == Goto("undoing", replaced)

-----------------------------------------------------------------------------
\* Stage the new contents, check every baseline and keep the old contents.
Stage ==
    /\ At("staging")
    /\ \/ OnBaseline /\ Goto("checking", 1)
       \/ Undo(0)
    /\ UNCHANGED <<disk, starts, edits>>

\* Look at the next file once more before it is replaced.
Check ==
    /\ At("checking")
    /\ \/ disk[script.at] = Base /\ Goto("replacing", script.at)
       \/ Undo(script.at - 1)
    /\ UNCHANGED <<disk, starts, edits>>

\* os.replace
Replace ==
    /\ At("replacing")
    /\ \/ /\ disk' = [disk EXCEPT ![script.at] = script.patch]
          /\ Goto("verifying", script.at)
       \/ /\ Undo(script.at - 1)
          /\ UNCHANGED disk
    /\ UNCHANGED <<starts, edits>>

\* Mutation: the file just replaced is left out of the rollback.
VerifyForgetting ==
    /\ At("verifying")
    /\ \/ /\ disk[script.at] = script.patch
          /\ IF script.at = NumFiles
             THEN Goto("applied", NumFiles)
             ELSE Goto("checking", script.at + 1)
       \/ Undo(script.at - 1)
    /\ UNCHANGED <<disk, starts, edits>>

\* Mutation: the script does not stop at the last file.
VerifyPastEnd ==
    /\ At("verifying")
    /\ \/ disk[script.at] = script.patch /\ Goto("checking", script.at + 1)
       \/ Undo(script.at)
    /\ UNCHANGED <<disk, starts, edits>>

\* Read the file back; the last one ends the script.
Verify ==
    /\ At("verifying")
    /\ \/ /\ disk[script.at] = script.patch
          /\ IF script.at = NumFiles
             THEN Goto("applied", NumFiles)
             ELSE Goto("checking", script.at + 1)
       \/ Undo(script.at)
    /\ UNCHANGED <<disk, starts, edits>>

\* Put one file back, or fail to and go on with the one before.
Restore ==
    /\ At("undoing")
    /\ script.at > 0
    /\ \/ /\ disk' = [disk EXCEPT ![script.at] = Base]
          /\ Goto("undoing", script.at - 1)
       \/ /\ script' = [script EXCEPT !.at = script.at - 1, !.broken = TRUE]
          /\ UNCHANGED disk
    /\ UNCHANGED <<starts, edits>>

Restored ==
    /\ At("undoing")
    /\ script.at = 0
    /\ Goto(IF script.broken THEN "rollback_failed" ELSE "rolled_back", 0)
    /\ UNCHANGED <<disk, starts, edits>>

ScriptStep == Stage \/ Check \/ Replace \/ Verify \/ Restore \/ Restored

-----------------------------------------------------------------------------
\* docker rm --force, or the container dies by itself: nothing is undone.
Live == script.state \in Working /\ ~script.killed

KillScript ==
    /\ script' = [script EXCEPT !.killed = Live \/ @]
    /\ UNCHANGED <<disk, starts, edits>>

Edit ==
    /\ edits < MaxEdits
    /\ edits' = edits + 1
    /\ \E f \in File : disk' = [disk EXCEPT ![f] = Edited]
    /\ UNCHANGED <<script, starts>>
=============================================================================
