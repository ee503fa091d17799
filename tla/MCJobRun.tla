------------------------------- MODULE MCJobRun -------------------------------
(***************************************************************************)
(* Values for the constants of JobRun.  Two controllers, one of them with  *)
(* an attached bundle, and a name interface.json lacks; two resources.     *)
(* Two jobs are enough for one to inherit what the other left behind in    *)
(* the wrapper.                                                            *)
(***************************************************************************)
EXTENDS JobRun, TLC

CONSTANTS win, adb, lost, official, bilibili

MCControllers == {win, adb}
MCAttaching == {adb}

Ask(c, s, n) == [ctrl |-> c, res |-> s, n |-> n]

MCRequests == {Ask(win, official, 1), Ask(adb, bilibili, 0)}
MCLiveRequests == {Ask(win, official, 2), Ask(lost, official, 1)}
MCPreferences == {adb, None}

RunSymmetry == Permutations(Runs)
===============================================================================
