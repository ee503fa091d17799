---------------------------- MODULE MCEventStream -----------------------------
(***************************************************************************)
(* Two jobs, so that what the first leaves behind meets the second; a      *)
(* thread that calls back; channels and queue of the smallest capacities   *)
(* at which they are full in some states and hold several events in        *)
(* others.                                                                 *)
(***************************************************************************)
EXTENDS EventStream, TLC

CONSTANT t1

OneThread == {t1}

OneItem == <<1>>
TwoItems == <<2>>
TwoThenOne == <<2, 1>>
===============================================================================
