---------------------------- MODULE StationModes ----------------------------
(***************************************************************************)
(* What the workflow promises its clients about the operating mode of an   *)
(* inspection station, without locks, threads or the analyzer: work starts *)
(* only from "ready", a fault or an emergency stop never resumes work      *)
(* directly, and a station is shut down only while it is not working.      *)
(*                                                                         *)
(* The states of Mod_Workflow/include/workflow/stateMachine map onto these *)
(* modes; Workflow.tla implements this module.                             *)
(***************************************************************************)

VARIABLE mode   \* the operating mode the station is in

Modes == {"starting", "ready", "working", "fault", "emergency", "ended"}

ModeTypeOK == mode \in Modes

ModeInit == mode = "starting"

\* The moves a station makes; everything not listed here never happens.
Moves == { <<"starting", "ready">>, <<"starting", "fault">>,
           <<"starting", "emergency">>, <<"starting", "ended">>,
           <<"ready", "working">>, <<"ready", "fault">>,
           <<"ready", "emergency">>, <<"ready", "ended">>,
           <<"working", "ready">>, <<"working", "fault">>,
           <<"working", "emergency">>,
           <<"fault", "ready">>, <<"fault", "emergency">>,
           <<"emergency", "ready">>, <<"emergency", "fault">> }

Move(m) == /\ <<mode, m>> \in Moves
           /\ mode' = m

ModeNext == \E m \in Modes : Move(m)

ModeSpec == ModeInit /\ [][ModeNext]_mode
=============================================================================
