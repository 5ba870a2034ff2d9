----------------------------- MODULE MCWorkflow -----------------------------
(***************************************************************************)
(* Instances of Workflow for TLC.  A run leaves out the requests its        *)
(* question does not need.                                                 *)
(***************************************************************************)
EXTENDS Workflow

Inspecting == {"initialize", "exit", "startAuto", "stopAuto", "start", "end",
               "seamPreStart", "startLivemode", "stopLivemode"}

\* Faults, emergency stops, calibration and teach-in; the data base is fixed.
\* A fatal log entry without an error code is left out: it raises SystemReady.
FaultRequests ==
    Inspecting \cup {"requestCalibration", "startProductTeachInMode",
                     "abortProductTeachInMode", "signalNotReady",
                     "signalReady", "quitSystemFault", "emergency", "info"}

\* Without the requests that can crash the process, and with edits.
Disciplined == (FaultRequests \ Crashing) \cup {"signalNotReadyNone", "edit"}

\* The user edits the data base while the station works.
DataRequests == Inspecting \cup {"edit", "info"}
=============================================================================
