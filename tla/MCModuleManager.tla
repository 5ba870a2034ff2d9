-------------------------- MODULE MCModuleManager --------------------------
(***************************************************************************)
(* An instance of ModuleManager for TLC: grabber, inspection control,      *)
(* workflow and calibration.  Two of them publish the event interface      *)
(* Sensor and two subscribe to it; Device is published to one module,      *)
(* CalibDataMsg to whoever subscribes.  As in ModuleManagerConnector,      *)
(* subscriptions come before publications, and events are published before *)
(* messages.                                                               *)
(***************************************************************************)
EXTENDS ModuleManager

Subscribe(m, i)   == [op |-> "subscribe", entry |-> [module |-> m, iface |-> i]]
Publish(m, i, to) == [op |-> "publish", entry |-> [module |-> m, iface |-> i, to |-> to]]

Station == {"grab", "insp", "work", "cal"}

StationProgram == [m \in Station |->
    CASE m = "grab" -> << Subscribe(m, "Device"), Publish(m, "Sensor", AnyModule) >>
      [] m = "insp" -> << Subscribe(m, "Device"), Publish(m, "Sensor", AnyModule) >>
      [] m = "work" -> << Subscribe(m, "CalibDataMsg"), Subscribe(m, "Sensor"),
                          Publish(m, "Device", "insp") >>
      [] m = "cal"  -> << Subscribe(m, "Sensor"), Publish(m, "Device", "grab"),
                          Publish(m, "CalibDataMsg", AnyModule) >>]
=============================================================================
