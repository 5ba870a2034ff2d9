-------------------------- MODULE MCInspectManager --------------------------
(***************************************************************************)
(* An instance of InspectManager for TLC: two seam intervals, the first    *)
(* ends with image 1, the second with image 2.  A seam has five images,    *)
(* one less for each sensor of its graphs.  The sensors are alike.         *)
(***************************************************************************)
EXTENDS InspectManager, TLC

TwoIntervals == <<1, 2>>
ShorterWithSensors == [sensors \in SUBSET Sensors |-> 4 - Cardinality(sensors)]
Alike == Permutations(Sensors)
=============================================================================
