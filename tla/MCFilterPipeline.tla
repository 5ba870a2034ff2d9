-------------------------- MODULE MCFilterPipeline --------------------------
(***************************************************************************)
(* Instances of FilterPipeline for TLC: one sample sensor; the filter map  *)
(* is in the order of UUIDs, which is not the order of the data flow.      *)
(***************************************************************************)
EXTENDS FilterPipeline

OneSensor == <<"sensor">>
Map == <<"filter", "image", "sensor">>
=============================================================================
