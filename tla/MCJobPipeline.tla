--------------------------- MODULE MCJobPipeline ---------------------------
(* Small instances of JobPipeline for TLC: three clusters, two ports. *)
EXTENDS JobPipeline

FacilitySecurities == {"none", "facility", "plain"}
=============================================================================
