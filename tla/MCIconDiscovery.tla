-------------------------- MODULE MCIconDiscovery --------------------------
(* Instances of IconDiscovery for TLC.                                       *)
EXTENDS IconDiscovery
=============================================================================
