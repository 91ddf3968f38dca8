---- MODULE MCVolumeExpansion ----
(* VolumeExpansion with the constants given in the configurations. *)
EXTENDS VolumeExpansion
====
