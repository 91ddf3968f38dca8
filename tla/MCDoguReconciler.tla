-------------------------- MODULE MCDoguReconciler --------------------------
(* Instances of DoguReconciler for TLC; the constants are in the .cfg files.  *)
EXTENDS DoguReconciler
=============================================================================
