---- MODULE MCDoguRestart ----
(* DoguRestart with the constants given in the configurations. *)
EXTENDS DoguRestart
====
