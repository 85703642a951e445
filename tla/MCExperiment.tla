---------------------------- MODULE MCExperiment ----------------------------
(* Instances of Experiment for TLC; its constants are numbers, given in the *)
(* configurations.                                                          *)
EXTENDS Experiment
=============================================================================
