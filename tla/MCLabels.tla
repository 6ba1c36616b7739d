------------------------------ MODULE MCLabels ------------------------------
(* Instances of Labels for TLC. *)
EXTENDS Labels

(* Everything at once, and what is left of it when the features that a     *)
(* property excludes are taken away.                                       *)
MCScenarios == {AllFeatures, {"silent"}, {"wrapped", "split"}, {"hook"}, {}}
=============================================================================
