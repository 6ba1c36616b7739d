---------------------------- MODULE MCConnection ----------------------------
(* Instances of Connection for TLC. *)
EXTENDS Connection

(* Everything at once, and what is left of it when the features that a     *)
(* property excludes are taken away.                                       *)
MCScenarios ==
    {AllFeatures, AllFeatures \ {"sts"}, AllFeatures \ {"fork"},
     AllFeatures \ {"reconnect", "sts"}, {"fork", "unlist"}, {"fork"}}
=============================================================================
