-------------------------- MODULE MCCapNegotiation --------------------------
(* Instances of CapNegotiation for TLC. *)
EXTENDS CapNegotiation

(* All but one of the features at once, so that every pair meets, and what *)
(* the properties about token refreshes leave.                             *)
MCScenarios ==
    {AllFeatures \ {"new"}, AllFeatures \ {"drop"}, AllFeatures \ {"abort"},
     {"new", "abort"}}
=============================================================================
