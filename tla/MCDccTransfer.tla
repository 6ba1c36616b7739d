--------------------------- MODULE MCDccTransfer ---------------------------
(* Instances of DccTransfer for TLC. *)
EXTENDS DccTransfer

(* Who listens, and whether the sender waits for acknowledgements. *)
Modes == {{}, {"passive"}, {"fastsend"}, {"passive", "fastsend"}}
Faults == {"abort", "stall", "diskfull"}

(* In each mode: what the properties allow, then what they exclude. *)
MCScenarios ==
    {m \cup f : m \in Modes, f \in
       {{"resume"}, {"resume", "throttle"}, {"resume", "throttle"} \cup Faults,
        {"resume", "pieces", "throttle"}, {"resume", "huge"} \cup Faults, {"throttle", "huge"},
        {"resume", "impatient"} \cup Faults, {"getnick"} \cup Faults}}
    \cup {{"twice", "stall"}, {"twice", "resume"}, {"twice", "resume", "passive"}}
=============================================================================
