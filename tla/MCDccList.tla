----------------------------- MODULE MCDccList -----------------------------
(* Instances of DccList for TLC. *)
EXTENDS DccList

MCScenarios ==
    {{"files", "passive", "limit", "stall", "autoremove"},
     {"files", "fastsend", "limit", "stall"},
     {"chats", "passive", "hook"}, {"chats", "nick", "fastsend"},
     {"chats", "limit", "autoremove"}, {"files", "stall", "hook", "autoremove"},
     {"files", "chats", "kill"}}
    \cup {{"chats", p} : p \in {"wingate", "http"}}
    \cup {{"files", "passive", "stall", p} : p \in Proxies}
=============================================================================
