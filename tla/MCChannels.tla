----------------------------- MODULE MCChannels -----------------------------
EXTENDS Channels

(* The first ones are those that OnWanted is claimed for. *)
MCScenarios ==
    {{"lost", "part", "close", "newtab", "cycle"}, {"lost", "delay", "close", "part"},
     {"kick", "autorejoin", "close", "cycle", "lost"}, {"kick", "part", "close", "cycle"},
     {"users", "lost", "part"}, {"two", "lost", "part"}, {"favs", "part", "close"},
     {"lost", "again", "part"}, {"two", "lost", "lost2", "part"}, {"lost", "favs", "part"},
     {"delay", "impatient", "lost", "part"}, {"kick", "autorejoin", "part", "users"},
     {"close", "early", "lost"}, {"part", "hasty", "kick"}, {"discon", "lost", "norejoin"},
     {"discon", "lost"}}
=============================================================================
