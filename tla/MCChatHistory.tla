--------------------------- MODULE MCChatHistory ---------------------------
(* Instances of ChatHistory for TLC: tabs, scrollback, the server's limit  *)
(* and what can happen.                                                    *)
EXTENDS ChatHistory

Tabs == <<"a", "b", "d">>

World(tabs, scrollback, limit, features) ==
    [tabs |-> tabs, scrollback |-> scrollback, limit |-> limit, features |-> features]

(* Everything, in one channel; then, for each property, what it allows.    *)
MCScenarios ==
    {World({"a"}, {2}, 1, AllFeatures),
     World({"a"}, {}, 2, AllFeatures \ {"history"}),
     World({"a"}, {2}, 1, AllFeatures \ {"fail"}),
     World({"a", "d"}, {2}, 1, {"forgets", "end", "close", "lost"}),
     World({"a", "d"}, {2}, 2, {"scroll", "end", "close"}),
     World({"a", "b"}, {2}, 1, {"forgets", "lost"}),
     World({"a", "b"}, {2}, 1, {"end", "close", "lost"}),
     World({"a", "b"}, {2}, 2, {"end", "close", "forgets"}),
     World({"a", "b"}, {1}, 1, {"end", "close"})}

(* What a catch-up that ends may meet.                                     *)
MCAnswering ==
    {World({"a", "b"}, {2}, 1, {"lost"}),
     World({"a", "b"}, {1}, 2, {"forgets"}),
     World({"a", "d"}, {2}, 2, {"lost"}),
     World({"a"}, {}, 2, {"forgets", "lost"})}
=============================================================================
