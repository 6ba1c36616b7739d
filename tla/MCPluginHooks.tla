--------------------------- MODULE MCPluginHooks ---------------------------
(* Instances of PluginHooks for TLC. *)
EXTENDS PluginHooks

MCScenarios ==
    {{"COMMAND", "TIMER", "unhook", "unload", "unloadinside"},
     {"PRINT", "PRINT_ATTRS", "unhook", "unload"},
     {"SERVER", "PRINT", "unhook", "unload", "unloadinside"},
     {"SERVER", "SERVER_ATTRS", "PRINT_ATTRS"},
     {"PRINT", "SERVER", "nest"}, {"COMMAND", "nest", "unhook"}, {"COMMAND", "nest", "TIMER"}, {"PRINT", "close"},
     {"PRINT", "close", "nest", "unload"}, {"TIMER", "COMMAND", "selfdelete"},
     {"PRINT", "unload", "unloadinside", "selfunload"}}
=============================================================================
