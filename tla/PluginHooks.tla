---------------------------- MODULE PluginHooks ----------------------------
(***************************************************************************)
(* The plugin interface (src/common/plugin.c) and the /TIMER plugin        *)
(* (plugin-timer.c): one list of hooks, ordered by priority, is walked for *)
(* every command, server line and text event, while the callbacks add and  *)
(* remove hooks, cause further events, close the tab the event is about,   *)
(* or unload a plugin.                                                     *)
(*                                                                         *)
(* Everything runs in one thread; p.stack is its call stack, innermost     *)
(* first, a frame per plugin_hook_run or plugin_timeout_cb whose callback  *)
(* is running.                                                             *)
(***************************************************************************)
EXTENDS Integers, Sequences, SequencesExt, FiniteSetsExt

CONSTANTS Scenarios,  \* sets of features and of the types of hook in use
          MaxHooks,   \* bound: how many hooks are made
          MaxDepth    \* bound: how deep events are nested

(* HOOK_FD is handled like HOOK_TIMER. *)
Type == {"COMMAND", "SERVER", "SERVER_ATTRS", "PRINT", "PRINT_ATTRS", "TIMER"}

(* "nest": a callback causes another event.  "unhook": a callback removes  *)
(* hooks.  "unload": a plugin is unloaded; "unloadinside": by a callback   *)
(* of another one; "selfunload": by its own.  "close": a callback closes   *)
(* the tab.  "selfdelete": the command of a /TIMER deletes it.             *)
AllFeatures == {"nest", "unhook", "unload", "unloadinside", "selfunload", "close", "selfdelete"}

ASSUME ScenariosAssumption == Scenarios \subseteq SUBSET (Type \cup AllFeatures)
ASSUME BoundsAssumption == MaxHooks \in Nat \ {0} /\ MaxDepth \in Nat \ {0}

VARIABLES p,         \* the program, see TypeOK
          features   \* what can happen in this behaviour, chosen at its start

vars == <<p, features>>

Hook == 1..MaxHooks
Plugin == {"Timer", "one", "two"}    \* "Timer" is linked in
Unloadable == {"one", "two"}
Pri == {0, 1}
May(f) == f \in features
Never(S) == features \cap S = {}

(* The types of hook that an event runs. *)
Event == {"command", "server", "print"}
RunBy(ev) == CASE ev = "command" -> {"COMMAND"}
               [] ev = "server"  -> {"SERVER", "SERVER_ATTRS"}
               [] OTHER          -> {"PRINT", "PRINT_ATTRS"}

(* A frame: the event, or "timer"; the hook whose callback runs and its    *)
(* plugin; where the walk goes on (0: nowhere); whether the event is       *)
(* eaten; whether the tab it is about is open; the hooks there were at its *)
(* start (found) and those it ran.                                         *)
Frame == [ev: Event \cup {"timer"}, hook: Hook, pl: Plugin, next: 0..MaxHooks,
          eat: BOOLEAN, sess: BOOLEAN, found: SUBSET Hook, ran: SUBSET Hook]

(* hooks and list: hook_list; sources: the timers that the main loop has,  *)
(* by hook; timers: timer_list of /TIMER, by hook; used (history): what    *)
(* was used after it was freed.                                            *)
HookData == [pl: Plugin, type: Type \cup {"DELETED"}, pri: Pri, tag: BOOLEAN]
State == [hooks: UNION {[S -> HookData] : S \in SUBSET Hook}, list: Seq(Hook), made: 0..MaxHooks,
          plugins: SUBSET Plugin, sources: SUBSET Hook, timers: SUBSET Hook,
          stack: Seq(Frame), used: SUBSET {"node", "sess", "timer", "code"}]

(* The list holds every hook that is not freed, once. *)
TypeOK ==
    /\ p \in State
    /\ IsInjective(p.list) /\ ToSet(p.list) = DOMAIN p.hooks
    /\ Len(p.stack) <= MaxDepth
    /\ features \in Scenarios

Init ==
    /\ p = [hooks |-> [h \in {} |-> 0], list |-> <<>>, made |-> 0, plugins |-> Plugin,
            sources |-> {}, timers |-> {}, stack |-> <<>>, used |-> {}]
    /\ features \in Scenarios

---------------------------------------------------------------------------
(* The list of hooks.  Operators take the program and return it. *)

Live(s, h) == h \in DOMAIN s.hooks /\ s.hooks[h].type # "DELETED"
Place(s, h) == CHOOSE k \in 1..Len(s.list) : s.list[k] = h
From(s, h) == IF h \notin DOMAIN s.hooks THEN <<>> ELSE SubSeq(s.list, Place(s, h), Len(s.list))
After(s, h) == LET k == Place(s, h) IN IF k = Len(s.list) THEN 0 ELSE s.list[k + 1]

(* The first hook from this place on that the event runs. *)
plugin_hook_find(s, h, ev) ==
    LET at == {k \in Place(s, h)..Len(s.list) : s.hooks[s.list[k]].type \in RunBy(ev)}
    IN  IF h \notin DOMAIN s.hooks \/ at = {} THEN 0 ELSE s.list[Min(at)]

(* Which hooks a new one is compared with. *)
Family(type) ==
    CASE type \in {"PRINT", "PRINT_ATTRS"}   -> {"PRINT", "PRINT_ATTRS"}
      [] type \in {"SERVER", "SERVER_ATTRS"} -> {"SERVER", "PRINT_ATTRS"}
      [] OTHER                               -> {type}

(* Not in the code: the first hook of its family that has a higher priority. *)
plugin_insert_hook_Reverse(s, new) ==
    LET at == {k \in 1..Len(s.list) : /\ s.hooks[s.list[k]].type \in Family(s.hooks[new].type)
                                      /\ s.hooks[s.list[k]].pri >= s.hooks[new].pri}
    IN  [s EXCEPT !.list = IF at = {} THEN Append(@, new) ELSE InsertAt(@, Min(at), new)]

(* Before the first one that has no higher priority. *)
plugin_insert_hook(s, new) ==
    LET at == {k \in 1..Len(s.list) : /\ s.hooks[s.list[k]].type \in Family(s.hooks[new].type)
                                      /\ s.hooks[s.list[k]].pri <= s.hooks[new].pri}
    IN  [s EXCEPT !.list = IF at = {} THEN Append(@, new) ELSE InsertAt(@, Min(at), new)]

plugin_add_hook(s, pl, type, pri) ==
    LET h == s.made + 1
        t == [s EXCEPT !.hooks = [g \in DOMAIN @ \cup {h} |->
                                    IF g = h THEN [pl |-> pl, type |-> type, pri |-> pri, tag |-> type = "TIMER"]
                                    ELSE @[g]],
                       !.made = h]
        u == plugin_insert_hook(t, h)
    IN  IF type = "TIMER" THEN [u EXCEPT !.sources = @ \cup {h}] ELSE u

(* The elements of q that are in S, in their order. *)
Kept(q, S) ==
    LET at == {k \in 1..Len(q) : q[k] \in S}
        Before(k) == Cardinality({j \in at : j < k})
    IN  [i \in 1..Cardinality(at) |-> q[CHOOSE k \in at : Before(k) = i - 1]]

(* Not in the code: the hook is freed at once. *)
hexchat_unhook_Frees(s, h) ==
    IF ~Live(s, h) THEN s
    ELSE [s EXCEPT !.hooks = [g \in DOMAIN @ \ {h} |-> @[g]], !.list = Kept(@, DOMAIN s.hooks \ {h}),
                   !.sources = IF s.hooks[h].tag THEN @ \ {h} ELSE @]

(* Not in the code: the timer stays in the main loop. *)
hexchat_unhook_KeepsSource(s, h) == IF ~Live(s, h) THEN s ELSE [s EXCEPT !.hooks[h].type = "DELETED"]

(* The hook is marked, and freed later. *)
hexchat_unhook(s, h) ==
    IF ~Live(s, h) THEN s
    ELSE [s EXCEPT !.hooks[h].type = "DELETED",
                   !.sources = IF s.hooks[h].type = "TIMER" /\ s.hooks[h].tag THEN @ \ {h} ELSE @]

(* Not in the code: the hooks are freed and stay in the list. *)
Purge_KeepsNodes(s) ==
    [s EXCEPT !.hooks = [h \in {g \in DOMAIN @ : @[g].type # "DELETED"} |-> @[h]]]

(* The end of plugin_hook_run: "really remove deleted hooks now". *)
Purge(s) ==
    LET kept == {h \in DOMAIN s.hooks : s.hooks[h].type # "DELETED"} IN
    [s EXCEPT !.hooks = [h \in kept |-> @[h]], !.list = Kept(@, kept)]

---------------------------------------------------------------------------
(* A run: from the hook found to the next one, or to its end. *)

(* Back in the callback that caused the event, or in the main loop. *)
Pop(s) == [s EXCEPT !.stack = Tail(@)]

(* A callback runs to its end in the code of its plugin. *)
Returning(s) == IF Head(s.stack).pl \in s.plugins THEN s ELSE [s EXCEPT !.used = @ \cup {"code"}]

(* handle_command and handle_say look whether the tab is still there,      *)
(* text_emit reads its state before it looks, irc_inline does not look.    *)
ReadsTab(ev) == ev \in {"server", "print"}

Ended(s) ==
    LET f == Head(s.stack) IN
    Pop(Purge(IF ~f.eat /\ ReadsTab(f.ev) /\ ~f.sess THEN [s EXCEPT !.used = @ \cup {"sess"}] ELSE s))

(* Not in the code: the next hook is looked for from the beginning. *)
Continue_FromStart(s, from) ==
    LET f == Head(s.stack)
        h == IF s.list = <<>> THEN 0 ELSE plugin_hook_find(s, Head(s.list), f.ev)
    IN  IF h = 0 \/ from = 0 THEN Ended(s)
        ELSE [s EXCEPT !.stack[1] = [f EXCEPT !.hook = h, !.pl = s.hooks[h].pl, !.next = After(s, h),
                                              !.ran = @ \cup {h}]]

(* A walk that stands at a hook that was freed is undefined; it ends here. *)
Continue(s, from) ==
    LET f == Head(s.stack)
        h == plugin_hook_find(s, from, f.ev)
    IN  IF from # 0 /\ from \notin DOMAIN s.hooks THEN Ended([s EXCEPT !.used = @ \cup {"node"}])
        ELSE IF h = 0 THEN Ended(s)
        ELSE [s EXCEPT !.stack[1] = [f EXCEPT !.hook = h, !.pl = s.hooks[h].pl, !.next = After(s, h),
                                              !.ran = @ \cup {h}]]

plugin_hook_run(s, ev) ==
    Continue([s EXCEPT !.stack =
               <<[ev |-> ev, hook |-> 1, pl |-> "Timer", next |-> 0, eat |-> FALSE, sess |-> TRUE,
                  found |-> {h \in DOMAIN s.hooks : s.hooks[h].type \in RunBy(ev)}, ran |-> {}]>> \o @],
             IF s.list = <<>> THEN 0 ELSE Head(s.list))

(* A callback of an event returns: it eats nothing, the event, or also the *)
(* other hooks.                                                            *)
HookReturns(s, eats, stops) ==
    LET t == [s EXCEPT !.stack[1].eat = @ \/ eats] IN
    IF stops THEN Ended(t) ELSE Continue(t, Head(t.stack).next)

---------------------------------------------------------------------------
(* Timers. *)

plugin_timeout_cb(s, h) ==
    [s EXCEPT !.stack = <<[ev |-> "timer", hook |-> h, pl |-> s.hooks[h].pl, next |-> 0, eat |-> FALSE, sess |-> TRUE,
                           found |-> {}, ran |-> {}]>>]

(* Its callback returned.  Where it did not remove the hook itself, 0      *)
(* means that the main loop drops the timer, and the hook is removed.      *)
TimerReturns(s, again) ==
    LET h == Head(s.stack).hook
        dropped == [s EXCEPT !.sources = @ \ {h}]
    IN  Pop(IF ~Live(s, h) THEN dropped
            ELSE IF again THEN s
            ELSE hexchat_unhook([dropped EXCEPT !.hooks[h].tag = FALSE], h))

(* Not in the code: the hook of the timer is left. *)
timer_del_KeepsHook(s, h) == [s EXCEPT !.timers = @ \ {h}]

(* The timers of /TIMER: removed by the user, by a command, or when they   *)
(* have run as often as they should.                                       *)
timer_del(s, h) == hexchat_unhook([s EXCEPT !.timers = @ \ {h}], h)

(* timeout_cb after its command: it goes on reading its timer. *)
timeout_cb(s, again) ==
    LET h == Head(s.stack).hook IN
    IF h \notin s.timers THEN TimerReturns([s EXCEPT !.used = @ \cup {"timer"}], again)
    ELSE IF again THEN TimerReturns(s, TRUE)
    ELSE TimerReturns(timer_del(s, h), FALSE)

---------------------------------------------------------------------------
(* plugin_free of a plugin, without its deinit callback. *)

Unhooked(s, pl) ==
    [s EXCEPT !.hooks = [h \in DOMAIN @ |-> IF @[h].pl = pl THEN [@[h] EXCEPT !.type = "DELETED"] ELSE @[h]],
              !.sources = {h \in @ : s.hooks[h].pl # pl}]

plugin_free(s, pl) == [Unhooked(s, pl) EXCEPT !.plugins = @ \ {pl}]

Running(s) == {s.stack[k].pl : k \in 1..Len(s.stack)}

---------------------------------------------------------------------------
(* The main loop. *)

Idle == p.stack = <<>>
Top == Head(p.stack)
InCallback == ~Idle
To(s) == p' = s /\ UNCHANGED features

(* What follows a use of freed memory is not looked at. *)
Emit == Idle /\ p.used = {} /\ \E ev \in Event : To(plugin_hook_run(p, ev))

TimerFires == Idle /\ p.used = {} /\ \E h \in p.sources \cap DOMAIN p.hooks : To(plugin_timeout_cb(p, h))

(* A plugin makes a hook while it is initialised, or later. *)
AddHook ==
    /\ p.made < MaxHooks
    /\ \E pl \in (IF Idle THEN p.plugins ELSE {Top.pl} \cap p.plugins) \cap Unloadable,
         type \in features \cap Type, pri \in Pri : To(plugin_add_hook(p, pl, type, pri))

(* /TIMER, by the user or by a callback. *)
timer_add ==
    /\ p.made < MaxHooks /\ "TIMER" \in features
    /\ LET s == plugin_add_hook(p, "Timer", "TIMER", 0) IN To([s EXCEPT !.timers = @ \cup {s.made}])

timer_del_ref ==
    \E h \in p.timers :
      /\ (\E k \in 1..Len(p.stack) : p.stack[k].hook = h) => May("selfdelete")
      /\ To(timer_del(p, h))

Unload ==
    \E pl \in p.plugins \cap Unloadable :
      /\ May("unload")
      /\ InCallback => May("unloadinside") /\ (pl \in Running(p) => May("selfunload"))
      /\ To(plugin_free(p, pl))

(* /LOAD, or the second half of /RELOAD. *)
plugin_load == Idle /\ \E pl \in Plugin \ p.plugins : To([p EXCEPT !.plugins = @ \cup {pl}])

---------------------------------------------------------------------------
(* What a callback does before it returns. *)

Unhook ==
    /\ InCallback /\ May("unhook")
    /\ \E h \in DOMAIN p.hooks : p.hooks[h].pl = Top.pl /\ Top.pl # "Timer" /\ To(hexchat_unhook(p, h))

NestedEvent ==
    /\ InCallback /\ Len(p.stack) < MaxDepth
    /\ May("nest") \/ Top.pl = "Timer"
    /\ \E ev \in Event : To(plugin_hook_run(p, ev))

(* Later events are about another tab. *)
CloseTab ==
    /\ InCallback /\ May("close")
    /\ To([p EXCEPT !.stack = [k \in DOMAIN @ |-> [@[k] EXCEPT !.sess = FALSE]]])

Return ==
    /\ InCallback
    /\ \/ Top.ev \in Event /\ \E eats, stops \in BOOLEAN : To(HookReturns(Returning(p), eats, stops))
       \/ Top.ev = "timer" /\ \E again \in BOOLEAN :
            To(IF Top.pl = "Timer" THEN timeout_cb(p, again) ELSE TimerReturns(Returning(p), again))

Next ==
    \/ Emit \/ TimerFires \/ AddHook \/ timer_add \/ timer_del_ref \/ Unload \/ plugin_load
    \/ Unhook \/ NestedEvent \/ CloseTab \/ Return

Spec == Init /\ [][Next]_vars

---------------------------------------------------------------------------
(* Where events are nested no hook may be removed: the inner run frees     *)
(* every hook that is marked, also one that was marked before the outer    *)
(* run began and where it is to go on.                                     *)
Removals == {"unhook", "unload", "TIMER"}
FlatRemovals == Never({"nest"}) \/ Never(Removals)

(* Whatever callbacks remove, unload and cause, the program does not go on *)
(* with a hook, a tab, a timer or the code of a plugin that is freed:      *)
(* hooks are only marked while they may be walked (hexchat_unhook), and    *)
(* the timer callbacks look for their hook afterwards.  No run is to go on *)
(* at a hook that is freed either.                                         *)
NothingFreedIsUsed ==
    FlatRemovals /\ Never({"selfunload", "selfdelete", "close"}) =>
      /\ p.used = {}
      /\ \A k \in 1..Len(p.stack) : p.stack[k].next \in {0} \cup DOMAIN p.hooks

(* A run calls each hook that was there at its start once, however the     *)
(* list changes: what it has not called and is still hooked lies ahead,    *)
(* and nothing that it has called does.                                    *)
EachHookOnce ==
    FlatRemovals =>
      \A k \in 1..Len(p.stack) : LET f == p.stack[k] IN
        /\ {h \in f.found \ f.ran : Live(p, h)} \subseteq ToSet(From(p, f.next))
        /\ f.ran \cap ToSet(From(p, f.next)) = {}

(* The main loop holds no timer of a hook that was removed or freed, and   *)
(* no hook of a plugin that was unloaded can be called any more, except    *)
(* the ones that are running.                                              *)
NoLateCall ==
    /\ \A h \in p.sources : Live(p, h) /\ p.hooks[h].type = "TIMER"
    /\ \A h \in DOMAIN p.hooks : Live(p, h) => p.hooks[h].pl \in p.plugins

(* Every /TIMER can fire, and none fires without its data: the timers in   *)
(* timer_list are those whose hook is alive and in the main loop.          *)
TimersAreHooked ==
    p.timers = {h \in p.sources : p.hooks[h].pl = "Timer"}

(* The hooks that one event runs are in the order of their priorities, for *)
(* the server events only as long as nobody uses attributes: HOOK_SERVER   *)
(* hooks are compared with HOOK_PRINT_ATTRS hooks, and may be put before   *)
(* one that follows a PRINT hook that was added first.                     *)
ByPriority ==
    \A ev \in Event :
      (ev = "server" => Never({"SERVER_ATTRS", "PRINT_ATTRS"})) =>
        \A i, j \in 1..Len(p.list) :
          i < j /\ {p.hooks[p.list[i]].type, p.hooks[p.list[j]].type} \subseteq RunBy(ev)
          => p.hooks[p.list[i]].pri >= p.hooks[p.list[j]].pri

(* A run calls the hooks of its event once each, by priority. *)
RunsInOrder == EachHookOnce /\ ByPriority

(* The main loop calls what is hooked, and nothing that was removed. *)
CallsAreDue == NoLateCall /\ TimersAreHooked
=============================================================================
