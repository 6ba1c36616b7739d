------------------------------ MODULE Channels ------------------------------
(***************************************************************************)
(* The channels of a client and their tabs (inbound.c, outbound.c,         *)
(* hexchat.c, server.c, userlist.c).  A tab knows the channel it is on     *)
(* (channel), the one it was on or waits for (waitchannel), and the one to *)
(* join after the next login (willjoinchannel).  The user joins, leaves    *)
(* and closes; the server answers later, kicks and refuses; connections    *)
(* are lost, and what was open is joined again.  The members of a channel  *)
(* are kept from NAMES, JOIN and PART.                                     *)
(*                                                                         *)
(* The IRC server is external.  Its lines come in order; what is under way *)
(* when a connection is lost does not arrive.                              *)
(***************************************************************************)
EXTENDS Integers, Sequences, FiniteSets, SequencesExt

CONSTANTS Chan,        \* names of channels
          Fav,         \* the favourite channels of the network
          Scenarios,   \* sets of features, one of which a behaviour has
          MaxEvents    \* bound: what users and faults do in a behaviour

ASSUME ChannelsAssumption ==
    /\ "none" \notin Chan /\ Fav \subseteq Chan /\ IsFiniteSet(Fav)
    /\ MaxEvents \in Nat

Serv == 1..2
None == "none"
Other == "u"           \* somebody else on the channels
Me == "me"

VARIABLES tabs,        \* sess_list: the tabs that are for channels
          stat,        \* of a server: "down", "connecting" (or in the delay), "in"
          joindelay,   \* joindelay_tag is installed
          out, inq,    \* lines to and from the server
          ircd,        \* the members of each channel, on the server
          banned,      \* the channels that each server refuses
          want,        \* history: the channels that the user wants to be on
          events, features

vars == <<tabs, stat, joindelay, out, inq, ircd, banned, want, events, features>>
world == <<ircd, banned, features>>

Tab == [serv: Serv, channel: Chan \cup {None}, wait: Chan \cup {None},
        will: Chan \cup {None}, users: SUBSET {Me, Other}, end_of_names: BOOLEAN]
Line == [cmd: {"JOIN", "PART", "NAMES"}, chan: Chan]
Answer == [cmd: {"UJOIN", "UPART", "UKICK", "NAMES", "END", "REFUSED", "JOIN", "PART"},
           chan: Chan, names: SUBSET {Me, Other}]

TypeOK ==
    /\ tabs \in Seq(Tab)
    /\ stat \in [Serv -> {"down", "connecting", "in"}]
    /\ joindelay \in [Serv -> BOOLEAN]
    /\ \A s \in Serv : joindelay[s] => stat[s] = "in"
    /\ out \in [Serv -> Seq(Line)] /\ inq \in [Serv -> Seq(Answer)]
    /\ \A s \in Serv : stat[s] # "in" => out[s] = <<>> /\ inq[s] = <<>>
    /\ ircd \in [Serv -> [Chan -> SUBSET {Me, Other}]]
    /\ banned \in [Serv -> SUBSET Chan] /\ want \in [Serv -> SUBSET Chan]
    /\ events \in 0..MaxEvents /\ features \in Scenarios

Init ==
    /\ tabs = <<>> /\ stat = [s \in Serv |-> "down"] /\ joindelay = [s \in Serv |-> FALSE]
    /\ out = [s \in Serv |-> <<>>] /\ inq = [s \in Serv |-> <<>>]
    /\ ircd = [s \in Serv |-> [c \in Chan |-> {}]]
    /\ banned = [s \in Serv |-> {}] /\ want = [s \in Serv |-> {}]
    /\ events = 0 /\ features \in Scenarios

May(f) == f \in features
Never(S) == features \cap S = {}

(* The user, a server or the network does something; bounded. *)
Event == events < MaxEvents /\ events' = events + 1

-----------------------------------------------------------------------------
(* Tabs. *)

NewTab(s, c) == [serv |-> s, channel |-> c, wait |-> None, will |-> None,
                 users |-> {}, end_of_names |-> FALSE]

(* The first tab of server s that has channel c, or 0. *)
find_channel(s, c) == SelectInSeq(tabs, LAMBDA t : t.serv = s /\ t.channel = c)

find_session_from_waitchannel(s, c) ==
    SelectInSeq(tabs, LAMBDA t : t.serv = s /\ t.channel = None /\ t.wait = c)

find_unused_session(s) == find_session_from_waitchannel(s, None)

On(s, c) == find_channel(s, c) # 0

(* The list of a channel's users has each nick once. *)
userlist_add(t, nicks) == [t EXCEPT !.users = @ \cup nicks]
userlist_remove(t, nick) == [t EXCEPT !.users = @ \ {nick}]
userlist_clear(t) == [t EXCEPT !.users = {}]

clear_channel(t) ==
    [userlist_clear(t) EXCEPT !.wait = IF t.channel = None THEN @ ELSE t.channel,
                              !.channel = None]

(* The loop of server_disconnect over the tabs of its server. *)
Cleared(ts, s) == [i \in DOMAIN ts |-> IF ts[i].serv = s THEN clear_channel(ts[i]) ELSE ts[i]]

(* "make sure auto rejoin can work": the tabs of every server. *)
Marked(ts) ==
    [i \in DOMAIN ts |-> IF ts[i].channel = None \/ May("norejoin") THEN ts[i]
                         ELSE [ts[i] EXCEPT !.wait = ts[i].channel, !.will = ts[i].channel]]

(* Not in the code: the channels are looked up after they were cleared. *)
auto_reconnect_MarksLate(s) == Marked(Cleared(tabs, s))
auto_reconnect(s) == Cleared(Marked(tabs), s)

-----------------------------------------------------------------------------
(* Connections. *)

Send(s, lines) == out' = [out EXCEPT ![s] = @ \o lines]
ToLine(cmd, c) == [cmd |-> cmd, chan |-> c]

(* The channels of one or more JOIN lines, which the server takes in turn. *)
irc_join_list(chans) == [i \in DOMAIN chans |-> ToLine("JOIN", chans[i])]

(* servlist_connect, /server: the user connects a server that is down. *)
Connect(s) ==
    /\ Event /\ stat[s] = "down" /\ (s = 2 => May("two"))
    /\ stat' = [stat EXCEPT ![s] = "connecting"]
    /\ want' = [want EXCEPT ![s] = IF May("favs") THEN Fav ELSE {}]
    /\ UNCHANGED <<tabs, joindelay, out, inq>> /\ UNCHANGED world

(* What every channel tab is to join, or else the favourites.  Nothing     *)
(* depends on the order of the channels in the JOIN lines.                 *)
AutoJoin(s) ==
    LET marked == {i \in DOMAIN tabs : tabs[i].serv = s /\ tabs[i].will # None}
        order == SetToSeq(marked)
        favs == IF May("favs") THEN SetToSeq(Fav) ELSE <<>>
    IN /\ tabs' = [i \in DOMAIN tabs |->
                     IF i \in marked
                     THEN [tabs[i] EXCEPT !.wait = tabs[i].will, !.will = None] ELSE tabs[i]]
       /\ Send(s, irc_join_list(IF marked # {} THEN [k \in DOMAIN order |-> tabs[order[k]].will]
                                ELSE favs))

(* The connection is up and the end of the MOTD is read. *)
inbound_login_end(s) ==
    /\ stat[s] = "connecting" /\ stat' = [stat EXCEPT ![s] = "in"]
    /\ IF May("delay")
       THEN joindelay' = [joindelay EXCEPT ![s] = TRUE] /\ UNCHANGED <<tabs, out>>
       ELSE AutoJoin(s) /\ UNCHANGED joindelay
    /\ UNCHANGED <<inq, want, events>> /\ UNCHANGED world

check_autojoin_channels(s) ==
    /\ joindelay[s] /\ joindelay' = [joindelay EXCEPT ![s] = FALSE]
    /\ AutoJoin(s)
    /\ UNCHANGED <<stat, inq, want, events>> /\ UNCHANGED world

(* server_cleanup, server_flush_queue: what is under way is lost, and the  *)
(* IRC server takes us off its channels.                                   *)
Gone(s) ==
    /\ out' = [out EXCEPT ![s] = <<>>] /\ inq' = [inq EXCEPT ![s] = <<>>]
    /\ ircd' = [ircd EXCEPT ![s] = [c \in Chan |-> @[c] \ {Me}]]

(* Not in the code: the join delay outlives its connection. *)
NoDelay_Kept(s) == joindelay
NoDelay(s) == [joindelay EXCEPT ![s] = FALSE]

(* The client is logged in, and has joined what it joins by itself.  Until *)
(* then a tab is marked with what it is to join.                           *)
Ready(s) == stat[s] = "in" /\ ~joindelay[s]
Marks(t) == IF Ready(t.serv) THEN {} ELSE {t.will}

(* The tabs say what is wanted: no JOIN or PART waits for its answer. *)
Settled(s) ==
    LET mine == {tabs[i] : i \in {j \in DOMAIN tabs : tabs[j].serv = s}}
    IN want[s] = (UNION {{t.channel} \cup Marks(t) : t \in mine}) \ {None}

(* The connection is lost, or /reconnect: auto_reconnect.  With "again"    *)
(* also between a JOIN or PART and its answer.  An attempt that fails      *)
(* leads to the next server of the network, or to the same.                *)
Lost(s) ==
    /\ Event /\ May(IF s = 1 THEN "lost" ELSE "lost2")
    /\ stat[s] # "down" /\ (Settled(s) \/ May("again"))
    /\ stat' = [stat EXCEPT ![s] = "connecting"] /\ joindelay' = NoDelay(s)
    /\ tabs' \in {auto_reconnect(s)} \cup (IF stat[s] = "in" THEN {} ELSE {tabs})
    /\ Gone(s)
    /\ UNCHANGED <<want, banned, features>>

(* /discon: the user leaves everything. *)
cmd_discon(s) ==
    /\ Event /\ May("discon") /\ stat[s] # "down"
    /\ stat' = [stat EXCEPT ![s] = "down"] /\ joindelay' = NoDelay(s)
    /\ tabs' = Cleared(tabs, s) /\ want' = [want EXCEPT ![s] = {}]
    /\ Gone(s)
    /\ UNCHANGED <<banned, features>>

-----------------------------------------------------------------------------
(* The user. *)

Wanted(s, c) == want' = [want EXCEPT ![s] = @ \cup {c}]
Unwanted(s, C) == want' = [want EXCEPT ![s] = @ \ C]

(* The user gives commands once the client is logged in; "impatient": also *)
(* during the join delay.                                                  *)
Commands(s) == stat[s] = "in" /\ (joindelay[s] => May("impatient"))

(* /join c, in the tab i or (0) in the tab of the server.  A channel the   *)
(* client is on is only brought to front; "hasty": also where the client   *)
(* does not know yet that it has left.                                     *)
cmd_join(s, c, i) ==
    /\ Event /\ Commands(s) /\ (i # 0 => tabs[i].serv = s)
    /\ Wanted(s, c)
    /\ IF On(s, c)
       THEN May("hasty") /\ UNCHANGED <<tabs, out>>
       ELSE /\ Send(s, <<ToLine("JOIN", c)>>)
            /\ tabs' = IF i # 0 /\ tabs[i].channel = None /\ tabs[i].wait # None
                       THEN [tabs EXCEPT ![i].wait = c] ELSE tabs
    /\ UNCHANGED <<stat, joindelay, inq>> /\ UNCHANGED world

(* /part c: the tab stays, and is cleared when the server answers. *)
cmd_part(s, c) ==
    /\ Event /\ May("part") /\ Commands(s) /\ (On(s, c) \/ c \in want[s])
    /\ Send(s, <<ToLine("PART", c)>>) /\ Unwanted(s, {c})
    /\ UNCHANGED <<tabs, stat, joindelay, inq>> /\ UNCHANGED world

cmd_cycle(s, c) ==
    /\ Event /\ May("cycle") /\ Commands(s) /\ On(s, c)
    /\ Send(s, <<ToLine("PART", c), ToLine("JOIN", c)>>) /\ Wanted(s, c)
    /\ UNCHANGED <<tabs, stat, joindelay, inq>> /\ UNCHANGED world

(* /names c *)
cmd_names(s, c) ==
    /\ Event /\ May("users") /\ stat[s] = "in"
    /\ Send(s, <<ToLine("NAMES", c)>>)
    /\ UNCHANGED <<tabs, stat, joindelay, inq, want>> /\ UNCHANGED world

(* A new, empty tab. *)
OpenTab(s) ==
    /\ Event /\ May("newtab") /\ stat[s] # "down"
    /\ tabs' = <<NewTab(s, None)>> \o tabs
    /\ UNCHANGED <<stat, joindelay, out, inq, want>> /\ UNCHANGED world

(* The channel a tab stands for: the one it is on, or else those it is to  *)
(* join or shows in brackets, unless they are another tab's.               *)
StandsFor(i) ==
    LET t == tabs[i]
        others == {tabs[j] : j \in {k \in DOMAIN tabs \ {i} : tabs[k].serv = t.serv}}
        theirs == UNION {{o.channel} \cup Marks(o) : o \in others}
    IN (IF t.channel # None THEN {t.channel} ELSE (Marks(t) \cup {t.wait}) \ theirs) \ {None}

(* A JOIN for c is under way, or its answer is among lines. *)
Asked(s, c, lines) ==
    \/ ToLine("JOIN", c) \in ToSet(out[s])
    \/ \E l \in ToSet(lines) : l.cmd = "UJOIN" /\ l.chan = c

(* Not in the code: the tab is closed without a word to the server. *)
send_quit_or_part_Never(t) == <<>>
send_quit_or_part(t) ==
    IF stat[t.serv] = "in" /\ t.channel # None THEN <<ToLine("PART", t.channel)>> ELSE <<>>

(* A tab is closed (the tab of the server is still there).  With "early"   *)
(* also one that waits for the answer to a JOIN.                           *)
session_free(i) ==
    LET t == tabs[i] IN
    /\ Event /\ May("close")
    /\ May("early") \/ \A c \in StandsFor(i) : ~Asked(t.serv, c, inq[t.serv])
    /\ Send(t.serv, send_quit_or_part(t)) /\ Unwanted(t.serv, StandsFor(i))
    /\ tabs' = RemoveAt(tabs, i)
    /\ UNCHANGED <<stat, joindelay, inq>> /\ UNCHANGED world

-----------------------------------------------------------------------------
(* Lines of the server. *)

inbound_ujoin(s, c) ==
    LET old == <<find_channel(s, c), find_session_from_waitchannel(s, c), find_unused_session(s)>>
        k == SelectInSeq(old, LAMBDA i : i # 0)
        there == IF k = 0 THEN <<NewTab(s, c)>> \o tabs ELSE tabs
        i == IF k = 0 THEN 1 ELSE old[k]
    IN [there EXCEPT ![i] = [userlist_clear(@) EXCEPT !.channel = c, !.wait = None,
                                                      !.end_of_names = FALSE]]

(* The tab that is on channel c, if there is one, becomes t. *)
TabOf(s, c) == tabs[find_channel(s, c)]
InTab(s, c, t) == IF On(s, c) THEN [tabs EXCEPT ![find_channel(s, c)] = t] ELSE tabs

(* The first line of a new list clears the old one. *)
inbound_nameslist(t, names) ==
    userlist_add([(IF t.end_of_names THEN userlist_clear(t) ELSE t)
                  EXCEPT !.end_of_names = FALSE], names)

inbound_nameslist_end(t) == [t EXCEPT !.end_of_names = TRUE]
inbound_join(t) == userlist_add(t, {Other})
inbound_part(t) == userlist_remove(t, Other)

(* inbound_ukick joins again if irc_auto_rejoin is on. *)
inbound_ukick(s, c) ==
    IF On(s, c) /\ May("autorejoin")
    THEN /\ tabs' = InTab(s, c, [clear_channel(TabOf(s, c)) EXCEPT !.wait = c])
         /\ Send(s, <<ToLine("JOIN", c)>>) /\ UNCHANGED want
    ELSE /\ tabs' = InTab(s, c, clear_channel(TabOf(s, c)))
         /\ IF Asked(s, c, Tail(inq[s])) THEN UNCHANGED want ELSE Unwanted(s, {c})
         /\ UNCHANGED out

(* What a line that sends nothing does to the tabs; the texts for a join   *)
(* that is refused (471 to 475) do nothing.                                *)
Shown(s, l) ==
    LET t == TabOf(s, l.chan)
    IN CASE l.cmd = "UJOIN" -> inbound_ujoin(s, l.chan)
         [] l.cmd = "UPART" -> InTab(s, l.chan, clear_channel(t))
         [] l.cmd = "NAMES" -> InTab(s, l.chan, inbound_nameslist(t, l.names))
         [] l.cmd = "END" -> InTab(s, l.chan, inbound_nameslist_end(t))
         [] l.cmd = "JOIN" -> InTab(s, l.chan, inbound_join(t))
         [] l.cmd = "PART" -> InTab(s, l.chan, inbound_part(t))
         [] OTHER -> tabs

Read(s) ==
    /\ inq[s] # <<>> /\ inq' = [inq EXCEPT ![s] = Tail(@)]
    /\ LET l == Head(inq[s])
       IN IF l.cmd = "UKICK" THEN inbound_ukick(s, l.chan)
          ELSE /\ tabs' = Shown(s, l) /\ UNCHANGED out
               /\ IF l.cmd = "REFUSED" THEN Unwanted(s, {l.chan}) ELSE UNCHANGED want
    /\ UNCHANGED <<stat, joindelay, events>> /\ UNCHANGED world

-----------------------------------------------------------------------------
(* The IRC server. *)

Reply(cmd, c, names) == [cmd |-> cmd, chan |-> c, names |-> names]

(* The list of names, a line for each. *)
Names(c, members) ==
    LET named(u) == IF u \in members THEN <<Reply("NAMES", c, {u})>> ELSE <<>>
    IN named(Me) \o named(Other) \o <<Reply("END", c, {})>>

IrcdReads(s) ==
    /\ out[s] # <<>> /\ out' = [out EXCEPT ![s] = Tail(@)]
    /\ LET l == Head(out[s]) c == l.chan here == Me \in ircd[s][c]
           after == CASE l.cmd = "JOIN" /\ c \notin banned[s] -> ircd[s][c] \cup {Me}
                      [] l.cmd = "PART" -> ircd[s][c] \ {Me}
                      [] OTHER -> ircd[s][c]
           answer == CASE l.cmd = "NAMES" -> Names(c, after)
                       [] l.cmd = "JOIN" /\ c \in banned[s] -> <<Reply("REFUSED", c, {})>>
                       [] l.cmd = "JOIN" /\ c \notin banned[s] /\ ~here ->
                            <<Reply("UJOIN", c, {})>> \o Names(c, after)
                       [] l.cmd = "PART" /\ here -> <<Reply("UPART", c, {})>>
                       [] OTHER -> <<>>
       IN ircd' = [ircd EXCEPT ![s][c] = after] /\ inq' = [inq EXCEPT ![s] = @ \o answer]
    /\ UNCHANGED <<tabs, stat, joindelay, banned, want, events, features>>

(* We are kicked, perhaps for good. *)
Kick(s, c) ==
    /\ Event /\ May("kick") /\ Me \in ircd[s][c]
    /\ ircd' = [ircd EXCEPT ![s][c] = @ \ {Me}]
    /\ inq' = [inq EXCEPT ![s] = Append(@, Reply("UKICK", c, {}))]
    /\ banned' \in {banned, [banned EXCEPT ![s] = @ \cup {c}]}
    /\ UNCHANGED <<tabs, stat, joindelay, out, want, features>>

(* Somebody else joins, or leaves in one way or other. *)
OtherMoves(s, c) ==
    /\ Event /\ May("users")
    /\ LET leaves == Other \in ircd[s][c]
       IN /\ ircd' = [ircd EXCEPT ![s][c] = IF leaves THEN @ \ {Other} ELSE @ \cup {Other}]
          /\ inq' = IF Me \in ircd[s][c]
                    THEN [inq EXCEPT ![s] = Append(@, Reply(IF leaves THEN "PART" ELSE "JOIN", c, {}))]
                    ELSE inq
    /\ UNCHANGED <<tabs, stat, joindelay, out, banned, want, features>>

-----------------------------------------------------------------------------
Next ==
    \/ \E s \in Serv :
         \/ Connect(s) \/ inbound_login_end(s) \/ check_autojoin_channels(s)
         \/ Lost(s) \/ cmd_discon(s) \/ OpenTab(s) \/ Read(s) \/ IrcdReads(s)
         \/ \E c \in Chan :
              \/ \E i \in 0..Len(tabs) : cmd_join(s, c, i)
              \/ cmd_part(s, c) \/ cmd_cycle(s, c) \/ cmd_names(s, c)
              \/ Kick(s, c) \/ OtherMoves(s, c)
    \/ \E i \in DOMAIN tabs : session_free(i)

Spec == Init /\ [][Next]_vars

-----------------------------------------------------------------------------
(* Properties. *)

(* Nothing is under way between the client and server s. *)
Quiet(s) == Ready(s) /\ out[s] = <<>> /\ inq[s] = <<>>

(* The tabs say where the client is: each channel has one tab at most,     *)
(* there are none without a connection, and once the server has answered   *)
(* everything they are the channels it has us on, with the members it has  *)
(* (inbound_ujoin, clear_channel, send_quit_or_part, inbound_nameslist).   *)
TabsMatch ==
    /\ \A i, j \in DOMAIN tabs :
         tabs[i].channel # None /\ tabs[i].channel = tabs[j].channel /\ tabs[i].serv = tabs[j].serv
         => i = j
    /\ \A i \in DOMAIN tabs : tabs[i].channel # None => stat[tabs[i].serv] = "in"
    /\ \A s \in Serv : Quiet(s) =>
         \A c \in Chan :
           /\ On(s, c) <=> Me \in ircd[s][c]
           /\ On(s, c) => tabs[find_channel(s, c)].users = ircd[s][c]

(* Where what the user wants is always clear.  Not                         *)
(*  - where a connection is lost before a JOIN or PART is answered         *)
(*    ("again"): auto_reconnect looks at the channels open in tabs, and    *)
(*    those it is just joining again are open in none;                     *)
(*  - where both servers lose theirs: auto_reconnect marks the tabs of the *)
(*    other server too, which may be left before that reconnects;          *)
(*  - for favourites left before a loss, joined if nothing else is;        *)
(*  - for a /join or /part during the join delay: a tab still marked may   *)
(*    be on another channel by then, or have left its own;                 *)
(*  - for a /part that crosses a kick which is answered by joining again,  *)
(*    for a tab closed before its JOIN is answered, for a /join before the *)
(*    client knows that it has left, and for a /discon in the delay.       *)
Orderly ==
    /\ Never({"again", "early", "hasty", "impatient", "discon", "norejoin"})
    /\ ~({"lost", "lost2"} \subseteq features) /\ (May("favs") => Never({"lost", "lost2"}))
    /\ ~({"part", "kick", "autorejoin"} \subseteq features)

(* Once the server has answered everything we are on the channels the user *)
(* wants: those that were open are joined again after a loss or a kick,    *)
(* and none that was left comes back.                                      *)
OnWanted ==
    Orderly => \A s \in Serv : Quiet(s) => want[s] = {c \in Chan : Me \in ircd[s][c]}
=============================================================================
