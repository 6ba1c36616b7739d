----------------------------- MODULE Connection -----------------------------
(***************************************************************************)
(* The life of one server structure (src/common/server.c, servlist.c):     *)
(* connecting through a child process and a TLS handshake, reading, losing *)
(* the connection, and the timers and token refreshes that connect again.  *)
(*                                                                         *)
(* The C functions call each other and work on one structure, so they are  *)
(* operators from a server record to a server record, and an action is a   *)
(* callback of the single-threaded main loop.  server_read alone is taken  *)
(* line by line: a handled line can replace the connection it is read from.*)
(***************************************************************************)
EXTENDS Integers, FiniteSets

CONSTANTS Scenarios,    \* sets of features, see AllFeatures
          MaxTimers,    \* bound: reconnect timers installed in one behaviour
          MaxRefreshes  \* bound: token refreshes outstanding at a time

(* What can happen in a behaviour beyond the usual, chosen once for each   *)
(* behaviour so that a property can say what it depends on.                *)
(* "reconnect": /reconnect while an attempt is running.  "oauth": tokens   *)
(* that must be refreshed before connecting.  "fork": fork() or pipe() can *)
(* fail.  "unlist": the user deletes the network from the network list.    *)
(* "sts": a plain connection is told to come back with TLS.                *)
AllFeatures == {"reconnect", "oauth", "fork", "unlist", "sts"}

ASSUME ScenariosAssumption == Scenarios \subseteq SUBSET AllFeatures
ASSUME BoundsAssumption == MaxTimers \in Nat /\ MaxRefreshes \in Nat

VARIABLES serv,    \* the server structure, and what was installed for it
          prefs,   \* prefs.hex_net_auto_reconnect, ..._reconnectonfail
          features \* the scenario of the behaviour

vars == <<serv, prefs, features>>

Callbacks == {"timeout_auto_reconnect", "servlist_cycle_cb"}

(* A reconnect timer: ids grow, and 0 is the 500 ms of /reconnect, 1 the   *)
(* configured delay.                                                       *)
Timer == [id: Nat \ {0}, cb: Callbacks, delay: 0..1]

Server ==
    [alive: BOOLEAN,              \* is_server
     connecting: BOOLEAN, connected: BOOLEAN, end_of_motd: BOOLEAN,
     network: BOOLEAN,            \* serv->network is set and lists servers
     use_ssl: BOOLEAN,
     iotag: {"none", "server_read_child", "server_read"},
     ssl_do_connect_tag: BOOLEAN,
     recondelay_tag: Nat,         \* a timer's id, or 0
     timers: SUBSET Timer,        \* reconnect timers that are installed
     next_id: Nat \ {0},          \* the next id fe_timeout_add returns
     child: BOOLEAN,              \* a child process exists (running or zombie)
     refreshes: Nat,              \* oauth_refresh_token calls without an answer
     oauth_connect_host: BOOLEAN, \* serv->oauth_connect_host is not NULL
     reading: {"none", "current", "old"}, \* server_read runs, on which socket
     wanted: BOOLEAN,             \* history: the user's last word was connect
     owed: BOOLEAN,               \* history: lost, and auto_reconnect is on
     stray_kill: BOOLEAN]         \* history: kill() without a child of ours

TypeOK ==
    /\ serv \in Server
    /\ prefs \in [auto_reconnect: BOOLEAN, auto_reconnectonfail: BOOLEAN]
    /\ features \in Scenarios

Init ==
    /\ serv = [alive |-> TRUE, connecting |-> FALSE, connected |-> FALSE,
               end_of_motd |-> FALSE, network |-> FALSE, use_ssl |-> FALSE,
               iotag |-> "none", ssl_do_connect_tag |-> FALSE,
               recondelay_tag |-> 0, timers |-> {}, next_id |-> 1, child |-> FALSE,
               refreshes |-> 0, oauth_connect_host |-> FALSE, reading |-> "none",
               wanted |-> FALSE, owed |-> FALSE, stray_kill |-> FALSE]
    /\ prefs \in [auto_reconnect: BOOLEAN, auto_reconnectonfail: BOOLEAN]
    /\ features \in Scenarios

-----------------------------------------------------------------------------
(* The reconnect timers. *)

fe_timeout_remove(s, id) == [s EXCEPT !.timers = {t \in @ : t.id # id}]

fe_timeout_add(s, cb, delay) ==
    [s EXCEPT !.timers = @ \cup {[id |-> s.next_id, cb |-> cb, delay |-> delay]},
              !.recondelay_tag = s.next_id,
              !.next_id = @ + 1]

remove_recondelay(s) == [fe_timeout_remove(s, s.recondelay_tag) EXCEPT !.recondelay_tag = 0]

-----------------------------------------------------------------------------
(* Ending an attempt, a connection or a delay. *)

server_stopconnecting_KeepsHandshake(s) ==
    [s EXCEPT !.iotag = "none", !.connecting = FALSE, !.child = FALSE,
              !.stray_kill = @ \/ ~s.child]

server_stopconnecting(s) ==
    [s EXCEPT !.iotag = "none", !.ssl_do_connect_tag = FALSE, !.connecting = FALSE,
              !.child = FALSE, !.stray_kill = @ \/ ~s.child]

server_cleanup_KeepsDelay(s) ==
    CASE s.connecting -> server_stopconnecting(s)
      [] ~s.connecting /\ s.connected ->
            [s EXCEPT !.iotag = "none", !.connected = FALSE, !.end_of_motd = FALSE]
      [] OTHER -> [s EXCEPT !.iotag = "none"]

server_cleanup_KeepsMotd(s) ==
    CASE s.connecting -> server_stopconnecting(s)
      [] ~s.connecting /\ s.connected -> [s EXCEPT !.iotag = "none", !.connected = FALSE]
      [] ~s.connecting /\ ~s.connected /\ s.recondelay_tag # 0 ->
            [remove_recondelay(s) EXCEPT !.iotag = "none"]
      [] OTHER -> [s EXCEPT !.iotag = "none"]

server_cleanup_AlwaysStops(s) ==
    LET c == server_stopconnecting(s)
    IN IF s.connected THEN [c EXCEPT !.connected = FALSE, !.end_of_motd = FALSE]
       ELSE IF s.recondelay_tag # 0 THEN remove_recondelay(c) ELSE c

(* The reconnect delay is only looked at when nothing else was ended. *)
server_cleanup(s) ==
    CASE s.connecting -> server_stopconnecting(s)
      [] ~s.connecting /\ s.connected ->
            [s EXCEPT !.iotag = "none", !.connected = FALSE, !.end_of_motd = FALSE]
      [] ~s.connecting /\ ~s.connected /\ s.recondelay_tag # 0 ->
            [remove_recondelay(s) EXCEPT !.iotag = "none"]
      [] OTHER -> [s EXCEPT !.iotag = "none"]

(* What server_disconnect does beyond server_cleanup (the QUIT, the queue, *)
(* the channels) is in SendQueue.                                          *)
server_disconnect(s) ==
    [server_cleanup(s) EXCEPT !.reading = IF @ = "none" THEN "none" ELSE "old"]

-----------------------------------------------------------------------------
(* Starting an attempt. *)

(* A failed pipe or fork returns with `connecting' set and nobody who      *)
(* watches the attempt.                                                    *)
server_connect(s, forked) ==
    LET busy == s.connected \/ s.connecting \/ s.recondelay_tag # 0
        d == IF busy THEN server_disconnect(s) ELSE s
    IN [d EXCEPT !.connecting = TRUE, !.end_of_motd = FALSE, !.child = forked,
                 !.iotag = IF forked THEN "server_read_child" ELSE @, !.owed = FALSE]

auto_reconnect_KeepsOld(s, delay) ==
    fe_timeout_add(IF s.connected THEN server_disconnect(s) ELSE s,
                   "timeout_auto_reconnect", delay)

auto_reconnect_NoTimer(s, delay) == IF s.connected THEN server_disconnect(s) ELSE s

auto_reconnect(s, delay) ==
    LET d == IF s.connected THEN server_disconnect(s) ELSE s
        r == IF d.recondelay_tag # 0 THEN remove_recondelay(d) ELSE d
    IN fe_timeout_add(r, "timeout_auto_reconnect", delay)

(* Overwrites recondelay_tag without a look at it. *)
servlist_cycle(s) == fe_timeout_add(s, "servlist_cycle_cb", 1)

(* servlist_cycle, or auto_reconnect if that preference allows it. *)
try_again(s, allowed) ==
    CASE s.network -> servlist_cycle(s)
      [] ~s.network /\ allowed -> auto_reconnect(s, 1)
      [] OTHER -> s

(* How the token of a network is found: usable, refreshed asynchronously,  *)
(* or in need of a refresh that cannot even be started.                    *)
TokenStates == IF "oauth" \in features THEN {"usable", "refresh", "cannot"} ELSE {"usable"}

servlist_connect(s, token, ssl, forked) ==
    LET n == [s EXCEPT !.network = TRUE, !.use_ssl = ssl]
    IN CASE token = "usable" -> server_connect(n, forked)
         [] token = "refresh" -> [n EXCEPT !.refreshes = @ + 1, !.oauth_connect_host = TRUE]
         [] token = "cannot" -> server_connect([n EXCEPT !.oauth_connect_host = FALSE], forked)

Forked == IF "fork" \in features THEN BOOLEAN ELSE {TRUE}

(* A callback of the main loop runs: none is running, and the behaviour is *)
(* still within its bounds.                                                *)
Idle == serv.alive /\ serv.reading = "none"
MayInstall == serv.next_id <= MaxTimers
MayRefresh(token) == token = "refresh" => serv.refreshes < MaxRefreshes

-----------------------------------------------------------------------------
(* Commands of the user. *)

(* /server host; the host may belong to a listed network. *)
CmdServer(network, ssl, forked) ==
    /\ Idle
    /\ serv' = [server_connect([serv EXCEPT !.network = FALSE, !.use_ssl = ssl], forked)
                   EXCEPT !.network = network, !.wanted = TRUE]
    /\ UNCHANGED <<prefs, features>>

(* /server network, or a click in the network list *)
CmdServerNetwork(token, ssl, forked) ==
    /\ Idle /\ MayRefresh(token)
    /\ serv' = [servlist_connect(serv, token, ssl, forked) EXCEPT !.wanted = TRUE]
    /\ UNCHANGED <<prefs, features>>

(* /reconnect sets the delay to 0 for the call. *)
CmdReconnect ==
    /\ Idle /\ MayInstall
    /\ "reconnect" \notin features => ~serv.connecting
    /\ serv' = [auto_reconnect(serv, 0) EXCEPT !.wanted = TRUE]
    /\ UNCHANGED <<prefs, features>>

(* /discon, /quit *)
CmdDiscon ==
    /\ Idle
    /\ serv' = [server_disconnect(serv) EXCEPT !.wanted = FALSE, !.owed = FALSE]
    /\ UNCHANGED <<prefs, features>>

(* servlist_net_remove: no server keeps a pointer to the network. *)
NetworkUnlisted ==
    /\ Idle /\ serv.network /\ "unlist" \in features
    /\ serv' = [serv EXCEPT !.network = FALSE, !.owed = FALSE]
    /\ UNCHANGED <<prefs, features>>

(* The last window of the server is closed.  The timers that are not       *)
(* removed stay installed.                                                 *)
ServerFree ==
    /\ Idle
    /\ serv' = [server_cleanup(serv) EXCEPT !.alive = FALSE, !.wanted = FALSE, !.owed = FALSE]
    /\ UNCHANGED <<prefs, features>>

-----------------------------------------------------------------------------
(* The child process and the TLS handshake. *)

server_connected(s) ==
    [server_stopconnecting(s) EXCEPT !.connected = TRUE, !.iotag = "server_read"]

(* '1' or '2': unknown host, or connect() failed *)
ChildFailed ==
    /\ Idle /\ serv.iotag = "server_read_child" /\ ~serv.ssl_do_connect_tag
    /\ MayInstall
    /\ serv' = try_again(server_stopconnecting(serv), prefs.auto_reconnectonfail)
    /\ UNCHANGED <<prefs, features>>

(* '8': proxy traversal failed *)
ChildProxyFailed ==
    /\ Idle /\ serv.iotag = "server_read_child" /\ ~serv.ssl_do_connect_tag
    /\ serv' = server_disconnect(serv)
    /\ UNCHANGED <<prefs, features>>

(* '4': connected; with TLS the handshake timer takes over *)
ChildSuccess ==
    /\ Idle /\ serv.iotag = "server_read_child" /\ ~serv.ssl_do_connect_tag
    /\ \/ ~serv.use_ssl /\ serv' = server_connected(serv)
       \/ serv.use_ssl /\ serv' = [serv EXCEPT !.ssl_do_connect_tag = TRUE]
       \/ serv.use_ssl /\ serv' = server_cleanup(serv) \* _SSL_set_verify failed
    /\ UNCHANGED <<prefs, features>>

(* ssl_do_connect, called every 300 ms until one of its outcomes: a        *)
(* verified certificate, a handshake error or timeout, a bad certificate.  *)
SslDone ==
    /\ Idle /\ serv.ssl_do_connect_tag
    /\ serv' = server_connected(serv)
    /\ UNCHANGED <<prefs, features>>

SslFailed ==
    /\ Idle /\ serv.ssl_do_connect_tag /\ MayInstall
    /\ serv' = LET c == server_cleanup(serv)
               IN IF prefs.auto_reconnectonfail THEN auto_reconnect(c, 1) ELSE c
    /\ UNCHANGED <<prefs, features>>

SslRejected ==
    /\ Idle /\ serv.ssl_do_connect_tag
    /\ serv' = server_cleanup(serv)
    /\ UNCHANGED <<prefs, features>>

-----------------------------------------------------------------------------
(* server_read *)

ReadStart ==
    /\ Idle /\ serv.iotag = "server_read"
    /\ serv' = [serv EXCEPT !.reading = "current"]
    /\ UNCHANGED <<prefs, features>>

(* A line: 376 or 422 *)
ReadEndOfMotd ==
    /\ serv.reading # "none" /\ ~serv.end_of_motd
    /\ serv' = [serv EXCEPT !.end_of_motd = TRUE]
    /\ UNCHANGED <<prefs, features>>

(* A line: CAP LS or CAP NAK on a plain connection (serv->ssl is NULL)     *)
(* that must be upgraded.  The loop goes on with the old socket's lines.   *)
ReadStsUpgrade(forked) ==
    /\ "sts" \in features
    /\ serv.reading = "old" \/ (serv.reading = "current" /\ ~serv.use_ssl)
    /\ serv' = server_connect(server_disconnect([serv EXCEPT !.use_ssl = TRUE]), forked)
    /\ UNCHANGED <<prefs, features>>

ReadBlocks ==
    /\ serv.reading # "none"
    /\ serv' = [serv EXCEPT !.reading = "none"]
    /\ UNCHANGED <<prefs, features>>

(* End of file or an error, on whichever socket the loop still reads *)
ReadFails ==
    /\ serv.reading # "none" /\ MayInstall
    /\ LET s == IF ~serv.end_of_motd
                THEN try_again(server_disconnect(serv), prefs.auto_reconnect)
                ELSE IF prefs.auto_reconnect THEN auto_reconnect(serv, 1)
                                             ELSE server_disconnect(serv)
       IN serv' = [s EXCEPT !.reading = "none", !.owed = prefs.auto_reconnect /\ ~s.connecting]
    /\ UNCHANGED <<prefs, features>>

(* lag_check, every 30 s: no answer within net_ping_timeout *)
PingTimeout ==
    /\ Idle /\ serv.connected /\ serv.end_of_motd /\ MayInstall
    /\ prefs.auto_reconnect
    /\ serv' = [auto_reconnect(serv, 1) EXCEPT !.owed = TRUE]
    /\ UNCHANGED <<prefs, features>>

-----------------------------------------------------------------------------
(* The reconnect timers and the token refresh. *)

(* Timers fire in the order they are due. *)
Due(t) == \A u \in serv.timers : u.id < t.id => u.delay > t.delay

timeout_auto_reconnect_ZeroesLate(s, forked) ==
    LET c == IF ~s.connected /\ ~s.connecting THEN server_connect(s, forked) ELSE s
    IN [c EXCEPT !.recondelay_tag = s.recondelay_tag]

timeout_auto_reconnect(s, forked) ==
    LET z == [s EXCEPT !.recondelay_tag = 0]
    IN IF ~s.connected /\ ~s.connecting THEN server_connect(z, forked) ELSE z

(* A callback that returns 0 removes its own timer. *)
AutoReconnectFires(t, forked) ==
    /\ serv.reading = "none" /\ Due(t) /\ t.cb = "timeout_auto_reconnect"
    /\ serv' = fe_timeout_remove(IF serv.alive THEN timeout_auto_reconnect(serv, forked)
                                              ELSE serv, t.id)
    /\ UNCHANGED <<prefs, features>>

(* servlist_cycle_cb does not test is_server; on a freed server this step  *)
(* is undefined, and the model stops at NoFreedCycle instead.              *)
CycleFires(t, token, ssl, forked) ==
    /\ Idle /\ Due(t) /\ t.cb = "servlist_cycle_cb" /\ MayRefresh(token)
    /\ serv' = fe_timeout_remove(
          IF serv.network THEN servlist_connect(serv, token, ssl, forked)
                          ELSE serv, t.id)
    /\ UNCHANGED <<prefs, features>>

(* servlist_oauth_refresh_cb.  There is one stashed host for any number of *)
(* refreshes; a callback that finds none would dereference NULL, and the   *)
(* model stops there.                                                      *)
OauthRefreshed(forked) ==
    /\ serv.reading = "none" /\ serv.refreshes > 0
    /\ serv.alive => serv.oauth_connect_host
    /\ serv' = LET n == [serv EXCEPT !.refreshes = @ - 1]
               IN IF serv.alive
                  THEN [server_connect(n, forked) EXCEPT !.oauth_connect_host = FALSE]
                  ELSE n
    /\ UNCHANGED <<prefs, features>>

OauthFailed_Twice ==
    /\ serv.reading = "none"
    /\ serv' = [serv EXCEPT !.refreshes = @ - 1,
                            !.oauth_connect_host = @ /\ ~serv.alive,
                            !.owed = FALSE]
    /\ UNCHANGED <<prefs, features>>

OauthFailed ==
    /\ serv.reading = "none" /\ serv.refreshes > 0
    /\ serv' = [serv EXCEPT !.refreshes = @ - 1,
                            !.oauth_connect_host = @ /\ ~serv.alive,
                            !.owed = FALSE]
    /\ UNCHANGED <<prefs, features>>

-----------------------------------------------------------------------------
UserNext ==
    \/ \E n, ssl \in BOOLEAN, f \in Forked : CmdServer(n, ssl, f)
    \/ \E tk \in TokenStates, ssl \in BOOLEAN, f \in Forked : CmdServerNetwork(tk, ssl, f)
    \/ CmdReconnect \/ CmdDiscon \/ NetworkUnlisted \/ ServerFree

ChildNext == ChildFailed \/ ChildProxyFailed \/ ChildSuccess
SslNext == SslDone \/ SslFailed \/ SslRejected

ReadNext ==
    \/ ReadStart \/ ReadEndOfMotd \/ ReadBlocks \/ ReadFails
    \/ \E f \in Forked : ReadStsUpgrade(f)

TimerNext ==
    \E t \in serv.timers, f \in Forked :
        \/ AutoReconnectFires(t, f)
        \/ \E tk \in TokenStates, ssl \in BOOLEAN : CycleFires(t, tk, ssl, f)

OauthNext == OauthFailed \/ \E f \in Forked : OauthRefreshed(f)

Next == UserNext \/ ChildNext \/ SslNext \/ ReadNext \/ PingTimeout \/ TimerNext \/ OauthNext

Spec == Init /\ [][Next]_vars

(* The main loop runs due timers and returns from its callbacks, the child *)
(* and the handshake come to an end (both have timeouts), and a token      *)
(* request is answered.                                                    *)
Fairness ==
    /\ WF_vars(TimerNext) /\ WF_vars(OauthNext)
    /\ WF_vars(ReadBlocks) /\ WF_vars(ChildNext) /\ WF_vars(SslNext)

FairSpec == Spec /\ Fairness

-----------------------------------------------------------------------------
Consistent(s) ==
    /\ ~(s.connecting /\ s.connected)
    /\ s.connected <=> s.iotag = "server_read"
    /\ s.iotag = "server_read_child" => s.connecting
    /\ s.ssl_do_connect_tag => s.connecting /\ s.iotag = "server_read_child"
    /\ ~s.alive => ~s.connecting /\ ~s.connected /\ s.reading = "none"

(* The state flags and the installed sources agree: never connecting and   *)
(* connected at once, server_read only on a connection, server_read_child  *)
(* and the handshake timer only during an attempt, nothing after the       *)
(* server was freed.  A source that outlives its state is a callback on    *)
(* the wrong socket or on freed memory.                                    *)
SourcesMatch == Consistent(serv)

(* None of S can happen in this behaviour. *)
Never(S) == features \cap S = {}

(* Every installed reconnect timer is the one recondelay_tag names, so     *)
(* that removing that one ends the delay.  A /reconnect during an attempt  *)
(* and lines read after an STS upgrade leave orphans (servlist_cycle).     *)
OneReconnectTimer ==
    Never({"reconnect", "sts"}) =>
        serv.timers = {t \in serv.timers : t.id = serv.recondelay_tag}

(* recondelay_tag names a timer that is still installed: it is the         *)
(* "reconnect delay timeout", and its removal must find it.  A cycle timer *)
(* that connects nothing (no network, a refresh first) leaves it set.      *)
TagIsInstalled ==
    Never({"reconnect", "oauth", "unlist", "sts"}) =>
        (serv.recondelay_tag # 0 => \E t \in serv.timers : t.id = serv.recondelay_tag)

(* server_stopconnecting kills "the child process trying to connect",      *)
(* never a process id that is left over or zero, as long as every fork     *)
(* succeeds.                                                               *)
NoStrayKill == Never({"fork"}) => ~serv.stray_kill

(* No line of an earlier connection is taken for one of the present        *)
(* attempt: the login state is that of an established connection (but      *)
(* server_read goes on with the old lines after an STS upgrade).           *)
MotdMeansConnected == Never({"sts"}) => (serv.end_of_motd => serv.connected)

(* A step that does not start an attempt after the user's last word was to *)
(* disconnect.                                                             *)
StaysDown == ~serv.wanted /\ ~serv'.wanted => (serv'.connecting => serv.connecting)

(* "DISCON, Disconnects from server": what the user ended is not connected *)
(* again by a timer, as long as recondelay_tag is the only timer and no    *)
(* refresh is outstanding.                                                 *)
DisconSticks == [][Never({"reconnect", "oauth", "sts"}) => StaysDown]_vars

(* The same when /reconnect was used during an attempt before (server.c,   *)
(* server_cleanup: "is this server in a reconnect delay? remove it!").     *)
DisconSticksAfterReconnect == [][Never({"oauth", "sts"}) => StaysDown]_vars

(* No cycle timer, whose callback uses the server without asking whether   *)
(* it still exists, outlives the server; orphans excepted.                 *)
NoFreedCycle ==
    Never({"reconnect", "sts"}) =>
        (~serv.alive => \A t \in serv.timers : t.cb # "servlist_cycle_cb")

(* What an attempt, a delay or a connection leaves behind is never taken   *)
(* for a part of a later one: timers, their tag, a child's process id, the *)
(* login state, a callback's server.                                       *)
NothingStale ==
    OneReconnectTimer /\ TagIsInstalled /\ NoStrayKill /\ MotdMeansConnected /\ NoFreedCycle

(* A connection comes up only at the end of an attempt, and an attempt is  *)
(* never turned into a connection by a callback of an earlier one.         *)
UpThroughAttempt ==
    [][serv'.connected /\ ~serv.connected =>
          serv.connecting /\ serv.iotag = "server_read_child" /\ serv'.iotag = "server_read"]_vars

(* A connection that was lost with net_auto_reconnect on is tried again,   *)
(* unless the user ends it, no token can be had, or no process can be      *)
(* forked.                                                                 *)
LostIsRetried == serv.owed /\ Never({"fork"}) ~> ~serv.owed
=============================================================================
