------------------------------ MODULE DccList ------------------------------
(***************************************************************************)
(* The DCC entries of one client (src/common/dcc.c): file transfers and    *)
(* chats, offered and received, direct and passive, through the four kinds *)
(* of proxy; the main loop watches and sockets they hold, the speed limits *)
(* with their sums over all entries, and the timer that walks the list.    *)
(* What the peers, the proxy and the user do is free.  The bytes of a file *)
(* are the subject of DccTransfer.                                         *)
(***************************************************************************)
EXTENDS Integers, Sequences, SequencesExt, FiniteSetsExt

CONSTANTS Scenarios,  \* sets of features, see AllFeatures
          Entries,    \* bound: how many entries are made
          MaxCps,     \* bound on the speed of an entry
          Limit       \* the speed limit, of one entry and of all of them

(* "files", "chats": what is offered.  "passive": the other end listens.   *)
(* The kinds of proxy.  "fastsend": do not wait for acknowledgements.      *)
(* "limit": speed limits are set.  "stall": timeouts pass.  "autoremove":  *)
(* finished entries are removed.  "hook": a plugin hook of a text event    *)
(* closes entries.  "nick": a peer changes its nick.  "kill": a server is  *)
(* closed.                                                                 *)
Proxies == {"wingate", "socks", "socks5", "http"}
AllFeatures == {"files", "chats", "passive", "fastsend", "limit", "stall", "autoremove",
                "hook", "nick", "kill"} \cup Proxies

ASSUME ScenariosAssumption == Scenarios \subseteq SUBSET AllFeatures
ASSUME EntriesAssumption == Entries \in Nat \ {0}
ASSUME LimitAssumption == MaxCps \in Nat \ {0} /\ Limit \in 1..MaxCps

VARIABLES c,         \* the client, see TypeOK
          walk,      \* the entry dcc_check_timeouts is at, 0 when it does not run
          features   \* what can happen in this behaviour, chosen at its start

vars == <<c, walk, features>>

Id == 1..Entries
Nick == {"ann", "bob"}
Peer == "ann"    \* of transfers, which no operation here looks up by nick
Server == {1, 2}
Type == {"SEND", "RECV", "CHATRECV", "CHATSEND"}
Chats == {"CHATRECV", "CHATSEND"}
Stat == {"QUEUED", "CONNECTING", "ACTIVE", "DONE", "FAILED", "ABORTED"}
Callback == {"none", "dcc_accept", "dcc_connect_finished", "dcc_proxy_connect", "traverse",
             "dcc_read", "dcc_send_data", "dcc_read_ack", "dcc_read_chat"}

May(f) == f \in features
Never(S) == features \cap S = {}
fast == May("fastsend")

(* An entry: its watches by their callbacks (stray: one was overwritten    *)
(* while it was installed), its socket, file and chat buffer, the limits   *)
(* that hold it back, its speed, whether bytes moved since it was computed *)
(* last, and how far the proxy is.                                         *)
Entry == [type: Type, nick: Nick, passive: BOOLEAN, stat: Stat, iotag: Callback,
          wiotag: Callback, stray: BOOLEAN, sok: BOOLEAN, fp: BOOLEAN, dccchat: BOOLEAN,
          throttled: SUBSET {"own", "global"}, cps: 0..MaxCps, moved: BOOLEAN,
          phase: 0..8, serv: 0..2]

(* The client: dcc_list with its entries, how many were made, dcc_sendcpssum *)
(* and dcc_getcpssum, whether the timer runs, and the servers there are.    *)
IsClient(s) ==
    /\ s = [dcc |-> s.dcc, list |-> s.list, made |-> s.made, sendsum |-> s.sendsum,
            getsum |-> s.getsum, timer |-> s.timer, servs |-> s.servs]
    /\ DOMAIN s.dcc \subseteq Id /\ s.dcc \in [DOMAIN s.dcc -> Entry]
    /\ s.list \in Seq(Id) /\ s.made \in 0..Entries /\ s.sendsum \in Nat /\ s.getsum \in Nat
    /\ s.timer \in BOOLEAN /\ s.servs \subseteq Server

TypeOK ==
    /\ IsClient(c)
    /\ IsInjective(c.list) /\ ToSet(c.list) = DOMAIN c.dcc
    /\ walk \in 0..Entries /\ features \in Scenarios

Init ==
    /\ c = [dcc |-> [i \in {} |-> 0], list |-> <<>>, made |-> 0, sendsum |-> 0, getsum |-> 0,
            timer |-> FALSE, servs |-> Server]
    /\ walk = 0
    /\ features \in Scenarios

---------------------------------------------------------------------------
(* Watches, and the end of an entry.  Operators take the client and return *)
(* it, or the set of the clients that can come out.                        *)

Put(s, i, d) == [s EXCEPT !.dcc = [j \in DOMAIN s.dcc \cup {i} |-> IF j = i THEN d ELSE s.dcc[j]]]
With(s, i, d) == [s EXCEPT !.dcc[i] = d]
WithStat(s, i, stat) == With(s, i, [s.dcc[i] EXCEPT !.stat = stat])
WithPhase(s, i, phase) == With(s, i, [s.dcc[i] EXCEPT !.phase = phase])
WithSok(s, i) == With(s, i, [s.dcc[i] EXCEPT !.sok = TRUE])

add_iotag(s, i, cb) ==
    With(s, i, [s.dcc[i] EXCEPT !.stray = @ \/ s.dcc[i].iotag # "none", !.iotag = cb])
add_wiotag(s, i, cb) ==
    With(s, i, [s.dcc[i] EXCEPT !.stray = @ \/ s.dcc[i].wiotag # "none", !.wiotag = cb])
remove_iotag(s, i) == With(s, i, [s.dcc[i] EXCEPT !.iotag = "none"])
remove_wiotag(s, i) == With(s, i, [s.dcc[i] EXCEPT !.wiotag = "none"])

(* Not in the code: the speed of a finished entry is taken away again. *)
dcc_remove_from_sum_Again(s, i) ==
    LET d == s.dcc[i] IN
    CASE d.type = "SEND" -> [s EXCEPT !.sendsum = @ - d.cps]
      [] d.type = "RECV" -> [s EXCEPT !.getsum = @ - d.cps]
      [] OTHER -> s

(* Not in the code: the speed stays in the sum. *)
dcc_remove_from_sum_Never(s, i) == s

dcc_remove_from_sum(s, i) ==
    LET d == s.dcc[i] IN
    CASE d.stat = "ACTIVE" /\ d.type = "SEND" -> [s EXCEPT !.sendsum = @ - d.cps]
      [] d.stat = "ACTIVE" /\ d.type = "RECV" -> [s EXCEPT !.getsum = @ - d.cps]
      [] OTHER -> s

(* Not in the code: the write watch is left. *)
dcc_close_KeepsWatch(s, i, stat) ==
    With(dcc_remove_from_sum(s, i), i,
         [s.dcc[i] EXCEPT !.iotag = "none", !.sok = FALSE, !.fp = FALSE, !.dccchat = FALSE,
                          !.stat = stat])

(* Not in the code: the line buffer is left. *)
dcc_close_KeepsBuffer(s, i, stat) ==
    With(dcc_remove_from_sum(s, i), i,
         [s.dcc[i] EXCEPT !.wiotag = "none", !.iotag = "none", !.sok = FALSE, !.fp = FALSE,
                          !.stat = stat])

dcc_close(s, i, stat) ==
    With(dcc_remove_from_sum(s, i), i,
         [s.dcc[i] EXCEPT !.wiotag = "none", !.iotag = "none", !.sok = FALSE, !.fp = FALSE,
                          !.dccchat = FALSE, !.stat = stat])

(* Not in the code: the timer is left to find an empty list. *)
dcc_destroy_KeepsTimer(s, i) ==
    LET t == dcc_close(s, i, "QUEUED") IN
    [t EXCEPT !.dcc = [j \in DOMAIN t.dcc \ {i} |-> t.dcc[j]], !.list = RemoveFirst(t.list, i)]

(* dcc_close with destroy: the entry is freed. *)
dcc_destroy(s, i) ==
    LET t == dcc_close(s, i, "QUEUED") IN
    [t EXCEPT !.dcc = [j \in DOMAIN t.dcc \ {i} |-> t.dcc[j]], !.list = RemoveFirst(t.list, i),
              !.timer = @ /\ DOMAIN s.dcc # {i}]

Finished(d) == d.stat \in {"DONE", "FAILED", "ABORTED"}

dcc_abort(s, i) == IF Finished(s.dcc[i]) THEN dcc_destroy(s, i) ELSE dcc_close(s, i, "ABORTED")

---------------------------------------------------------------------------
(* Transfers and chats that run. *)

Moved(s, i) == With(s, i, [s.dcc[i] EXCEPT !.moved = TRUE])
Opened(s, i) == With(s, i, [s.dcc[i] EXCEPT !.fp = TRUE])

(* Called as a callback, by an acknowledgement and at the end of a         *)
(* throttling - for chats as well, which have no file.                     *)
dcc_send_data(s, i) ==
    LET d == s.dcc[i]
        failed == dcc_close(s, i, "FAILED")
        t == IF fast /\ d.wiotag = "none" THEN add_wiotag(s, i, "dcc_send_data") ELSE s
    IN  IF d.throttled # {} THEN {remove_wiotag(s, i)}
        ELSE IF d.type = "SEND"
             THEN {failed, Moved(t, i), remove_wiotag(Moved(t, i), i)}
                  \cup (IF fast THEN {} ELSE {s})
        ELSE {failed} \cup (IF fast /\ d.type = "CHATSEND" /\ ~d.passive THEN {} ELSE {s})

dcc_read_ack(s, i) ==
    {s, dcc_close(s, i, "DONE"), dcc_close(s, i, "FAILED")}
    \cup (IF fast THEN {} ELSE dcc_send_data(s, i))

(* Not in the code: the watch is not installed again. *)
dcc_read_StaysDeaf(s, i) ==
    LET d == s.dcc[i]
        opened == Opened(s, i)
    IN  IF d.throttled # {} THEN {remove_iotag(opened, i)}
        ELSE {opened, Moved(opened, i), dcc_close(opened, i, "DONE"), dcc_close(opened, i, "FAILED")}

dcc_read(s, i) ==
    LET d == s.dcc[i]
        opened == Opened(s, i)
        t == IF d.iotag = "none" THEN add_iotag(opened, i, "dcc_read") ELSE opened
    IN  (IF d.fp THEN {} ELSE {dcc_close(s, i, "FAILED")})
        \cup IF d.throttled # {} THEN {remove_iotag(opened, i)}
             ELSE {t, Moved(t, i), dcc_close(t, i, "DONE"), dcc_close(t, i, "FAILED")}

(* dcc_chat_line looks whether a hook has closed the chat. *)
dcc_read_chat(s, i) ==
    LET d == s.dcc[i]
        t == IF d.iotag = "none" THEN add_iotag(s, i, "dcc_read_chat") ELSE s
        aborted == dcc_abort(t, i)
    IN  IF d.throttled # {} THEN {remove_iotag(s, i)}
        ELSE {t, Moved(t, i), dcc_close(t, i, "FAILED")}
             \cup (IF May("hook") THEN {aborted, dcc_abort(aborted, i)} ELSE {})

---------------------------------------------------------------------------
(* Connecting. *)

WithBuffer(s, i) == With(s, i, [s.dcc[i] EXCEPT !.dccchat = TRUE])

Started(s, i) ==
    LET d == s.dcc[i]
        t == WithStat(s, i, "ACTIVE")
    IN  CASE d.type = "RECV" -> {add_iotag(t, i, "dcc_read")}
          [] d.type = "SEND" ->
               dcc_send_data(add_iotag(IF fast THEN add_wiotag(t, i, "dcc_send_data") ELSE t,
                                       i, "dcc_read_ack"), i)
          [] OTHER -> {WithBuffer(add_iotag(t, i, "dcc_read_chat"), i)}

(* dcc_did_connect leaves the socket of a failed entry open. *)
dcc_connect_finished(s, i) ==
    LET t == remove_iotag(s, i) IN
    {WithStat(t, i, "FAILED")} \cup Started(t, i)

dcc_accept(s, i) ==
    LET t == remove_iotag(s, i) IN
    {dcc_close(t, i, "FAILED")}
    \cup (IF s.dcc[i].type \in {"SEND", "CHATSEND"} THEN Started(t, i)
          ELSE dcc_connect_finished(t, i))

dcc_listen_init(s, i) == add_iotag(WithSok(s, i), i, "dcc_accept")

(* Whoever accepts a passive offer listens; else connect to the peer, or   *)
(* to the proxy.  There may be no socket to be had.                        *)
dcc_connect(s, i) ==
    LET t == WithStat(s, i, "CONNECTING")
        u == WithSok(t, i)
    IN  IF s.dcc[i].stat = "CONNECTING" THEN {s}
        ELSE IF s.dcc[i].passive /\ s.dcc[i].type \in {"RECV", "CHATRECV"}
        THEN {dcc_listen_init(t, i), dcc_close(u, i, "FAILED")}
        ELSE {WithStat(t, i, "FAILED"),
              add_iotag(u, i, IF Never(Proxies) THEN "dcc_connect_finished" ELSE "dcc_proxy_connect")}

(* A failed read removes iotag, a failed write wiotag. *)
FailedRead(s, i) == remove_iotag(WithStat(s, i, "FAILED"), i)
FailedWrite(s, i) == remove_wiotag(WithStat(s, i, "FAILED"), i)

(* write_proxy in this phase: not all at once, or on to reading in the next. *)
Sending(s, i) ==
    {s, FailedWrite(s, i),
     WithPhase(add_iotag(remove_wiotag(s, i), i, "traverse"), i, s.dcc[i].phase + 1)}

(* read_proxy: not all at once, or all, with these outcomes. *)
Reading(s, i, outcomes) == {s, FailedRead(s, i)} \cup outcomes

Refused(s, i) == FailedRead(s, i)
ToSend(s, i, phase) ==
    WithPhase(add_wiotag(remove_iotag(s, i), i, "traverse"), i, phase)
ToRead(s, i) == WithPhase(s, i, s.dcc[i].phase + 1)
Through(s, i) == dcc_connect_finished(remove_iotag(s, i), i)

(* Wingate's only phase reads, under the watch for writing.  A stream that *)
(* has failed once gives nothing more.                                     *)
dcc_wingate_proxy_traverse(s, i) ==
    Reading(s, i, IF s.dcc[i].stat = "FAILED" THEN {}
                  ELSE dcc_connect_finished(remove_wiotag(s, i), i))

dcc_socks_proxy_traverse(s, i) ==
    IF s.dcc[i].phase = 1 THEN Sending(s, i)
    ELSE Reading(s, i, {Refused(s, i)} \cup Through(s, i))

(* Methods, the login if the proxy wants one, the request, and the answer, *)
(* whose length is in its beginning.                                       *)
dcc_socks5_proxy_traverse(s, i) ==
    LET phase == s.dcc[i].phase IN
    CASE phase \in {1, 3, 6} -> Sending(s, i)
      [] phase = 2 -> Reading(s, i, {Refused(s, i), ToSend(s, i, 3), ToSend(s, i, 6)})
      [] phase = 4 -> Reading(s, i, {Refused(s, i), ToSend(s, i, 6)})
      [] phase = 7 -> Reading(s, i, {Refused(s, i), ToRead(s, i)})
      [] OTHER     -> Reading(s, i, Through(s, i))

dcc_http_proxy_traverse(s, i) ==
    CASE s.dcc[i].phase = 1 -> Sending(s, i)
      [] s.dcc[i].phase = 2 -> Reading(s, i, {Refused(s, i), ToRead(s, i)})
      [] OTHER              -> Reading(s, i, Through(s, i))

traverse(s, i) ==
    IF May("wingate") THEN dcc_wingate_proxy_traverse(s, i)
    ELSE IF May("socks") THEN dcc_socks_proxy_traverse(s, i)
    ELSE IF May("socks5") THEN dcc_socks5_proxy_traverse(s, i)
    ELSE dcc_http_proxy_traverse(s, i)

dcc_proxy_connect(s, i) ==
    LET t == remove_iotag(s, i) IN
    {WithStat(t, i, "FAILED"), ToSend(t, i, 1)}

(* A watch fires. *)
Run(s, i, cb) ==
    CASE cb = "dcc_accept"           -> dcc_accept(s, i)
      [] cb = "dcc_connect_finished" -> dcc_connect_finished(s, i)
      [] cb = "dcc_proxy_connect"    -> dcc_proxy_connect(s, i)
      [] cb = "traverse"             -> traverse(s, i)
      [] cb = "dcc_read"             -> dcc_read(s, i)
      [] cb = "dcc_send_data"        -> dcc_send_data(s, i)
      [] cb = "dcc_read_ack"         -> dcc_read_ack(s, i)
      [] cb = "dcc_read_chat"        -> dcc_read_chat(s, i)
      [] OTHER                       -> {}

Fire ==
    /\ walk = 0
    /\ \E i \in DOMAIN c.dcc : \E cb \in {c.dcc[i].iotag, c.dcc[i].wiotag} : c' \in Run(c, i, cb)
    /\ UNCHANGED <<walk, features>>

---------------------------------------------------------------------------
(* Offers and answers. *)

(* new_dcc, and what the caller fills in. *)
Made(s, type, nick, passive) ==
    [Put(s, s.made + 1,
         [type |-> type, nick |-> nick, passive |-> passive, stat |-> "QUEUED",
          iotag |-> "none", wiotag |-> "none", stray |-> FALSE, sok |-> FALSE,
          fp |-> type = "SEND", dccchat |-> FALSE, throttled |-> {}, cps |-> 0,
          moved |-> FALSE, phase |-> 0, serv |-> Max(s.servs)])
     EXCEPT !.list = <<s.made + 1>> \o @, !.made = @ + 1, !.timer = TRUE]

(* Ours: a direct one listens at once (where that fails it is gone again). *)
Offer(s, type, nick, passive) ==
    LET t == Made(s, type, nick, passive) IN
    IF passive THEN t ELSE dcc_listen_init(t, s.made + 1)

CanMake == walk = 0 /\ c.made < Entries

(* find_dcc, for chats: the first in the list, whatever its state. *)
find_dcc(s, nick, type) ==
    LET found == {k \in 1..Len(s.list) : LET d == s.dcc[s.list[k]] IN d.type = type /\ d.nick = nick}
    IN  IF found = {} THEN 0 ELSE s.list[Min(found)]

dcc_send ==
    /\ CanMake /\ May("files")
    /\ \E passive \in {FALSE, May("passive")} : c' = Offer(c, "SEND", Peer, passive)
    /\ UNCHANGED <<walk, features>>

(* A chat that is offered already is not offered again; one that the other *)
(* side offers is accepted, or its remains are removed.                    *)
dcc_chat ==
    /\ CanMake /\ May("chats")
    /\ \E nick \in Nick, passive \in {FALSE, May("passive")} :
         LET sent == find_dcc(c, nick, "CHATSEND")
             again == sent # 0 /\ ~Finished(c.dcc[sent])
             s == IF sent # 0 /\ c.dcc[sent].stat \in {"ABORTED", "FAILED"} THEN dcc_destroy(c, sent) ELSE c
             got == find_dcc(s, nick, "CHATRECV")
         IN  /\ ~again
             /\ c' \in IF got = 0 THEN {Offer(s, "CHATSEND", nick, passive)}
                       ELSE IF s.dcc[got].stat = "QUEUED" THEN dcc_connect(s, got)
                       ELSE IF s.dcc[got].stat \in {"ABORTED", "FAILED"} THEN {dcc_destroy(s, got)}
                       ELSE {s}
    /\ UNCHANGED <<walk, features>>

handle_dcc_send ==
    /\ CanMake /\ May("files")
    /\ \E passive \in {FALSE, May("passive")} : c' = Made(c, "RECV", Peer, passive)
    /\ UNCHANGED <<walk, features>>

(* Not in the code: our own offer to that peer is kept. *)
handle_dcc_chat_KeepsOffer ==
    /\ CanMake /\ May("chats")
    /\ \E nick \in Nick, passive \in {FALSE, May("passive")} :
         LET got == find_dcc(c, nick, "CHATRECV")
             s == IF got = 0 THEN c ELSE dcc_destroy(c, got)
         IN  c' = Made(s, "CHATRECV", nick, passive)
    /\ UNCHANGED <<walk, features>>

(* An offer of a chat replaces the chats there are with that peer. *)
handle_dcc_chat ==
    /\ CanMake /\ May("chats")
    /\ \E nick \in Nick, passive \in {FALSE, May("passive")} :
         LET sent == find_dcc(c, nick, "CHATSEND")
             s == IF sent = 0 THEN c ELSE dcc_destroy(c, sent)
             got == find_dcc(s, nick, "CHATRECV")
             t == IF got = 0 THEN s ELSE dcc_destroy(s, got)
         IN  c' = Made(t, "CHATRECV", nick, passive)
    /\ UNCHANGED <<walk, features>>

(* The address for a passive offer of ours. *)
handle_dcc_psend ==
    /\ walk = 0
    /\ \E i \in DOMAIN c.dcc :
         /\ c.dcc[i].stat = "QUEUED" /\ c.dcc[i].passive /\ c.dcc[i].type \in {"SEND", "CHATSEND"}
         /\ c' \in dcc_connect(c, i)
    /\ UNCHANGED <<walk, features>>

(* The user, or an ACCEPT, goes on with an offer received. *)
dcc_get ==
    /\ walk = 0
    /\ \E i \in DOMAIN c.dcc :
         \/ c.dcc[i].stat = "QUEUED" /\ c.dcc[i].type \in {"RECV", "CHATRECV"} /\ c' \in dcc_connect(c, i)
         \/ Finished(c.dcc[i]) /\ c' = dcc_destroy(c, i)
    /\ UNCHANGED <<walk, features>>

Close ==
    /\ walk = 0
    /\ \E i \in DOMAIN c.dcc : c' = dcc_abort(c, i)
    /\ UNCHANGED <<walk, features>>

Renamed(d, from, to) == IF d.nick = from THEN [d EXCEPT !.nick = to] ELSE d

dcc_change_nick ==
    /\ walk = 0 /\ May("nick")
    /\ \E from, to \in Nick :
         /\ from # to
         /\ c' = [c EXCEPT !.dcc = [i \in DOMAIN c.dcc |-> Renamed(c.dcc[i], from, to)]]
    /\ UNCHANGED <<walk, features>>

(* Not in the code: entries keep the server that is freed. *)
dcc_notify_kill_Nothing(s, gone) == s

dcc_notify_kill(s, gone) ==
    LET left == IF s.servs = {} THEN 0 ELSE Max(s.servs) IN
    [s EXCEPT !.dcc = [i \in DOMAIN s.dcc |->
                         IF s.dcc[i].serv = gone THEN [s.dcc[i] EXCEPT !.serv = left] ELSE s.dcc[i]]]

(* One of two servers is closed. *)
server_free ==
    /\ walk = 0 /\ May("kill") /\ c.servs = Server
    /\ \E gone \in Server : c' = dcc_notify_kill([c EXCEPT !.servs = @ \ {gone}], gone)
    /\ UNCHANGED <<walk, features>>

---------------------------------------------------------------------------
(* dcc_check_timeouts, every second. *)

(* Where nothing moved the average falls. *)
Speeds(d) == IF d.moved THEN 0..MaxCps ELSE IF d.cps = 0 THEN {0} ELSE 0..(d.cps - 1)

(* Not in the code: the limit of all is not lifted. *)
Limits_Keep(s, i) ==
    LET d == s.dcc[i]
        sum == IF d.type = "SEND" THEN s.sendsum ELSE s.getsum
    IN  d.throttled
        \cup {f \in {"own", "global"} : May("limit") /\ (IF f = "global" THEN sum >= Limit ELSE d.cps > Limit)}

(* The limit of one entry is set for files only. *)
Limits(s, i) ==
    LET d == s.dcc[i]
        sum == IF d.type = "SEND" THEN s.sendsum ELSE s.getsum
    IN  {f \in {"own", "global"} :
           May("limit") /\ (IF f = "global" THEN sum >= Limit ELSE d.cps > Limit /\ d.type \notin Chats)}

dcc_unthrottle(s, i) == IF s.dcc[i].type = "RECV" THEN dcc_read(s, i) ELSE dcc_send_data(s, i)

Calculated(s, i, cps) ==
    LET d == s.dcc[i]
        t == [With(s, i, [d EXCEPT !.cps = cps, !.moved = FALSE])
              EXCEPT !.sendsum = IF d.type = "SEND" THEN s.sendsum + cps - d.cps ELSE s.sendsum,
                     !.getsum = IF d.type = "SEND" THEN s.getsum ELSE s.getsum + cps - d.cps]
    IN  With(t, i, [t.dcc[i] EXCEPT !.throttled = Limits(t, i)])

dcc_calc_cps(s, i) ==
    UNION {LET u == Calculated(s, i, cps)
           IN  IF s.dcc[i].throttled # {} /\ u.dcc[i].throttled = {} THEN dcc_unthrottle(u, i) ELSE {u}
           : cps \in Speeds(s.dcc[i])}

(* A text event; hooks may close a finished entry. *)
Emitted(s, i) ==
    {s} \cup {dcc_destroy(s, j) : j \in {k \in DOMAIN s.dcc \ {i} : May("hook") /\ Finished(s.dcc[k])}}

Stalled(s, i) == {dcc_close(t, i, "ABORTED") : t \in Emitted(s, i)}

(* One entry of the walk. *)
Visited(s, i) ==
    LET d == s.dcc[i] IN
    CASE d.stat = "ACTIVE" ->
           UNION {{t} \cup (IF /\ May("stall") /\ d.type \notin Chats /\ t.dcc[i].throttled = {}
                               /\ ~d.moved /\ ~t.dcc[i].moved
                            THEN Stalled(t, i) ELSE {})
                  : t \in dcc_calc_cps(s, i)}
      [] d.stat = "QUEUED" /\ d.type \in {"SEND", "CHATSEND"} ->
           {s} \cup (IF May("stall") THEN Stalled(s, i) ELSE {})
      [] Finished(d) -> {IF May("autoremove") THEN dcc_destroy(s, i) ELSE s}
      [] OTHER -> {s}

After(list, i) == LET k == CHOOSE k \in 1..Len(list) : list[k] = i
                  IN  IF k = Len(list) THEN 0 ELSE list[k + 1]

Tick ==
    /\ walk = 0 /\ c.timer /\ c.list # <<>>
    /\ walk' = Head(c.list)
    /\ UNCHANGED <<c, features>>

(* Not in the code: the next entry is looked up after this one was handled. *)
Visit_Late ==
    /\ walk \in DOMAIN c.dcc
    /\ c' \in Visited(c, walk)
    /\ walk' = IF walk \in DOMAIN c'.dcc THEN After(c'.list, walk) ELSE walk
    /\ UNCHANGED features

(* next is read before the entry is handled. *)
Visit ==
    /\ walk \in DOMAIN c.dcc
    /\ c' \in Visited(c, walk)
    /\ walk' = After(c.list, walk)
    /\ UNCHANGED features

Next ==
    \/ Fire \/ Tick \/ Visit
    \/ dcc_send \/ dcc_chat \/ handle_dcc_send \/ handle_dcc_chat \/ handle_dcc_psend
    \/ dcc_get \/ Close \/ dcc_change_nick \/ server_free

Spec == Init /\ [][Next]_vars

(* The timer goes on, and its walk ends. *)
FairSpec == Spec /\ WF_vars(Tick) /\ WF_vars(Visit)

---------------------------------------------------------------------------
(* An entry that waits for its peer is watched, through every phase of the *)
(* proxies and whatever was throttled: there is no timeout for one that is *)
(* connecting, and nothing else wakes one that runs.  A throttled chat is  *)
(* not woken again (dcc_unthrottle takes it for a transfer).               *)
WaitsAreWatched ==
    \A i \in DOMAIN c.dcc : LET d == c.dcc[i] IN
      /\ d.stat = "CONNECTING" => d.iotag # "none" \/ d.wiotag # "none"
      /\ d.stat = "ACTIVE" /\ d.throttled = {} /\ (d.type \in Chats => Never({"limit"}))
         => d.iotag = CASE d.type = "RECV" -> "dcc_read"
                        [] d.type = "SEND" -> "dcc_read_ack"
                        [] OTHER -> "dcc_read_chat"

(* No callback runs for an entry that is finished, or after it is freed:   *)
(* no watch is overwritten while it is installed, and a finished entry has *)
(* none (dcc_close, read_proxy, write_proxy, dcc_accept).  A Wingate proxy *)
(* that hangs up leaves the watch for writing.                             *)
FinishedIsSilent ==
    \A i \in DOMAIN c.dcc : LET d == c.dcc[i] IN
      /\ ~d.stray
      /\ Finished(d) /\ Never({"wingate"}) => d.iotag = "none" /\ d.wiotag = "none"

(* dcc_read_chat writes into the line buffer without looking: it is there  *)
(* exactly as long as the chat runs.                                       *)
ChatHasBuffer ==
    \A i \in DOMAIN c.dcc :
      c.dcc[i].dccchat <=> c.dcc[i].stat = "ACTIVE" /\ c.dcc[i].type \in Chats

(* The sum of g over the entries. *)
Total(g) == LET upto[k \in 0..Entries] == IF k = 0 THEN 0 ELSE upto[k - 1] + g[k] IN upto[Entries]

(* What the entry i adds to the speed of the types, and that speed. *)
Share(s, types, i) ==
    IF i \in DOMAIN s.dcc /\ s.dcc[i].stat = "ACTIVE" /\ s.dcc[i].type \in types THEN s.dcc[i].cps ELSE 0
Speed(s, types) == Total([i \in Id |-> Share(s, types, i)])

(* The sums that the global limits are compared with are the speeds of the *)
(* transfers that run (dcc_calc_cps adds, dcc_remove_from_sum takes away). *)
(* The speed of a chat is added and never taken away.                      *)
SumsAreExact ==
    Never({"chats"}) => c.sendsum = Speed(c, {"SEND"}) /\ c.getsum = Speed(c, {"RECV"})

(* The timer runs exactly while there are entries (new_dcc, dcc_close). *)
TimerRuns == c.timer <=> c.list # <<>>

(* dcc_check_timeouts never goes on to an entry that is freed, although it *)
(* removes entries itself - unless the hook of a text event removes one.   *)
WalkIsLive == Never({"hook"}) => (walk # 0 => walk \in DOMAIN c.dcc)

(* No entry keeps a server that was freed (dcc_notify_kill). *)
ServerIsLive == \A i \in DOMAIN c.dcc : c.dcc[i].serv \in c.servs

(* As long as nobody changes nick there is one chat with a peer at most,   *)
(* so that dcc_write_chat, which takes the first, finds the one that runs  *)
(* and what is typed for it does not go to the IRC server.                 *)
OneChat ==
    Never({"nick"}) =>
      \A i, j \in DOMAIN c.dcc :
        {c.dcc[i].type, c.dcc[j].type} \subseteq Chats /\ c.dcc[i].nick = c.dcc[j].nick => i = j

(* Watches, timer and sums are those of the entries in the list, through   *)
(* proxies, throttling, failures and removals: what waits is woken, what   *)
(* is finished is not, and the limits apply to what runs.                  *)
ListIsTended == WaitsAreWatched /\ FinishedIsSilent /\ TimerRuns /\ SumsAreExact

(* Whoever follows a pointer finds what it should: the walk of the timer,  *)
(* the server of an entry, the buffer of a chat, the chat of a nick.       *)
RightEntry == WalkIsLive /\ ServerIsLive /\ ChatHasBuffer /\ OneChat

(* No transfer is held back for ever: those that are make no progress, the *)
(* speeds fall, and the limits let them go.                                *)
ThrottlingEnds ==
    Never({"chats"}) =>
      \A i \in Id : (i \in DOMAIN c.dcc /\ c.dcc[i].throttled # {} /\ ~Finished(c.dcc[i]))
                    ~> (i \notin DOMAIN c.dcc \/ c.dcc[i].throttled = {} \/ Finished(c.dcc[i]))
=============================================================================
