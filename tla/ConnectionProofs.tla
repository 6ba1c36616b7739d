-------------------------- MODULE ConnectionProofs --------------------------
(***************************************************************************)
(* What is proved of Connection for every set of features and every bound: *)
(* the type invariant, SourcesMatch, NothingStale, UpThroughAttempt and    *)
(* DisconSticks.  The functions of the code are operators on server        *)
(* records, so there is a lemma or two for each function and the action    *)
(* proofs only combine them.                                               *)
(***************************************************************************)
EXTENDS Connection, TLAPS

(* The records the functions are called with and return: a server record   *)
(* whose flags and sources agree.                                          *)
Good(s) == s \in Server /\ Consistent(s)

(* Removing a timer touches neither flags nor sources. *)
LEMMA TimeoutRemove ==
  ASSUME NEW s \in Server, NEW id
  PROVE  /\ fe_timeout_remove(s, id) \in Server
         /\ Consistent(s) => Consistent(fe_timeout_remove(s, id))
         /\ fe_timeout_remove(s, id).connecting = s.connecting
         /\ fe_timeout_remove(s, id).connected = s.connected
         /\ fe_timeout_remove(s, id).alive = s.alive
         /\ fe_timeout_remove(s, id).reading = s.reading
<1>1. {t \in s.timers : t.id # id} \in SUBSET Timer BY DEF Server
<1> QED BY <1>1 DEF fe_timeout_remove, Server, Consistent

(* Installing one neither. *)
LEMMA TimeoutAdd ==
  ASSUME NEW s \in Server, NEW cb \in Callbacks, NEW d \in 0..1
  PROVE  /\ fe_timeout_add(s, cb, d) \in Server
         /\ Consistent(s) => Consistent(fe_timeout_add(s, cb, d))
         /\ fe_timeout_add(s, cb, d).connecting = s.connecting
         /\ fe_timeout_add(s, cb, d).connected = s.connected
         /\ fe_timeout_add(s, cb, d).alive = s.alive
         /\ fe_timeout_add(s, cb, d).reading = s.reading
<1>1. s.next_id \in Nat \ {0} /\ s.next_id + 1 \in Nat \ {0} BY DEF Server
<1>2. [id |-> s.next_id, cb |-> cb, delay |-> d] \in Timer BY <1>1 DEF Timer
<1>3. s.timers \cup {[id |-> s.next_id, cb |-> cb, delay |-> d]} \in SUBSET Timer
  BY <1>2 DEF Server
<1> QED BY <1>1, <1>3 DEF fe_timeout_add, Server, Consistent

(* Clearing recondelay_tag with its timer. *)
LEMMA RemoveRecondelay ==
  ASSUME NEW s \in Server
  PROVE  /\ remove_recondelay(s) \in Server
         /\ Consistent(s) => Consistent(remove_recondelay(s))
         /\ remove_recondelay(s).connecting = s.connecting
         /\ remove_recondelay(s).connected = s.connected
         /\ remove_recondelay(s).alive = s.alive
         /\ remove_recondelay(s).reading = s.reading
<1>1. {t \in s.timers : t.id # s.recondelay_tag} \in SUBSET Timer BY DEF Server
<1> QED BY <1>1 DEF remove_recondelay, fe_timeout_remove, Server, Consistent

(* server_stopconnecting ends an attempt with all its sources. *)
LEMMA StopConnecting ==
  ASSUME NEW s \in Server, Consistent(s), s.connecting
  PROVE  /\ Good(server_stopconnecting(s))
         /\ ~server_stopconnecting(s).connecting /\ ~server_stopconnecting(s).connected
         /\ server_stopconnecting(s).alive = s.alive
         /\ server_stopconnecting(s).reading = s.reading
         /\ server_stopconnecting(s).iotag = "none"
BY ZenonT(90) DEF server_stopconnecting, Server, Consistent, Good

(* After server_cleanup nothing is installed and nothing runs. *)
LEMMA Cleanup ==
  ASSUME NEW s \in Server, Consistent(s)
  PROVE  /\ Good(server_cleanup(s))
         /\ ~server_cleanup(s).connecting /\ ~server_cleanup(s).connected
         /\ server_cleanup(s).alive = s.alive
         /\ server_cleanup(s).reading = s.reading
<1>1. CASE s.connecting BY <1>1, StopConnecting DEF server_cleanup
<1>2. CASE ~s.connecting /\ s.connected
  BY <1>2 DEF server_cleanup, Good, Server, Consistent
<1>3. CASE ~s.connecting /\ ~s.connected /\ s.recondelay_tag # 0
  <2>1. server_cleanup(s) = [remove_recondelay(s) EXCEPT !.iotag = "none"]
    BY <1>3 DEF server_cleanup
  <2> QED BY <1>3, <2>1, RemoveRecondelay DEF Good, Server, Consistent
<1>4. CASE ~s.connecting /\ ~s.connected /\ ~(s.recondelay_tag # 0)
  <2>1. server_cleanup(s) = [s EXCEPT !.iotag = "none"]
    BY <1>4 DEF server_cleanup
  <2> QED BY <1>4, <2>1 DEF Good, Server, Consistent
<1> QED BY <1>1, <1>2, <1>3, <1>4 DEF Server

(* server_disconnect as well. *)
LEMMA DisconnectLemma ==
  ASSUME NEW s \in Server, Consistent(s)
  PROVE  /\ Good(server_disconnect(s))
         /\ ~server_disconnect(s).connecting /\ ~server_disconnect(s).connected
         /\ server_disconnect(s).alive = s.alive
<1>1. server_cleanup(s) \in Server BY Cleanup DEF Good
<1> QED BY <1>1, Cleanup DEF server_disconnect, Good, Server, Consistent

(* What server_connect writes into a record it has cleaned up. *)
Attempt(d, f) ==
    [d EXCEPT !.connecting = TRUE, !.end_of_motd = FALSE, !.child = f,
              !.iotag = IF f THEN "server_read_child" ELSE @, !.owed = FALSE]

LEMMA NewAttempt ==
  ASSUME NEW d \in Server, Consistent(d), d.alive, ~d.connecting, ~d.connected,
         NEW f \in BOOLEAN
  PROVE  Good(Attempt(d, f)) /\ ~Attempt(d, f).connected
<1> DEFINE i == IF f THEN "server_read_child" ELSE d.iotag
           e == [d EXCEPT !.connecting = TRUE, !.end_of_motd = FALSE, !.child = f,
                          !.iotag = i, !.owed = FALSE]
<1>1. i \in {"none", "server_read_child"} BY DEF Server, Consistent
<1>2. ~d.ssl_do_connect_tag BY DEF Consistent
<1> HIDE DEF i
<1>3. e \in Server BY <1>1 DEF Server
<1>4. /\ e.connecting = TRUE /\ e.connected = d.connected /\ e.iotag = i
      /\ e.ssl_do_connect_tag = d.ssl_do_connect_tag /\ e.alive = d.alive
  BY DEF Server
<1> HIDE DEF e
<1>5. Consistent(e) BY <1>1, <1>2, <1>4 DEF Consistent
<1>6. Good(e) /\ ~e.connected BY <1>3, <1>4, <1>5 DEF Good
<1> QED BY <1>6 DEF e, i, Attempt

(* server_connect of a live server leaves an attempt and no connection,    *)
(* whatever state it found.                                                *)
LEMMA ConnectLemma ==
  ASSUME NEW s \in Server, Consistent(s), s.alive, NEW f \in BOOLEAN
  PROVE  Good(server_connect(s, f)) /\ ~server_connect(s, f).connected
<1> DEFINE busy == s.connected \/ s.connecting \/ s.recondelay_tag # 0
           d == IF busy THEN server_disconnect(s) ELSE s
<1>1. Good(d) /\ ~d.connecting /\ ~d.connected /\ d.alive
  BY DisconnectLemma DEF Good, Server
<1>2. server_connect(s, f) = Attempt(d, f) BY DEF server_connect, Attempt
<1> HIDE DEF d
<1>3. d \in Server /\ Consistent(d) BY <1>1 DEF Good
<1> QED BY <1>1, <1>2, <1>3, NewAttempt, Zenon

(* auto_reconnect may end a connection but never brings one up. *)
LEMMA AutoReconnectLemma ==
  ASSUME NEW s \in Server, Consistent(s), NEW delay \in 0..1
  PROVE  /\ Good(auto_reconnect(s, delay)) /\ ~auto_reconnect(s, delay).connected
         /\ auto_reconnect(s, delay).alive = s.alive
<1> DEFINE d == IF s.connected THEN server_disconnect(s) ELSE s
           r == IF d.recondelay_tag # 0 THEN remove_recondelay(d) ELSE d
<1>1. Good(d) /\ ~d.connected /\ d.alive = s.alive BY DisconnectLemma DEF Good
<1>2. auto_reconnect(s, delay) = fe_timeout_add(r, "timeout_auto_reconnect", delay)
  BY DEF auto_reconnect
<1> HIDE DEF d
<1>3. Good(r) /\ ~r.connected /\ r.alive = s.alive
  BY <1>1, RemoveRecondelay DEF Good
<1> HIDE DEF r
<1> QED BY <1>2, <1>3, TimeoutAdd DEF Good, Callbacks

(* So do the retries after a failure. *)
LEMMA TryAgain ==
  ASSUME NEW s \in Server, Consistent(s), ~s.connected, NEW allowed \in BOOLEAN
  PROVE  Good(try_again(s, allowed)) /\ ~try_again(s, allowed).connected
<1>1. CASE s.network
  BY <1>1, TimeoutAdd DEF try_again, servlist_cycle, Good, Callbacks
<1>2. CASE ~s.network /\ allowed
  BY <1>2, AutoReconnectLemma DEF try_again
<1>3. CASE ~s.network /\ ~allowed
  BY <1>3 DEF try_again, Good
<1> QED BY <1>1, <1>2, <1>3 DEF Server

(* servlist_connect connects, or waits for a token. *)
LEMMA ServlistConnect ==
  ASSUME NEW s \in Server, Consistent(s), s.alive, NEW token \in TokenStates,
         NEW ssl \in BOOLEAN, NEW f \in BOOLEAN
  PROVE  /\ Good(servlist_connect(s, token, ssl, f))
         /\ servlist_connect(s, token, ssl, f).connected => s.connected
<1> DEFINE n == [s EXCEPT !.network = TRUE, !.use_ssl = ssl]
           h == [n EXCEPT !.oauth_connect_host = FALSE]
           w == [n EXCEPT !.refreshes = @ + 1, !.oauth_connect_host = TRUE]
<1>1. n \in Server /\ Consistent(n) /\ n.alive /\ n.connected = s.connected
  BY DEF Server, Consistent
<1>2. h \in Server /\ Consistent(h) /\ h.alive BY <1>1, ZenonT(60) DEF Server, Consistent
<1>3. w \in Server /\ Consistent(w) /\ w.connected = s.connected
  <2>1. n.refreshes + 1 \in Nat BY <1>1 DEF Server
  <2> HIDE DEF n
  <2> QED BY <1>1, <2>1 DEF Server, Consistent
<1>4. token \in {"usable", "refresh", "cannot"} BY DEF TokenStates
<1>5. CASE token = "usable"
  <2>1. servlist_connect(s, token, ssl, f) = server_connect(n, f)
    BY <1>5 DEF servlist_connect
  <2> QED BY <1>1, <2>1, ConnectLemma
<1>6. CASE token = "refresh"
  <2>1. servlist_connect(s, token, ssl, f) = w BY <1>6 DEF servlist_connect
  <2> QED BY <1>3, <2>1 DEF Good
<1>7. CASE token = "cannot"
  <2>1. servlist_connect(s, token, ssl, f) = server_connect(h, f)
    BY <1>7 DEF servlist_connect
  <2> QED BY <1>2, <2>1, ConnectLemma
<1> QED BY <1>4, <1>5, <1>6, <1>7

(* server_connected turns an attempt into a connection. *)
LEMMA ConnectedLemma ==
  ASSUME NEW s \in Server, Consistent(s), s.connecting, s.alive
  PROVE  Good(server_connected(s)) /\ server_connected(s).iotag = "server_read"
<1>1. server_stopconnecting(s) \in Server BY StopConnecting DEF Good
<1> QED BY <1>1, StopConnecting DEF server_connected, Good, Server, Consistent

-----------------------------------------------------------------------------
(* The inductive invariant is TypeOK and SourcesMatch together. *)
IInv == TypeOK /\ SourcesMatch

(* A connection comes up in no other way than UpThroughAttempt says. *)
Up(s, t) ==
    t.connected /\ ~s.connected =>
        s.connecting /\ s.iotag = "server_read_child" /\ t.iotag = "server_read"

(* The initial state satisfies it. *)
LEMMA InitInv == Init => IInv
BY DEF Init, IInv, TypeOK, SourcesMatch, Consistent, Server, Timer

(* The user's commands keep the record good and bring no connection up. *)
LEMMA UserStep == ASSUME IInv, UserNext PROVE Good(serv') /\ Up(serv, serv')
<1>t. serv \in Server /\ Consistent(serv) BY DEF IInv, TypeOK, SourcesMatch
<1>f. Forked \subseteq BOOLEAN BY DEF Forked
<1>1. ASSUME NEW n \in BOOLEAN, NEW ssl \in BOOLEAN, NEW f \in Forked, CmdServer(n, ssl, f)
      PROVE  Good(serv') /\ Up(serv, serv')
  <2> DEFINE a == [serv EXCEPT !.network = FALSE, !.use_ssl = ssl]
             c == server_connect(a, f)
  <2>1. a \in Server /\ Consistent(a) /\ a.alive
    BY <1>1, <1>t DEF CmdServer, Idle, Server, Consistent
  <2>2. Good(c) /\ ~c.connected BY <1>f, <2>1, ConnectLemma
  <2>3. serv' = [c EXCEPT !.network = n, !.wanted = TRUE] BY <1>1 DEF CmdServer
  <2> HIDE DEF c
  <2> QED BY <2>2, <2>3 DEF Good, Server, Consistent, Up
<1>2. ASSUME NEW tk \in TokenStates, NEW ssl \in BOOLEAN, NEW f \in Forked,
             CmdServerNetwork(tk, ssl, f)
      PROVE  Good(serv') /\ Up(serv, serv')
  <2> DEFINE c == servlist_connect(serv, tk, ssl, f)
  <2>1. Good(c) /\ (c.connected => serv.connected)
    BY <1>2, <1>t, <1>f, ServlistConnect DEF CmdServerNetwork, Idle
  <2>2. serv' = [c EXCEPT !.wanted = TRUE] BY <1>2 DEF CmdServerNetwork
  <2> HIDE DEF c
  <2> QED BY <2>1, <2>2 DEF Good, Server, Consistent, Up
<1>3. CASE CmdReconnect
  <2> DEFINE c == auto_reconnect(serv, 0)
  <2>1. Good(c) /\ ~c.connected BY <1>t, AutoReconnectLemma
  <2>2. serv' = [c EXCEPT !.wanted = TRUE] BY <1>3 DEF CmdReconnect
  <2> HIDE DEF c
  <2> QED BY <2>1, <2>2 DEF Good, Server, Consistent, Up
<1>4. CASE CmdDiscon
  <2> DEFINE c == server_disconnect(serv)
  <2>1. Good(c) /\ ~c.connected BY <1>t, DisconnectLemma
  <2>2. serv' = [c EXCEPT !.wanted = FALSE, !.owed = FALSE] BY <1>4 DEF CmdDiscon
  <2> HIDE DEF c
  <2> QED BY <2>1, <2>2 DEF Good, Server, Consistent, Up
<1>5. CASE NetworkUnlisted
  BY <1>5, <1>t DEF NetworkUnlisted, Good, Server, Consistent, Up
<1>6. CASE ServerFree
  <2> DEFINE c == server_cleanup(serv)
  <2>1. Good(c) /\ ~c.connected /\ ~c.connecting /\ c.reading = "none"
    BY <1>6, <1>t, Cleanup DEF ServerFree, Idle
  <2>2. serv' = [c EXCEPT !.alive = FALSE, !.wanted = FALSE, !.owed = FALSE]
    BY <1>6 DEF ServerFree
  <2> HIDE DEF c
  <2> QED BY <2>1, <2>2 DEF Good, Server, Consistent, Up
<1> QED BY <1>1, <1>2, <1>3, <1>4, <1>5, <1>6 DEF UserNext

(* The child process and the handshake. *)
LEMMA AttemptStep == ASSUME IInv, ChildNext \/ SslNext PROVE Good(serv') /\ Up(serv, serv')
<1>t. serv \in Server /\ Consistent(serv) BY DEF IInv, TypeOK, SourcesMatch
<1>p. prefs.auto_reconnect \in BOOLEAN /\ prefs.auto_reconnectonfail \in BOOLEAN
  BY DEF IInv, TypeOK
<1>1. CASE ChildFailed
  <2>1. serv.connecting BY <1>1, <1>t DEF ChildFailed, Consistent
  <2>2. serv' = try_again(server_stopconnecting(serv), prefs.auto_reconnectonfail)
    BY <1>1 DEF ChildFailed
  <2>3. Good(server_stopconnecting(serv)) /\ ~server_stopconnecting(serv).connected
    BY <1>t, <2>1, StopConnecting
  <2> QED BY <1>p, <2>2, <2>3, TryAgain DEF Good, Up
<1>2. CASE ChildProxyFailed
  BY <1>2, <1>t, DisconnectLemma DEF ChildProxyFailed, Up
<1>3. CASE ChildSuccess
  <2>1. serv.connecting /\ serv.alive /\ serv.iotag = "server_read_child"
    BY <1>3, <1>t DEF ChildSuccess, Idle, Consistent
  <2>2. CASE serv' = server_connected(serv) BY <1>t, <2>1, <2>2, ConnectedLemma DEF Up
  <2>3. CASE serv' = [serv EXCEPT !.ssl_do_connect_tag = TRUE]
    BY <1>t, <2>1, <2>3 DEF Good, Server, Consistent, Up
  <2>4. CASE serv' = server_cleanup(serv) BY <1>t, <2>4, Cleanup DEF Up
  <2> QED BY <1>3, <2>2, <2>3, <2>4 DEF ChildSuccess
<1>4. CASE SslDone
  <2>1. serv.connecting /\ serv.alive /\ serv.iotag = "server_read_child"
    BY <1>4, <1>t DEF SslDone, Idle, Consistent
  <2> QED BY <1>4, <1>t, <2>1, ConnectedLemma DEF SslDone, Up
<1>5. CASE SslFailed
  <2> DEFINE c == server_cleanup(serv)
  <2>1. Good(c) /\ ~c.connected BY <1>t, Cleanup
  <2>2. serv' = IF prefs.auto_reconnectonfail THEN auto_reconnect(c, 1) ELSE c
    BY <1>5 DEF SslFailed
  <2> HIDE DEF c
  <2> QED BY <2>1, <2>2, AutoReconnectLemma DEF Good, Up
<1>6. CASE SslRejected
  BY <1>6, <1>t, Cleanup DEF SslRejected, Up
<1> QED BY <1>1, <1>2, <1>3, <1>4, <1>5, <1>6 DEF ChildNext, SslNext

(* server_read and the lag check. *)
LEMMA ReadStep == ASSUME IInv, ReadNext \/ PingTimeout PROVE Good(serv') /\ Up(serv, serv')
<1>t. serv \in Server /\ Consistent(serv) BY DEF IInv, TypeOK, SourcesMatch
<1>p. prefs.auto_reconnect \in BOOLEAN BY DEF IInv, TypeOK
<1>f. Forked \subseteq BOOLEAN BY DEF Forked
<1>1. CASE ReadStart BY <1>1, <1>t DEF ReadStart, Good, Server, Consistent, Up
<1>2. CASE ReadEndOfMotd BY <1>2, <1>t DEF ReadEndOfMotd, Good, Server, Consistent, Up
<1>3. CASE ReadBlocks BY <1>3, <1>t DEF ReadBlocks, Good, Server, Consistent, Up
<1>4. CASE ReadFails
  <2> DEFINE s == IF ~serv.end_of_motd
                  THEN try_again(server_disconnect(serv), prefs.auto_reconnect)
                  ELSE IF prefs.auto_reconnect THEN auto_reconnect(serv, 1)
                                               ELSE server_disconnect(serv)
  <2>1. Good(server_disconnect(serv)) /\ ~server_disconnect(serv).connected
    BY <1>t, DisconnectLemma
  <2>2. Good(auto_reconnect(serv, 1)) /\ ~auto_reconnect(serv, 1).connected
    BY <1>t, AutoReconnectLemma
  <2>3. LET r == try_again(server_disconnect(serv), prefs.auto_reconnect)
        IN Good(r) /\ ~r.connected
    BY <1>p, <2>1, TryAgain DEF Good
  <2>4. Good(s) /\ ~s.connected BY <2>1, <2>2, <2>3
  <2>5. serv' = [s EXCEPT !.reading = "none", !.owed = prefs.auto_reconnect /\ ~s.connecting]
    BY <1>4 DEF ReadFails
  <2> HIDE DEF s
  <2> QED BY <2>4, <2>5 DEF Good, Server, Consistent, Up
<1>5. ASSUME NEW f \in Forked, ReadStsUpgrade(f) PROVE Good(serv') /\ Up(serv, serv')
  <2> DEFINE a == [serv EXCEPT !.use_ssl = TRUE]
  <2>1. a \in Server /\ Consistent(a) /\ a.alive = serv.alive
    BY <1>t DEF Server, Consistent
  <2>2. Good(server_disconnect(a)) /\ server_disconnect(a).alive = serv.alive
    BY <2>1, DisconnectLemma
  <2>3. serv' = server_connect(server_disconnect(a), f) BY <1>5 DEF ReadStsUpgrade
  <2>4. serv.alive BY <1>5, <1>t DEF ReadStsUpgrade, Consistent
  <2> QED BY <1>f, <2>2, <2>3, <2>4, ConnectLemma DEF Good, Up
<1>6. CASE PingTimeout
  <2> DEFINE c == auto_reconnect(serv, 1)
  <2>1. Good(c) /\ ~c.connected BY <1>t, AutoReconnectLemma
  <2>2. serv' = [c EXCEPT !.owed = TRUE] BY <1>6 DEF PingTimeout
  <2> HIDE DEF c
  <2> QED BY <2>1, <2>2 DEF Good, Server, Consistent, Up
<1> QED BY <1>1, <1>2, <1>3, <1>4, <1>5, <1>6 DEF ReadNext

(* The reconnect timers and the token refresh. *)
LEMMA LaterStep == ASSUME IInv, TimerNext \/ OauthNext PROVE Good(serv') /\ Up(serv, serv')
<1>t. serv \in Server /\ Consistent(serv) BY DEF IInv, TypeOK, SourcesMatch
<1>f. Forked \subseteq BOOLEAN BY DEF Forked
<1>1. ASSUME NEW t \in serv.timers, NEW f \in Forked, AutoReconnectFires(t, f)
      PROVE  Good(serv') /\ Up(serv, serv')
  <2> DEFINE z == [serv EXCEPT !.recondelay_tag = 0]
             c == timeout_auto_reconnect(serv, f)
             d == IF serv.alive THEN c ELSE serv
  <2>1. z \in Server /\ Consistent(z) /\ z.alive = serv.alive /\ z.connected = serv.connected
    BY <1>t DEF Server, Consistent
  <2>2. serv.alive => Good(server_connect(z, f)) /\ ~server_connect(z, f).connected
    BY <1>f, <2>1, ConnectLemma
  <2>3. c = IF ~serv.connected /\ ~serv.connecting THEN server_connect(z, f) ELSE z
    BY DEF timeout_auto_reconnect
  <2>6. serv' = fe_timeout_remove(d, t.id) BY <1>1 DEF AutoReconnectFires
  <2> HIDE DEF z
  <2>4. serv.alive => Good(c) /\ (c.connected => serv.connected)
    BY <2>1, <2>2, <2>3 DEF Good
  <2> HIDE DEF c
  <2>5. Good(d) /\ (d.connected => serv.connected) BY <1>t, <2>4 DEF Good
  <2> HIDE DEF d
  <2> QED BY <2>5, <2>6, TimeoutRemove DEF Good, Up
<1>2. ASSUME NEW t \in serv.timers, NEW f \in Forked, NEW tk \in TokenStates,
             NEW ssl \in BOOLEAN, CycleFires(t, tk, ssl, f)
      PROVE  Good(serv') /\ Up(serv, serv')
  <2> DEFINE c == servlist_connect(serv, tk, ssl, f)
             d == IF serv.network THEN c ELSE serv
  <2>1. Good(c) /\ (c.connected => serv.connected)
    BY <1>2, <1>t, <1>f, ServlistConnect DEF CycleFires, Idle
  <2>2. Good(d) /\ (d.connected => serv.connected) BY <1>t, <2>1 DEF Good
  <2>3. serv' = fe_timeout_remove(d, t.id) BY <1>2 DEF CycleFires
  <2> HIDE DEF d
  <2> QED BY <2>2, <2>3, TimeoutRemove DEF Good, Up
<1>3. ASSUME NEW f \in Forked, OauthRefreshed(f) PROVE Good(serv') /\ Up(serv, serv')
  <2> DEFINE n == [serv EXCEPT !.refreshes = @ - 1]
             c == server_connect(n, f)
  <2>0. serv.refreshes - 1 \in Nat BY <1>3, <1>t DEF OauthRefreshed, Server
  <2>1. n \in Server /\ Consistent(n) /\ n.alive = serv.alive /\ n.connected = serv.connected
    BY <1>t, <2>0 DEF Server, Consistent
  <2>2. serv.alive => Good(c) /\ ~c.connected BY <1>f, <2>1, ConnectLemma
  <2>3. serv' = IF serv.alive THEN [c EXCEPT !.oauth_connect_host = FALSE] ELSE n
    BY <1>3 DEF OauthRefreshed
  <2> HIDE DEF c, n
  <2>4. CASE serv.alive
    <3>1. serv' = [c EXCEPT !.oauth_connect_host = FALSE] BY <2>3, <2>4
    <3> QED BY <2>2, <2>4, <3>1 DEF Good, Server, Consistent, Up
  <2>5. CASE ~serv.alive BY <2>1, <2>3, <2>5 DEF Good, Up
  <2> QED BY <2>4, <2>5
<1>4. CASE OauthFailed
  <2>0. serv.refreshes - 1 \in Nat BY <1>4, <1>t DEF OauthFailed, Server
  <2> QED BY <1>4, <1>t, <2>0, ZenonT(60) DEF OauthFailed, Good, Server, Consistent, Up
<1> QED BY <1>1, <1>2, <1>3, <1>4 DEF TimerNext, OauthNext

(* No action touches the preferences or the scenario. *)
LEMMA PrefsStep == ASSUME Next PROVE prefs' = prefs /\ features' = features
BY DEF Next, UserNext, ChildNext, SslNext, ReadNext, TimerNext, OauthNext,
       CmdServer, CmdServerNetwork, CmdReconnect, CmdDiscon, NetworkUnlisted, ServerFree,
       ChildFailed, ChildProxyFailed, ChildSuccess, SslDone, SslFailed, SslRejected,
       ReadStart, ReadEndOfMotd, ReadStsUpgrade, ReadBlocks, ReadFails, PingTimeout,
       AutoReconnectFires, CycleFires, OauthRefreshed, OauthFailed

(* One step of the specification. *)
LEMMA Step == ASSUME IInv, [Next]_vars PROVE IInv' /\ (serv' = serv \/ Up(serv, serv'))
<1>1. CASE Next
  <2>1. Good(serv') /\ Up(serv, serv')
    BY <1>1, UserStep, AttemptStep, ReadStep, LaterStep DEF Next
  <2> QED BY <1>1, <2>1, PrefsStep DEF IInv, TypeOK, SourcesMatch, Good
<1>2. CASE UNCHANGED vars
  BY <1>2 DEF vars, IInv, TypeOK, SourcesMatch
<1> QED BY <1>1, <1>2

-----------------------------------------------------------------------------
(* What is left over from earlier attempts, delays and connections.  Each  *)
(* part depends on features of its own.                                    *)
OneDelay == Never({"reconnect", "sts"})
PlainDelay == Never({"reconnect", "oauth", "unlist", "sts"})

(* A delay has one timer, and it is over when an attempt begins. *)
Delayed(s) ==
    /\ \A t \in s.timers : t.id = s.recondelay_tag
    /\ s.connecting \/ s.connected \/ ~s.alive => s.timers = {}

(* Its tag is that timer's. *)
Tagged(s) == s.recondelay_tag # 0 => \E t \in s.timers : t.id = s.recondelay_tag

(* A cycle timer has a network to connect. *)
Cycles(s) == PlainDelay => \A t \in s.timers : t.cb = "servlist_cycle_cb" => s.network

(* An attempt has a child process, and nothing else was ever killed. *)
Forks(s) == ~s.stray_kill /\ (s.connecting => s.child)

Tidy(s) ==
    /\ OneDelay => Delayed(s)
    /\ PlainDelay => Tagged(s)
    /\ Never({"fork"}) => Forks(s)
    /\ Never({"sts"}) => (s.end_of_motd => s.connected)

(* Lines are read from the present connection, and nothing is on its way   *)
(* for a user who wants no connection.                                     *)
Reads(s) == Never({"sts"}) => (s.reading # "none" => s.connected)
Down(s) ==
    Never({"reconnect", "oauth", "sts"}) =>
      /\ s.refreshes = 0
      /\ ~s.wanted => ~s.connecting /\ ~s.connected /\ s.timers = {}

Left(s) == Tidy(s) /\ Cycles(s) /\ Reads(s) /\ Down(s)

NoLeftovers == Left(serv)


(* What the functions that end something leave alone. *)
Same(s, r) ==
    /\ r.wanted = s.wanted /\ r.refreshes = s.refreshes /\ r.network = s.network
    /\ r.alive = s.alive /\ (s.reading = "none" => r.reading = "none")

NoTimers(s) == OneDelay => s.timers = {}
NoTag(s) == PlainDelay => s.recondelay_tag = 0

(* With one timer, removing that of the tag leaves none. *)
LEMMA TagRemoved ==
  ASSUME NEW s \in Server, Delayed(s)
  PROVE  {t \in s.timers : t.id # s.recondelay_tag} = {}
BY DEF Delayed

(* A server with no tag has no timer, since no timer has the number 0. *)
LEMMA NoTagNoTimer ==
  ASSUME NEW s \in Server, Delayed(s), s.recondelay_tag = 0
  PROVE  s.timers = {}
BY DEF Delayed, Server, Timer

(* Fewer features are excluded for one timer than for its tag. *)
LEMMA PlainIsOne == PlainDelay => OneDelay
BY DEF PlainDelay, OneDelay, Never

(* What server_cleanup does to each field that matters here. *)
LEMMA CleanupFields ==
  ASSUME NEW s \in Server, Consistent(s), NEW c, c = server_cleanup(s)
  PROVE  /\ c.timers = (IF ~s.connecting /\ ~s.connected /\ s.recondelay_tag # 0
                        THEN {t \in s.timers : t.id # s.recondelay_tag} ELSE s.timers)
         /\ c.recondelay_tag = (IF ~s.connecting /\ ~s.connected THEN 0 ELSE s.recondelay_tag)
         /\ s.connecting \/ ~s.connected => c.end_of_motd = s.end_of_motd
         /\ ~s.connecting /\ s.connected => ~c.end_of_motd
         /\ s.connecting => (c.stray_kill <=> s.stray_kill \/ ~s.child)
         /\ ~s.connecting => c.stray_kill = s.stray_kill
         /\ Same(s, c)
<1>1. CASE s.connecting
  <2>1. c = server_stopconnecting(s) BY <1>1 DEF server_cleanup
  <2> DEFINE k == s.stray_kill \/ ~s.child
  <2>2. c = [s EXCEPT !.iotag = "none", !.ssl_do_connect_tag = FALSE, !.connecting = FALSE,
                      !.child = FALSE, !.stray_kill = k]
    BY <2>1 DEF server_stopconnecting, Server
  <2> HIDE DEF k
  <2>3. /\ c.timers = s.timers /\ c.recondelay_tag = s.recondelay_tag
        /\ c.end_of_motd = s.end_of_motd /\ c.stray_kill = k
        /\ c.wanted = s.wanted /\ c.refreshes = s.refreshes /\ c.network = s.network
        /\ c.alive = s.alive /\ c.reading = s.reading
    BY <2>2 DEF Server
  <2>4. c.stray_kill <=> s.stray_kill \/ ~s.child BY <2>3 DEF k
  <2> QED BY <1>1, <2>3, <2>4 DEF Same
<1>2. CASE ~s.connecting /\ s.connected
  <2>1. c = [s EXCEPT !.iotag = "none", !.connected = FALSE, !.end_of_motd = FALSE]
    BY <1>2 DEF server_cleanup
  <2> QED BY <1>2, <2>1 DEF Same, Server
<1>3. CASE ~s.connecting /\ ~s.connected /\ s.recondelay_tag # 0
  <2> DEFINE r == {t \in s.timers : t.id # s.recondelay_tag}
  <2>1. c = [s EXCEPT !.timers = r, !.recondelay_tag = 0, !.iotag = "none"]
    BY <1>3 DEF server_cleanup, remove_recondelay, fe_timeout_remove, Server
  <2> HIDE DEF r
  <2>2. c.timers = r BY <2>1 DEF Server
  <2> QED BY <1>3, <2>1, <2>2 DEF Same, Server, r
<1>4. CASE ~s.connecting /\ ~s.connected /\ s.recondelay_tag = 0
  <2>1. c = [s EXCEPT !.iotag = "none"] BY <1>4 DEF server_cleanup
  <2> QED BY <1>4, <2>1 DEF Same, Server
<1> QED BY <1>1, <1>2, <1>3, <1>4 DEF Server

(* After server_cleanup no timer is left and no tag. *)
LEMMA CleanupTidy ==
  ASSUME NEW s \in Server, Consistent(s), Tidy(s)
  PROVE  /\ Tidy(server_cleanup(s)) /\ Same(s, server_cleanup(s))
         /\ NoTimers(server_cleanup(s)) /\ NoTag(server_cleanup(s))
<1> DEFINE c == server_cleanup(s)
<1>1. ~c.connecting /\ ~c.connected BY Cleanup
<1>2. /\ c.timers = (IF ~s.connecting /\ ~s.connected /\ s.recondelay_tag # 0
                     THEN {t \in s.timers : t.id # s.recondelay_tag} ELSE s.timers)
      /\ c.recondelay_tag = (IF ~s.connecting /\ ~s.connected THEN 0 ELSE s.recondelay_tag)
      /\ s.connecting \/ ~s.connected => c.end_of_motd = s.end_of_motd
      /\ ~s.connecting /\ s.connected => ~c.end_of_motd
      /\ s.connecting => (c.stray_kill <=> s.stray_kill \/ ~s.child)
      /\ ~s.connecting => c.stray_kill = s.stray_kill
      /\ Same(s, c)
  BY CleanupFields
<1> HIDE DEF c
<1>3. ASSUME OneDelay PROVE c.timers = {}
  <2>1. Delayed(s) BY <1>3 DEF Tidy
  <2>2. CASE s.connecting \/ s.connected BY <1>2, <2>1, <2>2 DEF Delayed
  <2>3. CASE ~s.connecting /\ ~s.connected /\ s.recondelay_tag # 0
    BY <1>2, <2>1, <2>3, TagRemoved
  <2>4. CASE ~s.connecting /\ ~s.connected /\ s.recondelay_tag = 0
    BY <1>2, <2>1, <2>4, NoTagNoTimer
  <2> QED BY <2>2, <2>3, <2>4
<1>4. ASSUME PlainDelay PROVE c.recondelay_tag = 0
  <2>1. CASE s.connecting \/ s.connected
    <3>1. s.timers = {} BY <1>4, <2>1, PlainIsOne DEF Tidy, Delayed
    <3> QED BY <1>2, <1>4, <2>1, <3>1 DEF Tidy, Tagged
  <2>2. CASE ~s.connecting /\ ~s.connected BY <1>2, <2>2
  <2> QED BY <2>1, <2>2
<1>5. OneDelay => Delayed(c) BY <1>3 DEF Delayed
<1>6. PlainDelay => Tagged(c) BY <1>3, <1>4, PlainIsOne DEF Tagged
<1>7. Never({"fork"}) => Forks(c) BY <1>1, <1>2 DEF Tidy, Forks
<1>8. Never({"sts"}) => (c.end_of_motd => c.connected)
  BY <1>2 DEF Tidy, Consistent
<1>9. Tidy(c) /\ NoTimers(c) /\ NoTag(c) BY <1>3, <1>4, <1>5, <1>6, <1>7, <1>8 DEF Tidy, NoTimers, NoTag
<1> QED BY <1>2, <1>9 DEF c


(* The fields that tidiness is about. *)
Alike(s, r) ==
    /\ r.timers = s.timers /\ r.recondelay_tag = s.recondelay_tag
    /\ r.connecting = s.connecting /\ r.connected = s.connected /\ r.alive = s.alive
    /\ r.stray_kill = s.stray_kill /\ r.child = s.child /\ r.end_of_motd = s.end_of_motd

LEMMA AlikeTidy ==
  ASSUME NEW s, NEW r, Alike(s, r), Tidy(s)
  PROVE  Tidy(r)
<1>1. OneDelay => Delayed(r) BY DEF Tidy, Alike, Delayed
<1>2. PlainDelay => Tagged(r) BY DEF Tidy, Alike, Tagged
<1>3. Never({"fork"}) => Forks(r) BY DEF Tidy, Alike, Forks
<1>4. Never({"sts"}) => (r.end_of_motd => r.connected) BY DEF Tidy, Alike
<1> QED BY <1>1, <1>2, <1>3, <1>4 DEF Tidy

(* server_disconnect ends what server_cleanup ends. *)
LEMMA DisconnectTidy ==
  ASSUME NEW s \in Server, Consistent(s), Tidy(s)
  PROVE  /\ Tidy(server_disconnect(s)) /\ Same(s, server_disconnect(s))
         /\ NoTimers(server_disconnect(s)) /\ NoTag(server_disconnect(s))
<1> DEFINE c == server_cleanup(s)  d == server_disconnect(s)
<1>1. Tidy(c) /\ Same(s, c) /\ NoTimers(c) /\ NoTag(c) /\ c \in Server
  BY CleanupTidy, Cleanup DEF Good
<1>2. d = [c EXCEPT !.reading = IF c.reading = "none" THEN "none" ELSE "old"]
  BY DEF server_disconnect
<1> HIDE DEF c, d
<1>3. Alike(c, d) /\ (c.reading = "none" => d.reading = "none")
      /\ d.wanted = c.wanted /\ d.refreshes = c.refreshes /\ d.network = c.network
  BY <1>1, <1>2 DEF Alike, Server
<1>4. Tidy(d) BY <1>1, <1>3, AlikeTidy
<1>5. Same(s, d) BY <1>1, <1>3 DEF Same, Alike
<1>6. NoTimers(d) /\ NoTag(d) BY <1>1, <1>3 DEF NoTimers, NoTag, Alike
<1> QED BY <1>4, <1>5, <1>6 DEF d

(* An attempt begins without a timer. *)
LEMMA AttemptTidy ==
  ASSUME NEW d \in Server, d.alive, ~d.connecting, ~d.connected, Tidy(d), NoTimers(d), NoTag(d),
         NEW f \in Forked
  PROVE  /\ Tidy(Attempt(d, f)) /\ Same(d, Attempt(d, f))
         /\ NoTimers(Attempt(d, f)) /\ NoTag(Attempt(d, f))
<1> DEFINE a == Attempt(d, f)
           i == IF f THEN "server_read_child" ELSE d.iotag
<1>1. a = [d EXCEPT !.connecting = TRUE, !.end_of_motd = FALSE, !.child = f,
                    !.iotag = i, !.owed = FALSE]
  BY DEF Attempt
<1> HIDE DEF a, i
<1>2. /\ a.timers = d.timers /\ a.recondelay_tag = d.recondelay_tag /\ a.stray_kill = d.stray_kill
      /\ a.child = f /\ ~a.end_of_motd /\ a.connecting /\ Same(d, a)
  BY <1>1 DEF Server, Same
<1>3. OneDelay => Delayed(a) BY <1>2 DEF NoTimers, Delayed
<1>4. PlainDelay => Tagged(a) BY <1>2, PlainIsOne DEF NoTimers, NoTag, Tagged
<1>5. Never({"fork"}) => Forks(a)
  <2>1. Never({"fork"}) => f = TRUE BY DEF Forked, Never
  <2> QED BY <1>2, <2>1 DEF Tidy, Forks
<1>6. Tidy(a) BY <1>2, <1>3, <1>4, <1>5 DEF Tidy
<1>7. NoTimers(a) /\ NoTag(a) BY <1>2 DEF NoTimers, NoTag
<1> QED BY <1>2, <1>6, <1>7 DEF a

LEMMA ConnectTidy ==
  ASSUME NEW s \in Server, Consistent(s), s.alive, Tidy(s), NEW f \in Forked
  PROVE  /\ Tidy(server_connect(s, f)) /\ Same(s, server_connect(s, f))
         /\ NoTimers(server_connect(s, f)) /\ NoTag(server_connect(s, f))
<1> DEFINE busy == s.connected \/ s.connecting \/ s.recondelay_tag # 0
           d == IF busy THEN server_disconnect(s) ELSE s
<1>1. server_connect(s, f) = Attempt(d, f) BY DEF server_connect, Attempt
<1>2. /\ d \in Server /\ d.alive /\ ~d.connecting /\ ~d.connected /\ Tidy(d)
      /\ NoTimers(d) /\ NoTag(d) /\ Same(s, d)
  <2>1. CASE busy
    <3>1. d = server_disconnect(s) BY <2>1
    <3> QED BY <3>1, DisconnectTidy, DisconnectLemma DEF Good
  <2>2. CASE ~busy
    <3>1. d = s /\ ~s.connected /\ ~s.connecting /\ s.recondelay_tag = 0 BY <2>2
    <3>2. NoTimers(s) BY <3>1, NoTagNoTimer DEF Tidy, NoTimers
    <3> QED BY <3>1, <3>2 DEF NoTag, Same
  <2> QED BY <2>1, <2>2
<1> HIDE DEF d
<1> DEFINE a == Attempt(d, f)
<1>3. Tidy(a) /\ Same(d, a) /\ NoTimers(a) /\ NoTag(a) BY <1>2, AttemptTidy
<1> HIDE DEF a
<1>4. Same(s, a) BY <1>2, <1>3 DEF Same
<1> QED BY <1>1, <1>3, <1>4 DEF a

(* A timer is installed where there is none, and nothing runs. *)
LEMMA AddTidy ==
  ASSUME NEW r \in Server, Tidy(r), NoTimers(r), NEW cb \in Callbacks, NEW delay \in 0..1,
         OneDelay => ~r.connecting /\ ~r.connected /\ r.alive,
         cb = "servlist_cycle_cb" => r.network
  PROVE  /\ Tidy(fe_timeout_add(r, cb, delay)) /\ Same(r, fe_timeout_add(r, cb, delay))
         /\ Cycles(fe_timeout_add(r, cb, delay))
<1> DEFINE a == fe_timeout_add(r, cb, delay)
           new == [id |-> r.next_id, cb |-> cb, delay |-> delay]
           ts == r.timers \cup {new}
           n == r.next_id + 1
<1>1. a = [r EXCEPT !.timers = ts, !.recondelay_tag = r.next_id, !.next_id = n]
  BY DEF fe_timeout_add, Server
<1>2. new.id = r.next_id /\ new.cb = cb OBVIOUS
<1>3. OneDelay => \A t \in ts : t = new BY DEF NoTimers
<1>0. new \in ts OBVIOUS
<1> HIDE DEF a, new, ts, n
<1>4. /\ a.timers = ts /\ a.recondelay_tag = r.next_id /\ a.connecting = r.connecting
      /\ a.connected = r.connected /\ a.alive = r.alive /\ a.network = r.network
      /\ a.stray_kill = r.stray_kill /\ a.child = r.child /\ a.end_of_motd = r.end_of_motd
      /\ Same(r, a)
  BY <1>1 DEF Server, Same
<1>5. OneDelay => Delayed(a) BY <1>2, <1>3, <1>4 DEF Delayed
<1>6. PlainDelay => Tagged(a)
  BY <1>0, <1>2, <1>3, <1>4, PlainIsOne DEF Tagged
<1>7. Never({"fork"}) => Forks(a) BY <1>4 DEF Tidy, Forks
<1>8. Tidy(a) BY <1>4, <1>5, <1>6, <1>7 DEF Tidy
<1>9. Cycles(a) BY <1>2, <1>3, <1>4, PlainIsOne DEF Cycles
<1> QED BY <1>4, <1>8, <1>9 DEF a

(* auto_reconnect, except when an attempt is running. *)
LEMMA AutoReconnectTidy ==
  ASSUME NEW s \in Server, Consistent(s), Tidy(s), s.alive, OneDelay => ~s.connecting,
         NEW delay \in 0..1
  PROVE  /\ Tidy(auto_reconnect(s, delay)) /\ Same(s, auto_reconnect(s, delay))
         /\ Cycles(auto_reconnect(s, delay))
<1> DEFINE d == IF s.connected THEN server_disconnect(s) ELSE s
           r == IF d.recondelay_tag # 0 THEN remove_recondelay(d) ELSE d
           a == fe_timeout_add(r, "timeout_auto_reconnect", delay)
<1>1. auto_reconnect(s, delay) = a BY DEF auto_reconnect
<1>2. /\ d \in Server /\ Tidy(d) /\ Same(s, d) /\ ~d.connected /\ (OneDelay => ~d.connecting)
  <2>1. CASE s.connected BY <2>1, DisconnectTidy, DisconnectLemma DEF Good
  <2>2. CASE ~s.connected BY <2>2 DEF Same
  <2> QED BY <2>1, <2>2
<1> HIDE DEF d
<1>3. /\ r \in Server /\ Tidy(r) /\ Same(s, r) /\ NoTimers(r) /\ ~r.connected
      /\ (OneDelay => ~r.connecting)
  <2>1. CASE d.recondelay_tag # 0
    <3> DEFINE ts == {t \in d.timers : t.id # d.recondelay_tag}
    <3>1. r = [d EXCEPT !.timers = ts, !.recondelay_tag = 0]
      BY <1>2, <2>1 DEF remove_recondelay, fe_timeout_remove, Server
    <3>2. r \in Server BY <1>2, <2>1, RemoveRecondelay
    <3>3. OneDelay => ts = {} BY <1>2, TagRemoved DEF Tidy
    <3> HIDE DEF r, ts
    <3>4. /\ r.timers = ts /\ r.recondelay_tag = 0 /\ r.connecting = d.connecting
          /\ r.connected = d.connected /\ r.alive = d.alive /\ r.network = d.network
          /\ r.stray_kill = d.stray_kill /\ r.child = d.child /\ r.end_of_motd = d.end_of_motd
          /\ r.wanted = d.wanted /\ r.refreshes = d.refreshes /\ r.reading = d.reading
      BY <1>2, <3>1 DEF Server
    <3>5. OneDelay => Delayed(r) BY <3>3, <3>4 DEF Delayed
    <3>6. PlainDelay => Tagged(r) BY <3>3, <3>4, PlainIsOne DEF Tagged
    <3>7. Never({"fork"}) => Forks(r) BY <1>2, <3>4 DEF Tidy, Forks
    <3>8. Tidy(r) BY <1>2, <3>4, <3>5, <3>6, <3>7 DEF Tidy
    <3>9. NoTimers(r) /\ Same(s, r) BY <1>2, <3>3, <3>4 DEF NoTimers, Same
    <3> QED BY <1>2, <3>2, <3>4, <3>8, <3>9
  <2>2. CASE d.recondelay_tag = 0
    <3>1. NoTimers(d) BY <1>2, <2>2, NoTagNoTimer DEF Tidy, NoTimers
    <3> QED BY <1>2, <2>2, <3>1
  <2> QED BY <2>1, <2>2
<1> HIDE DEF r
<1>4. r.alive BY <1>3 DEF Same
<1>5. "timeout_auto_reconnect" \in Callbacks /\ "timeout_auto_reconnect" # "servlist_cycle_cb"
  BY DEF Callbacks
<1>6. Tidy(a) /\ Same(r, a) /\ Cycles(a) BY <1>3, <1>4, <1>5, AddTidy
<1> HIDE DEF a
<1>7. Same(s, a) BY <1>3, <1>6 DEF Same
<1> QED BY <1>1, <1>6, <1>7

(* After a failure the next attempt is one timer away. *)
LEMMA TryAgainTidy ==
  ASSUME NEW s \in Server, Consistent(s), Tidy(s), NoTimers(s), s.alive,
         ~s.connecting, ~s.connected, NEW allowed \in BOOLEAN
  PROVE  /\ Tidy(try_again(s, allowed)) /\ Same(s, try_again(s, allowed))
         /\ Cycles(try_again(s, allowed))
<1>1. CASE s.network
  <2>1. try_again(s, allowed) = fe_timeout_add(s, "servlist_cycle_cb", 1)
    BY <1>1 DEF try_again, servlist_cycle
  <2>2. "servlist_cycle_cb" \in Callbacks /\ 1 \in 0..1 BY DEF Callbacks
  <2> DEFINE a == fe_timeout_add(s, "servlist_cycle_cb", 1)
  <2>3. Tidy(a) /\ Same(s, a) /\ Cycles(a) BY <1>1, <2>2, AddTidy
  <2> QED BY <2>1, <2>3
<1>2. CASE ~s.network /\ allowed BY <1>2, AutoReconnectTidy DEF try_again
<1>3. CASE ~s.network /\ ~allowed BY <1>3, PlainIsOne DEF try_again, Same, NoTimers, Cycles
<1> QED BY <1>1, <1>2, <1>3 DEF Server

(* servlist_connect connects at once, or later if there are tokens. *)
LEMMA ServlistConnectTidy ==
  ASSUME NEW s \in Server, Consistent(s), s.alive, Tidy(s), NEW token \in TokenStates,
         NEW ssl \in BOOLEAN, NEW f \in Forked, NEW r, r = servlist_connect(s, token, ssl, f)
  PROVE  /\ Tidy(r) /\ NoTag(r) /\ Cycles(r) /\ r.wanted = s.wanted /\ r.alive = s.alive
         /\ s.reading = "none" => r.reading = "none"
         /\ Never({"oauth"}) => r.refreshes = s.refreshes
<1>t. token \in {"usable", "refresh", "cannot"} /\ (Never({"oauth"}) => token = "usable")
  BY DEF TokenStates, Never
<1>f. f \in BOOLEAN BY DEF Forked
<1> DEFINE n == [s EXCEPT !.network = TRUE, !.use_ssl = ssl]
           h == [n EXCEPT !.oauth_connect_host = FALSE]
           w == [n EXCEPT !.refreshes = @ + 1, !.oauth_connect_host = TRUE]
<1> DEFINE Listed(q) ==
             /\ q.timers = s.timers /\ q.recondelay_tag = s.recondelay_tag
             /\ q.connecting = s.connecting /\ q.connected = s.connected /\ q.alive = s.alive
             /\ q.network = TRUE /\ q.stray_kill = s.stray_kill /\ q.child = s.child
             /\ q.end_of_motd = s.end_of_motd /\ q.wanted = s.wanted /\ q.reading = s.reading
<1>1. n \in Server /\ Consistent(n) /\ Listed(n) /\ n.refreshes = s.refreshes
  BY DEF Server, Consistent
<1>2. h \in Server /\ Consistent(h) /\ Listed(h) /\ h.refreshes = s.refreshes
  <2> HIDE DEF n
  <2>1. h \in Server BY <1>1 DEF Server
  <2>2. /\ h.connecting = n.connecting /\ h.connected = n.connected /\ h.iotag = n.iotag
        /\ h.ssl_do_connect_tag = n.ssl_do_connect_tag /\ h.alive = n.alive
        /\ h.reading = n.reading
    BY <1>1 DEF Server
  <2>3. Consistent(h) BY <1>1, <2>2 DEF Consistent
  <2>4. Listed(h) /\ h.refreshes = s.refreshes BY <1>1 DEF Server
  <2> QED BY <2>1, <2>3, <2>4
<1>3. Listed(w)
  <2> HIDE DEF n
  <2> QED BY <1>1 DEF Server
<1> HIDE DEF n, h, w
<1>4. \A q : Listed(q) => Tidy(q)
  <2> SUFFICES ASSUME NEW q, Listed(q) PROVE Tidy(q) OBVIOUS
  <2>1. OneDelay => Delayed(q) BY DEF Tidy, Delayed
  <2>2. PlainDelay => Tagged(q) BY DEF Tidy, Tagged
  <2>3. Never({"fork"}) => Forks(q) BY DEF Tidy, Forks
  <2>4. Never({"sts"}) => (q.end_of_motd => q.connected) BY DEF Tidy
  <2> QED BY <2>1, <2>2, <2>3, <2>4 DEF Tidy
<1>5. CASE token = "usable"
  <2>1. r = server_connect(n, f) BY <1>5 DEF servlist_connect, n
  <2>2. Tidy(n) /\ n.alive BY <1>1, <1>4
  <2>3. Tidy(r) /\ Same(n, r) /\ NoTag(r) BY <1>1, <2>1, <2>2, ConnectTidy
  <2> QED BY <1>1, <2>3 DEF Same, Cycles
<1>6. CASE token = "refresh"
  <2>1. r = w BY <1>6 DEF servlist_connect, n, w
  <2>2. ~Never({"oauth"}) /\ ~PlainDelay BY <1>t, <1>6 DEF PlainDelay, Never
  <2> QED BY <1>3, <1>4, <2>1, <2>2 DEF NoTag, Cycles
<1>7. CASE token = "cannot"
  <2>1. r = server_connect(h, f) BY <1>7 DEF servlist_connect, n, h
  <2>2. Tidy(h) /\ h.alive BY <1>2, <1>4
  <2>3. Tidy(r) /\ Same(h, r) /\ NoTag(r) BY <1>2, <2>1, <2>2, ConnectTidy
  <2> QED BY <1>2, <2>3 DEF Same, Cycles
<1> QED BY <1>t, <1>5, <1>6, <1>7

(* An attempt ends, with a connection or without. *)
LEMMA StopTidy ==
  ASSUME NEW s \in Server, Consistent(s), Tidy(s), s.connecting
  PROVE  /\ Tidy(server_stopconnecting(s)) /\ Same(s, server_stopconnecting(s))
         /\ NoTimers(server_stopconnecting(s))
<1>1. server_stopconnecting(s) = server_cleanup(s) BY DEF server_cleanup
<1> QED BY <1>1, CleanupTidy

LEMMA ConnectedTidy ==
  ASSUME NEW s \in Server, Consistent(s), Tidy(s), s.connecting
  PROVE  /\ Tidy(server_connected(s)) /\ Same(s, server_connected(s))
         /\ NoTimers(server_connected(s))
<1> DEFINE c == server_stopconnecting(s)  r == server_connected(s)
<1>1. c \in Server /\ Tidy(c) /\ Same(s, c) /\ NoTimers(c) /\ ~c.connecting
  BY StopTidy, StopConnecting DEF Good
<1>2. r = [c EXCEPT !.connected = TRUE, !.iotag = "server_read"] BY DEF server_connected
<1> HIDE DEF c, r
<1>3. /\ r.timers = c.timers /\ r.recondelay_tag = c.recondelay_tag
      /\ r.connecting = c.connecting /\ r.connected /\ r.alive = c.alive
      /\ r.network = c.network /\ r.stray_kill = c.stray_kill /\ r.child = c.child
      /\ r.end_of_motd = c.end_of_motd /\ Same(c, r)
  BY <1>1, <1>2 DEF Server, Same
<1>4. OneDelay => Delayed(r) BY <1>1, <1>3 DEF NoTimers, Delayed
<1>5. PlainDelay => Tagged(r) BY <1>1, <1>3 DEF Tidy, Tagged
<1>6. Never({"fork"}) => Forks(r) BY <1>1, <1>3 DEF Tidy, Forks
<1>7. Tidy(r) BY <1>3, <1>4, <1>5, <1>6 DEF Tidy
<1>8. NoTimers(r) BY <1>1, <1>3 DEF NoTimers
<1> QED BY <1>1, <1>3, <1>7, <1>8 DEF Same, r

(* A timer that fired is removed by its number. *)
LEMMA RemovedTidy ==
  ASSUME NEW s \in Server, Tidy(s), NoTag(s), NEW id
  PROVE  /\ Tidy(fe_timeout_remove(s, id)) /\ Same(s, fe_timeout_remove(s, id))
         /\ fe_timeout_remove(s, id).timers \subseteq s.timers
         /\ Cycles(s) => Cycles(fe_timeout_remove(s, id))
<1> DEFINE r == fe_timeout_remove(s, id)
           ts == {t \in s.timers : t.id # id}
<1>1. r = [s EXCEPT !.timers = ts] BY DEF fe_timeout_remove, Server
<1>2. ts \subseteq s.timers OBVIOUS
<1> HIDE DEF r, ts
<1>3. /\ r.timers = ts /\ r.recondelay_tag = s.recondelay_tag
      /\ r.connecting = s.connecting /\ r.connected = s.connected /\ r.alive = s.alive
      /\ r.network = s.network /\ r.stray_kill = s.stray_kill /\ r.child = s.child
      /\ r.end_of_motd = s.end_of_motd /\ Same(s, r)
  BY <1>1 DEF Server, Same
<1>4. OneDelay => Delayed(r)
  <2> SUFFICES ASSUME OneDelay PROVE Delayed(r) OBVIOUS
  <2>1. Delayed(s) BY DEF Tidy
  <2> QED BY <1>2, <1>3, <2>1 DEF Delayed
<1>5. PlainDelay => Tagged(r) BY <1>2, <1>3 DEF NoTag, Tidy, Tagged
<1>6. Never({"fork"}) => Forks(r) BY <1>3 DEF Tidy, Forks
<1>7. Tidy(r) BY <1>3, <1>4, <1>5, <1>6 DEF Tidy
<1>8. Cycles(s) => Cycles(r) BY <1>2, <1>3 DEF Cycles
<1> QED BY <1>2, <1>3, <1>7, <1>8 DEF r
(* No timers, no cycles. *)
LEMMA NoTimersCycles == ASSUME NEW s, NoTimers(s) PROVE Cycles(s)
BY PlainIsOne DEF NoTimers, Cycles

-----------------------------------------------------------------------------
(* The steps leave nothing over. *)

(* Whoever tries, waits or is connected was wanted. *)
LEMMA StillWanted ==
  ASSUME NEW s, NEW r, Down(s), s.connecting \/ s.connected \/ s.timers # {},
         r.wanted = s.wanted, r.refreshes = s.refreshes
  PROVE  Down(r)
BY DEF Down

(* A user who wants a connection is owed nothing but the count of tokens. *)
LEMMA NowWanted ==
  ASSUME NEW s, NEW r, Down(s), r.wanted = TRUE, Never({"oauth"}) => r.refreshes = s.refreshes
  PROVE  Down(r)
<1>1. Never({"reconnect", "oauth", "sts"}) => Never({"oauth"}) BY DEF Never
<1> QED BY <1>1 DEF Down

(* One who does not has none, after an end. *)
LEMMA NowDown ==
  ASSUME NEW s, NEW r, Down(s), NoTimers(r), ~r.connecting, ~r.connected, r.refreshes = s.refreshes
  PROVE  Down(r)
<1>1. Never({"reconnect", "oauth", "sts"}) => OneDelay BY DEF Never, OneDelay
<1> QED BY <1>1 DEF Down, NoTimers

LEMMA Invariants ==
  ASSUME IInv, NoLeftovers
  PROVE  /\ serv \in Server /\ Consistent(serv) /\ Tidy(serv) /\ Cycles(serv)
         /\ Reads(serv) /\ Down(serv) /\ Forked \subseteq BOOLEAN
BY DEF IInv, TypeOK, SourcesMatch, NoLeftovers, Left, Forked

LEMMA UserTidy == ASSUME IInv, NoLeftovers, UserNext PROVE Left(serv')
<1>t. /\ serv \in Server /\ Consistent(serv) /\ Tidy(serv) /\ Cycles(serv)
      /\ Reads(serv) /\ Down(serv) /\ Forked \subseteq BOOLEAN
  BY Invariants
<1>1. ASSUME NEW n \in BOOLEAN, NEW ssl \in BOOLEAN, NEW f \in Forked, CmdServer(n, ssl, f)
      PROVE  Left(serv')
  <2> DEFINE off == FALSE
             a == [serv EXCEPT !.network = off, !.use_ssl = ssl]
             c == server_connect(a, f)
  <2>1. off \in BOOLEAN OBVIOUS
  <2>2. f \in BOOLEAN BY <1>t
  <2>3. serv.alive /\ serv.reading = "none" BY <1>1 DEF CmdServer, Idle
  <2>4. serv' = [c EXCEPT !.network = n, !.wanted = TRUE] BY <1>1 DEF CmdServer
  <2> HIDE DEF c, off
  <2>5. a \in Server /\ Consistent(a) /\ Alike(serv, a) /\ a.alive /\ a.reading = "none"
        /\ a.refreshes = serv.refreshes
    BY <1>t, <2>1, <2>3 DEF Server, Consistent, Alike
  <2> HIDE DEF a
  <2>6. Tidy(a) BY <1>t, <2>5, AlikeTidy
  <2>7. Tidy(c) /\ Same(a, c) /\ NoTimers(c) BY <2>5, <2>6, ConnectTidy DEF c
  <2>8. c \in Server BY <2>2, <2>5, ConnectLemma DEF c, Good
  <2>9. /\ Alike(c, serv') /\ serv'.wanted = TRUE /\ serv'.reading = c.reading
        /\ serv'.refreshes = c.refreshes
    BY <2>4, <2>8 DEF Server, Alike
  <2>10. Tidy(serv') /\ NoTimers(serv') BY <2>7, <2>9, AlikeTidy DEF NoTimers, Alike
  <2>11. Down(serv') BY <1>t, <2>5, <2>7, <2>9, NowWanted DEF Same
  <2>12. Reads(serv') BY <2>5, <2>7, <2>9 DEF Reads, Same
  <2> QED BY <2>10, <2>11, <2>12, NoTimersCycles DEF Left
<1>2. ASSUME NEW tk \in TokenStates, NEW ssl \in BOOLEAN, NEW f \in Forked,
             CmdServerNetwork(tk, ssl, f)
      PROVE  Left(serv')
  <2> DEFINE c == servlist_connect(serv, tk, ssl, f)
  <2>1. serv.alive /\ serv.reading = "none" BY <1>2 DEF CmdServerNetwork, Idle
  <2>2. /\ Tidy(c) /\ Cycles(c) /\ c.reading = "none"
        /\ Never({"oauth"}) => c.refreshes = serv.refreshes
    BY <1>t, <2>1, ServlistConnectTidy
  <2>3. c \in Server BY <1>t, <2>1, ServlistConnect DEF Good
  <2>4. serv' = [c EXCEPT !.wanted = TRUE] BY <1>2 DEF CmdServerNetwork
  <2> HIDE DEF c
  <2>5. /\ Alike(c, serv') /\ serv'.wanted = TRUE /\ serv'.reading = c.reading
        /\ serv'.refreshes = c.refreshes /\ serv'.network = c.network
    BY <2>3, <2>4 DEF Server, Alike
  <2>6. Tidy(serv') BY <2>2, <2>5, AlikeTidy
  <2>7. Down(serv') BY <1>t, <2>2, <2>5, NowWanted
  <2> QED BY <2>2, <2>5, <2>6, <2>7 DEF Left, Reads, Cycles, Alike
<1>3. CASE CmdReconnect
  <2> DEFINE c == auto_reconnect(serv, 0)
  <2>1. serv.alive /\ serv.reading = "none" /\ (OneDelay => ~serv.connecting)
    BY <1>3 DEF CmdReconnect, Idle, OneDelay, Never
  <2>2. Tidy(c) /\ Same(serv, c) /\ Cycles(c) BY <1>t, <2>1, AutoReconnectTidy
  <2>3. c \in Server BY <1>t, AutoReconnectLemma DEF Good
  <2>4. serv' = [c EXCEPT !.wanted = TRUE] BY <1>3 DEF CmdReconnect
  <2> HIDE DEF c
  <2>5. /\ Alike(c, serv') /\ serv'.wanted = TRUE /\ serv'.reading = c.reading
        /\ serv'.refreshes = c.refreshes /\ serv'.network = c.network
    BY <2>3, <2>4 DEF Server, Alike
  <2>6. Tidy(serv') BY <2>2, <2>5, AlikeTidy
  <2>7. Down(serv') BY <1>t, <2>2, <2>5, NowWanted DEF Same
  <2> QED BY <2>1, <2>2, <2>5, <2>6, <2>7 DEF Left, Reads, Cycles, Alike, Same
<1>4. CASE CmdDiscon
  <2> DEFINE c == server_disconnect(serv)
  <2>1. serv.alive /\ serv.reading = "none" BY <1>4 DEF CmdDiscon, Idle
  <2>2. Tidy(c) /\ Same(serv, c) /\ NoTimers(c) BY <1>t, DisconnectTidy
  <2>3. c \in Server /\ ~c.connecting /\ ~c.connected BY <1>t, DisconnectLemma DEF Good
  <2>4. serv' = [c EXCEPT !.wanted = FALSE, !.owed = FALSE] BY <1>4 DEF CmdDiscon
  <2> HIDE DEF c
  <2>5. /\ Alike(c, serv') /\ serv'.reading = c.reading /\ serv'.refreshes = c.refreshes
    BY <2>3, <2>4 DEF Server, Alike
  <2>6. Tidy(serv') /\ NoTimers(serv') BY <2>2, <2>5, AlikeTidy DEF NoTimers, Alike
  <2>7. Down(serv') BY <1>t, <2>2, <2>3, <2>5, <2>6, NowDown DEF Same, Alike
  <2> QED BY <2>1, <2>2, <2>5, <2>6, <2>7, NoTimersCycles DEF Left, Reads, Same
<1>5. CASE NetworkUnlisted
  <2>1. serv' = [serv EXCEPT !.network = FALSE, !.owed = FALSE] /\ "unlist" \in features
    BY <1>5 DEF NetworkUnlisted
  <2>2. /\ Alike(serv, serv') /\ serv'.reading = serv.reading
        /\ serv'.refreshes = serv.refreshes /\ serv'.wanted = serv.wanted
    BY <1>t, <2>1 DEF Server, Alike
  <2>3. Tidy(serv') BY <1>t, <2>2, AlikeTidy
  <2>4. Cycles(serv') BY <2>1 DEF Cycles, PlainDelay, Never
  <2>5. Reads(serv') /\ Down(serv') BY <1>t, <2>2 DEF Reads, Down, Alike
  <2> QED BY <2>3, <2>4, <2>5 DEF Left
<1>6. CASE ServerFree
  <2> DEFINE c == server_cleanup(serv)
             off == FALSE
  <2>1. serv.reading = "none" BY <1>6 DEF ServerFree, Idle
  <2>2. Tidy(c) /\ Same(serv, c) /\ NoTimers(c) BY <1>t, CleanupTidy
  <2>3. c \in Server /\ ~c.connecting /\ ~c.connected BY <1>t, Cleanup DEF Good
  <2>4. serv' = [c EXCEPT !.alive = off, !.wanted = off, !.owed = off]
    BY <1>6 DEF ServerFree
  <2> HIDE DEF c, off
  <2>5. /\ serv'.timers = c.timers /\ serv'.recondelay_tag = c.recondelay_tag
        /\ serv'.connecting = c.connecting /\ serv'.connected = c.connected
        /\ serv'.stray_kill = c.stray_kill /\ serv'.child = c.child
        /\ serv'.end_of_motd = c.end_of_motd
        /\ serv'.reading = c.reading /\ serv'.refreshes = c.refreshes
    BY <2>3, <2>4 DEF Server
  <2>6. NoTimers(serv') BY <2>2, <2>5 DEF NoTimers
  <2>7. Tidy(serv')
    <3>1. OneDelay => Delayed(serv') BY <2>6 DEF NoTimers, Delayed
    <3>2. PlainDelay => Tagged(serv') BY <2>2, <2>5 DEF Tidy, Tagged
    <3>3. Never({"fork"}) => Forks(serv') BY <2>2, <2>5 DEF Tidy, Forks
    <3>4. Never({"sts"}) => (serv'.end_of_motd => serv'.connected) BY <2>2, <2>5 DEF Tidy
    <3> QED BY <3>1, <3>2, <3>3, <3>4 DEF Tidy
  <2>8. Down(serv') BY <1>t, <2>2, <2>3, <2>5, <2>6, NowDown DEF Same
  <2> QED BY <2>1, <2>2, <2>5, <2>6, <2>7, <2>8, NoTimersCycles DEF Left, Reads, Same
<1> QED BY <1>1, <1>2, <1>3, <1>4, <1>5, <1>6 DEF UserNext

LEMMA AttemptTidyStep == ASSUME IInv, NoLeftovers, ChildNext \/ SslNext PROVE Left(serv')
<1>t. /\ serv \in Server /\ Consistent(serv) /\ Tidy(serv) /\ Cycles(serv)
      /\ Reads(serv) /\ Down(serv) /\ Forked \subseteq BOOLEAN
  BY Invariants
<1>p. prefs.auto_reconnect \in BOOLEAN /\ prefs.auto_reconnectonfail \in BOOLEAN
  BY DEF IInv, TypeOK
<1>0. serv.connecting /\ serv.alive /\ serv.reading = "none"
  BY <1>t DEF ChildNext, SslNext, ChildFailed, ChildProxyFailed, ChildSuccess, SslDone,
              SslFailed, SslRejected, Idle, Consistent
<1>d. ASSUME Same(serv, serv') PROVE Down(serv') /\ Reads(serv')
  BY <1>t, <1>0, <1>d, StillWanted DEF Same, Reads
<1>1. CASE ChildFailed
  <2> DEFINE c == server_stopconnecting(serv)
             r == try_again(c, prefs.auto_reconnectonfail)
  <2>1. Tidy(c) /\ Same(serv, c) /\ NoTimers(c) BY <1>t, <1>0, StopTidy
  <2>2. c \in Server /\ Consistent(c) /\ ~c.connecting /\ ~c.connected
    BY <1>t, <1>0, StopConnecting DEF Good
  <2>3. serv' = r BY <1>1 DEF ChildFailed
  <2> HIDE DEF c
  <2>4. c.alive BY <1>0, <2>1 DEF Same
  <2>5. Tidy(r) /\ Same(c, r) /\ Cycles(r) BY <1>p, <2>1, <2>2, <2>4, TryAgainTidy
  <2> HIDE DEF r
  <2>6. Same(serv, serv') BY <2>1, <2>3, <2>5 DEF Same
  <2> QED BY <1>d, <2>3, <2>5, <2>6 DEF Left
<1>2. CASE ChildProxyFailed
  <2>1. serv' = server_disconnect(serv) BY <1>2 DEF ChildProxyFailed
  <2>2. Tidy(serv') /\ Same(serv, serv') /\ NoTimers(serv') BY <1>t, <2>1, DisconnectTidy
  <2> QED BY <1>d, <2>2, NoTimersCycles DEF Left
<1>3. ASSUME serv' = server_cleanup(serv) PROVE Left(serv')
  <2>2. Tidy(serv') /\ Same(serv, serv') /\ NoTimers(serv') BY <1>t, <1>3, CleanupTidy
  <2> QED BY <1>d, <2>2, NoTimersCycles DEF Left
<1>4. ASSUME serv' = server_connected(serv) PROVE Left(serv')
  <2>2. Tidy(serv') /\ Same(serv, serv') /\ NoTimers(serv') BY <1>t, <1>0, <1>4, ConnectedTidy
  <2> QED BY <1>d, <2>2, NoTimersCycles DEF Left
<1>5. ASSUME serv' = [serv EXCEPT !.ssl_do_connect_tag = TRUE] PROVE Left(serv')
  <2>1. Alike(serv, serv') /\ Same(serv, serv') BY <1>t, <1>5 DEF Server, Alike, Same
  <2>2. Tidy(serv') BY <1>t, <2>1, AlikeTidy
  <2>3. Cycles(serv') BY <1>t, <2>1 DEF Cycles, Alike, Same
  <2> QED BY <1>d, <2>1, <2>2, <2>3 DEF Left
<1>6. CASE SslFailed
  <2> DEFINE c == server_cleanup(serv)
             r == auto_reconnect(c, 1)
  <2>1. Tidy(c) /\ Same(serv, c) /\ NoTimers(c) BY <1>t, CleanupTidy
  <2>2. c \in Server /\ Consistent(c) /\ ~c.connecting /\ ~c.connected
    BY <1>t, Cleanup DEF Good
  <2>3. serv' = IF prefs.auto_reconnectonfail THEN r ELSE c BY <1>6 DEF SslFailed
  <2> HIDE DEF c
  <2>4. c.alive BY <1>0, <2>1 DEF Same
  <2>5. Tidy(r) /\ Same(c, r) /\ Cycles(r) BY <2>1, <2>2, <2>4, AutoReconnectTidy
  <2> HIDE DEF r
  <2>6. Same(serv, r) BY <2>1, <2>5 DEF Same
  <2>7. CASE prefs.auto_reconnectonfail BY <1>d, <2>3, <2>5, <2>6, <2>7 DEF Left
  <2>8. CASE ~prefs.auto_reconnectonfail
    <3>1. serv' = c BY <2>3, <2>8
    <3> QED BY <1>d, <2>1, <3>1, NoTimersCycles DEF Left
  <2> QED BY <2>7, <2>8
<1> QED BY <1>1, <1>2, <1>3, <1>4, <1>5, <1>6
        DEF ChildNext, SslNext, ChildSuccess, SslDone, SslRejected

LEMMA ReadTidy == ASSUME IInv, NoLeftovers, ReadNext \/ PingTimeout PROVE Left(serv')
<1>t. /\ serv \in Server /\ Consistent(serv) /\ Tidy(serv) /\ Cycles(serv)
      /\ Reads(serv) /\ Down(serv) /\ Forked \subseteq BOOLEAN
  BY Invariants
<1>p. prefs.auto_reconnect \in BOOLEAN BY DEF IInv, TypeOK
<1>a. serv.alive
  BY <1>t DEF ReadNext, PingTimeout, ReadStart, ReadEndOfMotd, ReadStsUpgrade, ReadBlocks,
              ReadFails, Idle, Consistent
<1>1. CASE ReadStart
  <2>1. serv' = [serv EXCEPT !.reading = "current"] /\ serv.connected
    BY <1>1, <1>t DEF ReadStart, Consistent
  <2>2. Alike(serv, serv') /\ serv'.network = serv.network /\ serv'.wanted = serv.wanted
        /\ serv'.refreshes = serv.refreshes
    BY <1>t, <2>1 DEF Server, Alike
  <2>3. Tidy(serv') BY <1>t, <2>2, AlikeTidy
  <2> QED BY <1>t, <2>1, <2>2, <2>3 DEF Left, Cycles, Reads, Down, Alike
<1>2. CASE ReadEndOfMotd
  <2>1. serv' = [serv EXCEPT !.end_of_motd = TRUE] /\ serv.reading # "none"
    BY <1>2 DEF ReadEndOfMotd
  <2>2. /\ serv'.timers = serv.timers /\ serv'.recondelay_tag = serv.recondelay_tag
        /\ serv'.connecting = serv.connecting /\ serv'.connected = serv.connected
        /\ serv'.alive = serv.alive /\ serv'.network = serv.network
        /\ serv'.stray_kill = serv.stray_kill /\ serv'.child = serv.child
        /\ serv'.wanted = serv.wanted /\ serv'.refreshes = serv.refreshes
        /\ serv'.reading = serv.reading
    BY <1>t, <2>1 DEF Server
  <2>3. OneDelay => Delayed(serv') BY <1>t, <2>2 DEF Tidy, Delayed
  <2>4. PlainDelay => Tagged(serv') BY <1>t, <2>2 DEF Tidy, Tagged
  <2>5. Never({"fork"}) => Forks(serv') BY <1>t, <2>2 DEF Tidy, Forks
  <2>6. Never({"sts"}) => (serv'.end_of_motd => serv'.connected) BY <1>t, <2>1, <2>2 DEF Reads
  <2>7. Tidy(serv') BY <2>3, <2>4, <2>5, <2>6 DEF Tidy
  <2> QED BY <1>t, <2>2, <2>7 DEF Left, Cycles, Reads, Down
<1>3. CASE ReadBlocks
  <2>1. serv' = [serv EXCEPT !.reading = "none"] BY <1>3 DEF ReadBlocks
  <2>2. Alike(serv, serv') /\ serv'.network = serv.network /\ serv'.wanted = serv.wanted
        /\ serv'.refreshes = serv.refreshes /\ serv'.reading = "none"
    BY <1>t, <2>1 DEF Server, Alike
  <2>3. Tidy(serv') BY <1>t, <2>2, AlikeTidy
  <2> QED BY <1>t, <2>2, <2>3 DEF Left, Cycles, Reads, Down, Alike
<1>w. ASSUME serv.connected, NEW r, Same(serv, r), serv'.wanted = r.wanted,
             serv'.refreshes = r.refreshes
      PROVE  Down(serv')
  BY <1>t, <1>w, StillWanted DEF Same
<1>4. CASE ReadFails
  <2> DEFINE d == server_disconnect(serv)
             u == try_again(d, prefs.auto_reconnect)
             v == auto_reconnect(serv, 1)
             s == IF ~serv.end_of_motd THEN u
                  ELSE IF prefs.auto_reconnect THEN v ELSE d
             o == prefs.auto_reconnect /\ ~s.connecting
  <2>0. serv' = [s EXCEPT !.reading = "none", !.owed = o] /\ serv.reading # "none"
    BY <1>4 DEF ReadFails
  <2>1. Tidy(d) /\ Same(serv, d) /\ NoTimers(d) BY <1>t, DisconnectTidy
  <2>2. d \in Server /\ Consistent(d) /\ ~d.connecting /\ ~d.connected /\ d.alive
    BY <1>a, <1>t, DisconnectLemma DEF Good
  <2> HIDE DEF d
  <2>3. Tidy(u) /\ Same(d, u) /\ Cycles(u) BY <1>p, <2>1, <2>2, TryAgainTidy
  <2>4. u \in Server BY <1>p, <2>2, TryAgain DEF Good
  <2>5. OneDelay => ~serv.connecting
    <3>1. OneDelay => Never({"sts"}) BY DEF OneDelay, Never
    <3> QED BY <1>t, <2>0, <3>1 DEF Reads, Consistent
  <2>6. Tidy(v) /\ Same(serv, v) /\ Cycles(v) BY <1>a, <1>t, <2>5, AutoReconnectTidy
  <2>7. v \in Server BY <1>t, AutoReconnectLemma DEF Good
  <2>8. Cycles(d) BY <2>1, NoTimersCycles
  <2> HIDE DEF u, v
  <2>9. s \in Server /\ Tidy(s) /\ Cycles(s) /\ s.wanted = serv.wanted
        /\ s.refreshes = serv.refreshes
    BY <2>1, <2>2, <2>3, <2>4, <2>6, <2>7, <2>8 DEF Same
  <2> HIDE DEF s, o
  <2>10. Alike(s, serv') /\ serv'.network = s.network /\ serv'.wanted = s.wanted
         /\ serv'.refreshes = s.refreshes /\ serv'.reading = "none"
    BY <2>0, <2>9 DEF Server, Alike
  <2>11. Tidy(serv') BY <2>9, <2>10, AlikeTidy
  <2>12. Down(serv')
    <3>1. Never({"reconnect", "oauth", "sts"}) => Never({"sts"}) BY DEF Never
    <3>2. CASE Never({"sts"})
      <4>1. serv.connected BY <1>t, <2>0, <3>2 DEF Reads
      <4> QED BY <1>t, <2>9, <2>10, <4>1, StillWanted
    <3>3. CASE ~Never({"sts"}) BY <3>1, <3>3 DEF Down
    <3> QED BY <3>2, <3>3
  <2> QED BY <2>9, <2>10, <2>11, <2>12 DEF Left, Cycles, Reads, Alike
<1>5. ASSUME NEW f \in Forked, ReadStsUpgrade(f) PROVE Left(serv')
  <2> DEFINE a == [serv EXCEPT !.use_ssl = TRUE]
             d == server_disconnect(a)
             c == server_connect(d, f)
  <2>0. serv' = c /\ "sts" \in features BY <1>5 DEF ReadStsUpgrade
  <2>1. a \in Server /\ Consistent(a) /\ Alike(serv, a)
    BY <1>t DEF Server, Consistent, Alike
  <2> HIDE DEF a
  <2>2. Tidy(a) BY <1>t, <2>1, AlikeTidy
  <2>3. Tidy(d) BY <2>1, <2>2, DisconnectTidy
  <2>4. d \in Server /\ Consistent(d) /\ d.alive
    BY <1>a, <2>1, DisconnectLemma DEF Good, Alike
  <2> HIDE DEF d
  <2>5. Tidy(c) /\ NoTimers(c) BY <2>3, <2>4, ConnectTidy
  <2>6. Reads(serv') /\ Down(serv') BY <2>0 DEF Reads, Down, Never
  <2> QED BY <2>0, <2>5, <2>6, NoTimersCycles DEF Left
<1>6. CASE PingTimeout
  <2> DEFINE v == auto_reconnect(serv, 1)
  <2>1. serv.connected /\ serv.reading = "none" /\ ~serv.connecting
    BY <1>6, <1>t DEF PingTimeout, Idle, Consistent
  <2>2. Tidy(v) /\ Same(serv, v) /\ Cycles(v) BY <1>a, <1>t, <2>1, AutoReconnectTidy
  <2>3. v \in Server BY <1>t, AutoReconnectLemma DEF Good
  <2>4. serv' = [v EXCEPT !.owed = TRUE] BY <1>6 DEF PingTimeout
  <2> HIDE DEF v
  <2>5. Alike(v, serv') /\ Same(v, serv') BY <2>3, <2>4 DEF Server, Alike, Same
  <2>6. Tidy(serv') BY <2>2, <2>5, AlikeTidy
  <2>7. Down(serv') BY <1>w, <2>1, <2>2, <2>5 DEF Same
  <2>8. Reads(serv') BY <2>1, <2>2, <2>5 DEF Reads, Same
  <2> QED BY <2>2, <2>5, <2>6, <2>7, <2>8 DEF Left, Cycles, Alike, Same
<1> QED BY <1>1, <1>2, <1>3, <1>4, <1>5, <1>6 DEF ReadNext

LEMMA LaterTidy == ASSUME IInv, NoLeftovers, TimerNext \/ OauthNext PROVE Left(serv')
<1>t. /\ serv \in Server /\ Consistent(serv) /\ Tidy(serv) /\ Cycles(serv)
      /\ Reads(serv) /\ Down(serv) /\ Forked \subseteq BOOLEAN
  BY Invariants
<1>0. PlainDelay => OneDelay BY PlainIsOne
<1>1. ASSUME NEW t \in serv.timers, NEW f \in Forked, AutoReconnectFires(t, f)
      PROVE  Left(serv')
  <2> DEFINE ts == {u \in serv.timers : u.id # t.id}
             z == [serv EXCEPT !.recondelay_tag = 0]
             y == fe_timeout_remove(z, t.id)
  <2>0. serv.reading = "none" BY <1>1 DEF AutoReconnectFires
  <2>1. z \in Server BY <1>t DEF Server
  <2>2. y \in Server BY <2>1, TimeoutRemove
  <2>3. y = [serv EXCEPT !.recondelay_tag = 0, !.timers = ts]
    BY <1>t DEF fe_timeout_remove, Server
  <2>4. OneDelay => ts = {} BY <1>t DEF Tidy, Delayed
  <2>5. y = [z EXCEPT !.timers = ts] BY <2>3
  <2> HIDE DEF y, ts
  <2>6. /\ y.timers = ts /\ y.recondelay_tag = 0
        /\ y.connecting = serv.connecting /\ y.connected = serv.connected
        /\ y.stray_kill = serv.stray_kill /\ y.child = serv.child
        /\ y.end_of_motd = serv.end_of_motd /\ Same(serv, y)
    BY <1>t, <2>3 DEF Server, Same
  <2>7. OneDelay => Delayed(y) BY <2>4, <2>6 DEF Delayed
  <2>8. PlainDelay => Tagged(y) BY <2>6 DEF Tagged
  <2>9. Never({"fork"}) => Forks(y) BY <1>t, <2>6 DEF Tidy, Forks
  <2>10. Tidy(y) BY <1>t, <2>6, <2>7, <2>8, <2>9 DEF Tidy
  <2>11. NoTimers(y) /\ NoTag(y) BY <2>4, <2>6 DEF NoTimers, NoTag
  <2>12. ASSUME serv.alive, ~serv.connected, ~serv.connecting
         PROVE  Tidy(serv') /\ Same(serv, serv') /\ NoTimers(serv')
    <3> DEFINE c == server_connect(z, f)
    <3>1. serv' = fe_timeout_remove(c, t.id)
      BY <1>1, <2>12 DEF AutoReconnectFires, timeout_auto_reconnect
    <3>2. z.recondelay_tag = 0 /\ ~z.connected /\ ~z.connecting /\ z.iotag = serv.iotag
      BY <1>t, <2>12 DEF Server
    <3>3. c = Attempt(z, f) BY <3>2 DEF server_connect, Attempt
    <3> HIDE DEF z
    <3>5. z.timers = serv.timers BY <1>t DEF z, Server
    <3>6. Attempt(z, f).timers = serv.timers BY <2>1, <3>5 DEF Attempt, Server
    <3>7. fe_timeout_remove(Attempt(z, f), t.id) = [Attempt(z, f) EXCEPT !.timers = ts]
      <4> DEFINE a == Attempt(z, f)
      <4>1. a.timers = serv.timers BY <3>6
      <4> HIDE DEF a
      <4>2. fe_timeout_remove(a, t.id) = [a EXCEPT !.timers = ts]
        BY <4>1 DEF fe_timeout_remove, ts
      <4> QED BY <4>2 DEF a
    <3>8. [Attempt(z, f) EXCEPT !.timers = ts] = Attempt(y, f)
      BY <2>1, <2>5 DEF Attempt, Server
    <3>9. serv' = Attempt(y, f) BY <3>1, <3>3, <3>7, <3>8
    <3>10. ~y.connecting /\ ~y.connected /\ y.alive BY <2>6, <2>12 DEF Same
    <3>11. Tidy(serv') /\ Same(y, serv') /\ NoTimers(serv')
      BY <2>2, <2>10, <2>11, <3>9, <3>10, AttemptTidy
    <3> QED BY <2>6, <3>11 DEF Same
  <2>13. ASSUME serv.alive, serv.connected \/ serv.connecting
         PROVE  Tidy(serv') /\ Same(serv, serv') /\ NoTimers(serv')
    <3>1. serv' = y BY <1>1, <2>13 DEF AutoReconnectFires, timeout_auto_reconnect, y
    <3> QED BY <2>6, <2>10, <2>11, <3>1
  <2>14. ASSUME ~serv.alive PROVE Tidy(serv') /\ Same(serv, serv') /\ NoTimers(serv')
    <3>1. serv' = fe_timeout_remove(serv, t.id) BY <1>1, <2>14 DEF AutoReconnectFires
    <3>2. ~OneDelay BY <1>t, <2>14 DEF Tidy, Delayed
    <3>3. NoTag(serv) BY <1>0, <3>2 DEF NoTag
    <3>4. Tidy(serv') /\ Same(serv, serv') BY <1>t, <3>1, <3>3, RemovedTidy
    <3> QED BY <3>2, <3>4 DEF NoTimers
  <2>15. Tidy(serv') /\ Same(serv, serv') /\ NoTimers(serv') BY <2>12, <2>13, <2>14
  <2>16. Down(serv') BY <1>t, <2>15, StillWanted DEF Same
  <2> QED BY <2>0, <2>15, <2>16, NoTimersCycles DEF Left, Reads, Same
<1>2. ASSUME NEW t \in serv.timers, NEW f \in Forked, NEW tk \in TokenStates,
             NEW ssl \in BOOLEAN, CycleFires(t, tk, ssl, f)
      PROVE  Left(serv')
  <2> DEFINE c == servlist_connect(serv, tk, ssl, f)
  <2>1. serv.alive /\ serv.reading = "none" /\ t.cb = "servlist_cycle_cb"
    BY <1>2 DEF CycleFires, Idle
  <2>2. serv' = fe_timeout_remove(IF serv.network THEN c ELSE serv, t.id)
    BY <1>2 DEF CycleFires
  <2>3. CASE serv.network
    <3>1. /\ Tidy(c) /\ NoTag(c) /\ Cycles(c) /\ c.wanted = serv.wanted /\ c.reading = "none"
          /\ Never({"oauth"}) => c.refreshes = serv.refreshes
      BY <1>t, <2>1, ServlistConnectTidy
    <3>2. c \in Server BY <1>t, <2>1, ServlistConnect DEF Good
    <3>3. serv' = fe_timeout_remove(c, t.id) BY <2>2, <2>3
    <3> HIDE DEF c
    <3>4. Tidy(serv') /\ Same(c, serv') /\ Cycles(serv') BY <3>1, <3>2, <3>3, RemovedTidy
    <3>5. Down(serv')
      <4>1. Never({"reconnect", "oauth", "sts"}) => Never({"oauth"}) BY DEF Never
      <4>2. CASE Never({"oauth"}) BY <1>t, <3>1, <3>4, <4>2, StillWanted DEF Same
      <4>3. CASE ~Never({"oauth"}) BY <4>1, <4>3 DEF Down
      <4> QED BY <4>2, <4>3
    <3> QED BY <3>1, <3>4, <3>5 DEF Left, Reads, Same
  <2>4. CASE ~serv.network
    <3>1. ~PlainDelay BY <1>t, <2>1, <2>4 DEF Cycles
    <3>2. NoTag(serv) BY <3>1 DEF NoTag
    <3>3. serv' = fe_timeout_remove(serv, t.id) BY <2>2, <2>4
    <3>4. Tidy(serv') /\ Same(serv, serv') /\ Cycles(serv') BY <1>t, <3>2, <3>3, RemovedTidy
    <3>5. Down(serv') BY <1>t, <3>4, StillWanted DEF Same
    <3> QED BY <2>1, <3>4, <3>5 DEF Left, Reads, Same
  <2>5. serv.network \in BOOLEAN BY <1>t DEF Server
  <2> QED BY <2>3, <2>4, <2>5
<1>3. ASSUME serv.refreshes > 0 PROVE Down(serv')
  <2>1. ~(0 > 0) OBVIOUS
  <2> QED BY <1>t, <1>3, <2>1 DEF Down
<1>4. ASSUME NEW f \in Forked, OauthRefreshed(f) PROVE Left(serv')
  <2> DEFINE m == serv.refreshes - 1
             n == [serv EXCEPT !.refreshes = m]
             c == server_connect(n, f)
  <2>0. m \in Nat /\ serv.reading = "none" /\ serv.refreshes > 0
    BY <1>4, <1>t DEF OauthRefreshed, Server
  <2>1. serv' = IF serv.alive THEN [c EXCEPT !.oauth_connect_host = FALSE] ELSE n
    BY <1>4, <1>t DEF OauthRefreshed, Server
  <2> HIDE DEF m
  <2>2. n \in Server /\ Consistent(n) /\ Alike(serv, n) /\ n.reading = serv.reading
        /\ n.network = serv.network
    BY <1>t, <2>0 DEF Server, Consistent, Alike
  <2> HIDE DEF n
  <2>3. Tidy(n) BY <1>t, <2>2, AlikeTidy
  <2>4. Down(serv') BY <1>3, <2>0
  <2>5. CASE serv.alive
    <3>1. f \in BOOLEAN /\ n.alive BY <1>t, <2>2, <2>5 DEF Alike
    <3>2. Tidy(c) /\ Same(n, c) /\ NoTimers(c) BY <2>2, <2>3, <3>1, ConnectTidy
    <3>3. c \in Server BY <2>2, <3>1, ConnectLemma DEF Good
    <3>4. serv' = [c EXCEPT !.oauth_connect_host = FALSE] BY <2>1, <2>5
    <3> HIDE DEF c
    <3>5. Alike(c, serv') /\ serv'.reading = c.reading BY <3>3, <3>4 DEF Server, Alike
    <3>6. Tidy(serv') /\ NoTimers(serv') BY <3>2, <3>5, AlikeTidy DEF NoTimers, Alike
    <3>7. Reads(serv') BY <2>0, <2>2, <3>2, <3>5 DEF Same, Reads
    <3> QED BY <2>4, <3>6, <3>7, NoTimersCycles DEF Left
  <2>6. CASE ~serv.alive
    <3>1. serv' = n BY <2>1, <2>6
    <3>2. Cycles(n) BY <1>t, <2>2 DEF Cycles, Alike
    <3>3. Reads(n) BY <2>0, <2>2 DEF Reads
    <3> QED BY <2>3, <2>4, <3>1, <3>2, <3>3 DEF Left
  <2> QED BY <2>5, <2>6
<1>5. CASE OauthFailed
  <2> DEFINE m == serv.refreshes - 1
             o == serv.oauth_connect_host /\ ~serv.alive
  <2>1. serv' = [serv EXCEPT !.refreshes = m, !.oauth_connect_host = o, !.owed = FALSE]
    BY <1>5, <1>t DEF OauthFailed, Server
  <2>2. serv.refreshes > 0 /\ serv.reading = "none" BY <1>5 DEF OauthFailed
  <2> HIDE DEF m, o
  <2>3. Alike(serv, serv') /\ serv'.network = serv.network /\ serv'.reading = serv.reading
    BY <1>t, <2>1 DEF Server, Alike
  <2>4. Tidy(serv') BY <1>t, <2>3, AlikeTidy
  <2>5. Cycles(serv') BY <1>t, <2>3 DEF Cycles, Alike
  <2>6. Reads(serv') BY <2>2, <2>3 DEF Reads
  <2> QED BY <1>3, <2>2, <2>4, <2>5, <2>6 DEF Left
<1> QED BY <1>1, <1>2, <1>4, <1>5 DEF TimerNext, OauthNext

-----------------------------------------------------------------------------
(* Nothing is left over at the start. *)
LEMMA InitLeft == Init => NoLeftovers
BY DEF Init, NoLeftovers, Left, Tidy, Delayed, Tagged, Forks, Cycles, Reads, Down

(* The whole invariant, step by step. *)
LEMMA StepLeft == IInv /\ NoLeftovers /\ [Next]_vars => NoLeftovers'
<1> SUFFICES ASSUME IInv, NoLeftovers, [Next]_vars PROVE NoLeftovers' OBVIOUS
<1>1. CASE Next
  <2>1. Left(serv') BY <1>1, UserTidy, AttemptTidyStep, ReadTidy, LaterTidy DEF Next
  <2>2. features' = features BY <1>1, PrefsStep
  <2> QED BY <2>1, <2>2 DEF NoLeftovers, Left, Tidy, Cycles, Reads, Down, OneDelay, PlainDelay, Never,
         Delayed, Tagged, Forks
<1>2. CASE UNCHANGED vars
  BY <1>2 DEF vars, NoLeftovers, Left, Tidy, Cycles, Reads, Down, OneDelay, PlainDelay, Never,
              Delayed, Tagged, Forks
<1> QED BY <1>1, <1>2

-----------------------------------------------------------------------------
(* IInv holds throughout. *)
THEOREM Invariance == Spec => []IInv
BY InitInv, Step, PTL DEF Spec

(* So does NoLeftovers: timers, their tag, the child process, the login    *)
(* state and token requests belong to the present attempt or delay.        *)
THEOREM NoLeftoversAlways == Spec => []NoLeftovers
BY InitLeft, StepLeft, Invariance, PTL DEF Spec

(* The record keeps its type: no refresh is answered twice, no source has  *)
(* a state the code does not know.                                         *)
THEOREM TypeCorrect == Spec => []TypeOK
<1>1. IInv => TypeOK BY DEF IInv
<1> QED BY <1>1, Invariance, PTL

(* For any features and bounds, the flags and the sources installed in the *)
(* main loop agree: no watch or handshake timer outlives its attempt or    *)
(* its server, although seven callbacks and five commands install and      *)
(* remove them.                                                            *)
THEOREM AlwaysSourcesMatch == Spec => []SourcesMatch
<1>1. IInv => SourcesMatch BY DEF IInv
<1> QED BY <1>1, Invariance, PTL

(* One reconnect timer at most, found by its tag; no stray kill, no login  *)
(* state without a connection, no cycle timer without its server           *)
(* (server_cleanup, auto_reconnect, servlist_cycle, server_free).          *)
THEOREM AlwaysNothingStale == Spec => []NothingStale
<1>1. NoLeftovers => NothingStale
  <2> SUFFICES ASSUME NoLeftovers PROVE NothingStale OBVIOUS
  <2>1. Tidy(serv) BY DEF NoLeftovers, Left
  <2>2. OneReconnectTimer BY <2>1 DEF OneReconnectTimer, Tidy, OneDelay, Delayed
  <2>3. TagIsInstalled BY <2>1 DEF TagIsInstalled, Tidy, PlainDelay, Tagged
  <2>4. NoStrayKill BY <2>1 DEF NoStrayKill, Tidy, Forks
  <2>5. MotdMeansConnected BY <2>1 DEF MotdMeansConnected, Tidy
  <2>6. NoFreedCycle BY <2>1 DEF NoFreedCycle, Tidy, OneDelay, Delayed
  <2> QED BY <2>2, <2>3, <2>4, <2>5, <2>6 DEF NothingStale
<1> QED BY <1>1, NoLeftoversAlways, PTL

(* What the user has ended is not connected again by a timer or a child    *)
(* (/discon, server_disconnect, timeout_auto_reconnect).                   *)
THEOREM AlwaysDisconSticks == Spec => DisconSticks
<1>1. NoLeftovers' => (Never({"reconnect", "oauth", "sts"})' => StaysDown)
  BY DEF NoLeftovers, Left, Down, StaysDown
<1>2. IInv /\ NoLeftovers' /\ [Next]_vars => [Never({"reconnect", "oauth", "sts"}) => StaysDown]_vars
  <2> SUFFICES ASSUME NoLeftovers', Next, Never({"reconnect", "oauth", "sts"}) PROVE StaysDown
    BY DEF vars
  <2>1. Never({"reconnect", "oauth", "sts"})' BY PrefsStep DEF Never
  <2> QED BY <1>1, <2>1
<1> QED BY <1>2, Invariance, NoLeftoversAlways, PTL DEF Spec, DisconSticks

(* A connection comes up only at the end of its own attempt. *)
THEOREM AlwaysUpThroughAttempt == Spec => UpThroughAttempt
<1>1. IInv /\ [Next]_vars =>
        [serv'.connected /\ ~serv.connected =>
           serv.connecting /\ serv.iotag = "server_read_child"
           /\ serv'.iotag = "server_read"]_vars
  BY Step DEF Up, vars
<1> QED BY <1>1, Invariance, PTL DEF Spec, UpThroughAttempt
=============================================================================
