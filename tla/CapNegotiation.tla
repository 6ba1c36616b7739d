--------------------------- MODULE CapNegotiation ---------------------------
(***************************************************************************)
(* Capability negotiation, SASL and the STS upgrade on the connections of  *)
(* one server structure (src/common/inbound.c, proto-irc.c, server.c).     *)
(*                                                                         *)
(* The client's handlers are operators from a server record to a server    *)
(* record; lines they write are appended to its `out'.  The IRC server is  *)
(* external: it answers the lines in order, as IRCv3 capability            *)
(* negotiation and SASL say, and may refuse, abort, add and withdraw.      *)
(* Connecting (server_connect to server_connected) is one step here; what  *)
(* happens during an attempt is in Connection.                             *)
(***************************************************************************)
EXTENDS Integers, Sequences, FiniteSets

CONSTANTS Caps,      \* the capabilities a server may offer
          Logins,    \* the login methods the user may have chosen
          Scenarios, \* sets of features, see AllFeatures
          MaxLate    \* bound: refreshes that may outlive their connection

(* server_set_defaults clears the flags of the first two; "sasl" is the    *)
(* capability with a flag that starts an exchange, "labeled-response"      *)
(* stands for the capabilities whose flag is left as it is.                *)
AllCaps == {"sasl", "server-time", "labeled-response"}

(* "none" also stands for a SASL login without a password. *)
AllLogins == {"none", "PLAIN", "EXTERNAL", "SCRAM", "OAUTHBEARER"}

(* "new": CAP NEW and CAP DEL.  "abort": the server ends an exchange by    *)
(* itself (905 or 906).  "drop": a connection can be lost before it is     *)
(* registered or while a token refresh is running.  "sts": servers may     *)
(* announce an STS policy.                                                 *)
AllFeatures == {"new", "abort", "drop", "sts"}

ASSUME CapsAssumption == Caps \subseteq AllCaps
ASSUME LoginsAssumption == Logins \subseteq AllLogins
ASSUME ScenariosAssumption == Scenarios \subseteq SUBSET AllFeatures
ASSUME MaxLateAssumption == MaxLate \in Nat

VARIABLES serv,  \* the server structure, and the lines it has written
          inq,   \* the lines on their way to the client
          ircd,  \* the IRC server at the other end of the connection
          features  \* what can happen in this behaviour, chosen at its start

vars == <<serv, inq, ircd, features>>

Mechs == AllLogins \ {"none"}

(* What the client writes: CAP LS, CAP REQ, CAP END and AUTHENTICATE with  *)
(* a mechanism, a payload, "+" or "*".                                     *)
Command ==
    [cmd: {"LS", "END"}] \cup [cmd: {"REQ"}, caps: SUBSET Caps]
    \cup [cmd: {"AUTH"}, arg: Mechs \cup {"data", "+", "*"}]

(* What the server writes.  A line of CAP LS or CAP NEW can announce that  *)
(* more lines follow, an STS policy, and after sasl a list of mechanisms,  *)
(* with or without the client's.  A challenge is the opening "+" or one of *)
(* the two messages of a SCRAM server.                                     *)
MechList == {"no list", "listed", "not listed"}

Reply ==
    [cmd: {"LS"}, more: BOOLEAN, caps: SUBSET Caps, sts: BOOLEAN, mechs: MechList]
    \cup [cmd: {"ACK", "NAK", "DEL"}, caps: SUBSET Caps]
    \cup [cmd: {"AUTH"}, arg: {"+", "server-first", "server-final"}]
    \cup [cmd: {"903", "904", "906"}]

Server ==
    [connected: BOOLEAN, ssl: BOOLEAN,
     policy: BOOLEAN,                 \* sts_policy_list has this host
     loginmethod: AllLogins,
     sasl_mech: Mechs,
     have: SUBSET Caps,               \* the have_* flags that are set
     sent_capend: BOOLEAN, waiting_on_cap: BOOLEAN, waiting_on_sasl: BOOLEAN,
     sts_upgrade_port: BOOLEAN,       \* > 0
     scram_session: 0..2,             \* 0: NULL, otherwise its step
     oauth_refresh_attempted: BOOLEAN,
     refreshing: BOOLEAN,             \* a refresh of this connection is running
     late: Nat,                       \* running refreshes of earlier ones
     needless: BOOLEAN,               \* history: an upgrade left a TLS connection
     out: Seq(Command)]

Offer == [caps: SUBSET Caps, sts: BOOLEAN, mechs: MechList]

Offers == {o \in Offer : o.sts => "sts" \in features}

(* sasl counts the steps of the running exchange, 0 when there is none. *)
Ircd == [offer: Offer, enabled: SUBSET Caps, registered: BOOLEAN,
         sasl: 0..3, mech: Mechs]

TypeOK == /\ serv \in Server /\ inq \in Seq(Reply) /\ ircd \in Ircd
          /\ features \in Scenarios

Welcome(offer) == [offer |-> offer, enabled |-> {}, registered |-> FALSE,
                   sasl |-> 0, mech |-> "PLAIN"]

Init ==
    /\ \E l \in Logins :
         serv = [connected |-> FALSE, ssl |-> FALSE, policy |-> FALSE,
                 loginmethod |-> l, sasl_mech |-> "PLAIN", have |-> {},
                 sent_capend |-> FALSE, waiting_on_cap |-> FALSE,
                 waiting_on_sasl |-> FALSE, sts_upgrade_port |-> FALSE,
                 scram_session |-> 0, oauth_refresh_attempted |-> FALSE,
                 refreshing |-> FALSE, late |-> 0, needless |-> FALSE, out |-> <<>>]
    /\ inq = <<>>
    /\ ircd = Welcome([caps |-> {}, sts |-> FALSE, mechs |-> "no list"])
    /\ features \in Scenarios

-----------------------------------------------------------------------------
(* Connecting and losing the connection. *)

Send(s, m) == IF s.connected THEN [s EXCEPT !.out = Append(@, m)] ELSE s
SendAuth(s, arg) == Send(s, [cmd |-> "AUTH", arg |-> arg])

ClearedCaps == {"sasl", "server-time"}

server_set_defaults_KeepsFlags(s) ==
    [s EXCEPT !.sasl_mech = "PLAIN", !.sent_capend = FALSE, !.scram_session = 0,
              !.oauth_refresh_attempted = FALSE]

(* waiting_on_cap, waiting_on_sasl and sts_upgrade_port keep their values. *)
server_set_defaults(s) ==
    [s EXCEPT !.sasl_mech = "PLAIN", !.sent_capend = FALSE, !.scram_session = 0,
              !.oauth_refresh_attempted = FALSE, !.have = @ \ ClearedCaps]

irc_login(s) == Send([s EXCEPT !.sent_capend = FALSE], [cmd |-> "LS"])

(* The connection is gone; a token refresh goes on without it. *)
disconnect(s) ==
    [s EXCEPT !.connected = FALSE, !.out = <<>>, !.refreshing = FALSE,
              !.late = IF s.refreshing THEN @ + 1 ELSE @]

(* A host with a policy is only reached with TLS. *)
connect(s, use_ssl) ==
    irc_login([server_set_defaults(s) EXCEPT !.connected = TRUE,
                                             !.ssl = use_ssl \/ s.policy, !.out = <<>>])

Connect ==
    /\ ~serv.connected /\ serv.late <= MaxLate
    /\ \E use_ssl \in BOOLEAN : serv' = connect(serv, use_ssl)
    /\ \E offer \in Offers : ircd' = Welcome(offer)
    /\ inq' = <<>> /\ UNCHANGED features

Lost ==
    /\ serv.connected
    /\ \/ "drop" \in features
       \/ ircd.registered /\ inq = <<>> /\ serv.out = <<>> /\ ~serv.refreshing
    /\ serv' = disconnect(serv)
    /\ inq' = <<>>
    /\ UNCHANGED <<ircd, features>>

-----------------------------------------------------------------------------
(* Handlers of the client. *)

cap_end(s) == Send([s EXCEPT !.sent_capend = TRUE], [cmd |-> "END"])

cap_end_once_Unchecked(s) == cap_end(s)

cap_end_once(s) == IF s.sent_capend THEN s ELSE cap_end(s)

(* get_supported_mech # -1, if there is a list at all. *)
supported_mech(line) == line.mechs # "not listed"

wants_sasl(s, line) ==
    "sasl" \in line.caps /\ s.loginmethod # "none" /\ supported_mech(line)

(* What inbound_cap_ls requests and remembers, up to its last test. *)
cap_ls_request_UpgradesTls(s, line) ==
    LET wanted == IF wants_sasl(s, line) THEN line.caps ELSE line.caps \ {"sasl"}
        t == [s EXCEPT !.waiting_on_cap = line.more,
                       !.sasl_mech = IF wants_sasl(s, line) /\ line.mechs = "listed"
                                     THEN s.loginmethod ELSE @,
                       !.waiting_on_sasl = @ \/ wants_sasl(s, line),
                       !.policy = @ \/ line.sts,
                       !.sts_upgrade_port = @ \/ line.sts]
    IN IF wanted = {} THEN t ELSE Send(t, [cmd |-> "REQ", caps |-> wanted])

cap_ls_request(s, line) ==
    LET wanted == IF wants_sasl(s, line) THEN line.caps ELSE line.caps \ {"sasl"}
        t == [s EXCEPT !.waiting_on_cap = line.more,
                       !.sasl_mech = IF wants_sasl(s, line) /\ line.mechs = "listed"
                                     THEN s.loginmethod ELSE @,
                       !.waiting_on_sasl = @ \/ wants_sasl(s, line),
                       !.policy = @ \/ line.sts,
                       !.sts_upgrade_port = @ \/ (line.sts /\ ~s.ssl)]
    IN IF wanted = {} THEN t ELSE Send(t, [cmd |-> "REQ", caps |-> wanted])

(* Something else will write CAP END. *)
waiting(s) == s.waiting_on_sasl \/ s.waiting_on_cap

(* Disconnect, and connect again with TLS; the rest of the lines is lost. *)
sts_upgrade(s) ==
    /\ serv' = connect(disconnect([s EXCEPT !.sts_upgrade_port = FALSE,
                                            !.needless = @ \/ s.ssl]), TRUE)
    /\ \E offer \in Offers : ircd' = Welcome(offer)
    /\ inq' = <<>> /\ UNCHANGED features

(* Every other handler leaves the connection as it is. *)
HandledAs(s) ==
    /\ serv' = s
    /\ inq' = Tail(inq)
    /\ UNCHANGED <<ircd, features>>

Reads(cmd) == serv.connected /\ inq # <<>> /\ Head(inq).cmd = cmd

inbound_cap_ls_NoUpgrade ==
    /\ Reads("LS")
    /\ LET s == cap_ls_request(serv, Head(inq))
       IN HandledAs(IF waiting(s) THEN s ELSE cap_end(s))

(* CAP LS and CAP NEW. *)
inbound_cap_ls ==
    /\ Reads("LS")
    /\ LET s == cap_ls_request(serv, Head(inq))
       IN \/ waiting(s) /\ HandledAs(s)
          \/ ~waiting(s) /\ s.sts_upgrade_port /\ sts_upgrade(s)
          \/ ~waiting(s) /\ ~s.sts_upgrade_port /\ HandledAs(cap_end(s))

toggle_ack_Hurries(s, caps) ==
    LET t == [s EXCEPT !.have = @ \cup caps]
    IN IF "sasl" \in caps /\ s.loginmethod # "none"
       THEN SendAuth(SendAuth([t EXCEPT !.sasl_mech = s.loginmethod], s.loginmethod), "data")
       ELSE t

(* inbound_toggle_caps with enable = TRUE. *)
toggle_ack(s, caps) ==
    LET t == [s EXCEPT !.have = @ \cup caps]
        mech == IF s.loginmethod = "none" THEN s.sasl_mech ELSE s.loginmethod
    IN IF "sasl" \in caps THEN SendAuth([t EXCEPT !.sasl_mech = mech], mech) ELSE t

inbound_cap_ack == Reads("ACK") /\ HandledAs(toggle_ack(serv, Head(inq).caps))

inbound_cap_del == Reads("DEL") /\ HandledAs([serv EXCEPT !.have = @ \ Head(inq).caps])

nak_KeepsWaiting(s, caps) == s

nak(s, caps) == IF "sasl" \in caps THEN [s EXCEPT !.waiting_on_sasl = FALSE] ELSE s

nak_was_last_IgnoresSasl(s) == ~s.waiting_on_cap /\ ~s.sent_capend
nak_was_last(s) == ~waiting(s) /\ ~s.sent_capend

inbound_cap_nak ==
    /\ Reads("NAK")
    /\ LET s == nak(serv, Head(inq).caps)
       IN \/ ~nak_was_last(s) /\ HandledAs(s)
          \/ nak_was_last(s) /\ s.sts_upgrade_port /\ sts_upgrade(s)
          \/ nak_was_last(s) /\ ~s.sts_upgrade_port /\ HandledAs(cap_end(s))

-----------------------------------------------------------------------------
(* SASL. *)

scram_authenticate_KeepsSession(s, challenge, ok) ==
    CASE s.scram_session = 0 /\ ok -> SendAuth([s EXCEPT !.scram_session = 1], "data")
      [] s.scram_session = 1 /\ ok -> SendAuth([s EXCEPT !.scram_session = 2], "data")
      [] s.scram_session = 2 /\ ok -> SendAuth([s EXCEPT !.scram_session = 3], "+")
      [] OTHER -> SendAuth([s EXCEPT !.scram_session = 0], "*")

(* A session that is new answers whatever it is given; later steps check   *)
(* that they got the server's message of that step.                        *)
scram_authenticate(s, challenge, ok) ==
    CASE s.scram_session = 0 /\ ok -> SendAuth([s EXCEPT !.scram_session = 1], "data")
      [] s.scram_session = 1 /\ ok /\ challenge = "server-first" ->
            SendAuth([s EXCEPT !.scram_session = 2], "data")
      [] s.scram_session = 2 /\ ok /\ challenge = "server-final" ->
            SendAuth([s EXCEPT !.scram_session = 0], "+")
      [] OTHER -> SendAuth([s EXCEPT !.scram_session = 0], "*")

(* ok: the payload can be made (a token that is valid, a verifier that is  *)
(* right, ...).                                                            *)
sasl_authenticate(s, challenge, ok) ==
    CASE s.sasl_mech = "EXTERNAL" -> SendAuth(s, "+")
      [] s.sasl_mech = "SCRAM" -> scram_authenticate(s, challenge, ok)
      [] OTHER -> SendAuth(s, IF ok THEN "data" ELSE "*")

inbound_sasl_authenticate ==
    /\ Reads("AUTH")
    /\ \E ok \in BOOLEAN : HandledAs(sasl_authenticate(serv, Head(inq).arg, ok))

inbound_sasl_error_KeepsSession(s) == SendAuth(s, "*")

inbound_sasl_error(s) == SendAuth([s EXCEPT !.scram_session = 0], "*")

(* The common end of 903 to 907. *)
sasl_finished(s) == cap_end_once([s EXCEPT !.waiting_on_sasl = FALSE])

SaslSuccess == Reads("903") /\ HandledAs(sasl_finished(serv))

(* 905, 906 and 907. *)
SaslAborted == Reads("906") /\ HandledAs(sasl_finished(serv))

(* oauth_sasl_retry_cb with an error. *)
retry_failed(s) == sasl_finished(inbound_sasl_error(s))

(* 904.  inbound_sasl_oauth_refresh starts one refresh per connection; one *)
(* that cannot be started has called its callback before it says so.       *)
SaslFailed ==
    /\ Reads("904")
    /\ LET may == serv.sasl_mech = "OAUTHBEARER" /\ ~serv.oauth_refresh_attempted
           s == IF may THEN [serv EXCEPT !.oauth_refresh_attempted = TRUE] ELSE serv
       IN \/ may /\ HandledAs([s EXCEPT !.refreshing = TRUE])
          \/ may /\ HandledAs(sasl_finished(inbound_sasl_error(retry_failed(s))))
          \/ ~may /\ HandledAs(sasl_finished(inbound_sasl_error(s)))

(* The server is known to the callback, the connection that asked for the  *)
(* token is not.                                                           *)
RetryWith(s) == \/ serv' = retry_failed(s)
                \/ \E ok \in BOOLEAN : serv' = sasl_authenticate(s, "+", ok)

oauth_sasl_retry_cb ==
    /\ \/ serv.refreshing /\ RetryWith([serv EXCEPT !.refreshing = FALSE])
       \/ serv.late > 0 /\ RetryWith([serv EXCEPT !.late = @ - 1])
    /\ UNCHANGED <<inq, ircd, features>>

Read == \/ inbound_cap_ls \/ inbound_cap_ack \/ inbound_cap_nak \/ inbound_cap_del
        \/ inbound_sasl_authenticate \/ SaslSuccess \/ SaslFailed \/ SaslAborted

-----------------------------------------------------------------------------
(* The IRC server (external). *)

Took(state, replies) ==
    /\ serv' = [serv EXCEPT !.out = Tail(@)]
    /\ ircd' = state
    /\ inq' = inq \o replies /\ UNCHANGED features

Gets(cmd) == serv.connected /\ serv.out # <<>> /\ Head(serv.out).cmd = cmd

LsLine(more, caps, sts) == [cmd |-> "LS", more |-> more, caps |-> caps, sts |-> sts,
                            mechs |-> ircd.offer.mechs]

(* CAP LS is answered with one line or with two. *)
IrcdLs ==
    /\ Gets("LS")
    /\ \/ Took(ircd, <<LsLine(FALSE, ircd.offer.caps, ircd.offer.sts)>>)
       \/ \E first \in SUBSET ircd.offer.caps, early \in BOOLEAN :
             Took(ircd, <<LsLine(TRUE, first, ircd.offer.sts /\ early),
                          LsLine(FALSE, ircd.offer.caps \ first, ircd.offer.sts /\ ~early)>>)

IrcdReq ==
    /\ Gets("REQ")
    /\ LET caps == Head(serv.out).caps
       IN \/ Took(ircd, <<[cmd |-> "NAK", caps |-> caps]>>)
          \/ /\ caps \subseteq ircd.offer.caps
             /\ Took([ircd EXCEPT !.enabled = @ \cup caps], <<[cmd |-> "ACK", caps |-> caps]>>)

IrcdEnd == Gets("END") /\ Took([ircd EXCEPT !.registered = TRUE], <<>>)

Numeric(n) == <<[cmd |-> n]>>
Challenge(arg) == <<[cmd |-> "AUTH", arg |-> arg]>>

(* Outside an exchange the argument is the name of a mechanism. *)
IrcdAuth ==
    /\ Gets("AUTH")
    /\ LET arg == Head(serv.out).arg
           over == [ircd EXCEPT !.sasl = 0]
           next == [ircd EXCEPT !.sasl = @ + 1]
       IN \/ arg = "*" /\ Took(over, Numeric("906"))
          \/ arg # "*" /\ Took(over, Numeric("904"))
          \/ arg # "*" /\ "abort" \in features /\ Took(over, Numeric("906"))
          \/ /\ ircd.sasl = 0 /\ arg \in Mechs /\ "sasl" \in ircd.enabled
             /\ Took([next EXCEPT !.mech = arg], Challenge("+"))
          \/ /\ arg \in {"data", "+"} /\ ircd.sasl = (IF ircd.mech = "SCRAM" THEN 3 ELSE 1)
             /\ Took(over, Numeric("903"))
          \/ /\ arg = "data" /\ ircd.sasl \in 1..2 /\ ircd.mech = "SCRAM"
             /\ Took(next, Challenge(IF ircd.sasl = 1 THEN "server-first" ELSE "server-final"))

(* A timeout, or the services that do the authentication went away. *)
IrcdAborts ==
    /\ "abort" \in features /\ serv.connected /\ ircd.sasl > 0
    /\ ircd' = [ircd EXCEPT !.sasl = 0]
    /\ inq' = Append(inq, [cmd |-> "906"])
    /\ UNCHANGED <<serv, features>>

IrcdQuiet == serv.connected /\ ircd.registered /\ inq = <<>> /\ serv.out = <<>> /\ ircd.sasl = 0

IrcdNew ==
    /\ "new" \in features /\ IrcdQuiet
    /\ \E caps \in (SUBSET (Caps \ ircd.offer.caps)) \ {{}} :
         /\ ircd' = [ircd EXCEPT !.offer.caps = @ \cup caps]
         /\ inq' = <<LsLine(FALSE, caps, FALSE)>>
    /\ UNCHANGED <<serv, features>>

IrcdDel ==
    /\ "new" \in features /\ IrcdQuiet
    /\ \E caps \in (SUBSET ircd.offer.caps) \ {{}} :
         /\ ircd' = [ircd EXCEPT !.offer.caps = @ \ caps, !.enabled = @ \ caps]
         /\ inq' = <<[cmd |-> "DEL", caps |-> caps]>>
    /\ UNCHANGED <<serv, features>>

IrcdAnswers == IrcdLs \/ IrcdReq \/ IrcdEnd \/ IrcdAuth

-----------------------------------------------------------------------------
Next == \/ Connect \/ Lost \/ Read \/ oauth_sasl_retry_cb
        \/ IrcdAnswers \/ IrcdAborts \/ IrcdNew \/ IrcdDel

Spec == Init /\ [][Next]_vars

(* The main loop reads what arrives, the server answers what it is sent,   *)
(* and a token request is answered or times out.                           *)
FairSpec == Spec /\ WF_vars(Read) /\ WF_vars(IrcdAnswers) /\ WF_vars(oauth_sasl_retry_cb)

-----------------------------------------------------------------------------
(* Properties. *)

(* No ACK or DEL of c is still on its way. *)
Settled(c) == \A i \in 1..Len(inq) : inq[i].cmd \in {"ACK", "DEL"} => c \notin inq[i].caps

(* None of S can happen in this behaviour. *)
Never(S) == features \cap S = {}

(* The have_* flags say what the server of this connection has enabled, as *)
(* soon as every CAP ACK and CAP DEL has been read: inbound_toggle_caps    *)
(* follows the server, and a new connection starts from no capability.     *)
(* The flags that server_set_defaults does not clear are excepted.         *)
FlagsCurrent ==
    serv.connected =>
        \A c \in Caps \cap ClearedCaps : Settled(c) => (c \in serv.have <=> c \in ircd.enabled)

(* A token refresh may still be running when its connection is gone. *)
LateRefresh == serv.loginmethod = "OAUTHBEARER" /\ ~Never({"drop", "sts"})

(* Before the server has finished the registration the client has written  *)
(* at most one CAP END, whichever of CAP LS, CAP NAK, the SASL numerics and *)
(* the token refresh came first (sent_capend), unless the refresh of an    *)
(* earlier connection interferes.                                          *)
EndOnce ==
    ~ircd.registered /\ ~LateRefresh =>
        Cardinality({i \in 1..Len(serv.out) : serv.out[i].cmd = "END"}) <= 1

(* CAP END, which ends the registration, never reaches the server while a  *)
(* SASL exchange is running: it waits for the exchange (waiting_on_sasl).  *)
(* Again a late refresh is excepted: oauth_sasl_retry_cb does not know the *)
(* connection it belongs to.                                               *)
NoEndInSasl == Gets("END") /\ ~ircd.registered /\ ~LateRefresh => ircd.sasl = 0

(* A SASL payload reaches the server inside an exchange that AUTHENTICATE  *)
(* with a mechanism opened; outside one it is taken for a mechanism's name *)
(* and refused (inbound_sasl_authenticate).  The retry after a refresh     *)
(* opens no exchange, and a payload may cross an abort on its way.         *)
PayloadInExchange ==
    Gets("AUTH") /\ Head(serv.out).arg = "data"
      /\ serv.loginmethod # "OAUTHBEARER" /\ Never({"abort"}) => ircd.sasl > 0

(* The opening challenge of an exchange finds no SCRAM session of an       *)
(* earlier exchange (scram_authenticate would answer it out of step);      *)
(* 905 and 906, unlike 904, leave one behind.                              *)
ScramFresh ==
    Reads("AUTH") /\ Head(inq).arg = "+" /\ Never({"abort"}) => serv.scram_session = 0

(* A server that announced an STS policy on a plain connection never gets  *)
(* that connection registered: inbound_cap_ls and inbound_cap_nak come     *)
(* back with TLS instead of sending CAP END.  The SASL numerics do not.    *)
StsFirst ==
    serv.connected /\ ircd.registered /\ ircd.offer.sts /\ serv.loginmethod = "none"
        => serv.ssl

(* Only a plain connection is ended for an STS upgrade, as long as none is *)
(* lost between the announcement and the upgrade and no SASL exchange      *)
(* delays it (sts_upgrade_port outlives its connection).                   *)
NoNeedlessUpgrade == serv.needless => serv.loginmethod # "none" \/ ~Never({"drop"})

(* The end of the registration is written when it is due: once, after the  *)
(* SASL exchange, and not where an STS policy demands TLS first.           *)
EndIsDue == EndOnce /\ NoEndInSasl /\ StsFirst

(* Neither an earlier connection nor an earlier exchange is carried over:  *)
(* capability flags, SCRAM session, payloads and STS port are the present  *)
(* one's.                                                                  *)
NothingCarriedOver == FlagsCurrent /\ ScramFresh /\ PayloadInExchange /\ NoNeedlessUpgrade

(* A connection that is not lost gets registered: every path through CAP,  *)
(* SASL, the token refresh and the STS upgrade ends with CAP END.          *)
Registers == serv.connected /\ Never({"drop"}) ~> (ircd.registered \/ ~serv.connected)

(* The same after connections that were lost at any moment ("if we use     *)
(* SASL, CAP END is dealt via raw numerics", inbound_cap_ls).              *)
RegistersAfterLoss == serv.connected ~> (ircd.registered \/ ~serv.connected)
=============================================================================
