------------------------ MODULE CapNegotiationProofs ------------------------
(***************************************************************************)
(* Proofs about CapNegotiation for every set of capabilities, login        *)
(* methods and features: the types, and that neither an earlier connection *)
(* nor an earlier exchange is taken for the present one, nor CAP END       *)
(* written where it is not due.                                            *)
(*                                                                         *)
(* The handlers are operators on server records, and so are the parts of   *)
(* the inductive invariant: they speak of the lines q on their way to the  *)
(* client, a server record s (with the lines s.out on their way to the     *)
(* server) and the state d of the IRC server.                              *)
(***************************************************************************)
EXTENDS CapNegotiation, SequenceTheorems, FiniteSetTheorems, TLAPS

-----------------------------------------------------------------------------
(* Sequences without lines of a set, and with one at most: in q a line of  *)
(* A or in o a line of B.                                                  *)

Free(q, A) == \A i \in 1..Len(q) : q[i] \notin A
AtMostOne(q, A) == \A i, j \in 1..Len(q) : q[i] \in A /\ q[j] \in A => i = j

None(q, A, o, B) == Free(q, A) /\ Free(o, B)
One(q, A, o, B) == AtMostOne(q, A) /\ AtMostOne(o, B) /\ (Free(q, A) \/ Free(o, B))

-----------------------------------------------------------------------------
(* Kinds of lines. *)

LsLines == {a \in Reply : a.cmd = "LS"}
Finals == {a \in Reply : a.cmd \in {"903", "904", "906"}}
Answers == {a \in Reply : a.cmd \in {"AUTH", "903", "904", "906"}}

LsCommands == {m \in Command : m.cmd = "LS"}
Ends == {m \in Command : m.cmd = "END"}
Payloads == {m \in Command : m.cmd = "AUTH" /\ m.arg \notin Mechs}
NotRequests == {m \in Command : m.cmd # "REQ"}

(* The lines that lead to an exchange. *)
OpensIn == {a \in Reply : a.cmd \in {"LS", "ACK", "NAK"} /\ "sasl" \in a.caps}
OpensOut == {m \in Command : \/ m.cmd = "LS"
                             \/ m.cmd = "REQ" /\ "sasl" \in m.caps
                             \/ m.cmd = "AUTH" /\ m.arg \in Mechs}

(* These and those of an exchange. *)
OfExchange == OpensIn \cup Answers
ToExchange == OpensOut \cup Payloads

NoOpening(q, s) == None(q, OpensIn, s.out, OpensOut)
Silent(q, s) == None(q, OfExchange, s.out, ToExchange)

-----------------------------------------------------------------------------
(* Capability flags: the last line about a capability says what the server *)
(* has, and the flag says so when there is no such line.                   *)

Toggles(c) == {a \in Reply : a.cmd \in {"ACK", "DEL"} /\ c \in a.caps}

LastToggle(q, i, c) == q[i] \in Toggles(c) /\ \A j \in 1..Len(q) : q[j] \in Toggles(c) => j <= i

Flags(q, s, d) ==
    \A c \in Caps \cap ClearedCaps :
      /\ Free(q, Toggles(c)) => (c \in s.have <=> c \in d.enabled)
      /\ \A i \in 1..Len(q) : LastToggle(q, i, c) => (q[i].cmd = "ACK" <=> c \in d.enabled)

-----------------------------------------------------------------------------
(* Before the registration: whatever still leads to an exchange is waited  *)
(* for, and CAP END comes after it.                                        *)

(* At most one line leads to an exchange. *)
Opening(q, s, d) ==
    /\ One(q, OpensIn, s.out, OpensOut)
    /\ NoOpening(q, s) \/
         /\ ~s.sent_capend /\ ~s.refreshing /\ d.sasl = 0
         /\ Free(q, Answers) /\ Free(s.out, Payloads)
    /\ s.waiting_on_sasl \/
         /\ Free(q, OpensIn \ LsLines) /\ Free(s.out, OpensOut \ LsCommands)

Exchanging(q, s, d) ==
    d.sasl > 0 => /\ NoOpening(q, s) /\ Free(q, Finals)
                  /\ s.waiting_on_sasl /\ ~s.sent_capend /\ ~s.refreshing

(* The lines of CAP LS come first, and all but the last announce more. *)
LsFirst(q) ==
    \A i \in 1..Len(q) : q[i] \in LsLines =>
        \A j \in 1..Len(q) : j < i => q[j] \in LsLines /\ q[j].more

Asking(q, s, d) ==
    /\ Free(s.out, LsCommands) \/ (q = <<>> /\ s.out = <<[cmd |-> "LS"]>>)
    /\ LsFirst(q)
    /\ Free(q, LsLines) \/
         /\ ~s.sent_capend /\ ~s.refreshing /\ d.sasl = 0
         /\ Free(q, Answers) /\ Free(s.out, NotRequests)

Ending(s) == AtMostOne(s.out, Ends) /\ (s.sent_capend \/ Free(s.out, Ends))

Registering(q, s, d) == Opening(q, s, d) /\ Exchanging(q, s, d) /\ Asking(q, s, d) /\ Ending(s)

-----------------------------------------------------------------------------
(* One exchange, step by step, when the server does not abort it and no    *)
(* token is refreshed.                                                     *)

Rest(s, d) == d.sasl = 0 /\ s.scram_session = 0

(* How far both ends are when a line of the exchange is read. *)
AtIn(line, s, d) ==
    CASE line.cmd = "AUTH" ->
           /\ d.mech = s.sasl_mech
           /\ line.arg = "+" => d.sasl = 1 /\ s.scram_session = 0
           /\ line.arg = "server-first" => d.mech = "SCRAM" /\ d.sasl = 2 /\ s.scram_session = 1
           /\ line.arg = "server-final" => d.mech = "SCRAM" /\ d.sasl = 3 /\ s.scram_session = 2
      [] line.cmd = "904" -> d.sasl = 0
      [] OTHER -> Rest(s, d)

AtOut(m, s, d) ==
    /\ m \in OpensOut => Rest(s, d)
    /\ m.cmd = "AUTH" /\ m.arg \in Mechs => m.arg = s.sasl_mech
    /\ m.cmd = "AUTH" /\ m.arg = "data" =>
         /\ d.mech = s.sasl_mech /\ d.sasl > 0
         /\ IF d.mech = "SCRAM" THEN s.scram_session = d.sasl /\ d.sasl <= 2
                                ELSE s.scram_session = 0 /\ d.sasl = 1
    /\ m.cmd = "AUTH" /\ m.arg \in {"+", "*"} => s.scram_session = 0

InStep(q, s, d) ==
    /\ One(q, OfExchange, s.out, ToExchange)
    /\ \A i \in 1..Len(q) : q[i] \in OfExchange => AtIn(q[i], s, d)
    /\ \A i \in 1..Len(s.out) : s.out[i] \in ToExchange => AtOut(s.out[i], s, d)
    /\ Silent(q, s) => Rest(s, d)

-----------------------------------------------------------------------------
(* STS policies. *)

(* On a plain connection to a server with a policy the last line of CAP LS *)
(* has still to be read, if the user has no login method.                  *)
LastLs(q, s) ==
    \E i \in 1..Len(q) :
      /\ q[i] \in LsLines /\ ~q[i].more
      /\ \A j \in 1..Len(q) : j < i => q[j] \in LsLines /\ q[j].more
      /\ s.sts_upgrade_port \/ \E j \in 1..Len(q) : j <= i /\ q[j].sts

Policies == {a \in Reply : a.cmd = "LS" /\ a.sts}

Plain(q, s, d) ==
    /\ ~s.ssl /\ d.offer.sts =>
         /\ ~d.registered /\ Free(s.out, Ends)
         /\ (q = <<>> /\ s.out = <<[cmd |-> "LS"]>>) \/ LastLs(q, s)
    /\ d.offer.sts \/ Free(q, Policies)

(* The port to come back to is the present server's. *)
Port(s, d) ==
    ~s.needless /\ (s.sts_upgrade_port => s.connected /\ ~s.ssl /\ d.offer.sts)

(* No policy where there is none. *)
Unannounced(q, s, d) == ~s.sts_upgrade_port /\ ~d.offer.sts /\ Free(q, Policies)

-----------------------------------------------------------------------------
(* What the login method rules out, and the features f. *)
Lacks(f, S) == f \cap S = {}

Method(s, f) ==
    /\ s.sasl_mech \in {"PLAIN", s.loginmethod}
    /\ s.refreshing => s.connected /\ s.loginmethod = "OAUTHBEARER"
    /\ s.late > 0 => s.loginmethod = "OAUTHBEARER" /\ ~Lacks(f, {"drop", "sts"})
    /\ s.loginmethod = "none" => ~s.waiting_on_sasl
    /\ s.loginmethod # "SCRAM" => s.scram_session = 0

-----------------------------------------------------------------------------
(* The inductive invariant. *)

Late(s, f) == s.loginmethod = "OAUTHBEARER" /\ ~Lacks(f, {"drop", "sts"})

Now(q, s, d, f) ==
    /\ Flags(q, s, d)
    /\ ~Late(s, f) /\ ~d.registered => Registering(q, s, d)
    /\ s.loginmethod # "OAUTHBEARER" /\ Lacks(f, {"abort"}) => InStep(q, s, d)
    /\ s.loginmethod = "none" => Plain(q, s, d)

Good(q, s, d, f) ==
    /\ Method(s, f)
    /\ s.connected => Now(q, s, d, f)
    /\ ~s.connected => s.out = <<>>
    /\ s.loginmethod = "none" /\ Lacks(f, {"drop"}) => Port(s, d)
    /\ Lacks(f, {"sts"}) => Unannounced(q, s, d)

IInv == TypeOK /\ Good(inq, serv, ircd, features)

-----------------------------------------------------------------------------
(* Lemmas about sequences: reading the first line and writing a last one.  *)

LEMMA TailFacts ==
  ASSUME NEW S, NEW q \in Seq(S), q # <<>>
  PROVE  /\ Tail(q) \in Seq(S) /\ Len(q) \in Nat \ {0} /\ Len(Tail(q)) = Len(q) - 1
         /\ Head(q) = q[1] /\ Head(q) \in S
         /\ \A i \in 1..Len(Tail(q)) : i + 1 \in 1..Len(q) /\ Tail(q)[i] = q[i + 1]
         /\ \A i \in 1..Len(q) : i = 1 \/ (i - 1 \in 1..Len(Tail(q)) /\ Tail(q)[i - 1] = q[i])
<1>1. Len(q) \in Nat \ {0} /\ Tail(q) \in Seq(S) /\ Len(Tail(q)) = Len(q) - 1
      /\ Head(q) = q[1] /\ Head(q) \in S
  BY EmptySeq, HeadTailProperties
<1>2. \A i \in 1..Len(Tail(q)) : Tail(q)[i] = q[i + 1] BY HeadTailProperties
<1> DEFINE l == Len(q)
<1>3. l \in Nat \ {0} /\ Len(Tail(q)) = l - 1 BY <1>1
<1> HIDE DEF l
<1>4. \A i \in 1..(l - 1) : i + 1 \in 1..l BY <1>3
<1>5. \A i \in 1..l : i = 1 \/ (i - 1 \in 1..(l - 1) /\ (i - 1) + 1 = i) BY <1>3
<1>6. \A i \in 1..(l - 1) : Tail(q)[i] = q[i + 1] BY <1>2, <1>3
<1>7. \A i \in 1..l : i = 1 \/ (i - 1 \in 1..(l - 1) /\ Tail(q)[i - 1] = q[i]) BY <1>5, <1>6
<1>8. /\ \A i \in 1..Len(Tail(q)) : i + 1 \in 1..Len(q) /\ Tail(q)[i] = q[i + 1]
      /\ \A i \in 1..Len(q) : i = 1 \/ (i - 1 \in 1..Len(Tail(q)) /\ Tail(q)[i - 1] = q[i])
  BY <1>3, <1>4, <1>6, <1>7 DEF l
<1> QED BY <1>1, <1>8

LEMMA AppendFacts ==
  ASSUME NEW S, NEW q \in Seq(S), NEW a \in S
  PROVE  /\ Append(q, a) \in Seq(S) /\ Len(q) \in Nat /\ Len(Append(q, a)) = Len(q) + 1
         /\ \A i \in 1..Len(q) : i \in 1..Len(Append(q, a)) /\ Append(q, a)[i] = q[i]
         /\ Len(q) + 1 \in 1..Len(Append(q, a)) /\ Append(q, a)[Len(q) + 1] = a
         /\ \A i \in 1..Len(Append(q, a)) : i \in 1..Len(q) \/ i = Len(q) + 1
<1> DEFINE l == Len(q)  r == Append(q, a)
<1>1. l \in Nat /\ r \in Seq(S) /\ Len(r) = l + 1 /\ r[l + 1] = a
      /\ \A i \in 1..l : r[i] = q[i]
  BY AppendProperties, LenProperties
<1> SUFFICES /\ r \in Seq(S) /\ l \in Nat /\ Len(r) = l + 1
             /\ \A i \in 1..l : i \in 1..Len(r) /\ r[i] = q[i]
             /\ l + 1 \in 1..Len(r) /\ r[l + 1] = a
             /\ \A i \in 1..Len(r) : i \in 1..l \/ i = l + 1
    OBVIOUS
<1> HIDE DEF l, r
<1> QED BY <1>1

LEMMA FreeTail ==
  ASSUME NEW S, NEW q \in Seq(S), q # <<>>, NEW A
  PROVE  /\ Free(q, A) <=> Head(q) \notin A /\ Free(Tail(q), A)
         /\ AtMostOne(q, A) => AtMostOne(Tail(q), A)
         /\ AtMostOne(q, A) /\ Head(q) \in A => Free(Tail(q), A)
<1> DEFINE l == Len(q)  r == Tail(q)  k == Len(Tail(q))
<1>1. /\ l \in Nat \ {0} /\ k = l - 1 /\ Head(q) = q[1]
      /\ \A i \in 1..k : i + 1 \in 1..l /\ r[i] = q[i + 1]
      /\ \A i \in 1..l : i = 1 \/ (i - 1 \in 1..k /\ r[i - 1] = q[i])
  BY TailFacts
<1> SUFFICES /\ (\A i \in 1..l : q[i] \notin A)
                 <=> Head(q) \notin A /\ (\A i \in 1..k : r[i] \notin A)
             /\ (\A i, j \in 1..l : q[i] \in A /\ q[j] \in A => i = j)
                  => /\ (\A i, j \in 1..k : r[i] \in A /\ r[j] \in A => i = j)
                     /\ Head(q) \in A => (\A i \in 1..k : r[i] \notin A)
    BY DEF Free, AtMostOne
<1> HIDE DEF l, r, k
<1>2. 1 \in 1..l BY <1>1
<1>3. (\A i \in 1..l : q[i] \notin A) <=> Head(q) \notin A /\ (\A i \in 1..k : r[i] \notin A)
  BY <1>1, <1>2
<1>4. ASSUME \A i, j \in 1..l : q[i] \in A /\ q[j] \in A => i = j
      PROVE  \A i, j \in 1..k : r[i] \in A /\ r[j] \in A => i = j
  <2> SUFFICES ASSUME NEW i \in 1..k, NEW j \in 1..k, r[i] \in A, r[j] \in A PROVE i = j OBVIOUS
  <2>1. i + 1 = j + 1 BY <1>1, <1>4
  <2> QED BY <2>1
<1>5. ASSUME \A i, j \in 1..l : q[i] \in A /\ q[j] \in A => i = j, Head(q) \in A
      PROVE  \A i \in 1..k : r[i] \notin A
  <2> SUFFICES ASSUME NEW i \in 1..k, r[i] \in A PROVE FALSE OBVIOUS
  <2>1. i + 1 = 1 BY <1>1, <1>2, <1>5
  <2> QED BY <2>1
<1> QED BY <1>3, <1>4, <1>5

LEMMA FreeAppend ==
  ASSUME NEW S, NEW q \in Seq(S), NEW a \in S, NEW A
  PROVE  /\ Free(Append(q, a), A) <=> Free(q, A) /\ a \notin A
         /\ AtMostOne(q, A) /\ a \notin A => AtMostOne(Append(q, a), A)
         /\ Free(q, A) => AtMostOne(Append(q, a), A)
<1> DEFINE l == Len(q)  r == Append(q, a)  k == Len(r)
<1>1. /\ l \in Nat /\ k = l + 1
      /\ \A i \in 1..l : i \in 1..k /\ r[i] = q[i]
      /\ l + 1 \in 1..k /\ r[l + 1] = a
      /\ \A i \in 1..k : i \in 1..l \/ i = l + 1
  BY AppendFacts
<1> SUFFICES /\ (\A i \in 1..k : r[i] \notin A) <=> (\A i \in 1..l : q[i] \notin A) /\ a \notin A
             /\ (\A i, j \in 1..l : q[i] \in A /\ q[j] \in A => i = j) /\ a \notin A
                  => (\A i, j \in 1..k : r[i] \in A /\ r[j] \in A => i = j)
             /\ (\A i \in 1..l : q[i] \notin A)
                  => (\A i, j \in 1..k : r[i] \in A /\ r[j] \in A => i = j)
    BY DEF Free, AtMostOne
<1> HIDE DEF l, r, k
<1> QED BY <1>1

LEMMA FreeEmpty == \A A : Free(<<>>, A) /\ AtMostOne(<<>>, A)
BY DEF Free, AtMostOne

LEMMA FreeSingle == ASSUME NEW a, NEW A
                    PROVE  (Free(<<a>>, A) <=> a \notin A) /\ AtMostOne(<<a>>, A)
BY DEF Free, AtMostOne

LEMMA FreeIsFew == ASSUME NEW q, NEW A, Free(q, A) PROVE AtMostOne(q, A)
BY DEF Free, AtMostOne

LEMMA FreeSubset == ASSUME NEW q, NEW A, NEW B, B \subseteq A, Free(q, A) PROVE Free(q, B)
BY DEF Free

LEMMA FreeUnion == ASSUME NEW q, NEW A, NEW B
                   PROVE  Free(q, A \cup B) <=> Free(q, A) /\ Free(q, B)
BY DEF Free

(* Replies are appended one by one. *)
LEMMA ConcatOne ==
  ASSUME NEW S, NEW q \in Seq(S), NEW a \in S
  PROVE  q \o <<a>> = Append(q, a)
<1>1. <<a>> \in Seq(S) BY SeqDef
<1> DEFINE l == Len(q)  r == Append(q, a)  t == q \o <<a>>
<1>2. /\ t \in Seq(S) /\ Len(t) = l + 1
      /\ \A i \in 1..(l + 1) : t[i] = IF i <= l THEN q[i] ELSE <<a>>[i - l]
  BY <1>1, ConcatProperties
<1>3. /\ r \in Seq(S) /\ l \in Nat /\ Len(r) = l + 1 /\ r[l + 1] = a
      /\ \A i \in 1..l : r[i] = q[i]
  BY AppendFacts
<1>4. <<a>>[1] = a OBVIOUS
<1>5. \A i \in 1..(l + 1) : t[i] = r[i]
  <2> HIDE DEF l, r, t
  <2> TAKE i \in 1..(l + 1)
  <2>1. CASE i \in 1..l BY <2>1, <1>2, <1>3
  <2>2. CASE i = l + 1
    <3>1. t[i] = <<a>>[i - l] /\ i - l = 1 BY <2>2, <1>2, <1>3
    <3> QED BY <3>1, <1>3, <1>4, <2>2
  <2> QED BY <2>1, <2>2, <1>3
<1> HIDE DEF l
<1>6. t = r BY <1>2, <1>3, <1>5, SeqEqual
<1> QED BY <1>6

(* Whichever of the two sequences is read or written. *)
LEMMA OneSwap ==
  ASSUME NEW q, NEW A, NEW o, NEW B
  PROVE  (One(q, A, o, B) <=> One(o, B, q, A)) /\ (None(q, A, o, B) <=> None(o, B, q, A))
BY DEF One, None

LEMMA OneTail ==
  ASSUME NEW S, NEW q \in Seq(S), q # <<>>, NEW A, NEW o, NEW B
  PROVE  /\ One(q, A, o, B) => One(Tail(q), A, o, B)
         /\ One(q, A, o, B) /\ Head(q) \in A => None(Tail(q), A, o, B)
         /\ None(q, A, o, B) <=> Head(q) \notin A /\ None(Tail(q), A, o, B)
BY FreeTail DEF One, None

LEMMA OneAppend ==
  ASSUME NEW S, NEW q \in Seq(S), NEW a \in S, NEW A, NEW o, NEW B
  PROVE  /\ One(q, A, o, B) /\ a \notin A => One(Append(q, a), A, o, B)
         /\ None(q, A, o, B) => One(Append(q, a), A, o, B)
         /\ None(Append(q, a), A, o, B) <=> None(q, A, o, B) /\ a \notin A
BY FreeAppend, FreeIsFew DEF One, None

LEMMA NoneIsOne == ASSUME NEW q, NEW A, NEW o, NEW B, None(q, A, o, B) PROVE One(q, A, o, B)
BY FreeIsFew DEF One, None

-----------------------------------------------------------------------------
(* Lines and records.  *)

LEMMA ReplyFields ==
  /\ \A a \in Reply : a.cmd \in {"LS", "ACK", "NAK", "DEL", "AUTH", "903", "904", "906"}
  /\ \A a \in Reply : a.cmd = "LS" => /\ a.more \in BOOLEAN /\ a.caps \subseteq Caps
                                      /\ a.sts \in BOOLEAN /\ a.mechs \in MechList
  /\ \A a \in Reply : a.cmd \in {"ACK", "NAK", "DEL"} => a.caps \subseteq Caps
  /\ \A a \in Reply : a.cmd = "AUTH" => a.arg \in {"+", "server-first", "server-final"}
<1> DEFINE L == [cmd: {"LS"}, more: BOOLEAN, caps: SUBSET Caps, sts: BOOLEAN, mechs: MechList]
           T == [cmd: {"ACK", "NAK", "DEL"}, caps: SUBSET Caps]
           U == [cmd: {"AUTH"}, arg: {"+", "server-first", "server-final"}]
           N == [cmd: {"903", "904", "906"}]
<1>1. \A a \in L : a.cmd = "LS" /\ a.more \in BOOLEAN /\ a.caps \subseteq Caps
                   /\ a.sts \in BOOLEAN /\ a.mechs \in MechList
  OBVIOUS
<1>2. \A a \in T : a.cmd \in {"ACK", "NAK", "DEL"} /\ a.caps \subseteq Caps OBVIOUS
<1>3. \A a \in U : a.cmd = "AUTH" /\ a.arg \in {"+", "server-first", "server-final"} OBVIOUS
<1>4. \A a \in N : a.cmd \in {"903", "904", "906"} OBVIOUS
<1>5. \A a \in Reply : a \in L \/ a \in T \/ a \in U \/ a \in N BY DEF Reply
<1> HIDE DEF L, T, U, N
<1> QED BY <1>1, <1>2, <1>3, <1>4, <1>5

LEMMA CommandFields ==
  /\ \A m \in Command : m.cmd \in {"LS", "END", "REQ", "AUTH"}
  /\ \A m \in Command : m.cmd = "REQ" => m.caps \subseteq Caps
  /\ \A m \in Command : m.cmd = "AUTH" => m.arg \in Mechs \cup {"data", "+", "*"}
  /\ \A m \in Command : m.cmd = "LS" => m = [cmd |-> "LS"]
<1> DEFINE L == [cmd: {"LS", "END"}]
           R == [cmd: {"REQ"}, caps: SUBSET Caps]
           U == [cmd: {"AUTH"}, arg: Mechs \cup {"data", "+", "*"}]
<1>1. \A m \in L : m.cmd \in {"LS", "END"} /\ (m.cmd = "LS" => m = [cmd |-> "LS"]) OBVIOUS
<1>2. \A m \in R : m.cmd = "REQ" /\ m.caps \subseteq Caps OBVIOUS
<1>3. \A m \in U : m.cmd = "AUTH" /\ m.arg \in Mechs \cup {"data", "+", "*"} OBVIOUS
<1>4. \A m \in Command : m \in L \/ m \in R \/ m \in U BY DEF Command
<1> HIDE DEF L, R, U
<1> QED BY <1>1, <1>2, <1>3, <1>4

(* The lines that are written. *)
LEMMA Lines ==
  /\ [cmd |-> "LS"] \in Command /\ [cmd |-> "END"] \in Command
  /\ \A caps \in SUBSET Caps : [cmd |-> "REQ", caps |-> caps] \in Command
  /\ \A arg \in Mechs \cup {"data", "+", "*"} : [cmd |-> "AUTH", arg |-> arg] \in Command
  /\ \A more, sts \in BOOLEAN, caps \in SUBSET Caps, mechs \in MechList :
       [cmd |-> "LS", more |-> more, caps |-> caps, sts |-> sts, mechs |-> mechs] \in Reply
  /\ \A cmd \in {"ACK", "NAK", "DEL"}, caps \in SUBSET Caps : [cmd |-> cmd, caps |-> caps] \in Reply
  /\ \A arg \in {"+", "server-first", "server-final"} : [cmd |-> "AUTH", arg |-> arg] \in Reply
  /\ \A cmd \in {"903", "904", "906"} : [cmd |-> cmd] \in Reply
BY DEF Command, Reply

LEMMA EndKind ==
  /\ [cmd |-> "END"] \in Command /\ [cmd |-> "END"] \in Ends
  /\ [cmd |-> "END"] \in NotRequests
  /\ [cmd |-> "END"] \notin OpensOut /\ [cmd |-> "END"] \notin ToExchange
  /\ [cmd |-> "END"] \notin LsCommands /\ [cmd |-> "END"] \notin Payloads
BY Lines DEF Ends, NotRequests, OpensOut, ToExchange, LsCommands, Payloads

LEMMA PayloadKind ==
  ASSUME NEW arg \in {"data", "+", "*"}, NEW m, m = [cmd |-> "AUTH", arg |-> arg]
  PROVE  /\ m \in Command /\ m \in Payloads /\ m \in ToExchange /\ m \notin OpensOut
         /\ m \notin Ends /\ m \notin LsCommands /\ m.cmd = "AUTH" /\ m.arg = arg
         /\ arg \notin Mechs
BY Lines DEF Ends, NotRequests, OpensOut, ToExchange, LsCommands, Payloads, Mechs, AllLogins

LEMMA MechKind ==
  ASSUME NEW arg \in Mechs, NEW m, m = [cmd |-> "AUTH", arg |-> arg]
  PROVE  /\ m \in Command /\ m \notin Payloads /\ m \in ToExchange /\ m \in OpensOut
         /\ m \notin Ends /\ m \notin LsCommands /\ m.cmd = "AUTH" /\ m.arg = arg
         /\ arg \notin {"data", "+", "*"}
BY Lines DEF Ends, NotRequests, OpensOut, ToExchange, LsCommands, Payloads, Mechs, AllLogins

LEMMA RequestKind ==
  ASSUME NEW caps \in SUBSET Caps, NEW m, m = [cmd |-> "REQ", caps |-> caps]
  PROVE  /\ m \in Command /\ m \notin Payloads /\ m \notin Ends /\ m \notin LsCommands
         /\ m \notin NotRequests /\ m.cmd = "REQ" /\ m.caps = caps
         /\ m \in OpensOut <=> "sasl" \in caps
         /\ m \in ToExchange <=> "sasl" \in caps
BY Lines DEF Ends, NotRequests, OpensOut, ToExchange, LsCommands, Payloads, Mechs, AllLogins

LEMMA ReplyKind ==
  ASSUME NEW a \in Reply
  PROVE  /\ a \in LsLines <=> a.cmd = "LS"
         /\ a \in Finals <=> a.cmd \in {"903", "904", "906"}
         /\ a \in Answers <=> a.cmd \in {"AUTH", "903", "904", "906"}
         /\ a \in OpensIn <=> a.cmd \in {"LS", "ACK", "NAK"} /\ "sasl" \in a.caps
         /\ a \in OfExchange <=> a \in OpensIn \/ a \in Answers
         /\ a \in Policies <=> a.cmd = "LS" /\ a.sts
         /\ \A c : a \in Toggles(c) <=> a.cmd \in {"ACK", "DEL"} /\ c \in a.caps
BY DEF LsLines, Finals, Answers, OpensIn, OfExchange, Policies, Toggles

-----------------------------------------------------------------------------
(* What the functions of the client do to a server record.  *)

(* Only connecting and disconnecting change these. *)
Fixed(s, r) ==
    /\ r.connected = s.connected /\ r.ssl = s.ssl /\ r.loginmethod = s.loginmethod
    /\ r.late = s.late /\ r.needless = s.needless

(* Nothing but CAP LS, and the upgrade, changes these. *)
Settings(s, r) == Fixed(s, r) /\ r.sts_upgrade_port = s.sts_upgrade_port

LEMMA ServerTyped ==
  ASSUME NEW s \in Server
  PROVE  /\ s.connected \in BOOLEAN /\ s.ssl \in BOOLEAN /\ s.policy \in BOOLEAN
         /\ s.loginmethod \in AllLogins /\ s.sasl_mech \in Mechs /\ s.have \subseteq Caps
         /\ s.sent_capend \in BOOLEAN /\ s.waiting_on_cap \in BOOLEAN
         /\ s.waiting_on_sasl \in BOOLEAN /\ s.sts_upgrade_port \in BOOLEAN
         /\ s.scram_session \in 0..2 /\ s.oauth_refresh_attempted \in BOOLEAN
         /\ s.refreshing \in BOOLEAN /\ s.late \in Nat /\ s.needless \in BOOLEAN
         /\ s.out \in Seq(Command)
BY DEF Server

LEMMA SendFields ==
  ASSUME NEW s \in Server, s.connected, NEW m \in Command, NEW r, r = Send(s, m)
  PROVE  /\ r \in Server /\ r.out = Append(s.out, m) /\ Settings(s, r)
         /\ r.sasl_mech = s.sasl_mech /\ r.have = s.have /\ r.sent_capend = s.sent_capend
         /\ r.waiting_on_cap = s.waiting_on_cap /\ r.waiting_on_sasl = s.waiting_on_sasl
         /\ r.scram_session = s.scram_session /\ r.refreshing = s.refreshing
<1> DEFINE o == Append(s.out, m)
<1>1. o \in Seq(Command) BY AppendFacts, ServerTyped
<1>2. r = [s EXCEPT !.out = o] BY DEF Send
<1> HIDE DEF o
<1>3. r \in Server BY <1>1, <1>2 DEF Server
<1>4. /\ r.out = o /\ r.connected = s.connected /\ r.ssl = s.ssl /\ r.loginmethod = s.loginmethod
      /\ r.late = s.late /\ r.needless = s.needless /\ r.sts_upgrade_port = s.sts_upgrade_port
      /\ r.sasl_mech = s.sasl_mech /\ r.have = s.have /\ r.sent_capend = s.sent_capend
      /\ r.waiting_on_cap = s.waiting_on_cap /\ r.waiting_on_sasl = s.waiting_on_sasl
      /\ r.scram_session = s.scram_session /\ r.refreshing = s.refreshing
  BY <1>2 DEF Server
<1> QED BY <1>3, <1>4 DEF Settings, Fixed, o

LEMMA CapEndFields ==
  ASSUME NEW s \in Server, s.connected, NEW r, r = cap_end(s)
  PROVE  /\ r \in Server /\ r.out = Append(s.out, [cmd |-> "END"]) /\ Settings(s, r)
         /\ r.sasl_mech = s.sasl_mech /\ r.have = s.have /\ r.sent_capend
         /\ r.waiting_on_cap = s.waiting_on_cap /\ r.waiting_on_sasl = s.waiting_on_sasl
         /\ r.scram_session = s.scram_session /\ r.refreshing = s.refreshing
<1> DEFINE yes == TRUE  t == [s EXCEPT !.sent_capend = yes]
<1>y. yes \in BOOLEAN /\ yes OBVIOUS
<1>r. r = Send(t, [cmd |-> "END"]) BY DEF cap_end
<1> HIDE DEF yes
<1>1. t \in Server BY <1>y DEF Server
<1>2. /\ t.out = s.out /\ t.connected = s.connected
      /\ t.ssl = s.ssl /\ t.loginmethod = s.loginmethod
      /\ t.late = s.late /\ t.needless = s.needless /\ t.sts_upgrade_port = s.sts_upgrade_port
      /\ t.sasl_mech = s.sasl_mech /\ t.have = s.have /\ t.sent_capend = yes
      /\ t.waiting_on_cap = s.waiting_on_cap /\ t.waiting_on_sasl = s.waiting_on_sasl
      /\ t.scram_session = s.scram_session /\ t.refreshing = s.refreshing
  BY DEF Server
<1> HIDE DEF t
<1>3. /\ r \in Server /\ r.out = Append(t.out, [cmd |-> "END"]) /\ Settings(t, r)
      /\ r.sasl_mech = t.sasl_mech /\ r.have = t.have /\ r.sent_capend = t.sent_capend
      /\ r.waiting_on_cap = t.waiting_on_cap /\ r.waiting_on_sasl = t.waiting_on_sasl
      /\ r.scram_session = t.scram_session /\ r.refreshing = t.refreshing
  BY <1>1, <1>2, <1>r, SendFields, EndKind
<1> QED BY <1>2, <1>3, <1>y DEF Settings, Fixed

(* CAP END is written once. *)
LEMMA FinishedFields ==
  ASSUME NEW s \in Server, s.connected, NEW r, r = sasl_finished(s)
  PROVE  /\ r \in Server /\ Settings(s, r)
         /\ r.out = IF s.sent_capend THEN s.out ELSE Append(s.out, [cmd |-> "END"])
         /\ r.sasl_mech = s.sasl_mech /\ r.have = s.have /\ r.sent_capend
         /\ ~r.waiting_on_sasl
         /\ r.scram_session = s.scram_session /\ r.refreshing = s.refreshing
<1> DEFINE no == FALSE  t == [s EXCEPT !.waiting_on_sasl = no]
<1>y. no \in BOOLEAN /\ ~no OBVIOUS
<1>r. r = cap_end_once(t) BY DEF sasl_finished
<1> HIDE DEF no
<1>1. t \in Server BY <1>y DEF Server
<1>2. /\ t.out = s.out /\ t.connected = s.connected
      /\ t.ssl = s.ssl /\ t.loginmethod = s.loginmethod
      /\ t.late = s.late /\ t.needless = s.needless /\ t.sts_upgrade_port = s.sts_upgrade_port
      /\ t.sasl_mech = s.sasl_mech /\ t.have = s.have /\ t.sent_capend = s.sent_capend
      /\ t.waiting_on_sasl = no
      /\ t.scram_session = s.scram_session /\ t.refreshing = s.refreshing
  BY DEF Server
<1> HIDE DEF t
<1>3. CASE s.sent_capend
  <2>1. r = t BY <1>2, <1>3, <1>r DEF cap_end_once
  <2> QED BY <2>1, <1>1, <1>2, <1>3, <1>y DEF Settings, Fixed
<1>4. CASE ~s.sent_capend
  <2>1. r = cap_end(t) BY <1>2, <1>4, <1>r DEF cap_end_once
  <2>2. /\ r \in Server /\ r.out = Append(t.out, [cmd |-> "END"]) /\ Settings(t, r)
        /\ r.sasl_mech = t.sasl_mech /\ r.have = t.have /\ r.sent_capend
        /\ r.waiting_on_sasl = t.waiting_on_sasl
        /\ r.scram_session = t.scram_session /\ r.refreshing = t.refreshing
    BY <2>1, <1>1, <1>2, CapEndFields
  <2> QED BY <2>2, <1>2, <1>4, <1>y DEF Settings, Fixed
<1> QED BY <1>3, <1>4

LEMMA ErrorFields ==
  ASSUME NEW s \in Server, s.connected, NEW r, r = inbound_sasl_error(s)
  PROVE  /\ r \in Server /\ Settings(s, r)
         /\ r.out = Append(s.out, [cmd |-> "AUTH", arg |-> "*"])
         /\ r.sasl_mech = s.sasl_mech /\ r.have = s.have /\ r.sent_capend = s.sent_capend
         /\ r.waiting_on_sasl = s.waiting_on_sasl
         /\ r.scram_session = 0 /\ r.refreshing = s.refreshing
<1> DEFINE t == [s EXCEPT !.scram_session = 0]
<1>r. r = Send(t, [cmd |-> "AUTH", arg |-> "*"]) BY DEF inbound_sasl_error, SendAuth
<1>1. t \in Server BY DEF Server
<1>2. /\ t.out = s.out /\ t.connected = s.connected
      /\ t.ssl = s.ssl /\ t.loginmethod = s.loginmethod
      /\ t.late = s.late /\ t.needless = s.needless /\ t.sts_upgrade_port = s.sts_upgrade_port
      /\ t.sasl_mech = s.sasl_mech /\ t.have = s.have /\ t.sent_capend = s.sent_capend
      /\ t.waiting_on_sasl = s.waiting_on_sasl
      /\ t.scram_session = 0 /\ t.refreshing = s.refreshing
  BY DEF Server
<1> HIDE DEF t
<1>3. [cmd |-> "AUTH", arg |-> "*"] \in Command BY PayloadKind
<1>4. /\ r \in Server /\ r.out = Append(t.out, [cmd |-> "AUTH", arg |-> "*"]) /\ Settings(t, r)
      /\ r.sasl_mech = t.sasl_mech /\ r.have = t.have /\ r.sent_capend = t.sent_capend
      /\ r.waiting_on_sasl = t.waiting_on_sasl
      /\ r.scram_session = t.scram_session /\ r.refreshing = t.refreshing
  BY <1>1, <1>2, <1>3, <1>r, SendFields, ZenonT(60)
<1> QED BY <1>2, <1>4 DEF Settings, Fixed

(* What a challenge is answered with; n is the session after it. *)
AnswersWith(s, r, m, n) ==
    /\ r \in Server /\ Settings(s, r) /\ r.out = Append(s.out, m)
    /\ r.sasl_mech = s.sasl_mech /\ r.have = s.have /\ r.sent_capend = s.sent_capend
    /\ r.waiting_on_sasl = s.waiting_on_sasl /\ r.refreshing = s.refreshing
    /\ r.scram_session = n

Session(s, n) == [s EXCEPT !.scram_session = n]

LEMMA SessionFields ==
  ASSUME NEW s \in Server, s.connected, NEW n \in 0..2, NEW arg \in {"data", "+", "*"},
         NEW r, r = SendAuth(Session(s, n), arg)
  PROVE  AnswersWith(s, r, [cmd |-> "AUTH", arg |-> arg], n)
<1> DEFINE t == [s EXCEPT !.scram_session = n]  m == [cmd |-> "AUTH", arg |-> arg]
<1>r. r = Send(t, m) BY DEF SendAuth, Session
<1>1. t \in Server BY DEF Server
<1>2. /\ t.out = s.out /\ t.connected = s.connected
      /\ t.ssl = s.ssl /\ t.loginmethod = s.loginmethod
      /\ t.late = s.late /\ t.needless = s.needless /\ t.sts_upgrade_port = s.sts_upgrade_port
      /\ t.sasl_mech = s.sasl_mech /\ t.have = s.have /\ t.sent_capend = s.sent_capend
      /\ t.waiting_on_sasl = s.waiting_on_sasl
      /\ t.scram_session = n /\ t.refreshing = s.refreshing
  BY DEF Server
<1> HIDE DEF t
<1>3. m \in Command BY PayloadKind
<1>4. /\ r \in Server /\ r.out = Append(t.out, m) /\ Settings(t, r)
      /\ r.sasl_mech = t.sasl_mech /\ r.have = t.have /\ r.sent_capend = t.sent_capend
      /\ r.waiting_on_sasl = t.waiting_on_sasl
      /\ r.scram_session = t.scram_session /\ r.refreshing = t.refreshing
  BY <1>1, <1>2, <1>3, <1>r, SendFields, ZenonT(60)
<1> QED BY <1>2, <1>4 DEF Settings, Fixed, AnswersWith

(* The answer to a challenge, mechanism by mechanism. *)
LEMMA AuthenticateFields ==
  ASSUME NEW s \in Server, s.connected, NEW challenge, NEW ok \in BOOLEAN,
         NEW r, r = sasl_authenticate(s, challenge, ok)
  PROVE  \E arg \in {"data", "+", "*"}, n \in 0..2 :
           /\ AnswersWith(s, r, [cmd |-> "AUTH", arg |-> arg], n)
           /\ \/ s.sasl_mech = "EXTERNAL" /\ arg = "+" /\ n = s.scram_session
              \/ s.sasl_mech \notin {"EXTERNAL", "SCRAM"} /\ arg # "+" /\ n = s.scram_session
              \/ s.sasl_mech = "SCRAM" /\ s.scram_session = 0 /\ arg = "data" /\ n = 1
              \/ /\ s.sasl_mech = "SCRAM" /\ s.scram_session = 1 /\ challenge = "server-first"
                 /\ arg = "data" /\ n = 2
              \/ s.sasl_mech = "SCRAM" /\ arg # "data" /\ n = 0
<1>t. s.scram_session \in 0..2 BY ServerTyped
<1>n. 0 \in 0..2 /\ 1 \in 0..2 /\ 2 \in 0..2 OBVIOUS
<1>s. Session(s, s.scram_session) = s BY DEF Server, Session
<1>1. CASE s.sasl_mech = "EXTERNAL"
  <2>1. r = SendAuth(Session(s, s.scram_session), "+") BY <1>1, <1>s DEF sasl_authenticate
  <2>2. AnswersWith(s, r, [cmd |-> "AUTH", arg |-> "+"], s.scram_session)
    BY <2>1, <1>t, SessionFields
  <2> QED BY <1>1, <2>2, <1>t
<1>2. CASE s.sasl_mech \notin {"EXTERNAL", "SCRAM"}
  <2> DEFINE a == IF ok THEN "data" ELSE "*"
  <2>1. a \in {"data", "+", "*"} /\ a # "+" OBVIOUS
  <2>2. r = SendAuth(Session(s, s.scram_session), a) BY <1>2, <1>s DEF sasl_authenticate
  <2> HIDE DEF a
  <2>3. AnswersWith(s, r, [cmd |-> "AUTH", arg |-> a], s.scram_session)
    BY <2>1, <2>2, <1>t, SessionFields
  <2> QED BY <1>2, <2>1, <2>3, <1>t
<1>3. CASE s.sasl_mech = "SCRAM"
  <2> DEFINE P == s.scram_session = 0 /\ ok
             Q == s.scram_session = 1 /\ ok /\ challenge = "server-first"
             R == s.scram_session = 2 /\ ok /\ challenge = "server-final"
             X == SendAuth(Session(s, 1), "data")
             Y == SendAuth(Session(s, 2), "data")
             Z == SendAuth(Session(s, 0), "+")
             W == SendAuth(Session(s, 0), "*")
  <2>1. r = scram_authenticate(s, challenge, ok) BY <1>3 DEF sasl_authenticate
  <2>2. r = (CASE P -> X [] Q -> Y [] R -> Z [] OTHER -> W)
    BY <2>1, Zenon DEF scram_authenticate, Session
  <2>x. AnswersWith(s, X, [cmd |-> "AUTH", arg |-> "data"], 1) BY <1>n, SessionFields
  <2>y. AnswersWith(s, Y, [cmd |-> "AUTH", arg |-> "data"], 2) BY <1>n, SessionFields
  <2>z. AnswersWith(s, Z, [cmd |-> "AUTH", arg |-> "+"], 0) BY <1>n, SessionFields
  <2>w. AnswersWith(s, W, [cmd |-> "AUTH", arg |-> "*"], 0) BY <1>n, SessionFields
  <2>3. (P => ~Q /\ ~R) /\ (Q => ~R) OBVIOUS
  <2>4. (P => s.scram_session = 0) /\ (Q => s.scram_session = 1 /\ challenge = "server-first")
    OBVIOUS
  <2> HIDE DEF P, Q, R, X, Y, Z, W
  <2>5. CASE P
    <3>1. r = X BY <2>5, <2>2, <2>3
    <3> QED BY <3>1, <2>x, <2>4, <2>5, <1>3, <1>n
  <2>6. CASE Q
    <3>1. r = Y BY <2>6, <2>2, <2>3
    <3> QED BY <3>1, <2>y, <2>4, <2>6, <1>3, <1>n
  <2>7. CASE R
    <3>1. r = Z BY <2>7, <2>2, <2>3
    <3> QED BY <3>1, <2>z, <1>3, <1>n
  <2>8. CASE ~P /\ ~Q /\ ~R
    <3>1. r = W BY <2>8, <2>2
    <3> QED BY <3>1, <2>w, <1>3, <1>n
  <2> QED BY <2>5, <2>6, <2>7, <2>8
<1> QED BY <1>1, <1>2, <1>3

LEMMA LsFields ==
  ASSUME NEW s \in Server, s.connected, NEW line \in Reply, line.cmd = "LS",
         NEW r, r = cap_ls_request(s, line),
         NEW wants, wants = wants_sasl(s, line),
         NEW wanted, wanted = (IF wants THEN line.caps ELSE line.caps \ {"sasl"})
  PROVE  /\ r \in Server /\ Fixed(s, r) /\ wanted \in SUBSET Caps
         /\ r.out = IF wanted = {} THEN s.out ELSE Append(s.out, [cmd |-> "REQ", caps |-> wanted])
         /\ r.have = s.have /\ r.sent_capend = s.sent_capend /\ r.refreshing = s.refreshing
         /\ r.scram_session = s.scram_session
         /\ r.sasl_mech \in {s.sasl_mech, s.loginmethod} /\ (~wants => r.sasl_mech = s.sasl_mech)
         /\ r.waiting_on_cap = line.more
         /\ r.waiting_on_sasl <=> s.waiting_on_sasl \/ wants
         /\ r.sts_upgrade_port <=> s.sts_upgrade_port \/ (line.sts /\ ~s.ssl)
<1> DEFINE mech == IF wants /\ line.mechs = "listed" THEN s.loginmethod ELSE s.sasl_mech
           ws == s.waiting_on_sasl \/ wants
           po == s.policy \/ line.sts
           up == s.sts_upgrade_port \/ (line.sts /\ ~s.ssl)
           t == [s EXCEPT !.waiting_on_cap = line.more, !.sasl_mech = mech,
                          !.waiting_on_sasl = ws, !.policy = po, !.sts_upgrade_port = up]
           m == [cmd |-> "REQ", caps |-> wanted]
<1>w. wants \in BOOLEAN /\ (wants => s.loginmethod # "none") BY DEF wants_sasl
<1>l. line.more \in BOOLEAN /\ line.caps \subseteq Caps /\ line.sts \in BOOLEAN BY ReplyFields
<1>c. wanted \in SUBSET Caps BY <1>l
<1>v. mech \in Mechs /\ ws \in BOOLEAN /\ po \in BOOLEAN /\ up \in BOOLEAN
  BY <1>w, <1>l, ServerTyped DEF Mechs
<1>m. mech \in {s.sasl_mech, s.loginmethod} /\ (~wants => mech = s.sasl_mech) OBVIOUS
<1>r. r = IF wanted = {} THEN t ELSE Send(t, m) BY Zenon DEF cap_ls_request
<1>b. (ws <=> s.waiting_on_sasl \/ wants) /\ (up <=> s.sts_upgrade_port \/ (line.sts /\ ~s.ssl))
  OBVIOUS
<1> HIDE DEF mech, ws, po, up
<1>1. t \in Server BY <1>v, <1>l DEF Server
<1>2. /\ t.out = s.out /\ t.connected = s.connected
      /\ t.ssl = s.ssl /\ t.loginmethod = s.loginmethod
      /\ t.late = s.late /\ t.needless = s.needless /\ t.sts_upgrade_port = up
      /\ t.sasl_mech = mech /\ t.have = s.have /\ t.sent_capend = s.sent_capend
      /\ t.waiting_on_cap = line.more /\ t.waiting_on_sasl = ws
      /\ t.scram_session = s.scram_session /\ t.refreshing = s.refreshing
  BY DEF Server
<1> HIDE DEF t
<1>3. CASE wanted = {}
  <2>1. r = t BY <1>3, <1>r
  <2> QED BY <2>1, <1>1, <1>2, <1>3, <1>m, <1>b, <1>c DEF Fixed
<1>4. CASE wanted # {}
  <2>1. r = Send(t, m) /\ m \in Command BY <1>4, <1>r, <1>c, Lines
  <2>2. /\ r \in Server /\ r.out = Append(t.out, m) /\ Settings(t, r)
        /\ r.sasl_mech = t.sasl_mech /\ r.have = t.have /\ r.sent_capend = t.sent_capend
        /\ r.waiting_on_cap = t.waiting_on_cap /\ r.waiting_on_sasl = t.waiting_on_sasl
        /\ r.scram_session = t.scram_session /\ r.refreshing = t.refreshing
    BY <2>1, <1>1, <1>2, SendFields, ZenonT(60)
  <2> QED BY <2>2, <1>2, <1>4, <1>m, <1>b, <1>c DEF Settings, Fixed
<1> QED BY <1>3, <1>4

LEMMA AckFields ==
  ASSUME NEW s \in Server, s.connected, NEW caps \in SUBSET Caps, NEW r, r = toggle_ack(s, caps)
  PROVE  /\ r \in Server /\ Settings(s, r) /\ r.have = s.have \cup caps
         /\ "sasl" \notin caps => r.out = s.out /\ r.sasl_mech = s.sasl_mech
         /\ "sasl" \in caps => /\ r.out = Append(s.out, [cmd |-> "AUTH", arg |-> r.sasl_mech])
                               /\ r.sasl_mech \in {s.sasl_mech, s.loginmethod}
         /\ r.sent_capend = s.sent_capend /\ r.refreshing = s.refreshing
         /\ r.scram_session = s.scram_session /\ r.waiting_on_sasl = s.waiting_on_sasl
<1> DEFINE mech == IF s.loginmethod = "none" THEN s.sasl_mech ELSE s.loginmethod
           h == s.have \cup caps
           t == [s EXCEPT !.have = h]
           u == [t EXCEPT !.sasl_mech = mech]
<1>m. mech \in Mechs /\ mech \in {s.sasl_mech, s.loginmethod} BY ServerTyped DEF Mechs
<1>h. h \in SUBSET Caps BY ServerTyped
<1>r. r = IF "sasl" \in caps THEN Send(u, [cmd |-> "AUTH", arg |-> mech]) ELSE t
  BY Zenon DEF toggle_ack, SendAuth
<1> HIDE DEF mech, h
<1>1. t \in Server BY <1>h DEF Server
<1>2. /\ t.out = s.out /\ t.connected = s.connected
      /\ t.ssl = s.ssl /\ t.loginmethod = s.loginmethod
      /\ t.late = s.late /\ t.needless = s.needless /\ t.sts_upgrade_port = s.sts_upgrade_port
      /\ t.sasl_mech = s.sasl_mech /\ t.have = h /\ t.sent_capend = s.sent_capend
      /\ t.waiting_on_sasl = s.waiting_on_sasl
      /\ t.scram_session = s.scram_session /\ t.refreshing = s.refreshing
  BY DEF Server
<1> HIDE DEF t
<1>3. u \in Server BY <1>1, <1>m DEF Server
<1>4. /\ u.out = t.out /\ u.connected = t.connected
      /\ u.ssl = t.ssl /\ u.loginmethod = t.loginmethod
      /\ u.late = t.late /\ u.needless = t.needless /\ u.sts_upgrade_port = t.sts_upgrade_port
      /\ u.sasl_mech = mech /\ u.have = t.have /\ u.sent_capend = t.sent_capend
      /\ u.waiting_on_sasl = t.waiting_on_sasl
      /\ u.scram_session = t.scram_session /\ u.refreshing = t.refreshing
  BY <1>1 DEF Server
<1> HIDE DEF u
<1>5. CASE "sasl" \notin caps
  <2>1. r = t BY <1>5, <1>r
  <2> QED BY <2>1, <1>1, <1>2, <1>5 DEF Settings, Fixed, h
<1>6. CASE "sasl" \in caps
  <2> DEFINE m == [cmd |-> "AUTH", arg |-> mech]
  <2>1. r = Send(u, m) /\ m \in Command BY <1>6, <1>r, <1>m, MechKind
  <2>2. /\ r \in Server /\ r.out = Append(u.out, m) /\ Settings(u, r)
        /\ r.sasl_mech = u.sasl_mech /\ r.have = u.have /\ r.sent_capend = u.sent_capend
        /\ r.waiting_on_sasl = u.waiting_on_sasl
        /\ r.scram_session = u.scram_session /\ r.refreshing = u.refreshing
    BY <2>1, <1>2, <1>3, <1>4, SendFields, ZenonT(60)
  <2>3. r.sasl_mech = mech BY <2>2, <1>4
  <2> QED BY <2>2, <2>3, <1>2, <1>4, <1>6, <1>m DEF Settings, Fixed, h
<1> QED BY <1>5, <1>6

(* What inbound_cap_del makes of the record. *)
del(s, caps) == [s EXCEPT !.have = @ \ caps]

LEMMA DelFields ==
  ASSUME NEW s \in Server, NEW caps, NEW r, r = del(s, caps)
  PROVE  /\ r \in Server /\ Settings(s, r) /\ r.have = s.have \ caps /\ r.out = s.out
         /\ r.sasl_mech = s.sasl_mech /\ r.sent_capend = s.sent_capend
         /\ r.refreshing = s.refreshing /\ r.scram_session = s.scram_session
         /\ r.waiting_on_sasl = s.waiting_on_sasl
<1> DEFINE h == s.have \ caps
<1>1. h \in SUBSET Caps BY ServerTyped
<1>2. r = [s EXCEPT !.have = h] BY DEF del
<1> HIDE DEF h
<1>3. r \in Server BY <1>1, <1>2 DEF Server
<1>4. /\ r.out = s.out /\ r.connected = s.connected
      /\ r.ssl = s.ssl /\ r.loginmethod = s.loginmethod
      /\ r.late = s.late /\ r.needless = s.needless /\ r.sts_upgrade_port = s.sts_upgrade_port
      /\ r.sasl_mech = s.sasl_mech /\ r.have = h /\ r.sent_capend = s.sent_capend
      /\ r.waiting_on_sasl = s.waiting_on_sasl
      /\ r.scram_session = s.scram_session /\ r.refreshing = s.refreshing
  BY <1>2 DEF Server
<1> QED BY <1>3, <1>4 DEF Settings, Fixed, h

LEMMA NakFields ==
  ASSUME NEW s \in Server, NEW caps, NEW r, r = nak(s, caps)
  PROVE  /\ r \in Server /\ Settings(s, r) /\ r.have = s.have /\ r.out = s.out
         /\ r.sasl_mech = s.sasl_mech /\ r.sent_capend = s.sent_capend
         /\ r.refreshing = s.refreshing /\ r.scram_session = s.scram_session
         /\ r.waiting_on_sasl <=> s.waiting_on_sasl /\ "sasl" \notin caps
<1>1. CASE "sasl" \notin caps
  <2>1. r = s BY <1>1 DEF nak
  <2> QED BY <1>1, <2>1 DEF Settings, Fixed
<1>2. CASE "sasl" \in caps
  <2> DEFINE no == FALSE
  <2>0. no \in BOOLEAN /\ ~no OBVIOUS
  <2>1. r = [s EXCEPT !.waiting_on_sasl = no] BY <1>2 DEF nak
  <2> HIDE DEF no
  <2>2. r \in Server BY <2>0, <2>1 DEF Server
  <2>3. /\ r.out = s.out /\ r.connected = s.connected /\ r.ssl = s.ssl
        /\ r.loginmethod = s.loginmethod
        /\ r.late = s.late /\ r.needless = s.needless /\ r.sts_upgrade_port = s.sts_upgrade_port
        /\ r.sasl_mech = s.sasl_mech /\ r.have = s.have /\ r.sent_capend = s.sent_capend
        /\ r.waiting_on_sasl = no
        /\ r.scram_session = s.scram_session /\ r.refreshing = s.refreshing
    BY <2>1 DEF Server
  <2> QED BY <1>2, <2>0, <2>2, <2>3 DEF Settings, Fixed
<1> QED BY <1>1, <1>2

LEMMA DisconnectFields ==
  ASSUME NEW s \in Server, NEW r, r = disconnect(s)
  PROVE  /\ r \in Server /\ ~r.connected /\ r.out = <<>> /\ ~r.refreshing
         /\ r.late = IF s.refreshing THEN s.late + 1 ELSE s.late
         /\ r.ssl = s.ssl /\ r.loginmethod = s.loginmethod /\ r.needless = s.needless
         /\ r.sts_upgrade_port = s.sts_upgrade_port /\ r.policy = s.policy
         /\ r.sasl_mech = s.sasl_mech /\ r.have = s.have
         /\ r.waiting_on_sasl = s.waiting_on_sasl /\ r.scram_session = s.scram_session
<1> DEFINE no == FALSE  e == <<>>  l == IF s.refreshing THEN s.late + 1 ELSE s.late
<1>1. no \in BOOLEAN /\ ~no /\ e \in Seq(Command) /\ l \in Nat BY ServerTyped, EmptySeq
<1>2. r = [s EXCEPT !.connected = no, !.out = e, !.refreshing = no, !.late = l]
  BY DEF disconnect
<1> HIDE DEF no, e, l
<1>3. r \in Server BY <1>1, <1>2 DEF Server
<1>4. /\ r.out = e /\ r.connected = no /\ r.ssl = s.ssl /\ r.loginmethod = s.loginmethod
      /\ r.late = l /\ r.needless = s.needless /\ r.sts_upgrade_port = s.sts_upgrade_port
      /\ r.policy = s.policy /\ r.sasl_mech = s.sasl_mech /\ r.have = s.have
      /\ r.waiting_on_sasl = s.waiting_on_sasl
      /\ r.scram_session = s.scram_session /\ r.refreshing = no
  BY <1>2 DEF Server
<1> QED BY <1>1, <1>3, <1>4 DEF e, l

(* A new connection. *)
LEMMA ConnectFields ==
  ASSUME NEW s \in Server, NEW use_ssl \in BOOLEAN, NEW r, r = connect(s, use_ssl)
  PROVE  /\ r \in Server /\ r.connected /\ r.out = <<[cmd |-> "LS"]>>
         /\ r.have = s.have \ ClearedCaps /\ r.sasl_mech = "PLAIN" /\ ~r.sent_capend
         /\ r.scram_session = 0 /\ r.refreshing = s.refreshing /\ r.late = s.late
         /\ r.loginmethod = s.loginmethod /\ r.needless = s.needless
         /\ r.sts_upgrade_port = s.sts_upgrade_port /\ r.waiting_on_sasl = s.waiting_on_sasl
<1> DEFINE no == FALSE  yes == TRUE  e == <<>>  l == use_ssl \/ s.policy  m == "PLAIN"  z == 0
           h == s.have \ ClearedCaps
           t == [s EXCEPT !.sasl_mech = m, !.sent_capend = no, !.scram_session = z,
                          !.oauth_refresh_attempted = no, !.have = h]
           u == [t EXCEPT !.connected = yes, !.ssl = l, !.out = e]
           v == [u EXCEPT !.sent_capend = no]
<1>1. /\ no \in BOOLEAN /\ ~no /\ yes \in BOOLEAN /\ yes /\ e \in Seq(Command) /\ l \in BOOLEAN
      /\ m \in Mechs /\ h \in SUBSET Caps /\ z \in 0..2
  BY ServerTyped, EmptySeq DEF Mechs, AllLogins
<1>p. t.policy = s.policy BY DEF Server
<1>2. r = Send(v, [cmd |-> "LS"])
  BY <1>p DEF connect, irc_login, server_set_defaults
<1>e. Append(e, [cmd |-> "LS"]) = <<[cmd |-> "LS"]>> OBVIOUS
<1>m. m = "PLAIN" /\ z = 0 OBVIOUS
<1> HIDE DEF no, yes, e, l, h, m, z
<1>3. t \in Server BY <1>1 DEF Server
<1>4. /\ t.loginmethod = s.loginmethod /\ t.refreshing = s.refreshing
      /\ t.late = s.late /\ t.needless = s.needless /\ t.sts_upgrade_port = s.sts_upgrade_port
      /\ t.sasl_mech = m /\ t.have = h /\ t.waiting_on_sasl = s.waiting_on_sasl
      /\ t.scram_session = z
  BY <1>1 DEF Server
<1> HIDE DEF t
<1>5. u \in Server BY <1>1, <1>3 DEF Server
<1>6. /\ u.out = e /\ u.connected = yes /\ u.loginmethod = t.loginmethod
      /\ u.refreshing = t.refreshing
      /\ u.late = t.late /\ u.needless = t.needless /\ u.sts_upgrade_port = t.sts_upgrade_port
      /\ u.sasl_mech = t.sasl_mech /\ u.have = t.have /\ u.waiting_on_sasl = t.waiting_on_sasl
      /\ u.scram_session = t.scram_session
  BY <1>1, <1>3 DEF Server
<1> HIDE DEF u
<1>7. v \in Server BY <1>1, <1>5 DEF Server
<1>8. /\ v.out = u.out /\ v.connected = u.connected /\ v.loginmethod = u.loginmethod
      /\ v.refreshing = u.refreshing /\ v.sent_capend = no
      /\ v.late = u.late /\ v.needless = u.needless /\ v.sts_upgrade_port = u.sts_upgrade_port
      /\ v.sasl_mech = u.sasl_mech /\ v.have = u.have /\ v.waiting_on_sasl = u.waiting_on_sasl
      /\ v.scram_session = u.scram_session
  BY <1>1, <1>5 DEF Server
<1> HIDE DEF v
<1>9. v.connected BY <1>1, <1>6, <1>8
<1>10. /\ r \in Server /\ r.out = Append(v.out, [cmd |-> "LS"]) /\ Settings(v, r)
       /\ r.sasl_mech = v.sasl_mech /\ r.have = v.have /\ r.sent_capend = v.sent_capend
       /\ r.waiting_on_sasl = v.waiting_on_sasl
       /\ r.scram_session = v.scram_session /\ r.refreshing = v.refreshing
  BY <1>2, <1>7, <1>9, Lines, SendFields
<1>11. /\ r.out = <<[cmd |-> "LS"]>> /\ r.have = s.have \ ClearedCaps /\ r.sasl_mech = "PLAIN"
  BY <1>10, <1>8, <1>6, <1>4, <1>e, <1>m DEF h
<1> QED BY <1>1, <1>4, <1>6, <1>8, <1>9, <1>10, <1>11, <1>m, ZenonT(60) DEF Settings, Fixed

-----------------------------------------------------------------------------
(* A new connection starts with the invariant, whatever was before.  *)

LEMMA FreshNow ==
  ASSUME NEW r \in Server, r.connected, r.out = <<[cmd |-> "LS"]>>,
         r.have \cap ClearedCaps = {}, ~r.sent_capend, r.scram_session = 0, ~r.refreshing,
         NEW offer \in Offer, NEW f
  PROVE  Now(<<>>, r, Welcome(offer), f)
<1> DEFINE d == Welcome(offer)  ls == [cmd |-> "LS"]
<1>d. d.enabled = {} /\ ~d.registered /\ d.sasl = 0 /\ d.offer = offer BY DEF Welcome
<1>l. /\ ls \in Command /\ ls \in LsCommands /\ ls \notin Payloads /\ ls \in OpensOut
      /\ ls \notin Ends /\ ls \in ToExchange /\ ls.cmd = "LS"
  BY Lines DEF LsCommands, Payloads, OpensOut, Ends, ToExchange
<1> HIDE DEF d, ls
<1>o. r.out = <<ls>> BY DEF ls
<1>1. Flags(<<>>, r, d)
  <2>1. \A c \in Caps \cap ClearedCaps : c \notin r.have OBVIOUS
  <2> QED BY <2>1, <1>d DEF Flags
<1>2. Registering(<<>>, r, d)
  <2>1. One(<<>>, OpensIn, r.out, OpensOut) BY <1>o, FreeEmpty, FreeSingle DEF One
  <2>2. Free(r.out, Payloads) /\ Free(<<>>, Answers) BY <1>o, <1>l, FreeEmpty, FreeSingle
  <2>3. Free(<<>>, OpensIn \ LsLines) /\ Free(r.out, OpensOut \ LsCommands)
    BY <1>o, <1>l, FreeEmpty, FreeSingle
  <2>4. Opening(<<>>, r, d) BY <2>1, <2>2, <2>3, <1>d DEF Opening
  <2>5. Exchanging(<<>>, r, d) BY <1>d DEF Exchanging
  <2>6. Asking(<<>>, r, d) BY <1>d, FreeEmpty DEF Asking, LsFirst
  <2>7. Ending(r) BY <1>o, <1>l, FreeSingle DEF Ending
  <2> QED BY <2>4, <2>5, <2>6, <2>7 DEF Registering
<1>3. InStep(<<>>, r, d)
  <2>1. One(<<>>, OfExchange, r.out, ToExchange) BY <1>o, FreeEmpty, FreeSingle DEF One
  <2>2. Rest(r, d) BY <1>d DEF Rest
  <2>3. AtOut(ls, r, d) BY <2>2, <1>l DEF AtOut
  <2>4. \A i \in 1..Len(r.out) : r.out[i] = ls BY <1>o
  <2>5. \A i \in 1..Len(r.out) : r.out[i] \in ToExchange => AtOut(r.out[i], r, d)
    BY <2>3, <2>4
  <2> QED BY <2>1, <2>2, <2>5 DEF InStep
<1>4. Plain(<<>>, r, d)
  <2>1. Free(r.out, Ends) BY <1>o, <1>l, FreeSingle
  <2> QED BY <2>1, <1>d, FreeEmpty DEF Plain
<1> QED BY <1>1, <1>2, <1>3, <1>4 DEF Now, d

-----------------------------------------------------------------------------
(* Registering, when a line is read and when lines are written.  *)

LEMMA LsFirstFree == ASSUME NEW q, Free(q, LsLines) PROVE LsFirst(q)
BY DEF Free, LsFirst

LEMMA LsFirstTail ==
  ASSUME NEW q \in Seq(Reply), q # <<>>, LsFirst(q)
  PROVE  /\ LsFirst(Tail(q))
         /\ Head(q) \notin LsLines \/ ~Head(q).more => Free(Tail(q), LsLines)
<1> DEFINE l == Len(q)  r == Tail(q)  k == Len(Tail(q))
<1>1. /\ l \in Nat \ {0} /\ k = l - 1 /\ Head(q) = q[1]
      /\ \A i \in 1..k : i + 1 \in 1..l /\ r[i] = q[i + 1]
  BY TailFacts
<1>2. \A i \in 1..l : q[i] \in LsLines =>
        \A j \in 1..l : j < i => q[j] \in LsLines /\ q[j].more
  BY DEF LsFirst
<1> SUFFICES /\ \A i \in 1..k : r[i] \in LsLines =>
                  \A j \in 1..k : j < i => r[j] \in LsLines /\ r[j].more
             /\ q[1] \notin LsLines \/ ~q[1].more => \A i \in 1..k : r[i] \notin LsLines
    BY <1>1 DEF LsFirst, Free
<1> HIDE DEF l, r, k
<1>3. ASSUME NEW i \in 1..k, r[i] \in LsLines, NEW j \in 1..k, j < i
      PROVE  r[j] \in LsLines /\ r[j].more
  <2>1. i + 1 \in 1..l /\ j + 1 \in 1..l /\ j + 1 < i + 1 BY <1>1, <1>3
  <2> QED BY <2>1, <1>1, <1>2, <1>3
<1>4. ASSUME NEW i \in 1..k, r[i] \in LsLines PROVE q[1] \in LsLines /\ q[1].more
  <2>1. i + 1 \in 1..l /\ 1 \in 1..l /\ 1 < i + 1 BY <1>1
  <2> QED BY <2>1, <1>1, <1>2, <1>4
<1> QED BY <1>3, <1>4

LEMMA LsFirstAppend ==
  ASSUME NEW q \in Seq(Reply), LsFirst(q), NEW a \in Reply, a \notin LsLines
  PROVE  LsFirst(Append(q, a))
<1> DEFINE l == Len(q)  r == Append(q, a)  k == Len(r)
<1>1. /\ l \in Nat /\ k = l + 1 /\ \A i \in 1..l : r[i] = q[i] /\ r[l + 1] = a
      /\ \A i \in 1..k : i \in 1..l \/ i = l + 1
  BY AppendFacts
<1>e. r[l + 1] = a BY AppendFacts
<1>2. \A i \in 1..l : q[i] \in LsLines =>
        \A j \in 1..l : j < i => q[j] \in LsLines /\ q[j].more
  BY DEF LsFirst
<1> SUFFICES \A i \in 1..k : r[i] \in LsLines =>
               \A j \in 1..k : j < i => r[j] \in LsLines /\ r[j].more
    BY DEF LsFirst
<1> HIDE DEF l, r, k
<1> SUFFICES ASSUME NEW i \in 1..k, r[i] \in LsLines, NEW j \in 1..k, j < i
             PROVE  r[j] \in LsLines /\ r[j].more
    OBVIOUS
<1>3. i \in 1..l BY <1>1, <1>e
<1>4. j \in 1..l BY <1>1, <1>3
<1> QED BY <1>1, <1>2, <1>3, <1>4

LEMMA RegisteringTail ==
  ASSUME NEW q \in Seq(Reply), q # <<>>, NEW s \in Server, NEW d, Registering(q, s, d)
  PROVE  Registering(Tail(q), s, d)
<1> DEFINE t == Tail(q)
<1>1. Opening(q, s, d) /\ Exchanging(q, s, d) /\ Asking(q, s, d) /\ Ending(s) BY DEF Registering
<1>2. One(q, OpensIn, s.out, OpensOut) => One(t, OpensIn, s.out, OpensOut) BY OneTail
<1>3. NoOpening(q, s) => NoOpening(t, s) BY OneTail DEF NoOpening
<1>4. \A A : Free(q, A) => Free(t, A) BY FreeTail
<1>5. LsFirst(t) BY <1>1, LsFirstTail DEF Asking
<1> HIDE DEF t
<1>6. Opening(t, s, d) BY <1>1, <1>2, <1>3, <1>4 DEF Opening
<1>7. Exchanging(t, s, d) BY <1>1, <1>3, <1>4 DEF Exchanging
<1>8. Asking(t, s, d) BY <1>1, <1>4, <1>5 DEF Asking
<1> QED BY <1>1, <1>6, <1>7, <1>8 DEF Registering, t

(* What reading a line tells of the rest. *)
LEMMA HeadRegisters ==
  ASSUME NEW q \in Seq(Reply), q # <<>>, NEW s \in Server, NEW d, Registering(q, s, d)
  PROVE  /\ Free(s.out, LsCommands)
         /\ Head(q) \in OpensIn => /\ NoOpening(Tail(q), s) /\ ~s.sent_capend /\ ~s.refreshing
                                   /\ d.sasl = 0 /\ Free(Tail(q), Answers) /\ Free(s.out, Payloads)
                                   /\ Head(q) \in LsLines \/ s.waiting_on_sasl
         /\ Head(q) \in Answers => NoOpening(Tail(q), s)
         /\ Head(q) \in Finals => ~(d.sasl > 0)
         /\ Head(q) \notin LsLines => Free(Tail(q), LsLines)
<1>1. Opening(q, s, d) /\ Exchanging(q, s, d) /\ Asking(q, s, d) /\ Ending(s) BY DEF Registering
<1>2. Free(s.out, LsCommands) BY <1>1 DEF Asking
<1>3. \A A : Free(q, A) <=> Head(q) \notin A /\ Free(Tail(q), A) BY FreeTail
<1>4. /\ NoOpening(q, s) <=> Head(q) \notin OpensIn /\ NoOpening(Tail(q), s)
      /\ One(q, OpensIn, s.out, OpensOut) /\ Head(q) \in OpensIn => NoOpening(Tail(q), s)
  BY OneTail DEF NoOpening
<1>5. Head(q) \in OpensIn => /\ NoOpening(Tail(q), s) /\ ~s.sent_capend /\ ~s.refreshing
                             /\ d.sasl = 0 /\ Free(Tail(q), Answers) /\ Free(s.out, Payloads)
                             /\ Head(q) \in LsLines \/ s.waiting_on_sasl
  BY <1>1, <1>3, <1>4 DEF Opening
<1>6. Head(q) \in Answers => NoOpening(Tail(q), s) BY <1>1, <1>3, <1>4 DEF Opening
<1>7. Head(q) \in Finals => ~(d.sasl > 0) BY <1>1, <1>3 DEF Exchanging
<1>8. Head(q) \notin LsLines => Free(Tail(q), LsLines) BY <1>1, LsFirstTail DEF Asking
<1> QED BY <1>2, <1>5, <1>6, <1>7, <1>8

(* Nothing leads to an exchange and none is running. *)
Done(q, s, d) ==
    /\ NoOpening(q, s) /\ ~(d.sasl > 0) /\ Ending(s)
    /\ Free(q, LsLines) /\ Free(s.out, LsCommands)

LEMMA DoneRegisters ==
  ASSUME NEW q, NEW s, NEW d, Done(q, s, d)
  PROVE  Registering(q, s, d)
<1>1. Free(q, OpensIn \ LsLines) /\ Free(s.out, OpensOut \ LsCommands)
  BY FreeSubset DEF Done, NoOpening, None
<1>2. One(q, OpensIn, s.out, OpensOut) BY NoneIsOne DEF Done, NoOpening
<1>3. Opening(q, s, d) BY <1>1, <1>2 DEF Opening, Done
<1>4. Asking(q, s, d) BY LsFirstFree DEF Asking, Done
<1> QED BY <1>3, <1>4 DEF Registering, Exchanging, Done

(* One line that leads to no exchange is written, CAP END only once. *)
LEMMA DoneWrites ==
  ASSUME NEW q, NEW s \in Server, NEW d, Done(q, s, d), NEW r, NEW m \in Command,
         r.out = Append(s.out, m), m \notin OpensOut, m \notin LsCommands,
         m \in Ends => ~s.sent_capend /\ r.sent_capend,
         m \notin Ends => r.sent_capend = s.sent_capend
  PROVE  Done(q, r, d)
<1>0. s.out \in Seq(Command) BY ServerTyped
<1>1. NoOpening(q, r) BY <1>0, FreeAppend DEF Done, NoOpening, None
<1>2. Free(r.out, LsCommands) BY <1>0, FreeAppend DEF Done
<1>3. Ending(r)
  <2>1. CASE m \in Ends BY <2>1, <1>0, FreeAppend DEF Done, Ending
  <2>2. CASE m \notin Ends BY <2>2, <1>0, FreeAppend DEF Done, Ending
  <2> QED BY <2>1, <2>2
<1> QED BY <1>1, <1>2, <1>3 DEF Done

LEMMA DoneSame ==
  ASSUME NEW q, NEW s, NEW d, Done(q, s, d), NEW r, r.out = s.out,
         s.sent_capend => r.sent_capend
  PROVE  Done(q, r, d)
BY DEF Done, NoOpening, Ending

LEMMA FinishedDone ==
  ASSUME NEW q, NEW s \in Server, s.connected, NEW d, Done(q, s, d), NEW r, r = sasl_finished(s)
  PROVE  Done(q, r, d)
<1>1. /\ r.out = IF s.sent_capend THEN s.out ELSE Append(s.out, [cmd |-> "END"])
      /\ r.sent_capend
  BY FinishedFields
<1>2. CASE s.sent_capend BY <1>1, <1>2, DoneSame
<1>3. CASE ~s.sent_capend BY <1>1, <1>3, EndKind, DoneWrites
<1> QED BY <1>2, <1>3

LEMMA ErrorDone ==
  ASSUME NEW q, NEW s \in Server, s.connected, NEW d, Done(q, s, d),
         NEW r, r = inbound_sasl_error(s)
  PROVE  Done(q, r, d)
<1> DEFINE m == [cmd |-> "AUTH", arg |-> "*"]
<1>1. r.out = Append(s.out, m) /\ r.sent_capend = s.sent_capend BY ErrorFields
<1>2. m \in Command /\ m \notin OpensOut /\ m \notin LsCommands /\ m \notin Ends BY PayloadKind
<1> QED BY <1>1, <1>2, DoneWrites

(* An answer to a challenge. *)
LEMMA PayloadRegisters ==
  ASSUME NEW q, NEW s \in Server, NEW d, Registering(q, s, d), NoOpening(q, s),
         Free(q, LsLines), Free(s.out, LsCommands),
         NEW m \in Command, m \in Payloads, m \notin OpensOut, m \notin Ends, m \notin LsCommands,
         NEW r, r.out = Append(s.out, m), r.sent_capend = s.sent_capend,
         r.waiting_on_sasl = s.waiting_on_sasl, r.refreshing = s.refreshing
  PROVE  Registering(q, r, d)
<1>0. s.out \in Seq(Command) BY ServerTyped
<1>1. \A A : Free(r.out, A) <=> Free(s.out, A) /\ m \notin A BY <1>0, FreeAppend
<1>2. NoOpening(q, r) BY <1>1 DEF NoOpening, None
<1>3. Opening(q, r, d)
  <2>1. One(q, OpensIn, r.out, OpensOut) BY <1>2, NoneIsOne DEF NoOpening
  <2>2. Free(q, OpensIn \ LsLines) /\ Free(r.out, OpensOut \ LsCommands)
    BY <1>2, FreeSubset DEF NoOpening, None
  <2> QED BY <2>1, <2>2, <1>2 DEF Opening
<1>4. Exchanging(q, r, d) BY <1>2 DEF Exchanging, Registering
<1>5. Asking(q, r, d) BY <1>1, LsFirstFree DEF Asking
<1>6. Ending(r) BY <1>0, FreeAppend DEF Ending, Registering
<1> QED BY <1>3, <1>4, <1>5, <1>6 DEF Registering

(* The line that opens an exchange, or asks for sasl, is the only one that *)
(* leads to an exchange.                                                   *)
LEMMA OpenerRegisters ==
  ASSUME NEW q, NEW s \in Server, NEW d, Registering(q, s, d), NoOpening(q, s),
         Free(s.out, LsCommands), Free(q, Answers), Free(s.out, Payloads),
         ~s.sent_capend, ~s.refreshing, d.sasl = 0,
         NEW m \in Command, m \notin Payloads, m \notin Ends, m \notin LsCommands,
         Free(q, LsLines) \/ m \notin NotRequests,
         NEW r, r.out = Append(s.out, m), r.sent_capend = s.sent_capend,
         r.refreshing = s.refreshing, r.waiting_on_sasl
  PROVE  Registering(q, r, d)
<1>0. s.out \in Seq(Command) BY ServerTyped
<1>1. \A A : Free(r.out, A) <=> Free(s.out, A) /\ m \notin A BY <1>0, FreeAppend
<1>2. One(q, OpensIn, r.out, OpensOut)
  <2>1. One(r.out, OpensOut, q, OpensIn) BY <1>0, OneAppend, OneSwap DEF NoOpening
  <2> QED BY <2>1, OneSwap
<1>3. Opening(q, r, d) BY <1>1, <1>2 DEF Opening
<1>4. Exchanging(q, r, d) BY DEF Exchanging
<1>5. Asking(q, r, d) BY <1>1 DEF Asking, Registering
<1>6. Ending(r) BY <1>0, FreeAppend DEF Ending, Registering
<1> QED BY <1>3, <1>4, <1>5, <1>6 DEF Registering

(* A request without sasl while CAP LS goes on. *)
LEMMA RequestRegisters ==
  ASSUME NEW q, NEW s \in Server, NEW d, Registering(q, s, d), Free(s.out, LsCommands),
         ~s.sent_capend, ~s.refreshing, d.sasl = 0, Free(q, Answers), Free(s.out, NotRequests),
         NEW m \in Command, m \notin Payloads, m \notin Ends, m \notin LsCommands,
         m \notin NotRequests, m \notin OpensOut,
         NEW r, r.out = Append(s.out, m), r.sent_capend = s.sent_capend,
         r.refreshing = s.refreshing, s.waiting_on_sasl => r.waiting_on_sasl
  PROVE  Registering(q, r, d)
<1>0. s.out \in Seq(Command) BY ServerTyped
<1>1. \A A : Free(r.out, A) <=> Free(s.out, A) /\ m \notin A BY <1>0, FreeAppend
<1>2. One(q, OpensIn, r.out, OpensOut)
  <2>1. One(r.out, OpensOut, q, OpensIn)
    BY <1>0, OneAppend, OneSwap DEF Registering, Opening
  <2> QED BY <2>1, OneSwap
<1>p. Payloads \subseteq NotRequests BY DEF Payloads, NotRequests
<1>3. Free(r.out, Payloads) BY <1>1, <1>p, FreeSubset
<1>4. Opening(q, r, d) BY <1>1, <1>2, <1>3 DEF Opening, Registering
<1>5. Exchanging(q, r, d) BY DEF Exchanging
<1>6. Asking(q, r, d) BY <1>1 DEF Asking, Registering
<1>7. Ending(r) BY <1>0, FreeAppend DEF Ending, Registering
<1> QED BY <1>4, <1>5, <1>6, <1>7 DEF Registering

(* Only fields that Registering does not speak of, or a longer wait. *)
LEMMA SameRegisters ==
  ASSUME NEW q, NEW s, NEW d, Registering(q, s, d),
         NEW r, r.out = s.out, r.sent_capend = s.sent_capend, r.refreshing = s.refreshing,
         s.waiting_on_sasl => r.waiting_on_sasl
  PROVE  Registering(q, r, d)
BY DEF Registering, Opening, Exchanging, Asking, Ending, NoOpening

-----------------------------------------------------------------------------
(* The handlers before the registration.  *)

LEMMA LsRegisters ==
  ASSUME NEW q \in Seq(Reply), q # <<>>, NEW s \in Server, s.connected, NEW d,
         Registering(q, s, d), Head(q).cmd = "LS", NEW c, c = cap_ls_request(s, Head(q))
  PROVE  /\ Registering(Tail(q), c, d)
         /\ ~waiting(c) => Done(Tail(q), c, d) /\ ~c.sent_capend
<1> DEFINE a == Head(q)  t == Tail(q)  wants == wants_sasl(s, a)
           wanted == IF wants THEN a.caps ELSE a.caps \ {"sasl"}
           m == [cmd |-> "REQ", caps |-> wanted]
<1>0. s.out \in Seq(Command) /\ t \in Seq(Reply) /\ a \in Reply BY ServerTyped, TailFacts
<1>1. /\ c \in Server /\ wanted \in SUBSET Caps
      /\ c.out = IF wanted = {} THEN s.out ELSE Append(s.out, m)
      /\ c.sent_capend = s.sent_capend /\ c.refreshing = s.refreshing
      /\ c.waiting_on_cap = a.more /\ (c.waiting_on_sasl <=> s.waiting_on_sasl \/ wants)
  BY <1>0, LsFields
<1>2. wants => "sasl" \in a.caps BY DEF wants_sasl
<1>4. "sasl" \in wanted <=> wants BY <1>2
<1>w. wanted \in SUBSET Caps BY <1>1
<1> HIDE DEF wanted
<1>3. /\ m \in Command /\ m \notin Payloads /\ m \notin Ends /\ m \notin LsCommands
      /\ m \notin NotRequests /\ (m \in OpensOut <=> "sasl" \in wanted)
  BY <1>w, RequestKind
<1>5. a \in LsLines /\ (wants => a \in OpensIn) BY <1>0, <1>2, ReplyKind
<1> HIDE DEF wants, m
<1>6. Registering(t, s, d) BY RegisteringTail
<1>7. ~s.sent_capend /\ ~s.refreshing /\ d.sasl = 0 /\ Free(q, Answers) /\ Free(s.out, NotRequests)
  BY <1>5, FreeTail DEF Registering, Asking
<1>8. Free(t, Answers) BY <1>7, FreeTail
<1>9. Free(s.out, LsCommands) BY HeadRegisters
<1>10. Payloads \subseteq NotRequests /\ Ends \subseteq NotRequests
  BY DEF Payloads, NotRequests, Ends
<1>11. Free(s.out, Payloads) BY <1>7, <1>10, FreeSubset
<1>12. wants => NoOpening(t, s) BY <1>5, HeadRegisters
<1>13. Registering(t, c, d)
  <2>1. CASE wanted = {} BY <2>1, <1>1, <1>6, SameRegisters
  <2>2. CASE wanted # {} /\ wants
    BY <2>2, <1>1, <1>3, <1>6, <1>7, <1>8, <1>9, <1>11, <1>12, OpenerRegisters
  <2>3. CASE wanted # {} /\ ~wants
    <3>1. m \notin OpensOut BY <2>3, <1>3, <1>4
    <3> HIDE DEF t
    <3> QED BY <2>3, <3>1, <1>1, <1>3, <1>6, <1>7, <1>8, <1>9, RequestRegisters
  <2> QED BY <2>1, <2>2, <2>3
<1>14. ASSUME ~waiting(c) PROVE Done(t, c, d) /\ ~c.sent_capend
  <2>1. ~c.waiting_on_sasl /\ ~a.more /\ ~wants BY <1>14, <1>1 DEF waiting
  <2>2. Free(t, LsLines) BY <2>1, LsFirstTail DEF Registering, Asking
  <2>3. Free(t, OpensIn \ LsLines) /\ Free(c.out, OpensOut \ LsCommands)
    BY <2>1, <1>13 DEF Registering, Opening
  <2>4. Free(t, OpensIn) BY <2>2, <2>3 DEF Free
  <2>5. Free(c.out, LsCommands) BY <1>0, <1>1, <1>3, <1>9, FreeAppend
  <2>6. Free(c.out, OpensOut) BY <2>3, <2>5 DEF Free
  <2> QED BY <2>2, <2>4, <2>5, <2>6, <1>1, <1>7, <1>13 DEF Done, NoOpening, None, Registering
<1> QED BY <1>13, <1>14

LEMMA AckRegisters ==
  ASSUME NEW q \in Seq(Reply), q # <<>>, NEW s \in Server, s.connected, NEW d,
         Registering(q, s, d), Head(q).cmd = "ACK", NEW r, r = toggle_ack(s, Head(q).caps)
  PROVE  Registering(Tail(q), r, d)
<1> DEFINE a == Head(q)  t == Tail(q)  m == [cmd |-> "AUTH", arg |-> r.sasl_mech]
<1>0. t \in Seq(Reply) /\ a \in Reply BY TailFacts
<1>1. a.caps \in SUBSET Caps BY <1>0, ReplyFields
<1>2. /\ r \in Server /\ ("sasl" \notin a.caps => r.out = s.out)
      /\ "sasl" \in a.caps => r.out = Append(s.out, m)
      /\ r.sent_capend = s.sent_capend /\ r.refreshing = s.refreshing
      /\ r.waiting_on_sasl = s.waiting_on_sasl
  BY <1>1, AckFields
<1>3. a \notin LsLines /\ (a \in OpensIn <=> "sasl" \in a.caps) BY <1>0, ReplyKind
<1>4. Registering(t, s, d) BY RegisteringTail
<1>5. CASE "sasl" \notin a.caps BY <1>5, <1>2, <1>4, SameRegisters
<1>6. CASE "sasl" \in a.caps
  <2>1. /\ NoOpening(t, s) /\ ~s.sent_capend /\ ~s.refreshing /\ d.sasl = 0
        /\ Free(t, Answers) /\ Free(s.out, Payloads) /\ s.waiting_on_sasl
        /\ Free(t, LsLines) /\ Free(s.out, LsCommands)
    BY <1>3, <1>6, HeadRegisters
  <2>2. r.sasl_mech \in Mechs BY <1>2, ServerTyped
  <2>3. m \in Command /\ m \notin Payloads /\ m \notin Ends /\ m \notin LsCommands
    BY <2>2, MechKind
  <2>4. /\ r.out = Append(s.out, m) /\ r.sent_capend = s.sent_capend
        /\ r.refreshing = s.refreshing /\ r.waiting_on_sasl
    BY <2>1, <1>2, <1>6
  <2> HIDE DEF m, t, a
  <2>5. Registering(t, r, d) BY <2>1, <2>3, <2>4, <1>4, OpenerRegisters
  <2> QED BY <2>5 DEF t
<1> QED BY <1>5, <1>6

LEMMA NakRegisters ==
  ASSUME NEW q \in Seq(Reply), q # <<>>, NEW s \in Server, s.connected, NEW d,
         Registering(q, s, d), Head(q).cmd = "NAK", NEW r, r = nak(s, Head(q).caps)
  PROVE  /\ Registering(Tail(q), r, d)
         /\ nak_was_last(r) => Done(Tail(q), r, d) /\ ~r.sent_capend
<1> DEFINE a == Head(q)  t == Tail(q)
<1>0. t \in Seq(Reply) /\ a \in Reply BY TailFacts
<1>1. /\ r \in Server /\ r.out = s.out /\ r.sent_capend = s.sent_capend
      /\ r.refreshing = s.refreshing
      /\ r.waiting_on_sasl <=> s.waiting_on_sasl /\ "sasl" \notin a.caps
  BY NakFields
<1>2. a \notin LsLines /\ (a \in OpensIn <=> "sasl" \in a.caps) BY <1>0, ReplyKind
<1>3. Registering(t, s, d) BY RegisteringTail
<1>4. Free(t, LsLines) /\ Free(s.out, LsCommands) BY <1>2, HeadRegisters
<1>5. "sasl" \in a.caps => NoOpening(t, s) /\ d.sasl = 0 BY <1>2, HeadRegisters
<1> HIDE DEF t, a
<1>6. ~r.waiting_on_sasl => Done(t, r, d)
  <2> SUFFICES ASSUME ~r.waiting_on_sasl PROVE Done(t, r, d) OBVIOUS
  <2>1. ~(d.sasl > 0) BY <1>1, <1>3, <1>5 DEF Registering, Exchanging
  <2>2. NoOpening(t, s)
    <3>1. CASE "sasl" \in a.caps BY <3>1, <1>5
    <3>2. CASE ~s.waiting_on_sasl
      <4>1. Free(t, OpensIn \ LsLines) /\ Free(s.out, OpensOut \ LsCommands)
        BY <3>2, <1>3 DEF Registering, Opening
      <4>2. Free(t, OpensIn) /\ Free(s.out, OpensOut) BY <4>1, <1>4 DEF Free
      <4> QED BY <4>2 DEF NoOpening, None
    <3> QED BY <3>1, <3>2, <1>1
  <2>3. Done(t, s, d) BY <2>1, <2>2, <1>3, <1>4 DEF Done, Registering
  <2> QED BY <2>3, <1>1, DoneSame
<1>7. Registering(t, r, d)
  <2>1. CASE r.waiting_on_sasl BY <2>1, <1>1, <1>3, SameRegisters
  <2>2. CASE ~r.waiting_on_sasl BY <2>2, <1>6, DoneRegisters
  <2> QED BY <2>1, <2>2
<1> QED BY <1>6, <1>7 DEF t, nak_was_last, waiting

(* inbound_sasl_authenticate. *)
LEMMA AuthenticateRegisters ==
  ASSUME NEW q \in Seq(Reply), q # <<>>, NEW s \in Server, s.connected, NEW d,
         Registering(q, s, d), Head(q).cmd = "AUTH",
         NEW challenge, NEW ok \in BOOLEAN, NEW r, r = sasl_authenticate(s, challenge, ok)
  PROVE  Registering(Tail(q), r, d)
<1> DEFINE a == Head(q)  t == Tail(q)
<1>0. a \in Reply BY TailFacts
<1>1. a \in Answers /\ a \notin LsLines BY <1>0, ReplyKind
<1>2. /\ Registering(t, s, d) /\ NoOpening(t, s) /\ Free(t, LsLines) /\ Free(s.out, LsCommands)
  BY <1>1, RegisteringTail, HeadRegisters
<1>3. PICK arg \in {"data", "+", "*"}, n \in 0..2 :
        AnswersWith(s, r, [cmd |-> "AUTH", arg |-> arg], n)
  BY AuthenticateFields
<1> DEFINE m == [cmd |-> "AUTH", arg |-> arg]
<1>4. /\ m \in Command /\ m \in Payloads /\ m \notin OpensOut /\ m \notin Ends
      /\ m \notin LsCommands
  BY PayloadKind
<1>5. /\ r.out = Append(s.out, m) /\ r.sent_capend = s.sent_capend
      /\ r.waiting_on_sasl = s.waiting_on_sasl /\ r.refreshing = s.refreshing
  BY <1>3 DEF AnswersWith
<1> HIDE DEF m, t
<1>6. Registering(t, r, d) BY <1>2, <1>4, <1>5, PayloadRegisters
<1> QED BY <1>6 DEF t

(* 903 to 907. *)
LEMMA NumericDone ==
  ASSUME NEW q \in Seq(Reply), q # <<>>, NEW s \in Server, NEW d,
         Registering(q, s, d), Head(q) \in Finals
  PROVE  Done(Tail(q), s, d)
<1>0. Head(q) \in Reply BY TailFacts
<1>1. Head(q) \in Answers /\ Head(q) \notin LsLines BY <1>0, ReplyKind
<1>2. Registering(Tail(q), s, d) BY RegisteringTail
<1> QED BY <1>1, <1>2, HeadRegisters DEF Done, Registering

(* oauth_sasl_retry_cb finds an exchange that is over. *)
LEMMA RefreshingDone ==
  ASSUME NEW q, NEW s \in Server, NEW d, Registering(q, s, d), s.refreshing
  PROVE  Done(q, s, d)
<1>1. NoOpening(q, s) BY DEF Registering, Opening
<1>2. ~(d.sasl > 0) BY DEF Registering, Exchanging
<1>3. Free(q, LsLines) BY DEF Registering, Asking
<1>4. LsCommands \subseteq OpensOut BY DEF LsCommands, OpensOut
<1>5. Free(s.out, LsCommands) BY <1>1, <1>4, FreeSubset DEF NoOpening, None
<1> QED BY <1>1, <1>2, <1>3, <1>5 DEF Done, Registering

LEMMA RetryFailedDone ==
  ASSUME NEW q, NEW s \in Server, s.connected, NEW d, Done(q, s, d), NEW r, r = retry_failed(s)
  PROVE  Done(q, r, d)
<1> DEFINE e == inbound_sasl_error(s)
<1>1. Done(q, e, d) BY ErrorDone
<1>2. e \in Server /\ e.connected BY ErrorFields DEF Settings, Fixed
<1>3. r = sasl_finished(e) BY DEF retry_failed
<1> HIDE DEF e
<1> QED BY <1>1, <1>2, <1>3, FinishedDone

LEMMA AuthenticateDone ==
  ASSUME NEW q, NEW s \in Server, s.connected, NEW d, Done(q, s, d),
         NEW challenge, NEW ok \in BOOLEAN, NEW r, r = sasl_authenticate(s, challenge, ok)
  PROVE  Done(q, r, d)
<1>1. PICK arg \in {"data", "+", "*"}, n \in 0..2 :
        AnswersWith(s, r, [cmd |-> "AUTH", arg |-> arg], n)
  BY AuthenticateFields
<1> DEFINE m == [cmd |-> "AUTH", arg |-> arg]
<1>2. m \in Command /\ m \notin OpensOut /\ m \notin Ends /\ m \notin LsCommands BY PayloadKind
<1>3. r.out = Append(s.out, m) /\ r.sent_capend = s.sent_capend BY <1>1 DEF AnswersWith
<1> HIDE DEF m
<1> QED BY <1>2, <1>3, DoneWrites

-----------------------------------------------------------------------------
(* The server before the registration.  *)

(* It reads a line and writes at most one. *)
LEMMA OutRegisters ==
  ASSUME NEW q \in Seq(Reply), NEW s \in Server, s.out # <<>>, NEW d, Registering(q, s, d),
         NEW r, r.out = Tail(s.out), r.sent_capend = s.sent_capend,
         r.refreshing = s.refreshing, r.waiting_on_sasl = s.waiting_on_sasl
  PROVE  /\ Registering(q, r, d)
         /\ Head(s.out) \in OpensOut => NoOpening(q, r)
         /\ Head(s.out) \notin LsCommands => Free(s.out, LsCommands) /\ Free(r.out, LsCommands)
<1>0. s.out \in Seq(Command) BY ServerTyped
<1>1. \A A : Free(s.out, A) <=> Head(s.out) \notin A /\ Free(r.out, A) BY <1>0, FreeTail
<1>2. AtMostOne(r.out, Ends) BY <1>0, FreeTail DEF Registering, Ending
<1>3. /\ One(r.out, OpensOut, q, OpensIn)
      /\ Head(s.out) \in OpensOut => None(r.out, OpensOut, q, OpensIn)
      /\ None(s.out, OpensOut, q, OpensIn) => None(r.out, OpensOut, q, OpensIn)
  BY <1>0, OneTail, OneSwap DEF Registering, Opening
<1>4. /\ One(q, OpensIn, r.out, OpensOut) /\ (Head(s.out) \in OpensOut => NoOpening(q, r))
      /\ NoOpening(q, s) => NoOpening(q, r)
  BY <1>3, OneSwap DEF NoOpening
<1>5. Opening(q, r, d) BY <1>1, <1>4 DEF Opening, Registering
<1>6. Exchanging(q, r, d) BY <1>4 DEF Exchanging, Registering
<1>7. Free(r.out, LsCommands)
  <2>1. CASE Free(s.out, LsCommands) BY <2>1, <1>1
  <2>2. CASE s.out = <<[cmd |-> "LS"]>>
    <3>1. r.out = <<>> BY <2>2
    <3> QED BY <3>1, FreeEmpty
  <2> QED BY <2>1, <2>2 DEF Registering, Asking
<1>8. Asking(q, r, d) BY <1>1, <1>7 DEF Asking, Registering
<1>9. Ending(r) BY <1>1, <1>2 DEF Ending, Registering
<1>10. Head(s.out) \notin LsCommands => Free(s.out, LsCommands) BY <1>1, <1>7
<1> QED BY <1>4, <1>5, <1>6, <1>7, <1>8, <1>9, <1>10 DEF Registering

(* A reply that does not move the exchange: the server's state e is as far *)
(* as d.                                                                   *)
LEMMA InRegisters ==
  ASSUME NEW q \in Seq(Reply), NEW s \in Server, NEW d, Registering(q, s, d),
         Free(s.out, LsCommands), NEW a \in Reply, a \notin LsLines, a \notin Answers,
         a \in OpensIn => /\ NoOpening(q, s) /\ ~s.sent_capend /\ ~s.refreshing /\ d.sasl = 0
                          /\ Free(q, Answers) /\ Free(s.out, Payloads) /\ s.waiting_on_sasl,
         NEW e, e.sasl = d.sasl
  PROVE  Registering(Append(q, a), s, e)
<1> DEFINE p == Append(q, a)
<1>1. \A A : Free(p, A) <=> Free(q, A) /\ a \notin A BY FreeAppend
<1>2. /\ One(p, OpensIn, s.out, OpensOut)
      /\ NoOpening(p, s) <=> NoOpening(q, s) /\ a \notin OpensIn
  BY OneAppend DEF Registering, Opening, NoOpening
<1>3. LsFirst(p) BY LsFirstAppend DEF Registering, Asking
<1>f. a \notin Finals BY DEF Finals, Answers
<1> HIDE DEF p
<1>4. Opening(p, s, e) BY <1>1, <1>2 DEF Opening, Registering
<1>5. Exchanging(p, s, e)
  <2>1. d.sasl > 0 => a \notin OpensIn OBVIOUS
  <2> QED BY <2>1, <1>1, <1>2, <1>f DEF Exchanging, Registering
<1>6. Asking(p, s, e) BY <1>1, <1>3 DEF Asking, Registering
<1>7. Registering(p, s, e) BY <1>4, <1>5, <1>6 DEF Registering
<1> QED BY <1>7 DEF p

(* A reply of SASL, where nothing leads to an exchange any more. *)
LEMMA AnswerRegisters ==
  ASSUME NEW q \in Seq(Reply), NEW s \in Server, NEW d, Registering(q, s, d), NoOpening(q, s),
         Free(q, LsLines), Free(s.out, LsCommands),
         NEW a \in Reply, a \in Answers, a \notin OpensIn, a \notin LsLines,
         NEW e, e.sasl > 0 => /\ s.waiting_on_sasl /\ ~s.sent_capend /\ ~s.refreshing
                              /\ a \notin Finals /\ Free(q, Finals)
  PROVE  Registering(Append(q, a), s, e)
<1> DEFINE p == Append(q, a)
<1>1. \A A : Free(p, A) <=> Free(q, A) /\ a \notin A BY FreeAppend
<1>2. NoOpening(p, s) BY OneAppend DEF NoOpening
<1> HIDE DEF p
<1>3. One(p, OpensIn, s.out, OpensOut) BY <1>2, NoneIsOne DEF NoOpening
<1>4. Free(p, OpensIn \ LsLines) /\ Free(s.out, OpensOut \ LsCommands)
  BY <1>2, FreeSubset DEF NoOpening, None
<1>5. Opening(p, s, e) BY <1>2, <1>3, <1>4 DEF Opening
<1>6. Exchanging(p, s, e) BY <1>1, <1>2 DEF Exchanging
<1>7. Free(p, LsLines) BY <1>1
<1>8. Asking(p, s, e) BY <1>7, LsFirstFree DEF Asking
<1>9. Registering(p, s, e) BY <1>5, <1>6, <1>8 DEF Registering
<1> QED BY <1>9 DEF p

(* One or two lines answer CAP LS. *)
LEMMA AnnouncedRegisters ==
  ASSUME NEW p, NEW r, r.out = <<>>, ~r.sent_capend, ~r.refreshing, NEW d, d.sasl = 0,
         Free(p, Answers), Free(p, OpensIn \ LsLines), AtMostOne(p, OpensIn), LsFirst(p)
  PROVE  Registering(p, r, d)
<1>1. \A A : Free(r.out, A) /\ AtMostOne(r.out, A) BY FreeEmpty
<1>2. Opening(p, r, d) BY <1>1 DEF Opening, One
<1>3. Exchanging(p, r, d) BY DEF Exchanging
<1>4. Asking(p, r, d) BY <1>1 DEF Asking
<1>5. Ending(r) BY <1>1 DEF Ending
<1> QED BY <1>2, <1>3, <1>4, <1>5 DEF Registering

-----------------------------------------------------------------------------
(* The steps of an exchange, when a line is read and when one is written.  *)

(* The two ends compare the same mechanism and sessions. *)
Level(s, d, r, e) ==
    /\ r.sasl_mech = s.sasl_mech /\ r.scram_session = s.scram_session
    /\ e.sasl = d.sasl /\ e.mech = d.mech

LEMMA AtLevel ==
  ASSUME NEW s, NEW d, NEW r, NEW e, Level(s, d, r, e)
  PROVE  /\ \A a : AtIn(a, s, d) => AtIn(a, r, e)
         /\ \A m : AtOut(m, s, d) => AtOut(m, r, e)
         /\ Rest(s, d) => Rest(r, e)
<1>1. \A a : AtIn(a, s, d) => AtIn(a, r, e)
  <2> TAKE a
  <2>1. CASE a.cmd = "AUTH" BY <2>1 DEF AtIn, Level
  <2>2. CASE a.cmd = "904" BY <2>2 DEF AtIn, Level
  <2>3. CASE a.cmd \notin {"AUTH", "904"} BY <2>3 DEF AtIn, Level, Rest
  <2> QED BY <2>1, <2>2, <2>3
<1>2. \A m : AtOut(m, s, d) => AtOut(m, r, e) BY DEF AtOut, Level, Rest
<1>3. Rest(s, d) => Rest(r, e) BY DEF Rest, Level
<1> QED BY <1>1, <1>2, <1>3

LEMMA StepRead ==
  ASSUME NEW q \in Seq(Reply), q # <<>>, NEW s \in Server, NEW d, InStep(q, s, d)
  PROVE  /\ Head(q) \in OfExchange => Silent(Tail(q), s) /\ AtIn(Head(q), s, d)
         /\ Head(q) \notin OfExchange => InStep(Tail(q), s, d)
<1> DEFINE t == Tail(q)  l == Len(q)  k == Len(t)
<1>1. /\ l \in Nat \ {0} /\ Head(q) = q[1]
      /\ \A i \in 1..k : i + 1 \in 1..l /\ t[i] = q[i + 1]
  BY TailFacts
<1>2. 1 \in 1..l BY <1>1
<1>3. /\ One(q, OfExchange, s.out, ToExchange) => One(t, OfExchange, s.out, ToExchange)
      /\ One(q, OfExchange, s.out, ToExchange) /\ Head(q) \in OfExchange => Silent(t, s)
      /\ Silent(q, s) <=> Head(q) \notin OfExchange /\ Silent(t, s)
  BY OneTail DEF Silent
<1>4. \A i \in 1..l : q[i] \in OfExchange => AtIn(q[i], s, d) BY DEF InStep
<1>5. Head(q) \in OfExchange => Silent(t, s) /\ AtIn(Head(q), s, d)
  BY <1>1, <1>2, <1>3, <1>4 DEF InStep
<1>6. \A i \in 1..k : t[i] \in OfExchange => AtIn(t[i], s, d) BY <1>1, <1>4
<1>7. Head(q) \notin OfExchange => InStep(t, s, d) BY <1>3, <1>6 DEF InStep
<1> QED BY <1>5, <1>7

LEMMA StepSilent ==
  ASSUME NEW q, NEW s, NEW d, Silent(q, s), Rest(s, d)
  PROVE  InStep(q, s, d)
<1>1. One(q, OfExchange, s.out, ToExchange) BY NoneIsOne DEF Silent
<1> QED BY <1>1 DEF InStep, Silent, None, Free

(* A line outside the exchange, or none. *)
LEMMA StepBeside ==
  ASSUME NEW q, NEW s \in Server, NEW d, InStep(q, s, d), NEW r, NEW e, Level(s, d, r, e),
         NEW m \in Command, m \notin ToExchange, r.out \in {s.out, Append(s.out, m)}
  PROVE  InStep(q, r, e)
<1> DEFINE o == s.out  p == r.out
<1>0. o \in Seq(Command) BY ServerTyped
<1>1. CASE p = o
  <2>1. One(q, OfExchange, p, ToExchange) /\ (Silent(q, r) => Silent(q, s))
    BY <1>1 DEF InStep, Silent
  <2>2. \A i \in 1..Len(p) : p[i] \in ToExchange => AtOut(p[i], r, e)
    BY <1>1, AtLevel DEF InStep
  <2> QED BY <2>1, <2>2, AtLevel DEF InStep
<1>2. CASE p = Append(o, m)
  <2>1. /\ One(p, ToExchange, q, OfExchange)
        /\ None(p, ToExchange, q, OfExchange) => None(o, ToExchange, q, OfExchange)
    BY <1>0, <1>2, OneAppend, OneSwap DEF InStep
  <2>2. One(q, OfExchange, p, ToExchange) /\ (Silent(q, r) => Silent(q, s))
    BY <2>1, OneSwap DEF Silent
  <2>3. \A i \in 1..Len(p) : p[i] = m \/ (i \in 1..Len(o) /\ p[i] = o[i])
    BY <1>0, <1>2, AppendFacts
  <2>4. \A i \in 1..Len(o) : o[i] \in ToExchange => AtOut(o[i], r, e)
    BY AtLevel DEF InStep
  <2>5. \A i \in 1..Len(p) : p[i] \in ToExchange => AtOut(p[i], r, e)
    BY <2>3, <2>4
  <2> QED BY <2>2, <2>5, AtLevel DEF InStep
<1> QED BY <1>1, <1>2

(* The one line of the exchange. *)
LEMMA StepWrite ==
  ASSUME NEW q, NEW s \in Server, NEW d, Silent(q, s),
         NEW m \in Command, m \in ToExchange, NEW r, r.out = Append(s.out, m), AtOut(m, r, d)
  PROVE  InStep(q, r, d)
<1> DEFINE o == s.out  p == r.out
<1>0. o \in Seq(Command) BY ServerTyped
<1>1. /\ One(p, ToExchange, q, OfExchange)
      /\ ~None(p, ToExchange, q, OfExchange)
  BY <1>0, OneAppend, OneSwap DEF Silent
<1>2. One(q, OfExchange, p, ToExchange) /\ ~Silent(q, r) BY <1>1, OneSwap DEF Silent
<1>3. \A i \in 1..Len(p) : p[i] = m \/ (i \in 1..Len(o) /\ p[i] = o[i])
  BY <1>0, AppendFacts
<1>4. \A i \in 1..Len(o) : o[i] \notin ToExchange BY DEF Silent, None, Free
<1>5. \A i \in 1..Len(p) : p[i] \in ToExchange => AtOut(p[i], r, d) BY <1>3, <1>4
<1>6. \A i \in 1..Len(q) : q[i] \notin OfExchange BY DEF Silent, None, Free
<1> QED BY <1>2, <1>5, <1>6 DEF InStep

(* The server reads a line. *)
LEMMA StepTaken ==
  ASSUME NEW q, NEW s \in Server, s.out # <<>>, NEW d, InStep(q, s, d),
         NEW r, r.out = Tail(s.out), r.sasl_mech = s.sasl_mech, r.scram_session = s.scram_session
  PROVE  /\ Head(s.out) \in ToExchange => Silent(q, r) /\ AtOut(Head(s.out), s, d)
         /\ Head(s.out) \notin ToExchange => InStep(q, r, d)
<1> DEFINE o == s.out  p == r.out  l == Len(o)  k == Len(p)
<1>0. o \in Seq(Command) BY ServerTyped
<1>1. /\ l \in Nat \ {0} /\ Head(o) = o[1]
      /\ \A i \in 1..k : i + 1 \in 1..l /\ p[i] = o[i + 1]
  BY <1>0, TailFacts
<1>2. 1 \in 1..l BY <1>1
<1>3. /\ One(o, ToExchange, q, OfExchange) => One(p, ToExchange, q, OfExchange)
      /\ One(o, ToExchange, q, OfExchange) /\ Head(o) \in ToExchange
           => None(p, ToExchange, q, OfExchange)
      /\ None(o, ToExchange, q, OfExchange)
           <=> Head(o) \notin ToExchange /\ None(p, ToExchange, q, OfExchange)
  BY <1>0, OneTail
<1>4. /\ One(q, OfExchange, p, ToExchange)
      /\ Head(o) \in ToExchange => Silent(q, r)
      /\ Silent(q, s) <=> Head(o) \notin ToExchange /\ Silent(q, r)
  BY <1>3, OneSwap DEF Silent, InStep
<1>5. \A i \in 1..l : o[i] \in ToExchange => AtOut(o[i], s, d) BY DEF InStep
<1>6. Head(o) \in ToExchange => Silent(q, r) /\ AtOut(Head(o), s, d) BY <1>1, <1>2, <1>4, <1>5
<1>7. Level(s, d, r, d) BY DEF Level
<1>8. \A i \in 1..k : p[i] \in ToExchange => AtOut(p[i], r, d)
  <2>1. \A i \in 1..k : p[i] \in ToExchange => AtOut(p[i], s, d) BY <1>1, <1>5
  <2> QED BY <2>1, <1>7, AtLevel
<1>9. \A i \in 1..Len(q) : q[i] \in OfExchange => AtIn(q[i], r, d) BY <1>7, AtLevel DEF InStep
<1>10. Rest(s, d) => Rest(r, d) BY <1>7, AtLevel
<1>11. Head(o) \notin ToExchange => InStep(q, r, d) BY <1>4, <1>8, <1>9, <1>10 DEF InStep
<1> QED BY <1>6, <1>11

(* The server writes a line outside the exchange, or the one line of it. *)
LEMMA StepReplyBeside ==
  ASSUME NEW q \in Seq(Reply), NEW s, NEW d, InStep(q, s, d), NEW e, Level(s, d, s, e),
         NEW a \in Reply, a \notin OfExchange
  PROVE  InStep(Append(q, a), s, e)
<1> DEFINE p == Append(q, a)
<1>1. One(p, OfExchange, s.out, ToExchange) /\ (Silent(p, s) => Silent(q, s))
  BY OneAppend DEF InStep, Silent
<1>2. \A i \in 1..Len(p) : p[i] = a \/ (i \in 1..Len(q) /\ p[i] = q[i]) BY AppendFacts
<1>3. \A i \in 1..Len(q) : q[i] \in OfExchange => AtIn(q[i], s, e) BY AtLevel DEF InStep
<1>4. \A i \in 1..Len(p) : p[i] \in OfExchange => AtIn(p[i], s, e) BY <1>2, <1>3
<1>5. \A i \in 1..Len(s.out) : s.out[i] \in ToExchange => AtOut(s.out[i], s, e)
  BY AtLevel DEF InStep
<1> QED BY <1>1, <1>4, <1>5, AtLevel DEF InStep

LEMMA StepReply ==
  ASSUME NEW q \in Seq(Reply), NEW s, NEW e, Silent(q, s),
         NEW a \in Reply, a \in OfExchange, AtIn(a, s, e)
  PROVE  InStep(Append(q, a), s, e)
<1> DEFINE p == Append(q, a)
<1>1. One(p, OfExchange, s.out, ToExchange) /\ ~Silent(p, s) BY OneAppend DEF Silent
<1>2. \A i \in 1..Len(p) : p[i] = a \/ (i \in 1..Len(q) /\ p[i] = q[i]) BY AppendFacts
<1>3. \A i \in 1..Len(q) : q[i] \notin OfExchange BY DEF Silent, None, Free
<1>4. \A i \in 1..Len(p) : p[i] \in OfExchange => AtIn(p[i], s, e) BY <1>2, <1>3
<1>5. \A i \in 1..Len(s.out) : s.out[i] \notin ToExchange BY DEF Silent, None, Free
<1> QED BY <1>1, <1>4, <1>5 DEF InStep

-----------------------------------------------------------------------------
(* The handlers, step by step.  *)

LEMMA LsInStep ==
  ASSUME NEW q \in Seq(Reply), q # <<>>, NEW s \in Server, s.connected, NEW d,
         InStep(q, s, d), Head(q).cmd = "LS", NEW c, c = cap_ls_request(s, Head(q))
  PROVE  InStep(Tail(q), c, d)
<1> DEFINE a == Head(q)  t == Tail(q)  wants == wants_sasl(s, a)
           wanted == IF wants THEN a.caps ELSE a.caps \ {"sasl"}
           m == [cmd |-> "REQ", caps |-> wanted]
<1>0. a \in Reply BY TailFacts
<1>1. /\ c \in Server /\ wanted \in SUBSET Caps
      /\ c.out = IF wanted = {} THEN s.out ELSE Append(s.out, m)
      /\ c.scram_session = s.scram_session
      /\ ~wants => c.sasl_mech = s.sasl_mech
  BY <1>0, LsFields
<1>2. wants => "sasl" \in a.caps BY DEF wants_sasl
<1>3. "sasl" \in wanted <=> wants BY <1>2
<1>4. a \in OfExchange <=> "sasl" \in a.caps BY <1>0, ReplyKind
<1>5. Silent(t, s) /\ AtIn(a, s, d) => Rest(s, d) BY DEF AtIn
<1>6. wants => Silent(t, s) /\ Rest(s, d) BY <1>2, <1>4, <1>5, StepRead
<1>7. InStep(t, s, d)
  <2>1. CASE a \in OfExchange BY <2>1, <1>5, StepRead, StepSilent
  <2>2. CASE a \notin OfExchange BY <2>2, StepRead
  <2> QED BY <2>1, <2>2
<1>w. wanted \in SUBSET Caps BY <1>1
<1> HIDE DEF wanted, wants, t
<1>8. /\ m \in Command /\ m.cmd = "REQ" /\ m.caps = wanted
      /\ (m \in ToExchange <=> "sasl" \in wanted)
  BY <1>w, RequestKind
<1> HIDE DEF m
<1>9. InStep(t, c, d)
  <2>1. CASE wants
    <3>1. c.out = Append(s.out, m) /\ m \in ToExchange BY <2>1, <1>1, <1>3, <1>8
    <3>2. Rest(c, d) BY <2>1, <1>1, <1>6 DEF Rest
    <3>3. AtOut(m, c, d) BY <3>2, <1>8 DEF AtOut
    <3> QED BY <3>1, <3>3, <2>1, <1>6, <1>8, StepWrite
  <2>2. CASE ~wants
    <3>1. Level(s, d, c, d) BY <2>2, <1>1 DEF Level
    <3>2. m \notin ToExchange BY <2>2, <1>3, <1>8
    <3>3. c.out \in {s.out, Append(s.out, m)} BY <1>1
    <3> QED BY <3>1, <3>2, <3>3, <1>7, <1>8, StepBeside
  <2> QED BY <2>1, <2>2
<1> QED BY <1>9 DEF t

(* Fields of the exchange as they are, and at most CAP END written. *)
LEMMA EndInStep ==
  ASSUME NEW q, NEW s \in Server, NEW d, InStep(q, s, d), NEW r,
         r.out \in {s.out, Append(s.out, [cmd |-> "END"])},
         r.sasl_mech = s.sasl_mech, r.scram_session = s.scram_session
  PROVE  InStep(q, r, d)
<1>1. Level(s, d, r, d) BY DEF Level
<1> QED BY <1>1, EndKind, StepBeside

LEMMA AckInStep ==
  ASSUME NEW q \in Seq(Reply), q # <<>>, NEW s \in Server, s.connected, NEW d,
         InStep(q, s, d), Head(q).cmd = "ACK", NEW r, r = toggle_ack(s, Head(q).caps)
  PROVE  InStep(Tail(q), r, d)
<1> DEFINE a == Head(q)  t == Tail(q)  m == [cmd |-> "AUTH", arg |-> r.sasl_mech]
<1>0. a \in Reply BY TailFacts
<1>1. a.caps \in SUBSET Caps BY <1>0, ReplyFields
<1>2. /\ r \in Server /\ r.scram_session = s.scram_session
      /\ "sasl" \notin a.caps => r.out = s.out /\ r.sasl_mech = s.sasl_mech
      /\ "sasl" \in a.caps => r.out = Append(s.out, m)
  BY <1>1, AckFields
<1>3. a \in OfExchange <=> "sasl" \in a.caps BY <1>0, ReplyKind
<1>4. CASE "sasl" \notin a.caps
  <2>1. InStep(t, s, d) BY <1>3, <1>4, StepRead
  <2> QED BY <2>1, <1>2, <1>4, EndInStep
<1>5. CASE "sasl" \in a.caps
  <2>1. Silent(t, s) /\ AtIn(a, s, d) BY <1>3, <1>5, StepRead
  <2>2. Rest(s, d) BY <2>1 DEF AtIn
  <2>3. Rest(r, d) BY <2>2, <1>2 DEF Rest
  <2>4. r.sasl_mech \in Mechs BY <1>2, ServerTyped
  <2>5. /\ m \in Command /\ m \in ToExchange /\ m.cmd = "AUTH" /\ m.arg = r.sasl_mech
        /\ r.sasl_mech \notin {"data", "+", "*"}
    BY <2>4, MechKind
  <2>6. r.out = Append(s.out, m) BY <1>2, <1>5
  <2> HIDE DEF m, t
  <2>7. AtOut(m, r, d) BY <2>3, <2>5 DEF AtOut
  <2>8. InStep(t, r, d) BY <2>1, <2>5, <2>6, <2>7, StepWrite
  <2> QED BY <2>8 DEF t
<1> QED BY <1>4, <1>5

LEMMA DelInStep ==
  ASSUME NEW q \in Seq(Reply), q # <<>>, NEW s \in Server, NEW d, InStep(q, s, d),
         Head(q).cmd = "DEL", NEW r, r = del(s, Head(q).caps)
  PROVE  InStep(Tail(q), r, d)
<1>0. Head(q) \in Reply BY TailFacts
<1>1. Head(q) \notin OfExchange BY <1>0, ReplyKind
<1>2. r.out = s.out /\ r.sasl_mech = s.sasl_mech /\ r.scram_session = s.scram_session
  BY DelFields
<1>e. r.out \in {s.out, Append(s.out, [cmd |-> "END"])} BY <1>2
<1>3. InStep(Tail(q), s, d) BY <1>1, StepRead
<1>4. r.sasl_mech = s.sasl_mech /\ r.scram_session = s.scram_session BY <1>2
<1> QED BY <1>e, <1>3, <1>4, EndInStep

LEMMA NakInStep ==
  ASSUME NEW q \in Seq(Reply), q # <<>>, NEW s \in Server, NEW d, InStep(q, s, d),
         Head(q).cmd = "NAK", NEW r, r = nak(s, Head(q).caps)
  PROVE  InStep(Tail(q), r, d)
<1>1. r.out = s.out /\ r.sasl_mech = s.sasl_mech /\ r.scram_session = s.scram_session
  BY NakFields
<1>e. r.out \in {s.out, Append(s.out, [cmd |-> "END"])} BY <1>1
<1>2. AtIn(Head(q), s, d) => Rest(s, d) BY DEF AtIn
<1>3. InStep(Tail(q), s, d) BY <1>2, StepRead, StepSilent
<1> QED BY <1>1, <1>e, <1>3, EndInStep

LEMMA FinishedInStep ==
  ASSUME NEW q, NEW s \in Server, s.connected, NEW d, InStep(q, s, d),
         NEW r, r = sasl_finished(s)
  PROVE  InStep(q, r, d)
<1>1. /\ r.out = IF s.sent_capend THEN s.out ELSE Append(s.out, [cmd |-> "END"])
      /\ r.sasl_mech = s.sasl_mech /\ r.scram_session = s.scram_session
  BY FinishedFields
<1>2. r.out \in {s.out, Append(s.out, [cmd |-> "END"])} BY <1>1
<1>3. r.sasl_mech = s.sasl_mech /\ r.scram_session = s.scram_session BY <1>1
<1> QED BY <1>2, <1>3, EndInStep

(* 903 and 906. *)
LEMMA NumericInStep ==
  ASSUME NEW q \in Seq(Reply), q # <<>>, NEW s \in Server, s.connected, NEW d,
         InStep(q, s, d), Head(q).cmd \in {"903", "906"}, NEW r, r = sasl_finished(s)
  PROVE  InStep(Tail(q), r, d)
<1>1. AtIn(Head(q), s, d) => Rest(s, d) BY DEF AtIn
<1>2. InStep(Tail(q), s, d) BY <1>1, StepRead, StepSilent
<1> QED BY <1>2, FinishedInStep

(* 904, when no token is refreshed. *)
LEMMA FailedInStep ==
  ASSUME NEW q \in Seq(Reply), q # <<>>, NEW s \in Server, s.connected, NEW d,
         InStep(q, s, d), Head(q).cmd = "904",
         NEW r, r = sasl_finished(inbound_sasl_error(s))
  PROVE  InStep(Tail(q), r, d)
<1> DEFINE e == inbound_sasl_error(s)  m == [cmd |-> "AUTH", arg |-> "*"]
<1>0. Head(q) \in Reply BY TailFacts
<1>1. Head(q) \in OfExchange BY <1>0, ReplyKind
<1>2. Silent(Tail(q), s) BY <1>1, StepRead
<1>3. /\ m \in Command /\ m \in ToExchange /\ m \notin OpensOut /\ m.cmd = "AUTH" /\ m.arg = "*"
      /\ "*" \notin Mechs
  BY PayloadKind
<1>4. e \in Server /\ e.connected /\ e.out = Append(s.out, m) /\ e.scram_session = 0
  BY ErrorFields DEF Settings, Fixed
<1> HIDE DEF e, m
<1>5. AtOut(m, e, d) BY <1>3, <1>4 DEF AtOut
<1>6. InStep(Tail(q), e, d) BY <1>2, <1>3, <1>4, <1>5, StepWrite
<1>7. r = sasl_finished(e) BY DEF e
<1> QED BY <1>4, <1>6, <1>7, FinishedInStep

(* A challenge and its answer. *)
LEMMA AuthenticateInStep ==
  ASSUME NEW q \in Seq(Reply), q # <<>>, NEW s \in Server, s.connected, NEW d \in Ircd,
         InStep(q, s, d), s.loginmethod # "OAUTHBEARER", Head(q).cmd = "AUTH",
         NEW ok \in BOOLEAN, NEW r, r = sasl_authenticate(s, Head(q).arg, ok)
  PROVE  InStep(Tail(q), r, d)
<1> DEFINE a == Head(q)  t == Tail(q)
<1>0. a \in Reply BY TailFacts
<1>1. a \in OfExchange /\ a.arg \in {"+", "server-first", "server-final"}
  BY <1>0, ReplyKind, ReplyFields
<1>2. Silent(t, s) /\ AtIn(a, s, d) BY <1>1, StepRead
<1>3. /\ d.mech = s.sasl_mech
      /\ a.arg = "+" => d.sasl = 1 /\ s.scram_session = 0
      /\ a.arg = "server-first" => d.mech = "SCRAM" /\ d.sasl = 2 /\ s.scram_session = 1
      /\ a.arg = "server-final" => d.mech = "SCRAM" /\ d.sasl = 3 /\ s.scram_session = 2
  BY <1>2 DEF AtIn
<1>4. PICK arg \in {"data", "+", "*"}, n \in 0..2 :
        /\ AnswersWith(s, r, [cmd |-> "AUTH", arg |-> arg], n)
        /\ \/ s.sasl_mech = "EXTERNAL" /\ arg = "+" /\ n = s.scram_session
           \/ s.sasl_mech \notin {"EXTERNAL", "SCRAM"} /\ arg # "+" /\ n = s.scram_session
           \/ s.sasl_mech = "SCRAM" /\ s.scram_session = 0 /\ arg = "data" /\ n = 1
           \/ /\ s.sasl_mech = "SCRAM" /\ s.scram_session = 1 /\ a.arg = "server-first"
              /\ arg = "data" /\ n = 2
           \/ s.sasl_mech = "SCRAM" /\ arg # "data" /\ n = 0
  BY AuthenticateFields
<1> DEFINE m == [cmd |-> "AUTH", arg |-> arg]
<1>5. /\ m \in Command /\ m \in ToExchange /\ m \notin OpensOut /\ m.cmd = "AUTH" /\ m.arg = arg
      /\ arg \notin Mechs
  BY PayloadKind
<1>6. r.out = Append(s.out, m) /\ r.sasl_mech = s.sasl_mech /\ r.scram_session = n
  BY <1>4 DEF AnswersWith
<1> HIDE DEF m, t
<1>7. AtOut(m, r, d)
  <2>1. CASE s.sasl_mech = "SCRAM" BY <2>1, <1>1, <1>3, <1>4, <1>5, <1>6 DEF AtOut
  <2>2. CASE s.sasl_mech # "SCRAM" BY <2>2, <1>1, <1>3, <1>4, <1>5, <1>6 DEF AtOut
  <2> QED BY <2>1, <2>2
<1>8. InStep(t, r, d) BY <1>2, <1>5, <1>6, <1>7, StepWrite
<1> QED BY <1>8 DEF t

-----------------------------------------------------------------------------
(* Capability flags, when a line is read and when one is written.  *)

LEMMA FlagsRead ==
  ASSUME NEW q \in Seq(Reply), q # <<>>, NEW s, NEW d, Flags(q, s, d), NEW r,
         \A c \in Caps : IF Head(q) \in Toggles(c) THEN c \in r.have <=> Head(q).cmd = "ACK"
                                                   ELSE c \in r.have <=> c \in s.have
  PROVE  Flags(Tail(q), r, d)
<1> DEFINE t == Tail(q)  l == Len(q)  k == Len(t)
<1>1. /\ l \in Nat \ {0} /\ Head(q) = q[1] /\ k = l - 1
      /\ \A i \in 1..k : i + 1 \in 1..l /\ t[i] = q[i + 1]
      /\ \A i \in 1..l : i = 1 \/ (i - 1 \in 1..k /\ t[i - 1] = q[i])
  BY TailFacts
<1>2. 1 \in 1..l BY <1>1
<1> SUFFICES ASSUME NEW c \in Caps \cap ClearedCaps
             PROVE  /\ Free(t, Toggles(c)) => (c \in r.have <=> c \in d.enabled)
                    /\ \A i \in 1..k :
                         LastToggle(t, i, c) => (t[i].cmd = "ACK" <=> c \in d.enabled)
    BY DEF Flags
<1> DEFINE A == Toggles(c)
<1>3. /\ Free(q, A) => (c \in s.have <=> c \in d.enabled)
      /\ \A i \in 1..l : LastToggle(q, i, c) => (q[i].cmd = "ACK" <=> c \in d.enabled)
  BY DEF Flags
<1>4. /\ Head(q) \in A => (c \in r.have <=> Head(q).cmd = "ACK")
      /\ Head(q) \notin A => (c \in r.have <=> c \in s.have)
  OBVIOUS
<1>5. Free(q, A) <=> Head(q) \notin A /\ Free(t, A) BY FreeTail
<1>6. ASSUME Free(t, A) PROVE c \in r.have <=> c \in d.enabled
  <2>1. CASE Head(q) \notin A BY <2>1, <1>3, <1>4, <1>5, <1>6
  <2>2. CASE Head(q) \in A
    <3>1. \A j \in 1..l : q[j] \in A => j <= 1
      <4>1. \A i \in 1..k : t[i] \notin A BY <1>6 DEF Free
      <4> HIDE DEF A, l, k, t
      <4> QED BY <4>1, <1>1, SMTT(30)
    <3>2. LastToggle(q, 1, c) BY <2>2, <3>1, <1>1 DEF LastToggle
    <3> QED BY <3>2, <2>2, <1>1, <1>2, <1>3, <1>4
  <2> QED BY <2>1, <2>2
<1>7. ASSUME NEW i \in 1..k, LastToggle(t, i, c) PROVE t[i].cmd = "ACK" <=> c \in d.enabled
  <2>1. t[i] \in A /\ \A j \in 1..k : t[j] \in A => j <= i BY <1>7 DEF LastToggle
  <2>2. \A j \in 1..l : q[j] \in A => j <= i + 1
    <3> HIDE DEF A, l, k, t
    <3> SUFFICES ASSUME NEW j \in 1..l, q[j] \in A PROVE j <= i + 1 OBVIOUS
    <3>1. CASE j = 1 BY <3>1, <1>1
    <3>2. CASE j # 1
      <4>1. j - 1 \in 1..k /\ t[j - 1] \in A BY <3>2, <1>1
      <4>2. j - 1 <= i BY <4>1, <2>1
      <4> QED BY <4>2, <1>1
    <3> QED BY <3>1, <3>2
  <2>3. LastToggle(q, i + 1, c) BY <2>1, <2>2, <1>1, <1>7 DEF LastToggle
  <2> QED BY <2>3, <1>1, <1>3, <1>7
<1> QED BY <1>6, <1>7

LEMMA FlagsReply ==
  ASSUME NEW q \in Seq(Reply), NEW s, NEW d, Flags(q, s, d), NEW a \in Reply, NEW e,
         \A c \in Caps : IF a \in Toggles(c) THEN c \in e.enabled <=> a.cmd = "ACK"
                                             ELSE c \in e.enabled <=> c \in d.enabled
  PROVE  Flags(Append(q, a), s, e)
<1> DEFINE p == Append(q, a)  l == Len(q)  k == Len(p)
<1>1. /\ l \in Nat /\ k = l + 1 /\ l + 1 \in 1..k /\ p[l + 1] = a
      /\ \A i \in 1..l : i \in 1..k /\ p[i] = q[i]
      /\ \A i \in 1..k : i \in 1..l \/ i = l + 1
  BY AppendFacts
<1> SUFFICES ASSUME NEW c \in Caps \cap ClearedCaps
             PROVE  /\ Free(p, Toggles(c)) => (c \in s.have <=> c \in e.enabled)
                    /\ \A i \in 1..k :
                         LastToggle(p, i, c) => (p[i].cmd = "ACK" <=> c \in e.enabled)
    BY DEF Flags
<1> DEFINE A == Toggles(c)
<1>3. /\ Free(q, A) => (c \in s.have <=> c \in d.enabled)
      /\ \A i \in 1..l : LastToggle(q, i, c) => (q[i].cmd = "ACK" <=> c \in d.enabled)
  BY DEF Flags
<1>4. /\ a \in A => (c \in e.enabled <=> a.cmd = "ACK")
      /\ a \notin A => (c \in e.enabled <=> c \in d.enabled)
  OBVIOUS
<1>5. Free(p, A) <=> Free(q, A) /\ a \notin A BY FreeAppend
<1>6. Free(p, A) => (c \in s.have <=> c \in e.enabled) BY <1>3, <1>4, <1>5
<1>7. ASSUME NEW i \in 1..k, LastToggle(p, i, c) PROVE p[i].cmd = "ACK" <=> c \in e.enabled
  <2>1. p[i] \in A /\ \A j \in 1..k : p[j] \in A => j <= i BY <1>7 DEF LastToggle
  <2>2. CASE a \in A
    <3>1. i = l + 1
      <4> HIDE DEF A, l, k, p
      <4> QED BY <2>1, <2>2, <1>1, <1>7
    <3> QED BY <3>1, <2>2, <1>1, <1>4
  <2>3. CASE a \notin A
    <3>1. i \in 1..l BY <2>1, <2>3, <1>1, <1>7
    <3>2. \A j \in 1..l : q[j] \in A => j <= i BY <2>1, <1>1
    <3>3. LastToggle(q, i, c) BY <3>1, <3>2, <2>1, <1>1 DEF LastToggle
    <3> QED BY <3>1, <3>3, <2>3, <1>1, <1>3, <1>4
  <2> QED BY <2>2, <2>3
<1> QED BY <1>6, <1>7

LEMMA FlagsSame ==
  ASSUME NEW q, NEW s, NEW d, Flags(q, s, d), NEW r, r.have = s.have,
         NEW e, e.enabled = d.enabled
  PROVE  Flags(q, r, e)
BY DEF Flags

-----------------------------------------------------------------------------
(* STS policies, when lines are read and written.  *)

LEMMA LastLsFirst ==
  ASSUME NEW q \in Seq(Reply), NEW s, LastLs(q, s)
  PROVE  q # <<>> /\ Head(q) \in LsLines
<1>1. PICK i \in 1..Len(q) : /\ q[i] \in LsLines
                             /\ \A j \in 1..Len(q) : j < i => q[j] \in LsLines
  BY DEF LastLs
<1>2. Len(q) \in Nat BY LenProperties
<1>3. q # <<>> BY <1>1, <1>2
<1>4. 1 \in 1..Len(q) /\ Head(q) = q[1] BY <1>3, TailFacts
<1>5. i = 1 \/ 1 < i BY <1>1, <1>2
<1> QED BY <1>1, <1>3, <1>4, <1>5

LEMMA LastLsAppend ==
  ASSUME NEW q \in Seq(Reply), NEW s, LastLs(q, s), NEW a \in Reply,
         NEW r, r.sts_upgrade_port = s.sts_upgrade_port
  PROVE  LastLs(Append(q, a), r)
<1> DEFINE p == Append(q, a)  l == Len(q)  k == Len(p)
<1>1. /\ l \in Nat /\ k = l + 1 /\ \A i \in 1..l : i \in 1..k /\ p[i] = q[i]
  BY AppendFacts
<1>2. PICK i \in 1..l :
        /\ q[i] \in LsLines /\ ~q[i].more
        /\ \A j \in 1..l : j < i => q[j] \in LsLines /\ q[j].more
        /\ s.sts_upgrade_port \/ \E j \in 1..l : j <= i /\ q[j].sts
  BY DEF LastLs
<1> SUFFICES /\ i \in 1..k /\ p[i] \in LsLines /\ ~p[i].more
             /\ \A j \in 1..k : j < i => p[j] \in LsLines /\ p[j].more
             /\ r.sts_upgrade_port \/ \E j \in 1..k : j <= i /\ p[j].sts
    BY DEF LastLs
<1> HIDE DEF p, l, k
<1>3. \A j \in 1..k : j < i => j \in 1..l BY <1>1, <1>2
<1>4. \A j \in 1..k : j < i => p[j] \in LsLines /\ p[j].more BY <1>1, <1>2, <1>3
<1>5. r.sts_upgrade_port \/ \E j \in 1..k : j <= i /\ p[j].sts BY <1>1, <1>2
<1> QED BY <1>1, <1>2, <1>4, <1>5

(* A line other than CAP LS. *)
LEMMA PlainRead ==
  ASSUME NEW q \in Seq(Reply), q # <<>>, NEW s, NEW d, Plain(q, s, d), Head(q) \notin LsLines,
         NEW r, r.ssl = s.ssl
  PROVE  Plain(Tail(q), r, d)
<1>1. r.ssl \/ ~d.offer.sts BY LastLsFirst DEF Plain
<1>2. Free(q, Policies) => Free(Tail(q), Policies) BY FreeTail
<1> QED BY <1>1, <1>2 DEF Plain

(* A line of CAP LS. *)
LEMMA PlainReadLs ==
  ASSUME NEW q \in Seq(Reply), q # <<>>, NEW s \in Server, s.connected, NEW d, Plain(q, s, d),
         Head(q).cmd = "LS", NEW c, c = cap_ls_request(s, Head(q))
  PROVE  /\ Head(q).more => Plain(Tail(q), c, d)
         /\ ~Head(q).more /\ ~c.sts_upgrade_port => c.ssl \/ ~d.offer.sts
         /\ Free(Tail(q), Policies) \/ d.offer.sts
<1> DEFINE a == Head(q)  t == Tail(q)  l == Len(q)  k == Len(t)
           wants == wants_sasl(s, a)
           wanted == IF wants THEN a.caps ELSE a.caps \ {"sasl"}
           m == [cmd |-> "REQ", caps |-> wanted]
<1>0. a \in Reply /\ s.out \in Seq(Command) BY TailFacts, ServerTyped
<1>1. /\ l \in Nat \ {0} /\ a = q[1] /\ k = l - 1
      /\ \A i \in 1..l : i = 1 \/ (i - 1 \in 1..k /\ t[i - 1] = q[i])
      /\ \A i \in 1..k : i + 1 \in 1..l /\ t[i] = q[i + 1]
  BY TailFacts
<1>2. /\ Fixed(s, c) /\ wanted \in SUBSET Caps
      /\ c.out = IF wanted = {} THEN s.out ELSE Append(s.out, m)
      /\ c.sts_upgrade_port <=> s.sts_upgrade_port \/ (a.sts /\ ~s.ssl)
  BY <1>0, LsFields
<1>3. m \in Command /\ m \notin Ends BY <1>2, RequestKind, ZenonT(60)
<1>4. Free(s.out, Ends) => Free(c.out, Ends) BY <1>0, <1>2, <1>3, FreeAppend
<1>5. Free(q, Policies) => Free(t, Policies) BY FreeTail
<1>6. c.ssl = s.ssl BY <1>2 DEF Fixed
<1>7. ASSUME LastLs(q, s), ~s.ssl
      PROVE  /\ a.more => LastLs(t, c)
             /\ ~a.more => c.sts_upgrade_port
  <2>1. PICK i \in 1..l :
          /\ q[i] \in LsLines /\ ~q[i].more
          /\ \A j \in 1..l : j < i => q[j] \in LsLines /\ q[j].more
          /\ s.sts_upgrade_port \/ \E j \in 1..l : j <= i /\ q[j].sts
    BY <1>7 DEF LastLs
  <2> HIDE DEF a, t, l, k
  <2>2. 1 \in 1..l BY <1>1
  <2>3. ASSUME ~a.more PROVE c.sts_upgrade_port
    <3>1. i = 1 BY <2>1, <2>2, <2>3, <1>1
    <3>2. s.sts_upgrade_port \/ a.sts BY <2>1, <3>1, <1>1
    <3> QED BY <3>2, <1>2, <1>7
  <2>4. ASSUME a.more PROVE LastLs(t, c)
    <3>1. i # 1 BY <2>1, <2>4, <1>1
    <3>2. i - 1 \in 1..k /\ t[i - 1] = q[i] BY <3>1, <1>1, <2>1
    <3>3. \A j \in 1..k : j < i - 1 => t[j] \in LsLines /\ t[j].more
      <4> TAKE j \in 1..k
      <4>1. j + 1 \in 1..l /\ t[j] = q[j + 1] /\ (j < i - 1 => j + 1 < i) BY <1>1, <2>1
      <4> QED BY <4>1, <2>1
    <3>4. c.sts_upgrade_port \/ \E j \in 1..k : j <= i - 1 /\ t[j].sts
      <4>1. CASE s.sts_upgrade_port BY <4>1, <1>2
      <4>2. ASSUME NEW j \in 1..l, j <= i, q[j].sts
            PROVE  c.sts_upgrade_port \/ \E h \in 1..k : h <= i - 1 /\ t[h].sts
        <5>1. CASE j = 1 BY <5>1, <4>2, <1>1, <1>2, <1>7
        <5>2. CASE j # 1
          <6>1. j - 1 \in 1..k /\ t[j - 1] = q[j] /\ j - 1 <= i - 1 BY <5>2, <4>2, <1>1, <2>1
          <6> QED BY <6>1, <4>2
        <5> QED BY <5>1, <5>2
      <4> QED BY <4>1, <4>2, <2>1
    <3> QED BY <3>2, <3>3, <3>4, <2>1 DEF LastLs, k
  <2> QED BY <2>3, <2>4
<1>8. ~s.ssl /\ d.offer.sts => ~d.registered /\ Free(s.out, Ends) /\ LastLs(q, s)
  BY DEF Plain
<1> HIDE DEF a, t, m, wanted, wants
<1>9. a.more => Plain(t, c, d)
  <2>1. d.offer.sts \/ Free(t, Policies) BY <1>5 DEF Plain
  <2>2. ASSUME a.more, ~c.ssl, d.offer.sts
        PROVE  ~d.registered /\ Free(c.out, Ends) /\ LastLs(t, c)
    BY <2>2, <1>4, <1>6, <1>7, <1>8
  <2> QED BY <2>1, <2>2 DEF Plain
<1>10. ~a.more /\ ~c.sts_upgrade_port => c.ssl \/ ~d.offer.sts BY <1>6, <1>7, <1>8
<1>11. Free(t, Policies) \/ d.offer.sts BY <1>5 DEF Plain
<1> QED BY <1>9, <1>10, <1>11 DEF a, t

-----------------------------------------------------------------------------
(* The handlers keep the invariant.  *)

LEMMA MethodKept ==
  ASSUME NEW s \in Server, NEW r \in Server, NEW f, Method(s, f), Settings(s, r),
         r.sasl_mech \in {s.sasl_mech, s.loginmethod},
         r.refreshing => s.refreshing \/ (s.connected /\ s.loginmethod = "OAUTHBEARER"),
         r.waiting_on_sasl => s.waiting_on_sasl,
         r.scram_session \in {0, s.scram_session} \/ s.loginmethod = "SCRAM"
  PROVE  Method(r, f)
BY DEF Method, Settings, Fixed

(* Any line but CAP LS. *)
LEMMA HandledGood ==
  ASSUME NEW q \in Seq(Reply), q # <<>>, NEW s \in Server, s.connected, NEW d, NEW f,
         Good(q, s, d, f), Head(q).cmd # "LS", NEW r \in Server, Settings(s, r), Method(r, f),
         \A c \in Caps : IF Head(q) \in Toggles(c) THEN c \in r.have <=> Head(q).cmd = "ACK"
                                                   ELSE c \in r.have <=> c \in s.have,
         ~Late(s, f) /\ Registering(q, s, d) => Registering(Tail(q), r, d),
         s.loginmethod # "OAUTHBEARER" /\ InStep(q, s, d) => InStep(Tail(q), r, d)
  PROVE  Good(Tail(q), r, d, f)
<1> DEFINE t == Tail(q)
<1>0. Head(q) \in Reply BY TailFacts
<1>1. Head(q) \notin LsLines BY <1>0, ReplyKind
<1>2. Now(q, s, d, f) BY DEF Good
<1>3. /\ r.connected = s.connected /\ r.ssl = s.ssl /\ r.loginmethod = s.loginmethod
      /\ r.needless = s.needless /\ r.sts_upgrade_port = s.sts_upgrade_port
  BY DEF Settings, Fixed
<1>4. Flags(t, r, d) BY <1>2, FlagsRead DEF Now
<1>5. s.loginmethod = "none" => Plain(t, r, d) BY <1>1, <1>2, <1>3, PlainRead DEF Now
<1>6. Late(r, f) <=> Late(s, f) BY <1>3 DEF Late
<1>7. Free(q, Policies) => Free(t, Policies) BY FreeTail
<1>a. ~Late(s, f) /\ ~d.registered => Registering(t, r, d) BY <1>2 DEF Now
<1>b. s.loginmethod # "OAUTHBEARER" /\ Lacks(f, {"abort"}) => InStep(t, r, d) BY <1>2 DEF Now
<1> HIDE DEF t
<1>8. Now(t, r, d, f) BY <1>3, <1>4, <1>5, <1>6, <1>a, <1>b DEF Now
<1>9. s.loginmethod = "none" /\ Lacks(f, {"drop"}) => Port(r, d) BY <1>3 DEF Good, Port
<1>10. Lacks(f, {"sts"}) => Unannounced(t, r, d) BY <1>3, <1>7 DEF Good, Unannounced
<1>11. Good(t, r, d, f) BY <1>3, <1>8, <1>9, <1>10 DEF Good
<1> QED BY <1>11 DEF t

(* Lines that toggle no flag. *)
LEMMA NoToggle ==
  ASSUME NEW a \in Reply, a.cmd \notin {"ACK", "DEL"}, NEW s, NEW r, r.have = s.have
  PROVE  \A c \in Caps : IF a \in Toggles(c) THEN c \in r.have <=> a.cmd = "ACK"
                                             ELSE c \in r.have <=> c \in s.have
BY ReplyKind

(* Coming back with TLS. *)
LEMMA UpgradeGood ==
  ASSUME NEW s \in Server, NEW f, Method(s, f), s.sts_upgrade_port, ~Lacks(f, {"sts"}),
         s.loginmethod = "none" /\ Lacks(f, {"drop"}) => ~s.needless /\ ~s.ssl,
         NEW r, r = connect(disconnect([s EXCEPT !.sts_upgrade_port = FALSE,
                                                 !.needless = @ \/ s.ssl]), TRUE),
         NEW offer \in Offer
  PROVE  r \in Server /\ Good(<<>>, r, Welcome(offer), f)
<1> DEFINE no == FALSE  n == s.needless \/ s.ssl
           u == [s EXCEPT !.sts_upgrade_port = no, !.needless = n]
           v == disconnect(u)
<1>1. no \in BOOLEAN /\ ~no /\ n \in BOOLEAN /\ (n <=> s.needless \/ s.ssl) BY ServerTyped
<1>2. r = connect(v, TRUE) OBVIOUS
<1> HIDE DEF no, n
<1>3. u \in Server BY <1>1 DEF Server
<1>4. /\ ~u.sts_upgrade_port /\ u.needless = n /\ u.refreshing = s.refreshing /\ u.late = s.late
      /\ u.loginmethod = s.loginmethod /\ u.waiting_on_sasl = s.waiting_on_sasl
  BY <1>1 DEF Server
<1> HIDE DEF u
<1>5. /\ v \in Server /\ ~v.refreshing /\ v.needless = u.needless
      /\ v.late = IF u.refreshing THEN u.late + 1 ELSE u.late
      /\ v.loginmethod = u.loginmethod /\ v.sts_upgrade_port = u.sts_upgrade_port
      /\ v.waiting_on_sasl = u.waiting_on_sasl
  BY <1>3, DisconnectFields
<1> HIDE DEF v
<1>6. /\ r \in Server /\ r.connected /\ r.out = <<[cmd |-> "LS"]>>
      /\ r.have = v.have \ ClearedCaps /\ r.sasl_mech = "PLAIN" /\ ~r.sent_capend
      /\ r.scram_session = 0 /\ r.refreshing = v.refreshing /\ r.late = v.late
      /\ r.loginmethod = v.loginmethod /\ r.needless = v.needless
      /\ r.sts_upgrade_port = v.sts_upgrade_port /\ r.waiting_on_sasl = v.waiting_on_sasl
  BY <1>2, <1>5, ConnectFields
<1>7. ~r.refreshing /\ r.have \cap ClearedCaps = {} BY <1>5, <1>6
<1>8. Now(<<>>, r, Welcome(offer), f) BY <1>6, <1>7, FreshNow
<1>9. r.late > 0 => r.loginmethod = "OAUTHBEARER" /\ ~Lacks(f, {"drop", "sts"})
  <2>1. ~Lacks(f, {"drop", "sts"}) BY DEF Lacks
  <2>2. r.late > 0 => s.refreshing \/ s.late > 0 BY <1>4, <1>5, <1>6
  <2> QED BY <2>1, <2>2, <1>4, <1>5, <1>6 DEF Method
<1>10. Method(r, f) BY <1>4, <1>5, <1>6, <1>7, <1>9, ZenonT(60) DEF Method
<1>11. r.loginmethod = "none" /\ Lacks(f, {"drop"}) => Port(r, Welcome(offer))
  <2>1. r.needless <=> s.needless \/ s.ssl BY <1>1, <1>4, <1>5, <1>6
  <2>2. ~r.sts_upgrade_port BY <1>4, <1>5, <1>6
  <2>3. r.loginmethod = s.loginmethod BY <1>4, <1>5, <1>6
  <2> QED BY <2>1, <2>2, <2>3 DEF Port
<1> QED BY <1>6, <1>8, <1>10, <1>11 DEF Good

(* CAP LS. *)
LEMMA LsGood ==
  ASSUME NEW q \in Seq(Reply), q # <<>>, NEW s \in Server, s.connected, NEW d \in Ircd, NEW f,
         Good(q, s, d, f), Head(q).cmd = "LS", NEW c, c = cap_ls_request(s, Head(q))
  PROVE  /\ c \in Server /\ c.connected /\ Method(c, f)
         /\ waiting(c) => Good(Tail(q), c, d, f)
         /\ ~waiting(c) /\ ~c.sts_upgrade_port => Good(Tail(q), cap_end(c), d, f)
         /\ c.sts_upgrade_port => ~Lacks(f, {"sts"})
         /\ c.sts_upgrade_port /\ c.loginmethod = "none" /\ Lacks(f, {"drop"})
              => ~c.needless /\ ~c.ssl
<1> DEFINE a == Head(q)  t == Tail(q)  wants == wants_sasl(s, a)
           wanted == IF wants THEN a.caps ELSE a.caps \ {"sasl"}
<1>0. a \in Reply /\ t \in Seq(Reply) BY TailFacts
<1> DEFINE m == [cmd |-> "REQ", caps |-> wanted]
<1>r. /\ c \in Server /\ Fixed(s, c) /\ wanted \in SUBSET Caps
      /\ c.out = IF wanted = {} THEN s.out ELSE Append(s.out, m)
      /\ c.have = s.have /\ c.refreshing = s.refreshing
      /\ c.scram_session = s.scram_session /\ c.waiting_on_cap = a.more
      /\ c.sasl_mech \in {s.sasl_mech, s.loginmethod}
      /\ c.waiting_on_sasl <=> s.waiting_on_sasl \/ wants
      /\ c.sts_upgrade_port <=> s.sts_upgrade_port \/ (a.sts /\ ~s.ssl)
  BY <1>0, LsFields
<1> HIDE DEF wanted, m
<1>1. /\ c \in Server /\ Fixed(s, c) /\ c.have = s.have /\ c.refreshing = s.refreshing
      /\ c.scram_session = s.scram_session
      /\ c.sasl_mech \in {s.sasl_mech, s.loginmethod} /\ c.waiting_on_cap = a.more
      /\ c.waiting_on_sasl <=> s.waiting_on_sasl \/ wants
      /\ c.sts_upgrade_port <=> s.sts_upgrade_port \/ (a.sts /\ ~s.ssl)
  BY <1>r
<1>2. s.loginmethod = "none" => ~wants BY DEF wants_sasl
<1>3. /\ c.connected = s.connected /\ c.ssl = s.ssl /\ c.loginmethod = s.loginmethod
      /\ c.late = s.late /\ c.needless = s.needless
  BY <1>1 DEF Fixed
<1>4. Now(q, s, d, f) /\ Method(s, f) BY DEF Good
<1>p. a \in Policies <=> a.sts BY <1>0, ReplyKind
<1>q. Free(q, Policies) => ~a.sts /\ Free(t, Policies) BY <1>p, FreeTail
<1> HIDE DEF wants
<1>5. Method(c, f) BY <1>1, <1>2, <1>3, <1>4 DEF Method
<1>6. Flags(t, c, d) BY <1>0, <1>1, <1>4, NoToggle, FlagsRead DEF Now
<1>7. s.loginmethod = "none" /\ Lacks(f, {"drop"}) => Port(c, d)
  <2> SUFFICES ASSUME s.loginmethod = "none", Lacks(f, {"drop"}) PROVE Port(c, d) OBVIOUS
  <2>1. Port(s, d) BY DEF Good
  <2>2. a.sts => d.offer.sts BY <1>4, <1>q DEF Now, Plain
  <2> QED BY <2>1, <2>2, <1>1, <1>3 DEF Port
<1>8. Lacks(f, {"sts"}) => Unannounced(t, c, d) BY <1>1, <1>q DEF Good, Unannounced
<1>9. Late(c, f) <=> Late(s, f) BY <1>3 DEF Late
<1>10. ~Late(s, f) /\ ~d.registered =>
         /\ Registering(t, c, d) /\ (~waiting(c) => Done(t, c, d) /\ ~c.sent_capend)
  BY <1>4, LsRegisters DEF Now
<1>11. s.loginmethod # "OAUTHBEARER" /\ Lacks(f, {"abort"}) => InStep(t, c, d)
  BY <1>4, LsInStep DEF Now
<1>12. s.loginmethod = "none" =>
         /\ a.more => Plain(t, c, d)
         /\ ~a.more /\ ~c.sts_upgrade_port => c.ssl \/ ~d.offer.sts
         /\ Free(t, Policies) \/ d.offer.sts
  BY <1>4, PlainReadLs DEF Now
<1> HIDE DEF a, t
<1>13. ASSUME waiting(c) PROVE Good(t, c, d, f)
  <2>1. s.loginmethod = "none" => a.more BY <1>1, <1>2, <1>4, <1>13 DEF waiting, Method
  <2>2. Now(t, c, d, f) BY <2>1, <1>3, <1>6, <1>9, <1>10, <1>11, <1>12 DEF Now
  <2> QED BY <2>2, <1>3, <1>5, <1>7, <1>8 DEF Good
<1>14. ASSUME ~waiting(c), ~c.sts_upgrade_port PROVE Good(t, cap_end(c), d, f)
  <2> DEFINE r == cap_end(c)
  <2>1. /\ r \in Server /\ r.out = Append(c.out, [cmd |-> "END"]) /\ Settings(c, r)
        /\ r.sasl_mech = c.sasl_mech /\ r.have = c.have /\ r.sent_capend
        /\ r.waiting_on_sasl = c.waiting_on_sasl
        /\ r.scram_session = c.scram_session /\ r.refreshing = c.refreshing
    BY <1>1, <1>3, CapEndFields
  <2> HIDE DEF r
  <2>2. /\ r.connected = c.connected /\ r.ssl = c.ssl /\ r.loginmethod = c.loginmethod
        /\ r.needless = c.needless /\ r.sts_upgrade_port = c.sts_upgrade_port
    BY <2>1 DEF Settings, Fixed
  <2>3. Method(r, f) BY <2>1, <1>1, <1>5, MethodKept
  <2>4. Flags(t, r, d) BY <2>1, <1>6, FlagsSame
  <2>5. ~Late(s, f) /\ ~d.registered => Registering(t, r, d)
    <3> SUFFICES ASSUME ~Late(s, f), ~d.registered PROVE Registering(t, r, d) OBVIOUS
    <3>1. Done(t, c, d) /\ ~c.sent_capend BY <1>10, <1>14
    <3>2. Done(t, r, d) BY <3>1, <2>1, <1>1, EndKind, DoneWrites
    <3> QED BY <3>2, DoneRegisters
  <2>6. s.loginmethod # "OAUTHBEARER" /\ Lacks(f, {"abort"}) => InStep(t, r, d)
    <3>1. r.out \in {c.out, Append(c.out, [cmd |-> "END"])} BY <2>1
    <3>2. r.sasl_mech = c.sasl_mech /\ r.scram_session = c.scram_session BY <2>1
    <3> QED BY <3>1, <3>2, <1>1, <1>11, EndInStep
  <2>7. s.loginmethod = "none" => Plain(t, r, d)
    <3> SUFFICES ASSUME s.loginmethod = "none" PROVE Plain(t, r, d) OBVIOUS
    <3>1. ~a.more BY <1>1, <1>14 DEF waiting
    <3>2. c.ssl \/ ~d.offer.sts BY <3>1, <1>12, <1>14
    <3> QED BY <3>2, <2>2, <1>12 DEF Plain
  <2>8. Late(r, f) <=> Late(s, f) BY <2>2, <1>3 DEF Late
  <2>9. Now(t, r, d, f) BY <2>2, <2>4, <2>5, <2>6, <2>7, <2>8, <1>3 DEF Now
  <2>10. Lacks(f, {"sts"}) => Unannounced(t, r, d) BY <2>2, <1>8 DEF Unannounced
  <2>11. r.loginmethod = "none" /\ Lacks(f, {"drop"}) => Port(r, d)
    BY <2>2, <1>3, <1>7 DEF Port
  <2>12. Good(t, r, d, f) BY <2>2, <2>3, <2>9, <2>10, <2>11, <1>3 DEF Good
  <2> QED BY <2>12 DEF r
<1>15. c.sts_upgrade_port => ~Lacks(f, {"sts"}) BY <1>8 DEF Unannounced
<1>16. c.sts_upgrade_port /\ c.loginmethod = "none" /\ Lacks(f, {"drop"}) => ~c.needless /\ ~c.ssl
  BY <1>3, <1>7 DEF Port
<1> QED BY <1>1, <1>3, <1>5, <1>13, <1>14, <1>15, <1>16 DEF t

(* CAP ACK, CAP DEL and AUTHENTICATE. *)
LEMMA AckGood ==
  ASSUME NEW q \in Seq(Reply), q # <<>>, NEW s \in Server, s.connected, NEW d, NEW f,
         Good(q, s, d, f), Head(q).cmd = "ACK", NEW r, r = toggle_ack(s, Head(q).caps)
  PROVE  r \in Server /\ Good(Tail(q), r, d, f)
<1> DEFINE a == Head(q)  caps == Head(q).caps
<1>0. a \in Reply BY TailFacts
<1>1. caps \in SUBSET Caps BY <1>0, ReplyFields
<1>2. /\ r \in Server /\ Settings(s, r) /\ r.have = s.have \cup caps
      /\ r.sasl_mech \in {s.sasl_mech, s.loginmethod}
      /\ r.refreshing = s.refreshing
      /\ r.scram_session = s.scram_session /\ r.waiting_on_sasl = s.waiting_on_sasl
  <2>1. /\ r \in Server /\ Settings(s, r) /\ r.have = s.have \cup caps
        /\ "sasl" \notin caps => r.out = s.out /\ r.sasl_mech = s.sasl_mech
        /\ "sasl" \in caps => /\ r.out = Append(s.out, [cmd |-> "AUTH", arg |-> r.sasl_mech])
                              /\ r.sasl_mech \in {s.sasl_mech, s.loginmethod}
        /\ r.refreshing = s.refreshing
        /\ r.scram_session = s.scram_session /\ r.waiting_on_sasl = s.waiting_on_sasl
    BY <1>1, AckFields
  <2> QED BY <2>1
<1>3. Method(r, f) BY <1>2, MethodKept DEF Good
<1>4. \A c \in Caps : IF a \in Toggles(c) THEN c \in r.have <=> a.cmd = "ACK"
                                          ELSE c \in r.have <=> c \in s.have
  BY <1>0, <1>2, ReplyKind
<1>5. Registering(q, s, d) => Registering(Tail(q), r, d) BY AckRegisters
<1>6. InStep(q, s, d) => InStep(Tail(q), r, d) BY AckInStep
<1>7. a.cmd # "LS" OBVIOUS
<1> QED BY <1>2, <1>3, <1>4, <1>5, <1>6, <1>7, HandledGood

LEMMA DelGood ==
  ASSUME NEW q \in Seq(Reply), q # <<>>, NEW s \in Server, s.connected, NEW d, NEW f,
         Good(q, s, d, f), Head(q).cmd = "DEL", NEW r, r = del(s, Head(q).caps)
  PROVE  r \in Server /\ Good(Tail(q), r, d, f)
<1> DEFINE a == Head(q)  caps == Head(q).caps
<1>0. a \in Reply BY TailFacts
<1>2. /\ r \in Server /\ Settings(s, r) /\ r.have = s.have \ caps /\ r.out = s.out
      /\ r.sasl_mech = s.sasl_mech /\ r.sent_capend = s.sent_capend
      /\ r.refreshing = s.refreshing /\ r.scram_session = s.scram_session
      /\ r.waiting_on_sasl = s.waiting_on_sasl
  BY DelFields
<1>3. Method(r, f) BY <1>2, MethodKept DEF Good
<1>4. \A c \in Caps : IF a \in Toggles(c) THEN c \in r.have <=> a.cmd = "ACK"
                                          ELSE c \in r.have <=> c \in s.have
  BY <1>0, <1>2, ReplyKind
<1>5. Registering(q, s, d) => Registering(Tail(q), r, d)
  <2> SUFFICES ASSUME Registering(q, s, d) PROVE Registering(Tail(q), r, d) OBVIOUS
  <2>1. Registering(Tail(q), s, d) BY RegisteringTail
  <2> QED BY <2>1, <1>2, SameRegisters
<1>6. InStep(q, s, d) => InStep(Tail(q), r, d) BY DelInStep
<1>7. a.cmd # "LS" OBVIOUS
<1> QED BY <1>2, <1>3, <1>4, <1>5, <1>6, <1>7, HandledGood

LEMMA AuthenticateGood ==
  ASSUME NEW q \in Seq(Reply), q # <<>>, NEW s \in Server, s.connected, NEW d \in Ircd, NEW f,
         Good(q, s, d, f), Head(q).cmd = "AUTH", NEW ok \in BOOLEAN,
         NEW r, r = sasl_authenticate(s, Head(q).arg, ok)
  PROVE  r \in Server /\ Good(Tail(q), r, d, f)
<1> DEFINE a == Head(q)
<1>0. a \in Reply BY TailFacts
<1>1. PICK arg \in {"data", "+", "*"}, n \in 0..2 :
         /\ AnswersWith(s, r, [cmd |-> "AUTH", arg |-> arg], n)
         /\ n \in {0, s.scram_session} \/ s.sasl_mech = "SCRAM"
  BY AuthenticateFields
<1>2. /\ r \in Server /\ Settings(s, r) /\ r.have = s.have
      /\ r.sasl_mech = s.sasl_mech /\ r.refreshing = s.refreshing
      /\ r.scram_session = n /\ r.waiting_on_sasl = s.waiting_on_sasl
  BY <1>1 DEF AnswersWith
<1>m. Method(s, f) BY DEF Good
<1>l. s.sasl_mech = "SCRAM" => s.loginmethod = "SCRAM" BY <1>m DEF Method
<1>3. Method(r, f) BY <1>1, <1>2, <1>m, <1>l, MethodKept
<1>4. \A c \in Caps : IF a \in Toggles(c) THEN c \in r.have <=> a.cmd = "ACK"
                                          ELSE c \in r.have <=> c \in s.have
  BY <1>0, <1>2, ReplyKind
<1>5. Registering(q, s, d) => Registering(Tail(q), r, d) BY AuthenticateRegisters
<1>6. s.loginmethod # "OAUTHBEARER" /\ InStep(q, s, d) => InStep(Tail(q), r, d)
  BY AuthenticateInStep
<1>7. a.cmd # "LS" OBVIOUS
<1> QED BY <1>2, <1>3, <1>4, <1>5, <1>6, <1>7, HandledGood

(* The numerics that end an exchange. *)
LEMMA NumericGood ==
  ASSUME NEW q \in Seq(Reply), q # <<>>, NEW s \in Server, s.connected, NEW d, NEW f,
         Good(q, s, d, f), Head(q).cmd \in {"903", "906"}, NEW r, r = sasl_finished(s)
  PROVE  r \in Server /\ Good(Tail(q), r, d, f)
<1> DEFINE a == Head(q)
<1>0. a \in Reply BY TailFacts
<1>2. /\ r \in Server /\ Settings(s, r)
      /\ r.sasl_mech = s.sasl_mech /\ r.have = s.have
      /\ ~r.waiting_on_sasl
      /\ r.scram_session = s.scram_session /\ r.refreshing = s.refreshing
  BY FinishedFields
<1>3. Method(r, f) BY <1>2, MethodKept DEF Good
<1>4. \A c \in Caps : IF a \in Toggles(c) THEN c \in r.have <=> a.cmd = "ACK"
                                          ELSE c \in r.have <=> c \in s.have
  BY <1>0, <1>2, ReplyKind
<1>5. Registering(q, s, d) => Registering(Tail(q), r, d)
  <2> SUFFICES ASSUME Registering(q, s, d) PROVE Registering(Tail(q), r, d) OBVIOUS
  <2>1. a \in Finals BY <1>0, ReplyKind
  <2>2. Done(Tail(q), s, d) BY <2>1, NumericDone
  <2>3. Done(Tail(q), r, d) BY <2>2, FinishedDone
  <2> QED BY <2>3, DoneRegisters
<1>6. InStep(q, s, d) => InStep(Tail(q), r, d) BY NumericInStep
<1>7. a.cmd # "LS" OBVIOUS
<1> QED BY <1>2, <1>3, <1>4, <1>5, <1>6, <1>7, HandledGood

-----------------------------------------------------------------------------
(* The token refresh.  *)

Attempted(s) == [s EXCEPT !.oauth_refresh_attempted = TRUE]
Refreshing(s, b) == [s EXCEPT !.refreshing = b]
LateAnswer(s) == [s EXCEPT !.late = @ - 1]

(* They differ in the refreshes only. *)
SameBut(s, r) ==
    /\ r.connected = s.connected /\ r.ssl = s.ssl /\ r.loginmethod = s.loginmethod
    /\ r.needless = s.needless /\ r.sts_upgrade_port = s.sts_upgrade_port
    /\ r.sasl_mech = s.sasl_mech /\ r.have = s.have /\ r.sent_capend = s.sent_capend
    /\ r.waiting_on_sasl = s.waiting_on_sasl /\ r.scram_session = s.scram_session
    /\ r.out = s.out

LEMMA RefreshFields ==
  ASSUME NEW s \in Server
  PROVE  /\ Attempted(s) \in Server /\ SameBut(s, Attempted(s))
         /\ Attempted(s).refreshing = s.refreshing /\ Attempted(s).late = s.late
         /\ \A b \in BOOLEAN : /\ Refreshing(s, b) \in Server /\ SameBut(s, Refreshing(s, b))
                               /\ Refreshing(s, b).refreshing = b
                               /\ Refreshing(s, b).late = s.late
         /\ s.late > 0 => /\ LateAnswer(s) \in Server /\ SameBut(s, LateAnswer(s))
                          /\ LateAnswer(s).refreshing = s.refreshing
                          /\ LateAnswer(s).late = s.late - 1
<1>1. /\ Attempted(s) \in Server /\ SameBut(s, Attempted(s))
      /\ Attempted(s).refreshing = s.refreshing /\ Attempted(s).late = s.late
  <2> DEFINE yes == TRUE  r == [s EXCEPT !.oauth_refresh_attempted = yes]
  <2>1. yes \in BOOLEAN /\ r = Attempted(s) BY DEF Attempted
  <2> HIDE DEF yes
  <2>2. r \in Server BY <2>1 DEF Server
  <2>3. SameBut(s, r) /\ r.refreshing = s.refreshing /\ r.late = s.late BY DEF Server, SameBut
  <2> QED BY <2>1, <2>2, <2>3
<1>2. ASSUME NEW b \in BOOLEAN
      PROVE  /\ Refreshing(s, b) \in Server /\ SameBut(s, Refreshing(s, b))
             /\ Refreshing(s, b).refreshing = b /\ Refreshing(s, b).late = s.late
  <2> DEFINE r == [s EXCEPT !.refreshing = b]
  <2>1. r = Refreshing(s, b) BY DEF Refreshing
  <2>2. r \in Server BY DEF Server
  <2>3. SameBut(s, r) /\ r.refreshing = b /\ r.late = s.late BY DEF Server, SameBut
  <2> QED BY <2>1, <2>2, <2>3
<1>3. ASSUME s.late > 0
      PROVE  /\ LateAnswer(s) \in Server /\ SameBut(s, LateAnswer(s))
             /\ LateAnswer(s).refreshing = s.refreshing /\ LateAnswer(s).late = s.late - 1
  <2> DEFINE n == s.late - 1  r == [s EXCEPT !.late = n]
  <2>1. s.late \in Nat BY ServerTyped
  <2>2. n \in Nat BY <2>1, <1>3
  <2>3. r = LateAnswer(s) BY DEF LateAnswer
  <2> HIDE DEF n
  <2>4. r \in Server BY <2>2 DEF Server
  <2>5. SameBut(s, r) /\ r.refreshing = s.refreshing /\ r.late = n BY DEF Server, SameBut
  <2> QED BY <2>3, <2>4, <2>5 DEF n
<1> QED BY <1>1, <1>2, <1>3

LEMMA RetryFailedFields ==
  ASSUME NEW s \in Server, s.connected, NEW r, r = retry_failed(s)
  PROVE  /\ r \in Server /\ Settings(s, r) /\ r.sasl_mech = s.sasl_mech /\ r.have = s.have
         /\ ~r.waiting_on_sasl /\ r.scram_session = 0 /\ r.refreshing = s.refreshing
<1> DEFINE e == inbound_sasl_error(s)
<1>1. r = sasl_finished(e) BY DEF retry_failed
<1>2. /\ e \in Server /\ Settings(s, e) /\ e.sasl_mech = s.sasl_mech /\ e.have = s.have
      /\ e.scram_session = 0 /\ e.refreshing = s.refreshing
  BY ErrorFields
<1> HIDE DEF e
<1>3. e.connected BY <1>2 DEF Settings, Fixed
<1>4. /\ r \in Server /\ Settings(e, r) /\ r.sasl_mech = e.sasl_mech /\ r.have = e.have
      /\ ~r.waiting_on_sasl /\ r.scram_session = e.scram_session /\ r.refreshing = e.refreshing
  BY <1>1, <1>2, <1>3, FinishedFields
<1>5. Settings(s, r) BY <1>2, <1>4 DEF Settings, Fixed
<1> QED BY <1>2, <1>4, <1>5

(* Without a connection nothing is written. *)
LEMMA RetryFailedOffline ==
  ASSUME NEW s \in Server, ~s.connected, NEW r, r = retry_failed(s)
  PROVE  /\ r \in Server /\ Settings(s, r) /\ r.sasl_mech = s.sasl_mech /\ r.have = s.have
         /\ ~r.waiting_on_sasl /\ r.scram_session = 0 /\ r.refreshing = s.refreshing
         /\ r.out = s.out
<1> DEFINE no == FALSE  yes == TRUE
           e == [s EXCEPT !.scram_session = 0]
           t == [e EXCEPT !.waiting_on_sasl = no]
           u == [t EXCEPT !.sent_capend = yes]
<1>1. no \in BOOLEAN /\ ~no /\ yes \in BOOLEAN OBVIOUS
<1>2. inbound_sasl_error(s) = Send(e, [cmd |-> "AUTH", arg |-> "*"])
  BY DEF inbound_sasl_error, SendAuth
<1>3. \A x : sasl_finished(x) = cap_end_once([x EXCEPT !.waiting_on_sasl = no])
  BY DEF sasl_finished
<1>4. cap_end(t) = Send(u, [cmd |-> "END"]) BY DEF cap_end
<1> HIDE DEF no, yes
<1>5. e \in Server BY DEF Server
<1>6. /\ Settings(s, e) /\ e.sasl_mech = s.sasl_mech /\ e.have = s.have
      /\ e.scram_session = 0 /\ e.refreshing = s.refreshing /\ e.out = s.out
  BY DEF Server, Settings, Fixed
<1> HIDE DEF e
<1>7. t \in Server BY <1>1, <1>5 DEF Server
<1>8. /\ Settings(e, t) /\ t.sasl_mech = e.sasl_mech /\ t.have = e.have
      /\ t.waiting_on_sasl = no
      /\ t.scram_session = e.scram_session /\ t.refreshing = e.refreshing /\ t.out = e.out
  BY <1>5 DEF Server, Settings, Fixed
<1>9. inbound_sasl_error(s) = e BY <1>2, <1>6 DEF Send, Settings, Fixed
<1>10. r = cap_end_once(t) BY <1>3, <1>9 DEF retry_failed
<1> HIDE DEF t
<1>11. u \in Server BY <1>1, <1>7 DEF Server
<1>12. /\ Settings(t, u) /\ u.sasl_mech = t.sasl_mech /\ u.have = t.have
       /\ u.waiting_on_sasl = t.waiting_on_sasl
       /\ u.scram_session = t.scram_session /\ u.refreshing = t.refreshing /\ u.out = t.out
  BY <1>7 DEF Server, Settings, Fixed
<1>13. ~u.connected BY <1>6, <1>8, <1>12 DEF Settings, Fixed
<1> HIDE DEF u
<1>14. cap_end(t) = u BY <1>4, <1>13 DEF Send
<1>15. r \in {t, u} BY <1>10, <1>14 DEF cap_end_once
<1>16. Settings(s, t) /\ Settings(s, u) BY <1>6, <1>8, <1>12 DEF Settings, Fixed
<1> QED BY <1>1, <1>6, <1>7, <1>8, <1>11, <1>12, <1>15, <1>16

(* 904: a refresh is started, could not be started, or is no option. *)
LEMMA FailedGood ==
  ASSUME NEW q \in Seq(Reply), q # <<>>, NEW s \in Server, s.connected, NEW d, NEW f,
         Good(q, s, d, f), Head(q).cmd = "904", NEW r,
         \/ s.sasl_mech = "OAUTHBEARER" /\ r = Refreshing(Attempted(s), TRUE)
         \/ s.sasl_mech = "OAUTHBEARER" /\ r = retry_failed(retry_failed(Attempted(s)))
         \/ r = retry_failed(s)
  PROVE  r \in Server /\ Good(Tail(q), r, d, f)
<1> DEFINE a == Head(q)  u == Attempted(s)  t == Tail(q)
           oauth == s.loginmethod = "OAUTHBEARER"
<1>0. a \in Reply BY TailFacts
<1>m. Method(s, f) BY DEF Good
<1>l. s.sasl_mech = "OAUTHBEARER" => oauth BY <1>m DEF Method
<1>u. /\ u \in Server /\ SameBut(s, u) /\ u.refreshing = s.refreshing /\ u.late = s.late
  BY RefreshFields
<1>s. Settings(s, u) /\ u.connected BY <1>u DEF SameBut, Settings, Fixed
<1>d. ASSUME Registering(q, s, d) PROVE Done(t, s, d) /\ Done(t, u, d)
  <2>1. a \in Finals BY <1>0, ReplyKind
  <2>2. Done(t, s, d) BY <2>1, <1>d, NumericDone
  <2>3. u.out = s.out /\ u.sent_capend = s.sent_capend BY <1>u DEF SameBut
  <2> QED BY <2>2, <2>3, DoneSame
<1>1. /\ r \in Server /\ Settings(s, r) /\ r.sasl_mech = s.sasl_mech /\ r.have = s.have
      /\ r.refreshing => s.refreshing \/ oauth
      /\ r.waiting_on_sasl => s.waiting_on_sasl
      /\ r.scram_session \in {0, s.scram_session}
      /\ Registering(q, s, d) => Done(t, r, d)
      /\ ~oauth => r = retry_failed(s)
  <2>1. CASE s.sasl_mech = "OAUTHBEARER" /\ r = Refreshing(u, TRUE)
    <3>1. r \in Server /\ SameBut(u, r) /\ r.late = u.late BY <2>1, <1>u, RefreshFields
    <3>2. Settings(s, r) BY <3>1, <1>u DEF SameBut, Settings, Fixed
    <3>3. /\ r.sasl_mech = s.sasl_mech /\ r.have = s.have /\ r.waiting_on_sasl = s.waiting_on_sasl
          /\ r.scram_session = s.scram_session /\ r.out = u.out
          /\ r.sent_capend = u.sent_capend
      BY <3>1, <1>u DEF SameBut
    <3>4. Registering(q, s, d) => Done(t, r, d) BY <3>3, <1>d, DoneSame
    <3>5. oauth BY <2>1, <1>l
    <3> QED BY <3>1, <3>2, <3>3, <3>4, <3>5
  <2>2. CASE s.sasl_mech = "OAUTHBEARER" /\ r = retry_failed(retry_failed(u))
    <3> DEFINE v == retry_failed(u)
    <3>1. /\ v \in Server /\ Settings(u, v) /\ v.sasl_mech = u.sasl_mech /\ v.have = u.have
          /\ ~v.waiting_on_sasl /\ v.scram_session = 0 /\ v.refreshing = u.refreshing
      BY <1>u, <1>s, RetryFailedFields
    <3>2. v.connected BY <3>1, <1>s DEF Settings, Fixed
    <3>3. Registering(q, s, d) => Done(t, v, d) BY <1>d, <1>u, <1>s, RetryFailedDone
    <3>4. r = retry_failed(v) BY <2>2
    <3> HIDE DEF v
    <3>5. /\ r \in Server /\ Settings(v, r) /\ r.sasl_mech = v.sasl_mech /\ r.have = v.have
          /\ ~r.waiting_on_sasl /\ r.scram_session = 0 /\ r.refreshing = v.refreshing
      BY <3>1, <3>2, <3>4, RetryFailedFields
    <3>6. Registering(q, s, d) => Done(t, r, d) BY <3>1, <3>2, <3>3, <3>4, RetryFailedDone
    <3>7. Settings(s, r) BY <3>1, <3>5, <1>s DEF Settings, Fixed
    <3>8. u.sasl_mech = s.sasl_mech /\ u.have = s.have BY <1>u DEF SameBut
    <3>9. oauth BY <2>2, <1>l
    <3> HIDE DEF u, t, oauth
    <3> QED BY <3>1, <3>5, <3>6, <3>7, <3>8, <3>9, <1>u
  <2>3. CASE r = retry_failed(s)
    <3>1. /\ r \in Server /\ Settings(s, r) /\ r.sasl_mech = s.sasl_mech /\ r.have = s.have
          /\ ~r.waiting_on_sasl /\ r.scram_session = 0 /\ r.refreshing = s.refreshing
      BY <2>3, RetryFailedFields
    <3>2. Registering(q, s, d) => Done(t, r, d) BY <2>3, <1>d, RetryFailedDone
    <3> HIDE DEF t, oauth
    <3> QED BY <3>1, <3>2, <2>3
  <2> QED BY <2>1, <2>2, <2>3
<1>3. Method(r, f) BY <1>1, <1>m, MethodKept
<1>4. \A c \in Caps : IF a \in Toggles(c) THEN c \in r.have <=> a.cmd = "ACK"
                                          ELSE c \in r.have <=> c \in s.have
  BY <1>0, <1>1, ReplyKind
<1>5. Registering(q, s, d) => Registering(Tail(q), r, d) BY <1>1, DoneRegisters
<1>6. ~oauth /\ InStep(q, s, d) => InStep(Tail(q), r, d)
  <2> SUFFICES ASSUME ~oauth, InStep(q, s, d) PROVE InStep(Tail(q), r, d) OBVIOUS
  <2>1. r = sasl_finished(inbound_sasl_error(s)) BY <1>1 DEF retry_failed
  <2> QED BY <2>1, FailedInStep
<1>7. a.cmd # "LS" OBVIOUS
<1> QED BY <1>1, <1>3, <1>4, <1>5, <1>6, <1>7, HandledGood

(* The answer of the token server; u has this refresh no more. *)
LEMMA RetryGood ==
  ASSUME NEW q \in Seq(Reply), NEW s \in Server, NEW d, NEW f, Good(q, s, d, f), NEW u, NEW r,
         \/ s.refreshing /\ u = Refreshing(s, FALSE)
         \/ s.late > 0 /\ u = LateAnswer(s),
         \/ r = retry_failed(u)
         \/ \E ok \in BOOLEAN : r = sasl_authenticate(u, "+", ok)
  PROVE  r \in Server /\ Good(q, r, d, f)
<1>m. Method(s, f) BY DEF Good
<1>t. s.late \in Nat /\ u.late \in Nat BY ServerTyped, RefreshFields
<1>1. /\ u \in Server /\ SameBut(s, u)
      /\ u.refreshing => s.refreshing
      /\ u.late > 0 => s.late > 0
  <2>1. CASE s.refreshing /\ u = Refreshing(s, FALSE) BY <2>1, RefreshFields
  <2>2. CASE s.late > 0 /\ u = LateAnswer(s)
    <3>1. /\ u \in Server /\ SameBut(s, u) /\ u.refreshing = s.refreshing
          /\ u.late = s.late - 1
      BY <2>2, RefreshFields
    <3> QED BY <3>1, <2>2
  <2> QED BY <2>1, <2>2
<1>2. s.loginmethod = "OAUTHBEARER" BY <1>m DEF Method
<1>3. s.sasl_mech \in {"PLAIN", "OAUTHBEARER"} BY <1>2, <1>m DEF Method
<1>4. /\ u.connected = s.connected /\ u.loginmethod = s.loginmethod /\ u.sasl_mech = s.sasl_mech
      /\ u.have = s.have /\ u.sts_upgrade_port = s.sts_upgrade_port
      /\ u.waiting_on_sasl = s.waiting_on_sasl /\ u.scram_session = s.scram_session
      /\ u.sent_capend = s.sent_capend /\ u.out = s.out
  BY <1>1 DEF SameBut
<1>5. s.refreshing => s.connected BY <1>m DEF Method
<1>6. /\ r \in Server /\ Settings(u, r) /\ r.sasl_mech = u.sasl_mech /\ r.have = u.have
      /\ r.refreshing = u.refreshing /\ r.scram_session \in {0, u.scram_session}
      /\ ~u.connected => r.out = u.out
  <2>1. CASE r = retry_failed(u)
    <3>1. CASE u.connected BY <2>1, <3>1, <1>1, RetryFailedFields
    <3>2. CASE ~u.connected BY <2>1, <3>2, <1>1, RetryFailedOffline
    <3> QED BY <3>1, <3>2
  <2>2. ASSUME NEW ok \in BOOLEAN, r = sasl_authenticate(u, "+", ok)
        PROVE  /\ r \in Server /\ Settings(u, r) /\ r.sasl_mech = u.sasl_mech /\ r.have = u.have
               /\ r.refreshing = u.refreshing /\ r.scram_session \in {0, u.scram_session}
               /\ ~u.connected => r.out = u.out
    <3>1. CASE u.connected
      <4>1. PICK arg \in {"data", "+", "*"}, n \in 0..2 :
               /\ AnswersWith(u, r, [cmd |-> "AUTH", arg |-> arg], n)
               /\ n \in {0, u.scram_session} \/ u.sasl_mech = "SCRAM"
        BY <2>2, <3>1, <1>1, AuthenticateFields
      <4> QED BY <4>1, <3>1, <1>3, <1>4 DEF AnswersWith
    <3>2. CASE ~u.connected
      <4>1. r = SendAuth(u, IF ok THEN "data" ELSE "*")
        BY <2>2, <1>3, <1>4 DEF sasl_authenticate
      <4>2. r = u BY <4>1, <3>2 DEF SendAuth, Send
      <4> QED BY <4>2, <1>1 DEF Settings, Fixed
    <3> QED BY <3>1, <3>2
  <2> QED BY <2>1, <2>2
<1>7. /\ r.connected = s.connected /\ r.loginmethod = s.loginmethod
      /\ r.sasl_mech = s.sasl_mech /\ r.have = s.have
      /\ r.sts_upgrade_port = s.sts_upgrade_port
      /\ r.refreshing => s.refreshing
      /\ r.late > 0 => s.late > 0
  BY <1>1, <1>4, <1>6 DEF Settings, Fixed
<1>8. s.scram_session = 0 BY <1>2, <1>m DEF Method
<1>9. Method(r, f) BY <1>2, <1>3, <1>4, <1>6, <1>7, <1>8, <1>m DEF Method
<1>10. ASSUME s.connected PROVE Now(q, r, d, f)
  <2>1. Now(q, s, d, f) BY <1>10 DEF Good
  <2>2. Flags(q, r, d) BY <2>1, <1>7, FlagsSame DEF Now
  <2>3. ~Late(s, f) /\ ~d.registered => Registering(q, r, d)
    <3> SUFFICES ASSUME ~Late(s, f), ~d.registered PROVE Registering(q, r, d) OBVIOUS
    <3>1. ~(s.late > 0) BY <1>m DEF Method, Late
    <3>2. s.refreshing BY <3>1
    <3>3. Registering(q, s, d) BY <2>1 DEF Now
    <3>4. Done(q, s, d) BY <3>2, <3>3, RefreshingDone
    <3>5. Done(q, u, d) BY <3>4, <1>4, DoneSame
    <3>6. u \in Server /\ u.connected BY <1>1, <1>4, <1>10
    <3>7. Done(q, r, d) BY <3>5, <3>6, RetryFailedDone, AuthenticateDone
    <3> QED BY <3>7, DoneRegisters
  <2>4. Late(r, f) <=> Late(s, f) BY <1>7 DEF Late
  <2> QED BY <2>2, <2>3, <2>4, <1>2, <1>7 DEF Now
<1>11. Lacks(f, {"sts"}) => Unannounced(q, r, d) BY <1>7 DEF Good, Unannounced
<1>12. ~s.connected => r.out = <<>>
  <2>1. ~s.connected => s.out = <<>> BY DEF Good
  <2> QED BY <2>1, <1>4, <1>6
<1> QED BY <1>2, <1>6, <1>7, <1>9, <1>10, <1>11, <1>12 DEF Good

(* CAP NAK. *)
LEMMA NakGood ==
  ASSUME NEW q \in Seq(Reply), q # <<>>, NEW s \in Server, s.connected, NEW d, NEW f,
         Good(q, s, d, f), Head(q).cmd = "NAK", NEW c, c = nak(s, Head(q).caps)
  PROVE  /\ c \in Server /\ c.connected /\ Method(c, f)
         /\ Good(Tail(q), c, d, f)
         /\ nak_was_last(c) => cap_end(c) \in Server /\ Good(Tail(q), cap_end(c), d, f)
         /\ c.sts_upgrade_port => ~Lacks(f, {"sts"})
         /\ c.sts_upgrade_port /\ c.loginmethod = "none" /\ Lacks(f, {"drop"})
              => ~c.needless /\ ~c.ssl
<1> DEFINE a == Head(q)  t == Tail(q)
<1>0. a \in Reply /\ t \in Seq(Reply) BY TailFacts
<1>1. /\ c \in Server /\ Settings(s, c) /\ c.have = s.have /\ c.out = s.out
      /\ c.sasl_mech = s.sasl_mech
      /\ c.refreshing = s.refreshing /\ c.scram_session = s.scram_session
      /\ c.waiting_on_sasl => s.waiting_on_sasl
  <2> DEFINE caps == a.caps
  <2>1. c = nak(s, caps) OBVIOUS
  <2> HIDE DEF caps
  <2> QED BY <2>1, NakFields
<1>2. Method(c, f) BY <1>1, MethodKept DEF Good
<1>3. c.connected BY <1>1 DEF Settings, Fixed
<1>4. \A x \in Caps : IF a \in Toggles(x) THEN x \in c.have <=> a.cmd = "ACK"
                                          ELSE x \in c.have <=> x \in s.have
  BY <1>0, <1>1, ReplyKind
<1>5. Registering(q, s, d) => /\ Registering(t, c, d)
                              /\ nak_was_last(c) => Done(t, c, d) /\ ~c.sent_capend
  BY NakRegisters
<1>6. InStep(q, s, d) => InStep(t, c, d) BY NakInStep
<1>7. a.cmd # "LS" OBVIOUS
<1>8. Good(t, c, d, f) BY <1>1, <1>2, <1>4, <1>5, <1>6, <1>7, HandledGood
<1>9. Now(q, s, d, f) BY DEF Good
<1>10. s.loginmethod = "none" => s.ssl \/ ~d.offer.sts
  <2>1. a \notin LsLines BY <1>0, <1>7, ReplyKind
  <2> QED BY <2>1, <1>9, LastLsFirst DEF Now, Plain
<1>11. ASSUME nak_was_last(c) PROVE cap_end(c) \in Server /\ Good(t, cap_end(c), d, f)
  <2> DEFINE r == cap_end(c)
  <2>1. /\ r \in Server /\ r.out = Append(c.out, [cmd |-> "END"]) /\ Settings(c, r)
        /\ r.sasl_mech = c.sasl_mech /\ r.have = c.have /\ r.sent_capend
        /\ r.waiting_on_sasl = c.waiting_on_sasl
        /\ r.scram_session = c.scram_session /\ r.refreshing = c.refreshing
    BY <1>1, <1>3, CapEndFields
  <2> HIDE DEF r, t
  <2>2. /\ r.connected = c.connected /\ r.ssl = c.ssl /\ r.loginmethod = c.loginmethod
        /\ r.needless = c.needless /\ r.sts_upgrade_port = c.sts_upgrade_port
    BY <2>1 DEF Settings, Fixed
  <2>c. c.ssl = s.ssl /\ c.loginmethod = s.loginmethod BY <1>1 DEF Settings, Fixed
  <2>n. Now(t, c, d, f) BY <1>3, <1>8 DEF Good
  <2>3. Method(r, f) BY <2>1, <1>1, <1>2, MethodKept
  <2>4. Flags(t, r, d) BY <2>1, <2>n, FlagsSame DEF Now
  <2>l. (Late(c, f) <=> Late(s, f)) /\ (Late(r, f) <=> Late(s, f)) BY <2>2, <2>c DEF Late
  <2>5. ~Late(s, f) /\ ~d.registered => Registering(t, r, d)
    <3> SUFFICES ASSUME ~Late(s, f), ~d.registered PROVE Registering(t, r, d) OBVIOUS
    <3>0. Registering(q, s, d) BY <1>9 DEF Now
    <3>1. Done(t, c, d) /\ ~c.sent_capend BY <3>0, <1>5, <1>11 DEF t
    <3>2. Done(t, r, d) BY <3>1, <2>1, <1>1, EndKind, DoneWrites
    <3> QED BY <3>2, DoneRegisters
  <2>6. s.loginmethod # "OAUTHBEARER" /\ Lacks(f, {"abort"}) => InStep(t, r, d)
    <3>1. r.out \in {c.out, Append(c.out, [cmd |-> "END"])} BY <2>1
    <3>2. r.sasl_mech = c.sasl_mech /\ r.scram_session = c.scram_session BY <2>1
    <3>3. s.loginmethod # "OAUTHBEARER" /\ Lacks(f, {"abort"}) => InStep(t, c, d)
      BY <2>n, <2>c DEF Now
    <3> QED BY <3>1, <3>2, <3>3, <1>1, EndInStep
  <2>7. s.loginmethod = "none" => Plain(t, r, d)
    <3> SUFFICES ASSUME s.loginmethod = "none" PROVE Plain(t, r, d) OBVIOUS
    <3>1. Plain(t, c, d) BY <2>n, <2>c DEF Now
    <3> QED BY <3>1, <2>2, <2>c, <1>10 DEF Plain
  <2>9. Now(t, r, d, f) BY <2>2, <2>c, <2>4, <2>5, <2>6, <2>7, <2>l DEF Now
  <2>10. Lacks(f, {"sts"}) => Unannounced(t, r, d) BY <2>2, <1>8 DEF Unannounced, Good
  <2>11. r.loginmethod = "none" /\ Lacks(f, {"drop"}) => Port(r, d)
    BY <2>2, <1>8 DEF Port, Good
  <2>12. Good(t, r, d, f) BY <2>2, <2>3, <2>9, <2>10, <2>11, <1>3 DEF Good
  <2> QED BY <2>1, <2>12 DEF r
<1>15. c.sts_upgrade_port => ~Lacks(f, {"sts"}) BY <1>8 DEF Unannounced, Good
<1>16. c.sts_upgrade_port /\ c.loginmethod = "none" /\ Lacks(f, {"drop"}) => ~c.needless /\ ~c.ssl
  BY <1>8 DEF Port, Good
<1> QED BY <1>1, <1>2, <1>3, <1>8, <1>11, <1>15, <1>16

-----------------------------------------------------------------------------
(* The steps of the client.  *)

(* A handler that leaves the connection as it is. *)
LEMMA HandledStep ==
  ASSUME IInv, inq # <<>>, NEW s \in Server, Good(Tail(inq), s, ircd, features), HandledAs(s)
  PROVE  IInv'
<1>1. inq' = Tail(inq) /\ serv' = s /\ ircd' = ircd /\ features' = features BY DEF HandledAs
<1>2. Tail(inq) \in Seq(Reply) BY TailFacts DEF IInv, TypeOK
<1>3. TypeOK' BY <1>1, <1>2 DEF IInv, TypeOK
<1>4. Good(inq, serv, ircd, features)' BY <1>1
<1> QED BY <1>3, <1>4 DEF IInv

LEMMA WelcomeTyped == ASSUME NEW offer \in Offer PROVE Welcome(offer) \in Ircd
BY DEF Welcome, Ircd, Mechs, AllLogins

LEMMA UpgradeStep ==
  ASSUME IInv, NEW s \in Server, Method(s, features), s.sts_upgrade_port,
         ~Lacks(features, {"sts"}),
         s.loginmethod = "none" /\ Lacks(features, {"drop"}) => ~s.needless /\ ~s.ssl,
         sts_upgrade(s)
  PROVE  IInv'
<1>1. PICK offer \in Offers : ircd' = Welcome(offer) BY DEF sts_upgrade
<1>2. offer \in Offer BY DEF Offers
<1>3. serv' = connect(disconnect([s EXCEPT !.sts_upgrade_port = FALSE,
                                           !.needless = @ \/ s.ssl]), TRUE)
      /\ inq' = <<>> /\ features' = features
  BY DEF sts_upgrade
<1>4. serv' \in Server /\ Good(<<>>, serv', Welcome(offer), features) BY <1>2, <1>3, UpgradeGood
<1>5. inq' \in Seq(Reply) BY <1>3
<1>6. TypeOK' BY <1>1, <1>2, <1>3, <1>4, <1>5, WelcomeTyped DEF IInv, TypeOK
<1>7. Good(inq', serv', ircd', features') BY <1>1, <1>3, <1>4
<1> QED BY <1>6, <1>7 DEF IInv

LEMMA LsStep == ASSUME IInv, inbound_cap_ls PROVE IInv'
<1> DEFINE c == cap_ls_request(serv, Head(inq))
<1>1. /\ serv.connected /\ inq # <<>> /\ Head(inq).cmd = "LS"
      /\ \/ waiting(c) /\ HandledAs(c)
         \/ ~waiting(c) /\ c.sts_upgrade_port /\ sts_upgrade(c)
         \/ ~waiting(c) /\ ~c.sts_upgrade_port /\ HandledAs(cap_end(c))
  BY DEF inbound_cap_ls, Reads
<1>2. /\ inq \in Seq(Reply) /\ serv \in Server /\ ircd \in Ircd
      /\ Good(inq, serv, ircd, features)
  BY DEF IInv, TypeOK
<1>3. /\ c \in Server /\ c.connected /\ Method(c, features)
      /\ waiting(c) => Good(Tail(inq), c, ircd, features)
      /\ ~waiting(c) /\ ~c.sts_upgrade_port => Good(Tail(inq), cap_end(c), ircd, features)
      /\ c.sts_upgrade_port => ~Lacks(features, {"sts"})
      /\ c.sts_upgrade_port /\ c.loginmethod = "none" /\ Lacks(features, {"drop"})
           => ~c.needless /\ ~c.ssl
  BY <1>1, <1>2, LsGood
<1> HIDE DEF c
<1>4. cap_end(c) \in Server BY <1>3, CapEndFields
<1> QED BY <1>1, <1>3, <1>4, HandledStep, UpgradeStep

LEMMA NakStep == ASSUME IInv, inbound_cap_nak PROVE IInv'
<1> DEFINE c == nak(serv, Head(inq).caps)
<1>1. /\ serv.connected /\ inq # <<>> /\ Head(inq).cmd = "NAK"
      /\ \/ HandledAs(c)
         \/ c.sts_upgrade_port /\ sts_upgrade(c)
         \/ nak_was_last(c) /\ HandledAs(cap_end(c))
  BY DEF inbound_cap_nak, Reads
<1>2. /\ inq \in Seq(Reply) /\ serv \in Server /\ Good(inq, serv, ircd, features)
  BY DEF IInv, TypeOK
<1>3. /\ c \in Server /\ c.connected /\ Method(c, features)
      /\ Good(Tail(inq), c, ircd, features)
      /\ nak_was_last(c) => cap_end(c) \in Server /\ Good(Tail(inq), cap_end(c), ircd, features)
      /\ c.sts_upgrade_port => ~Lacks(features, {"sts"})
      /\ c.sts_upgrade_port /\ c.loginmethod = "none" /\ Lacks(features, {"drop"})
           => ~c.needless /\ ~c.ssl
  BY <1>1, <1>2, NakGood
<1> HIDE DEF c
<1> QED BY <1>1, <1>3, HandledStep, UpgradeStep

LEMMA ReadStep == ASSUME IInv, Read PROVE IInv'
<1>0. /\ inq \in Seq(Reply) /\ serv \in Server /\ ircd \in Ircd
      /\ Good(inq, serv, ircd, features)
  BY DEF IInv, TypeOK
<1>1. CASE inbound_cap_ls BY <1>1, LsStep
<1>2. CASE inbound_cap_nak BY <1>2, NakStep
<1>3. CASE inbound_cap_ack
  <2> DEFINE r == toggle_ack(serv, Head(inq).caps)
  <2>1. serv.connected /\ inq # <<>> /\ Head(inq).cmd = "ACK" /\ HandledAs(r)
    BY <1>3 DEF inbound_cap_ack, Reads
  <2>2. r \in Server /\ Good(Tail(inq), r, ircd, features) BY <2>1, <1>0, AckGood
  <2> HIDE DEF r
  <2> QED BY <2>1, <2>2, HandledStep
<1>4. CASE inbound_cap_del
  <2> DEFINE r == del(serv, Head(inq).caps)
  <2>1. serv.connected /\ inq # <<>> /\ Head(inq).cmd = "DEL" /\ HandledAs(r)
    BY <1>4 DEF inbound_cap_del, Reads, del
  <2>2. r \in Server /\ Good(Tail(inq), r, ircd, features) BY <2>1, <1>0, DelGood
  <2> HIDE DEF r
  <2> QED BY <2>1, <2>2, HandledStep
<1>5. CASE inbound_sasl_authenticate
  <2>1. PICK ok \in BOOLEAN : HandledAs(sasl_authenticate(serv, Head(inq).arg, ok))
    BY <1>5 DEF inbound_sasl_authenticate
  <2> DEFINE r == sasl_authenticate(serv, Head(inq).arg, ok)
  <2>2. serv.connected /\ inq # <<>> /\ Head(inq).cmd = "AUTH" /\ HandledAs(r)
    BY <1>5, <2>1 DEF inbound_sasl_authenticate, Reads
  <2>3. r \in Server /\ Good(Tail(inq), r, ircd, features) BY <2>2, <1>0, AuthenticateGood
  <2> HIDE DEF r
  <2> QED BY <2>2, <2>3, HandledStep
<1>6. CASE SaslSuccess \/ SaslAborted
  <2> DEFINE r == sasl_finished(serv)
  <2>1. serv.connected /\ inq # <<>> /\ Head(inq).cmd \in {"903", "906"} /\ HandledAs(r)
    BY <1>6 DEF SaslSuccess, SaslAborted, Reads
  <2>2. r \in Server /\ Good(Tail(inq), r, ircd, features) BY <2>1, <1>0, NumericGood
  <2> HIDE DEF r
  <2> QED BY <2>1, <2>2, HandledStep
<1>7. CASE SaslFailed
  <2> DEFINE u == Attempted(serv)
             may == serv.sasl_mech = "OAUTHBEARER" /\ ~serv.oauth_refresh_attempted
             s == IF may THEN u ELSE serv
  <2>1. serv.connected /\ inq # <<>> /\ Head(inq).cmd = "904" BY <1>7 DEF SaslFailed, Reads
  <2>2. \/ may /\ HandledAs([s EXCEPT !.refreshing = TRUE])
        \/ may /\ HandledAs(sasl_finished(inbound_sasl_error(retry_failed(s))))
        \/ ~may /\ HandledAs(sasl_finished(inbound_sasl_error(s)))
    BY <1>7 DEF SaslFailed, Attempted
  <2>3. may => serv.sasl_mech = "OAUTHBEARER" /\ s = u OBVIOUS
  <2>4. ~may => s = serv OBVIOUS
  <2>5. /\ [u EXCEPT !.refreshing = TRUE] = Refreshing(u, TRUE)
        /\ sasl_finished(inbound_sasl_error(retry_failed(u))) = retry_failed(retry_failed(u))
        /\ sasl_finished(inbound_sasl_error(serv)) = retry_failed(serv)
    BY DEF Refreshing, retry_failed
  <2> HIDE DEF may, s
  <2>6. \/ serv.sasl_mech = "OAUTHBEARER" /\ HandledAs(Refreshing(u, TRUE))
        \/ serv.sasl_mech = "OAUTHBEARER" /\ HandledAs(retry_failed(retry_failed(u)))
        \/ HandledAs(retry_failed(serv))
    BY <2>2, <2>3, <2>4, <2>5
  <2>7. PICK r : /\ HandledAs(r)
                 /\ \/ serv.sasl_mech = "OAUTHBEARER" /\ r = Refreshing(Attempted(serv), TRUE)
                    \/ /\ serv.sasl_mech = "OAUTHBEARER"
                       /\ r = retry_failed(retry_failed(Attempted(serv)))
                    \/ r = retry_failed(serv)
    BY <2>6
  <2>8. r \in Server /\ Good(Tail(inq), r, ircd, features) BY <2>1, <2>7, <1>0, FailedGood
  <2> QED BY <2>1, <2>7, <2>8, HandledStep
<1> QED BY <1>1, <1>2, <1>3, <1>4, <1>5, <1>6, <1>7 DEF Read

LEMMA RetryStep == ASSUME IInv, oauth_sasl_retry_cb PROVE IInv'
<1>1. PICK u : /\ \/ serv.refreshing /\ u = Refreshing(serv, FALSE)
                  \/ serv.late > 0 /\ u = LateAnswer(serv)
               /\ RetryWith(u)
  BY DEF oauth_sasl_retry_cb, Refreshing, LateAnswer
<1>2. \/ serv' = retry_failed(u)
      \/ \E ok \in BOOLEAN : serv' = sasl_authenticate(u, "+", ok)
  BY <1>1 DEF RetryWith
<1>3. inq' = inq /\ ircd' = ircd /\ features' = features BY DEF oauth_sasl_retry_cb
<1>4. /\ inq \in Seq(Reply) /\ serv \in Server /\ Good(inq, serv, ircd, features)
  BY DEF IInv, TypeOK
<1> DEFINE r == serv'
<1>5. r \in Server /\ Good(inq, r, ircd, features) BY <1>1, <1>2, <1>4, RetryGood
<1>6. TypeOK' BY <1>3, <1>5 DEF IInv, TypeOK
<1>7. Good(inq', serv', ircd', features') BY <1>3, <1>5
<1> QED BY <1>6, <1>7 DEF IInv

-----------------------------------------------------------------------------
(* Connecting and losing the connection.  *)

LEMMA ConnectStep == ASSUME IInv, Connect PROVE IInv'
<1>1. PICK use_ssl \in BOOLEAN : serv' = connect(serv, use_ssl) BY DEF Connect
<1>2. PICK offer \in Offers : ircd' = Welcome(offer) BY DEF Connect
<1>3. ~serv.connected /\ inq' = <<>> /\ features' = features BY DEF Connect
<1>4. serv \in Server /\ features \in Scenarios /\ Good(inq, serv, ircd, features)
  BY DEF IInv, TypeOK
<1>5. offer \in Offer /\ (offer.sts => "sts" \in features) BY DEF Offers
<1> DEFINE r == serv'
<1>6. /\ r \in Server /\ r.connected /\ r.out = <<[cmd |-> "LS"]>>
      /\ r.have = serv.have \ ClearedCaps /\ r.sasl_mech = "PLAIN" /\ ~r.sent_capend
      /\ r.scram_session = 0 /\ r.refreshing = serv.refreshing /\ r.late = serv.late
      /\ r.loginmethod = serv.loginmethod /\ r.needless = serv.needless
      /\ r.sts_upgrade_port = serv.sts_upgrade_port /\ r.waiting_on_sasl = serv.waiting_on_sasl
  BY <1>1, <1>4, ConnectFields
<1>7. Method(serv, features) BY <1>4 DEF Good
<1>8. ~r.refreshing /\ r.have \cap ClearedCaps = {} BY <1>3, <1>6, <1>7 DEF Method
<1> HIDE DEF r
<1>9. Now(<<>>, r, Welcome(offer), features) BY <1>5, <1>6, <1>8, FreshNow
<1>10. Method(r, features) BY <1>6, <1>7, <1>8 DEF Method
<1>11. r.loginmethod = "none" /\ Lacks(features, {"drop"}) => Port(r, Welcome(offer))
  BY <1>3, <1>4, <1>6 DEF Good, Port
<1>12. Lacks(features, {"sts"}) => Unannounced(<<>>, r, Welcome(offer))
  <2> SUFFICES ASSUME Lacks(features, {"sts"}) PROVE Unannounced(<<>>, r, Welcome(offer)) OBVIOUS
  <2>1. "sts" \notin features BY DEF Lacks
  <2>2. ~Welcome(offer).offer.sts BY <2>1, <1>5 DEF Welcome
  <2>3. ~r.sts_upgrade_port BY <1>4, <1>6 DEF Good, Unannounced
  <2> QED BY <2>2, <2>3, FreeEmpty DEF Unannounced
<1>13. Good(<<>>, r, Welcome(offer), features) BY <1>6, <1>9, <1>10, <1>11, <1>12 DEF Good
<1>14. inq' \in Seq(Reply) BY <1>3
<1>15. TypeOK' BY <1>2, <1>3, <1>4, <1>5, <1>6, <1>14, WelcomeTyped DEF IInv, TypeOK, r
<1>16. Good(inq', serv', ircd', features') BY <1>2, <1>3, <1>13 DEF r
<1> QED BY <1>15, <1>16 DEF IInv

LEMMA LostStep == ASSUME IInv, Lost PROVE IInv'
<1>1. /\ serv.connected /\ serv' = disconnect(serv) /\ inq' = <<>>
      /\ ircd' = ircd /\ features' = features
      /\ \/ "drop" \in features
         \/ ircd.registered /\ inq = <<>> /\ serv.out = <<>> /\ ~serv.refreshing
  BY DEF Lost
<1>4. serv \in Server /\ ircd \in Ircd /\ features \in Scenarios /\ Good(inq, serv, ircd, features)
  BY DEF IInv, TypeOK
<1> DEFINE r == serv'
<1>5. /\ r \in Server /\ ~r.connected /\ r.out = <<>> /\ ~r.refreshing
      /\ r.late = IF serv.refreshing THEN serv.late + 1 ELSE serv.late
      /\ r.ssl = serv.ssl /\ r.loginmethod = serv.loginmethod /\ r.needless = serv.needless
      /\ r.sts_upgrade_port = serv.sts_upgrade_port
      /\ r.sasl_mech = serv.sasl_mech
      /\ r.waiting_on_sasl = serv.waiting_on_sasl /\ r.scram_session = serv.scram_session
  BY <1>1, <1>4, DisconnectFields
<1>6. Method(serv, features) /\ Now(inq, serv, ircd, features) BY <1>1, <1>4 DEF Good
<1> HIDE DEF r
<1>7. "drop" \in features => ~Lacks(features, {"drop", "sts"}) /\ ~Lacks(features, {"drop"})
  BY DEF Lacks
<1>8. r.late > 0 => r.loginmethod = "OAUTHBEARER" /\ ~Lacks(features, {"drop", "sts"})
  <2>1. CASE serv.refreshing BY <2>1, <1>1, <1>5, <1>6, <1>7 DEF Method
  <2>2. CASE ~serv.refreshing BY <2>2, <1>5, <1>6 DEF Method
  <2> QED BY <2>1, <2>2
<1>9. Method(r, features) BY <1>5, <1>6, <1>8 DEF Method
<1>10. ASSUME r.loginmethod = "none", Lacks(features, {"drop"}) PROVE Port(r, ircd)
  <2>1. ircd.registered BY <1>1, <1>7, <1>10
  <2>2. Port(serv, ircd) BY <1>4, <1>5, <1>10 DEF Good
  <2>3. serv.ssl \/ ~ircd.offer.sts BY <2>1, <1>5, <1>6, <1>10 DEF Now, Plain
  <2> QED BY <2>2, <2>3, <1>5 DEF Port
<1>11. Lacks(features, {"sts"}) => Unannounced(<<>>, r, ircd)
  BY <1>4, <1>5, FreeEmpty DEF Good, Unannounced
<1>12. Good(<<>>, r, ircd, features) BY <1>5, <1>9, <1>10, <1>11 DEF Good
<1>14. inq' \in Seq(Reply) BY <1>1
<1>15. TypeOK' BY <1>1, <1>4, <1>5, <1>14 DEF TypeOK, r
<1>16. Good(inq', serv', ircd', features') BY <1>1, <1>12 DEF r
<1> QED BY <1>15, <1>16 DEF IInv

-----------------------------------------------------------------------------
(* The IRC server.  *)

taken(s) == [s EXCEPT !.out = Tail(@)]

LEMMA TakenFields ==
  ASSUME NEW s \in Server, s.out # <<>>, NEW r, r = taken(s)
  PROVE  /\ r \in Server /\ r.out = Tail(s.out) /\ Settings(s, r)
         /\ r.sasl_mech = s.sasl_mech /\ r.have = s.have /\ r.sent_capend = s.sent_capend
         /\ r.waiting_on_sasl = s.waiting_on_sasl
         /\ r.scram_session = s.scram_session /\ r.refreshing = s.refreshing
         /\ Head(s.out) \in Command
<1> DEFINE o == Tail(s.out)
<1>1. o \in Seq(Command) /\ Head(s.out) \in Command BY TailFacts, ServerTyped
<1>2. r = [s EXCEPT !.out = o] BY DEF taken
<1> HIDE DEF o
<1>3. r \in Server BY <1>1, <1>2 DEF Server
<1>4. /\ r.out = o /\ r.connected = s.connected /\ r.ssl = s.ssl /\ r.loginmethod = s.loginmethod
      /\ r.late = s.late /\ r.needless = s.needless /\ r.sts_upgrade_port = s.sts_upgrade_port
      /\ r.sasl_mech = s.sasl_mech /\ r.have = s.have /\ r.sent_capend = s.sent_capend
      /\ r.waiting_on_sasl = s.waiting_on_sasl
      /\ r.scram_session = s.scram_session /\ r.refreshing = s.refreshing
  BY <1>2 DEF Server
<1> QED BY <1>1, <1>3, <1>4 DEF Settings, Fixed, o

(* What the server has taken and answered leaves the settings alone. *)
LEMMA ServedGood ==
  ASSUME NEW q, NEW s \in Server, s.connected, NEW d, NEW f, Good(q, s, d, f),
         NEW r \in Server, Settings(s, r), r.sasl_mech = s.sasl_mech,
         r.refreshing = s.refreshing, r.waiting_on_sasl = s.waiting_on_sasl,
         r.scram_session = s.scram_session,
         NEW e, e.offer.sts = d.offer.sts, NEW p,
         Now(p, r, e, f),
         Free(q, Policies) /\ ~d.offer.sts => Free(p, Policies)
  PROVE  Good(p, r, e, f)
<1>1. /\ r.connected = s.connected /\ r.ssl = s.ssl /\ r.loginmethod = s.loginmethod
      /\ r.late = s.late /\ r.needless = s.needless /\ r.sts_upgrade_port = s.sts_upgrade_port
  BY DEF Settings, Fixed
<1>2. Method(s, f) BY DEF Good
<1>3. Method(r, f) BY <1>1, <1>2 DEF Method
<1>4. s.loginmethod = "none" /\ Lacks(f, {"drop"}) => Port(r, e) BY <1>1 DEF Good, Port
<1>5. Lacks(f, {"sts"}) => Unannounced(p, r, e) BY <1>1 DEF Good, Unannounced
<1> QED BY <1>1, <1>3, <1>4, <1>5 DEF Good

LEMMA PlainTook ==
  ASSUME NEW q \in Seq(Reply), NEW s \in Server, s.out # <<>>, NEW d, Plain(q, s, d),
         Head(s.out) \notin LsCommands,
         NEW r, r.ssl = s.ssl, r.sts_upgrade_port = s.sts_upgrade_port, r.out = Tail(s.out),
         NEW e, e.offer.sts = d.offer.sts, e.registered = d.registered,
         NEW a \in Reply, a \notin LsLines
  PROVE  Plain(Append(q, a), r, e)
<1>0. s.out \in Seq(Command) BY ServerTyped
<1>1. Free(s.out, Ends) => Free(r.out, Ends) BY <1>0, FreeTail
<1>2. s.out # <<[cmd |-> "LS"]>>
  <2>1. [cmd |-> "LS"] \in LsCommands BY Lines DEF LsCommands
  <2>2. Head(<<[cmd |-> "LS"]>>) = [cmd |-> "LS"] OBVIOUS
  <2> QED BY <2>1, <2>2
<1>3. LastLs(q, s) => LastLs(Append(q, a), r) BY LastLsAppend
<1>4. a \notin Policies BY ReplyKind
<1>5. Free(q, Policies) => Free(Append(q, a), Policies) BY <1>4, FreeAppend
<1> QED BY <1>1, <1>2, <1>3, <1>5 DEF Plain

(* CAP REQ is acknowledged or refused. *)
LEMMA ReqGood ==
  ASSUME NEW q \in Seq(Reply), NEW s \in Server, s.connected, s.out # <<>>, NEW d \in Ircd, NEW f,
         Good(q, s, d, f), Head(s.out).cmd = "REQ", NEW r, r = taken(s),
         NEW a, a.caps = Head(s.out).caps, a \in Reply,
         NEW e, e.offer = d.offer, e.registered = d.registered, e.sasl = d.sasl, e.mech = d.mech,
         \/ a.cmd = "NAK" /\ e.enabled = d.enabled
         \/ a.cmd = "ACK" /\ e.enabled = d.enabled \cup a.caps
  PROVE  r \in Server /\ Good(Append(q, a), r, e, f)
<1> DEFINE m == Head(s.out)  p == Append(q, a)
<1>0. /\ r \in Server /\ r.out = Tail(s.out) /\ Settings(s, r)
      /\ r.sasl_mech = s.sasl_mech /\ r.have = s.have /\ r.sent_capend = s.sent_capend
      /\ r.waiting_on_sasl = s.waiting_on_sasl
      /\ r.scram_session = s.scram_session /\ r.refreshing = s.refreshing
      /\ m \in Command
  BY TakenFields
<1>t. s.out \in Seq(Command) BY ServerTyped
<1>1. /\ m \notin LsCommands
      /\ m \in OpensOut <=> "sasl" \in a.caps
      /\ m \in ToExchange <=> "sasl" \in a.caps
  BY <1>0 DEF LsCommands, OpensOut, ToExchange, Payloads
<1>2. /\ a \notin LsLines /\ a \notin Answers
      /\ a \in OpensIn <=> "sasl" \in a.caps
      /\ a \in OfExchange <=> "sasl" \in a.caps
      /\ a \notin Policies
      /\ \A c : a \in Toggles(c) <=> a.cmd = "ACK" /\ c \in a.caps
  BY ReplyKind
<1>3. Now(q, s, d, f) BY DEF Good
<1>4. Flags(p, r, e)
  <2>1. \A c \in Caps : IF a \in Toggles(c) THEN c \in e.enabled <=> a.cmd = "ACK"
                                            ELSE c \in e.enabled <=> c \in d.enabled
    BY <1>2
  <2>2. Flags(p, s, e) BY <2>1, <1>3, FlagsReply DEF Now
  <2> QED BY <2>2, <1>0, FlagsSame
<1>5. Registering(q, s, d) => Registering(p, r, e)
  <2> SUFFICES ASSUME Registering(q, s, d) PROVE Registering(p, r, e) OBVIOUS
  <2>1. /\ Registering(q, r, d)
        /\ m \in OpensOut => NoOpening(q, r)
        /\ m \notin LsCommands => Free(s.out, LsCommands) /\ Free(r.out, LsCommands)
    BY <1>0, OutRegisters
  <2>2. ASSUME a \in OpensIn
        PROVE  /\ NoOpening(q, r) /\ ~r.sent_capend /\ ~r.refreshing /\ d.sasl = 0
               /\ Free(q, Answers) /\ Free(r.out, Payloads) /\ r.waiting_on_sasl
    <3>1. m \in OpensOut BY <2>2, <1>1, <1>2
    <3>2. ~Free(s.out, OpensOut) /\ ~Free(s.out, OpensOut \ LsCommands)
      BY <3>1, <1>1, <1>t, FreeTail
    <3>3. /\ s.waiting_on_sasl /\ ~s.sent_capend /\ ~s.refreshing /\ d.sasl = 0
          /\ Free(q, Answers) /\ Free(s.out, Payloads)
      BY <3>2 DEF Registering, Opening, NoOpening, None
    <3>4. Free(r.out, Payloads) BY <3>3, <1>0, <1>t, FreeTail
    <3> QED BY <3>1, <3>3, <3>4, <2>1, <1>0
  <2>3. Free(r.out, LsCommands) BY <2>1, <1>1
  <2> QED BY <2>1, <2>2, <2>3, <1>0, <1>2, InRegisters
<1>6. InStep(q, s, d) => InStep(p, r, e)
  <2> SUFFICES ASSUME InStep(q, s, d) PROVE InStep(p, r, e) OBVIOUS
  <2>1. /\ m \in ToExchange => Silent(q, r) /\ AtOut(m, s, d)
        /\ m \notin ToExchange => InStep(q, r, d)
    BY <1>0, StepTaken
  <2>2. CASE "sasl" \in a.caps
    <3>1. Silent(q, r) /\ AtOut(m, s, d) /\ m \in OpensOut BY <2>1, <2>2, <1>1
    <3>2. Rest(s, d) BY <3>1 DEF AtOut
    <3>3. Rest(r, e) BY <3>2, <1>0 DEF Rest
    <3>4. AtIn(a, r, e) BY <3>3 DEF AtIn
    <3>5. a \in OfExchange BY <2>2, <1>2
    <3> QED BY <3>1, <3>4, <3>5, StepReply
  <2>3. CASE "sasl" \notin a.caps
    <3>1. InStep(q, r, d) BY <2>1, <2>3, <1>1
    <3>2. Level(r, d, r, e) BY DEF Level
    <3>3. a \notin OfExchange BY <2>3, <1>2
    <3> QED BY <3>1, <3>2, <3>3, StepReplyBeside
  <2> QED BY <2>2, <2>3
<1>7. r.connected = s.connected /\ r.ssl = s.ssl /\ r.loginmethod = s.loginmethod
      /\ r.sts_upgrade_port = s.sts_upgrade_port
  BY <1>0 DEF Settings, Fixed
<1>8. Plain(q, s, d) => Plain(p, r, e) BY <1>0, <1>1, <1>2, <1>7, PlainTook
<1>9. Late(r, f) <=> Late(s, f) BY <1>7 DEF Late
<1>10. Free(q, Policies) => Free(p, Policies) BY <1>2, FreeAppend
<1> HIDE DEF p, m
<1>11. Now(p, r, e, f) BY <1>3, <1>4, <1>5, <1>6, <1>7, <1>8, <1>9 DEF Now
<1>12. Good(p, r, e, f) BY <1>0, <1>10, <1>11, ServedGood
<1> QED BY <1>0, <1>12 DEF p

(* CAP END registers the client. *)
LEMMA EndGood ==
  ASSUME NEW q \in Seq(Reply), NEW s \in Server, s.connected, s.out # <<>>, NEW d, NEW f,
         Good(q, s, d, f), Head(s.out).cmd = "END", NEW r, r = taken(s),
         NEW e, e.offer = d.offer, e.registered, e.sasl = d.sasl, e.mech = d.mech,
         e.enabled = d.enabled
  PROVE  r \in Server /\ Good(q, r, e, f)
<1> DEFINE m == Head(s.out)
<1>0. /\ r \in Server /\ r.out = Tail(s.out) /\ Settings(s, r)
      /\ r.sasl_mech = s.sasl_mech /\ r.have = s.have /\ r.sent_capend = s.sent_capend
      /\ r.waiting_on_sasl = s.waiting_on_sasl
      /\ r.scram_session = s.scram_session /\ r.refreshing = s.refreshing
      /\ m \in Command
  BY TakenFields
<1>t. s.out \in Seq(Command) BY ServerTyped
<1>1. m \in Ends /\ m \notin ToExchange BY <1>0 DEF Ends, OpensOut, ToExchange, Payloads
<1>2. ~Free(s.out, Ends) BY <1>1, <1>t, FreeTail
<1>3. Now(q, s, d, f) BY DEF Good
<1>4. Flags(q, r, e) BY <1>3, <1>0, FlagsSame DEF Now
<1>5. InStep(q, s, d) => InStep(q, r, e)
  <2> SUFFICES ASSUME InStep(q, s, d) PROVE InStep(q, r, e) OBVIOUS
  <2>1. InStep(q, r, d) BY <1>0, <1>1, StepTaken
  <2>2. Level(r, d, r, e) BY DEF Level
  <2>3. m \in Command /\ m \notin ToExchange /\ r.out \in {r.out, Append(r.out, m)} BY <1>0, <1>1
  <2> HIDE DEF m
  <2> QED BY <2>1, <2>2, <2>3, <1>0, StepBeside
<1>6. r.connected = s.connected /\ r.ssl = s.ssl /\ r.loginmethod = s.loginmethod
  BY <1>0 DEF Settings, Fixed
<1>7. Plain(q, s, d) => Plain(q, r, e) BY <1>2, <1>6 DEF Plain
<1>8. Now(q, r, e, f) BY <1>3, <1>4, <1>5, <1>6, <1>7 DEF Now
<1>9. Good(q, r, e, f) BY <1>0, <1>8, ServedGood
<1> QED BY <1>0, <1>9

(* A mechanism or a payload, and what it is answered with. *)
Answered(arg, f, d, a, e) ==
    \/ arg = "*" /\ a = [cmd |-> "906"] /\ e.sasl = 0 /\ e.mech = d.mech
    \/ arg # "*" /\ a = [cmd |-> "904"] /\ e.sasl = 0 /\ e.mech = d.mech
    \/ ~Lacks(f, {"abort"}) /\ a = [cmd |-> "906"] /\ e.sasl = 0 /\ e.mech = d.mech
    \/ /\ d.sasl = 0 /\ arg \in Mechs
       /\ a = [cmd |-> "AUTH", arg |-> "+"] /\ e.sasl = 1 /\ e.mech = arg
    \/ /\ arg \in {"data", "+"} /\ d.sasl = IF d.mech = "SCRAM" THEN 3 ELSE 1
       /\ a = [cmd |-> "903"] /\ e.sasl = 0 /\ e.mech = d.mech
    \/ /\ arg = "data" /\ d.sasl = 1 /\ d.mech = "SCRAM"
       /\ a = [cmd |-> "AUTH", arg |-> "server-first"] /\ e.sasl = 2 /\ e.mech = d.mech
    \/ /\ arg = "data" /\ d.sasl = 2 /\ d.mech = "SCRAM"
       /\ a = [cmd |-> "AUTH", arg |-> "server-final"] /\ e.sasl = 3 /\ e.mech = d.mech

LEMMA AnsweredIn ==
  ASSUME NEW s \in Server, NEW d, NEW m \in Command, m.cmd = "AUTH", NEW f, Lacks(f, {"abort"}),
         AtOut(m, s, d), NEW a, NEW e, Answered(m.arg, f, d, a, e),
         NEW r, r.sasl_mech = s.sasl_mech, r.scram_session = s.scram_session
  PROVE  AtIn(a, r, e)
<1> DEFINE arg == m.arg
<1>0. m \in OpensOut <=> arg \in Mechs BY DEF OpensOut
<1>m. "data" \notin Mechs /\ "+" \notin Mechs /\ "*" \notin Mechs BY DEF Mechs, AllLogins
<1>1. CASE arg = "*" /\ a = [cmd |-> "906"] /\ e.sasl = 0 /\ e.mech = d.mech
  BY <1>1 DEF AtIn, AtOut, Rest
<1>2. CASE arg # "*" /\ a = [cmd |-> "904"] /\ e.sasl = 0 /\ e.mech = d.mech
  BY <1>2 DEF AtIn
<1>4. CASE /\ d.sasl = 0 /\ arg \in Mechs
           /\ a = [cmd |-> "AUTH", arg |-> "+"] /\ e.sasl = 1 /\ e.mech = arg
  <2>1. arg = s.sasl_mech /\ s.scram_session = 0 BY <1>0, <1>4 DEF AtOut, Rest
  <2>2. a.cmd = "AUTH" /\ a.arg = "+" BY <1>4
  <2> QED BY <2>1, <2>2, <1>4 DEF AtIn
<1>5. CASE /\ arg \in {"data", "+"} /\ d.sasl = IF d.mech = "SCRAM" THEN 3 ELSE 1
           /\ a = [cmd |-> "903"] /\ e.sasl = 0 /\ e.mech = d.mech
  <2>1. CASE arg = "+" BY <2>1, <1>5 DEF AtIn, AtOut, Rest
  <2>2. CASE arg = "data"
    <3>1. IF d.mech = "SCRAM" THEN s.scram_session = d.sasl /\ d.sasl <= 2
                              ELSE s.scram_session = 0 /\ d.sasl = 1
      BY <2>2 DEF AtOut
    <3>2. s.scram_session = 0 BY <3>1, <1>5
    <3>3. a.cmd = "903" BY <1>5
    <3> QED BY <3>2, <3>3, <1>5 DEF AtIn, Rest
  <2> QED BY <2>1, <2>2, <1>5
<1>6. CASE /\ arg = "data" /\ d.sasl = 1 /\ d.mech = "SCRAM"
           /\ a = [cmd |-> "AUTH", arg |-> "server-first"] /\ e.sasl = 2 /\ e.mech = d.mech
  <2>1. d.mech = s.sasl_mech /\ s.scram_session = d.sasl BY <1>6 DEF AtOut
  <2>2. a.cmd = "AUTH" /\ a.arg = "server-first" BY <1>6
  <2> QED BY <2>1, <2>2, <1>6 DEF AtIn
<1>7. CASE /\ arg = "data" /\ d.sasl = 2 /\ d.mech = "SCRAM"
           /\ a = [cmd |-> "AUTH", arg |-> "server-final"] /\ e.sasl = 3 /\ e.mech = d.mech
  <2>1. d.mech = s.sasl_mech /\ s.scram_session = d.sasl BY <1>7 DEF AtOut
  <2>2. a.cmd = "AUTH" /\ a.arg = "server-final" BY <1>7
  <2> QED BY <2>1, <2>2, <1>7 DEF AtIn
<1> HIDE DEF arg
<1>8. Answered(arg, f, d, a, e) BY DEF arg
<1> QED BY <1>1, <1>2, <1>4, <1>5, <1>6, <1>7, <1>8 DEF Answered

LEMMA AnsweredKind ==
  ASSUME NEW arg, NEW f, NEW d, NEW a, NEW e, Answered(arg, f, d, a, e)
  PROVE  /\ a \in Reply /\ a \in Answers /\ a \notin OpensIn /\ a \notin LsLines
         /\ a \in OfExchange /\ a \notin Policies /\ \A c : a \notin Toggles(c)
         /\ e.sasl > 0 => a \notin Finals /\ (d.sasl > 0 \/ arg \in Mechs)
<1>1. a \in Reply /\ a.cmd \in {"AUTH", "904", "906", "903"} BY Lines DEF Answered
<1>2. e.sasl > 0 => a.cmd = "AUTH" /\ (d.sasl > 0 \/ arg \in Mechs) BY DEF Answered
<1>3. /\ a \in Answers /\ a \notin OpensIn /\ a \notin LsLines
      /\ a \in OfExchange /\ a \notin Policies /\ \A c : a \notin Toggles(c)
  BY <1>1, ReplyKind
<1>4. a.cmd = "AUTH" => a \notin Finals BY <1>1, ReplyKind
<1> QED BY <1>1, <1>2, <1>3, <1>4

LEMMA AuthGood ==
  ASSUME NEW q \in Seq(Reply), NEW s \in Server, s.connected, s.out # <<>>, NEW d \in Ircd, NEW f,
         Good(q, s, d, f), Head(s.out).cmd = "AUTH", NEW r, r = taken(s),
         NEW a, NEW e, Answered(Head(s.out).arg, f, d, a, e),
         e.offer = d.offer, e.registered = d.registered, e.enabled = d.enabled
  PROVE  r \in Server /\ Good(Append(q, a), r, e, f)
<1> DEFINE m == Head(s.out)  p == Append(q, a)
<1>0. /\ r \in Server /\ r.out = Tail(s.out) /\ Settings(s, r)
      /\ r.sasl_mech = s.sasl_mech /\ r.have = s.have /\ r.sent_capend = s.sent_capend
      /\ r.waiting_on_sasl = s.waiting_on_sasl
      /\ r.scram_session = s.scram_session /\ r.refreshing = s.refreshing
      /\ m \in Command
  BY TakenFields
<1>t. s.out \in Seq(Command) BY ServerTyped
<1>1. /\ m \notin LsCommands /\ m \in NotRequests /\ m \in ToExchange
      /\ m \in OpensOut <=> m.arg \in Mechs
      /\ m \in OpensOut \/ m \in Payloads
  BY <1>0 DEF LsCommands, NotRequests, OpensOut, ToExchange, Payloads
<1>2. /\ a \in Reply /\ a \in Answers /\ a \notin OpensIn /\ a \notin LsLines
      /\ a \in OfExchange /\ a \notin Policies /\ \A c : a \notin Toggles(c)
      /\ e.sasl > 0 => a \notin Finals /\ (d.sasl > 0 \/ m.arg \in Mechs)
  BY AnsweredKind
<1>3. Now(q, s, d, f) BY DEF Good
<1>4. Flags(p, r, e)
  <2>1. \A c \in Caps : IF a \in Toggles(c) THEN c \in e.enabled <=> a.cmd = "ACK"
                                            ELSE c \in e.enabled <=> c \in d.enabled
    BY <1>2
  <2>2. Flags(p, s, e) BY <2>1, <1>2, <1>3, FlagsReply DEF Now
  <2> QED BY <2>2, <1>0, FlagsSame
<1>5. Registering(q, s, d) => Registering(p, r, e)
  <2> SUFFICES ASSUME Registering(q, s, d) PROVE Registering(p, r, e) OBVIOUS
  <2>1. /\ Registering(q, r, d)
        /\ m \in OpensOut => NoOpening(q, r)
        /\ Free(r.out, LsCommands)
    BY <1>0, <1>1, OutRegisters
  <2>2. m \in Payloads => NoOpening(q, s)
    <3>1. m \in Payloads => ~Free(s.out, Payloads) BY <1>t, FreeTail
    <3> QED BY <3>1 DEF Registering, Opening
  <2>3. NoOpening(q, s) => NoOpening(q, r)
    <3>1. Free(s.out, OpensOut) => Free(r.out, OpensOut) BY <1>0, <1>t, FreeTail
    <3> QED BY <3>1 DEF NoOpening, None
  <2>4. NoOpening(q, r) BY <1>1, <2>1, <2>2, <2>3
  <2>5. Free(q, LsLines)
    <3>1. ~Free(s.out, NotRequests) BY <1>1, <1>t, FreeTail
    <3> QED BY <3>1 DEF Registering, Asking
  <2>6. ASSUME e.sasl > 0
        PROVE  /\ r.waiting_on_sasl /\ ~r.sent_capend /\ ~r.refreshing
               /\ a \notin Finals /\ Free(q, Finals)
    <3>1. CASE d.sasl > 0 BY <3>1, <2>6, <1>0, <1>2 DEF Registering, Exchanging
    <3>2. CASE m.arg \in Mechs
      <4>1. m \in OpensOut BY <3>2, <1>1
      <4>2. ~Free(s.out, OpensOut) /\ ~Free(s.out, OpensOut \ LsCommands)
        BY <4>1, <1>1, <1>t, FreeTail
      <4>3. /\ s.waiting_on_sasl /\ ~s.sent_capend /\ ~s.refreshing /\ Free(q, Answers)
        BY <4>2 DEF Registering, Opening, NoOpening, None
      <4>4. Finals \subseteq Answers BY DEF Finals, Answers
      <4>5. Free(q, Finals) BY <4>3, <4>4, FreeSubset
      <4> QED BY <4>3, <4>5, <2>6, <1>0, <1>2
    <3> QED BY <3>1, <3>2, <2>6, <1>2
  <2> QED BY <2>1, <2>4, <2>5, <2>6, <1>0, <1>2, AnswerRegisters
<1>6. Lacks(f, {"abort"}) /\ InStep(q, s, d) => InStep(p, r, e)
  <2> SUFFICES ASSUME Lacks(f, {"abort"}), InStep(q, s, d) PROVE InStep(p, r, e) OBVIOUS
  <2>1. Silent(q, r) /\ AtOut(m, s, d) BY <1>0, <1>1, StepTaken
  <2>2. AtIn(a, r, e) BY <2>1, <1>0, AnsweredIn
  <2> QED BY <2>1, <2>2, <1>2, StepReply
<1>7. r.connected = s.connected /\ r.ssl = s.ssl /\ r.loginmethod = s.loginmethod
      /\ r.sts_upgrade_port = s.sts_upgrade_port
  BY <1>0 DEF Settings, Fixed
<1>8. Plain(q, s, d) => Plain(p, r, e) BY <1>0, <1>1, <1>2, <1>7, PlainTook
<1>9. Late(r, f) <=> Late(s, f) BY <1>7 DEF Late
<1>10. Free(q, Policies) => Free(p, Policies) BY <1>2, FreeAppend
<1> HIDE DEF p, m
<1>11. Now(p, r, e, f) BY <1>3, <1>4, <1>5, <1>6, <1>7, <1>8, <1>9 DEF Now
<1>12. Good(p, r, e, f) BY <1>0, <1>10, <1>11, ServedGood
<1> QED BY <1>0, <1>12 DEF p

(* An exchange that the server ends by itself. *)
LEMMA AbortGood ==
  ASSUME NEW q \in Seq(Reply), NEW s \in Server, s.connected, NEW d \in Ircd, NEW f,
         Good(q, s, d, f), ~Lacks(f, {"abort"}), d.sasl > 0, NEW a, a = [cmd |-> "906"],
         NEW e, e.sasl = 0, e.offer = d.offer, e.registered = d.registered, e.enabled = d.enabled
  PROVE  Good(Append(q, a), s, e, f)
<1> DEFINE p == Append(q, a)
<1>0. a \in Reply /\ a.cmd = "906" BY Lines
<1>2. /\ a \in Answers /\ a \notin OpensIn /\ a \notin LsLines
      /\ a \notin Policies /\ \A c : a \notin Toggles(c)
  BY <1>0, ReplyKind
<1>3. Now(q, s, d, f) BY DEF Good
<1>4. Flags(p, s, e)
  <2>1. \A c \in Caps : IF a \in Toggles(c) THEN c \in e.enabled <=> a.cmd = "ACK"
                                            ELSE c \in e.enabled <=> c \in d.enabled
    BY <1>2
  <2> QED BY <2>1, <1>0, <1>3, FlagsReply DEF Now
<1>5. Registering(q, s, d) => NoOpening(q, s) /\ Free(q, LsLines) /\ Free(s.out, LsCommands)
  <2> SUFFICES ASSUME Registering(q, s, d)
               PROVE  NoOpening(q, s) /\ Free(q, LsLines) /\ Free(s.out, LsCommands)
    OBVIOUS
  <2>1. NoOpening(q, s) BY DEF Registering, Exchanging
  <2>2. d.sasl # 0 OBVIOUS
  <2>3. Free(q, LsLines) BY <2>2 DEF Registering, Asking
  <2>4. LsCommands \subseteq OpensOut BY DEF LsCommands, OpensOut
  <2> QED BY <2>1, <2>3, <2>4, FreeSubset DEF NoOpening, None
<1>6. Registering(q, s, d) => Registering(p, s, e)
  <2> SUFFICES ASSUME Registering(q, s, d) PROVE Registering(p, s, e) OBVIOUS
  <2>1. ~(e.sasl > 0) OBVIOUS
  <2> QED BY <2>1, <1>0, <1>2, <1>5, AnswerRegisters
<1>7. s.loginmethod = "none" => Plain(p, s, e)
  <2> SUFFICES ASSUME s.loginmethod = "none" PROVE Plain(p, s, e) OBVIOUS
  <2>1. Plain(q, s, d) BY <1>3 DEF Now
  <2>2. ~d.registered => Registering(q, s, d) BY <1>3 DEF Now, Late
  <2>3. Free(s.out, LsCommands) => s.out # <<[cmd |-> "LS"]>>
    <3>1. [cmd |-> "LS"] \in LsCommands BY Lines DEF LsCommands
    <3> QED BY <3>1, FreeSingle
  <2>4. LastLs(q, s) => LastLs(p, s) BY <1>0, LastLsAppend
  <2>5. Free(q, Policies) => Free(p, Policies) BY <1>0, <1>2, FreeAppend
  <2> QED BY <2>1, <2>2, <2>3, <2>4, <2>5, <1>5 DEF Plain
<1>10. Free(q, Policies) => Free(p, Policies) BY <1>0, <1>2, FreeAppend
<1> HIDE DEF p
<1>11. Now(p, s, e, f) BY <1>3, <1>4, <1>6, <1>7 DEF Now
<1>12. Settings(s, s) BY DEF Settings, Fixed
<1>13. Good(p, s, e, f) BY <1>10, <1>11, <1>12, ServedGood
<1> QED BY <1>13 DEF p

(* CAP NEW and CAP DEL, when nothing else is going on. *)
LEMMA AnnounceGood ==
  ASSUME NEW s \in Server, s.connected, NEW d \in Ircd, NEW f,
         Good(<<>>, s, d, f), d.registered, s.out = <<>>,
         NEW a \in Reply,
         NEW e, e.sasl = d.sasl, e.mech = d.mech, e.registered, e.offer.sts = d.offer.sts,
         \/ a.cmd = "LS" /\ ~a.sts /\ e.enabled = d.enabled
         \/ a.cmd = "DEL" /\ e.enabled = d.enabled \ a.caps
  PROVE  Good(<<a>>, s, e, f)
<1> DEFINE p == <<a>>  n == <<>>
<1>0. n \in Seq(Reply) /\ Append(n, a) = p BY AppendFacts
<1>1. a \notin Policies /\ (\A c : a \in Toggles(c) <=> a.cmd = "DEL" /\ c \in a.caps)
      /\ a \notin Answers
  BY ReplyKind
<1>3. Now(n, s, d, f) BY DEF Good
<1>f. \A A : Free(n, A) BY FreeEmpty
<1>o. \A A : Free(s.out, A) BY FreeEmpty
<1>p. Free(p, Policies) BY <1>1, FreeSingle
<1>4. Flags(p, s, e)
  <2>1. \A c \in Caps : IF a \in Toggles(c) THEN c \in e.enabled <=> a.cmd = "ACK"
                                            ELSE c \in e.enabled <=> c \in d.enabled
    BY <1>1
  <2>2. Flags(n, s, d) BY <1>3 DEF Now
  <2> HIDE DEF n, p
  <2>3. Flags(Append(n, a), s, e) BY <2>1, <2>2, <1>0, FlagsReply
  <2> QED BY <2>3, <1>0
<1>5. InStep(n, s, d) => InStep(p, s, e)
  <2> SUFFICES ASSUME InStep(n, s, d) PROVE InStep(p, s, e) OBVIOUS
  <2> HIDE DEF n, p
  <2>1. Silent(n, s) BY <1>f, <1>o DEF Silent, None
  <2>2. Rest(s, d) BY <2>1 DEF InStep
  <2>3. Rest(s, e) BY <2>2 DEF Rest
  <2>4. AtIn(a, s, e) BY <2>3 DEF AtIn
  <2>5. Level(s, d, s, e) BY DEF Level
  <2>6. CASE a \in OfExchange
    <3>1. InStep(Append(n, a), s, e) BY <2>1, <2>4, <2>6, <1>0, StepReply
    <3> QED BY <3>1, <1>0
  <2>7. CASE a \notin OfExchange
    <3>1. InStep(Append(n, a), s, e) BY <2>5, <2>7, <1>0, StepReplyBeside
    <3> QED BY <3>1, <1>0
  <2> QED BY <2>6, <2>7
<1>6. Plain(n, s, d) => Plain(p, s, e) BY <1>p DEF Plain
<1> HIDE DEF n, p
<1>7. Now(p, s, e, f) BY <1>3, <1>4, <1>5, <1>6 DEF Now
<1>8. Settings(s, s) BY DEF Settings, Fixed
<1>9. Good(n, s, d, f) BY DEF n
<1>10. Good(p, s, e, f) BY <1>7, <1>8, <1>9, <1>p, ServedGood
<1> QED BY <1>10 DEF p

(* CAP LS is answered with one line or with two. *)
LEMMA Pair == ASSUME NEW S, NEW a \in S, NEW b \in S PROVE Append(<<a>>, b) = <<a, b>>
<1> DEFINE p == <<a, b>>  r == Append(<<a>>, b)
<1>1. <<a>> \in Seq(S) /\ Len(<<a>>) = 1 /\ <<a>>[1] = a OBVIOUS
<1>2. r \in Seq(S) /\ Len(r) = 2 /\ r[1] = a /\ r[2] = b BY <1>1, AppendProperties
<1>3. p \in Seq(S) /\ Len(p) = 2 /\ p[1] = a /\ p[2] = b BY SeqDef
<1> HIDE DEF p, r
<1>4. \A i \in 1..2 : i = 1 \/ i = 2 OBVIOUS
<1>5. \A i \in 1..Len(p) : p[i] = r[i] BY <1>2, <1>3, <1>4
<1>6. p = r BY <1>2, <1>3, <1>5, SeqEqual
<1> QED BY <1>6 DEF p, r

LEMMA OneLine ==
  ASSUME NEW b \in Reply, b.cmd = "LS", ~b.more, NEW p, p = <<b>>
  PROVE  /\ Free(p, Answers) /\ Free(p, OpensIn \ LsLines) /\ AtMostOne(p, OpensIn) /\ LsFirst(p)
         /\ b.sts => \A s : LastLs(p, s)
<1>1. b \in LsLines /\ b \notin Answers BY ReplyKind
<1>2. Len(p) = 1 /\ p[1] = b /\ 1 \in 1..Len(p) /\ \A i \in 1..Len(p) : i = 1 OBVIOUS
<1>3. Free(p, Answers) /\ Free(p, OpensIn \ LsLines) /\ AtMostOne(p, OpensIn)
  BY <1>1, <1>2 DEF Free, AtMostOne
<1>4. LsFirst(p) BY <1>2 DEF LsFirst
<1>5. b.sts => \A s : LastLs(p, s) BY <1>1, <1>2 DEF LastLs
<1> QED BY <1>3, <1>4, <1>5

LEMMA TwoLines ==
  ASSUME NEW a \in Reply, a.cmd = "LS", a.more, NEW b \in Reply, b.cmd = "LS", ~b.more,
         "sasl" \notin a.caps \/ "sasl" \notin b.caps, NEW p, p = <<a, b>>
  PROVE  /\ Free(p, Answers) /\ Free(p, OpensIn \ LsLines) /\ AtMostOne(p, OpensIn) /\ LsFirst(p)
         /\ a.sts \/ b.sts => \A s : LastLs(p, s)
<1>1. /\ a \in LsLines /\ a \notin Answers /\ b \in LsLines /\ b \notin Answers
      /\ a \notin OpensIn \/ b \notin OpensIn
  BY ReplyKind
<1>2. /\ Len(p) = 2 /\ p[1] = a /\ p[2] = b /\ 1 \in 1..Len(p) /\ 2 \in 1..Len(p)
      /\ \A i \in 1..Len(p) : i = 1 \/ i = 2
  OBVIOUS
<1>3. Free(p, Answers) /\ Free(p, OpensIn \ LsLines) /\ AtMostOne(p, OpensIn)
  BY <1>1, <1>2 DEF Free, AtMostOne
<1>4. LsFirst(p) BY <1>1, <1>2 DEF LsFirst
<1>5. a.sts \/ b.sts => \A s : LastLs(p, s)
  <2> SUFFICES ASSUME a.sts \/ b.sts, NEW s PROVE LastLs(p, s) OBVIOUS
  <2>1. \E j \in 1..Len(p) : j <= 2 /\ p[j].sts BY <1>2
  <2>2. \A j \in 1..Len(p) : j < 2 => p[j] \in LsLines /\ p[j].more BY <1>1, <1>2
  <2>3. p[2] \in LsLines /\ ~p[2].more /\ 2 \in 1..Len(p) BY <1>1, <1>2
  <2> QED BY <2>1, <2>2, <2>3 DEF LastLs
<1> QED BY <1>3, <1>4, <1>5

LEMMA LsAnswerGood ==
  ASSUME NEW q \in Seq(Reply), NEW s \in Server, s.connected, s.out # <<>>, NEW d, NEW f,
         Good(q, s, d, f), Head(s.out).cmd = "LS", NEW r, r = taken(s), NEW p,
         NEW b \in Reply, b.cmd = "LS", ~b.more, b.sts => d.offer.sts,
         NEW a \in Reply, a.cmd = "LS", a.more, a.sts => d.offer.sts,
         \/ p = Append(q, b) /\ (d.offer.sts => b.sts)
         \/ /\ p = Append(Append(q, a), b) /\ (d.offer.sts => a.sts \/ b.sts)
            /\ "sasl" \notin a.caps \/ "sasl" \notin b.caps
  PROVE  r \in Server /\ p \in Seq(Reply) /\ Good(p, r, d, f)
<1> DEFINE m == Head(s.out)  u == Append(q, a)
           single == p = Append(q, b) /\ (d.offer.sts => b.sts)
           double == /\ p = Append(u, b) /\ (d.offer.sts => a.sts \/ b.sts)
                     /\ "sasl" \notin a.caps \/ "sasl" \notin b.caps
<1>0. /\ r \in Server /\ r.out = Tail(s.out) /\ Settings(s, r)
      /\ r.sasl_mech = s.sasl_mech /\ r.have = s.have /\ r.sent_capend = s.sent_capend
      /\ r.waiting_on_sasl = s.waiting_on_sasl
      /\ r.scram_session = s.scram_session /\ r.refreshing = s.refreshing
      /\ m \in Command
  BY TakenFields
<1>t. s.out \in Seq(Command) BY ServerTyped
<1>u. u \in Seq(Reply) BY AppendFacts
<1>s. single \/ double OBVIOUS
<1>1. m \in LsCommands /\ m \in OpensOut /\ m \in ToExchange
  BY <1>0 DEF LsCommands, OpensOut, ToExchange
<1>2. ~Free(s.out, LsCommands) /\ ~Free(s.out, OpensOut) BY <1>1, <1>t, FreeTail
<1>3. Now(q, s, d, f) BY DEF Good
<1>a. /\ a \in LsLines /\ a \notin Answers /\ (a \in Policies <=> a.sts)
      /\ \A c : a \notin Toggles(c)
      /\ a \in OfExchange => "sasl" \in a.caps
  BY ReplyKind
<1>b. /\ b \in LsLines /\ b \notin Answers /\ (b \in Policies <=> b.sts)
      /\ \A c : b \notin Toggles(c)
      /\ b \in OfExchange => "sasl" \in b.caps
  BY ReplyKind
<1>7. r.connected = s.connected /\ r.ssl = s.ssl /\ r.loginmethod = s.loginmethod
      /\ r.sts_upgrade_port = s.sts_upgrade_port
  BY <1>0 DEF Settings, Fixed
<1> HIDE DEF u
<1>p. p \in Seq(Reply)
  <2>1. Append(q, b) \in Seq(Reply) /\ Append(u, b) \in Seq(Reply) BY <1>u, AppendFacts
  <2> QED BY <2>1, <1>s
<1>4. Flags(p, r, d)
  <2>1. \A c \in Caps : IF a \in Toggles(c) THEN c \in d.enabled <=> a.cmd = "ACK"
                                            ELSE c \in d.enabled <=> c \in d.enabled
    BY <1>a
  <2>2. \A c \in Caps : IF b \in Toggles(c) THEN c \in d.enabled <=> b.cmd = "ACK"
                                            ELSE c \in d.enabled <=> c \in d.enabled
    BY <1>b
  <2>3. Flags(q, s, d) BY <1>3 DEF Now
  <2>4. Flags(u, s, d) BY <2>1, <2>3, FlagsReply DEF u
  <2>5. Flags(p, s, d)
    <3>1. CASE single BY <3>1, <2>2, <2>3, FlagsReply
    <3>2. CASE double BY <3>2, <2>2, <2>4, <1>u, FlagsReply
    <3> QED BY <3>1, <3>2, <1>s
  <2> QED BY <2>5, <1>0, FlagsSame
<1>5. InStep(q, s, d) => InStep(p, r, d)
  <2> SUFFICES ASSUME InStep(q, s, d) PROVE InStep(p, r, d) OBVIOUS
  <2>1. Silent(q, r) /\ AtOut(m, s, d) BY <1>0, <1>1, StepTaken
  <2>2. Rest(s, d) BY <2>1, <1>1 DEF AtOut
  <2>3. Rest(r, d) BY <2>2, <1>0 DEF Rest
  <2>4. AtIn(a, r, d) /\ AtIn(b, r, d) BY <2>3 DEF AtIn
  <2>5. Level(r, d, r, d) BY DEF Level
  <2>6. InStep(q, r, d) BY <2>1, <2>3, StepSilent
  <2>7. CASE single
    <3>1. CASE b \in OfExchange BY <3>1, <2>1, <2>4, <2>7, StepReply
    <3>2. CASE b \notin OfExchange BY <3>2, <2>5, <2>6, <2>7, StepReplyBeside
    <3> QED BY <3>1, <3>2
  <2>8. CASE double
    <3>1. InStep(u, r, d)
      <4>1. CASE a \in OfExchange BY <4>1, <2>1, <2>4, StepReply DEF u
      <4>2. CASE a \notin OfExchange BY <4>2, <2>5, <2>6, StepReplyBeside DEF u
      <4> QED BY <4>1, <4>2
    <3>2. CASE b \in OfExchange
      <4>1. a \notin OfExchange BY <3>2, <2>8, <1>a, <1>b
      <4>2. Silent(u, r) BY <4>1, <2>1, OneAppend DEF Silent, u
      <4> QED BY <4>2, <3>2, <2>4, <2>8, <1>u, StepReply
    <3>3. CASE b \notin OfExchange BY <3>1, <3>3, <2>5, <2>8, <1>u, StepReplyBeside
    <3> QED BY <3>2, <3>3
  <2> QED BY <2>7, <2>8, <1>s
<1>6. ASSUME q = <<>>
      PROVE  /\ Free(p, Answers) /\ Free(p, OpensIn \ LsLines) /\ AtMostOne(p, OpensIn)
             /\ LsFirst(p)
             /\ d.offer.sts => LastLs(p, r)
  <2>1. CASE single
    <3>1. p = <<b>> BY <2>1, <1>6
    <3> QED BY <3>1, <2>1, OneLine
  <2>2. CASE double
    <3>0. u = <<a>> BY <1>6 DEF u
    <3>1. p = <<a, b>>
      <4>1. p = Append(<<a>>, b) BY <2>2, <3>0
      <4>2. Append(<<a>>, b) = <<a, b>> BY Pair
      <4> QED BY <4>1, <4>2
    <3> QED BY <3>1, <2>2, TwoLines
  <2> QED BY <2>1, <2>2, <1>s
<1>8. Registering(q, s, d) => q = <<>> /\ s.out = <<[cmd |-> "LS"]>>
  BY <1>2 DEF Registering, Asking
<1>9. Registering(q, s, d) => Registering(p, r, d)
  <2> SUFFICES ASSUME Registering(q, s, d) PROVE Registering(p, r, d) OBVIOUS
  <2>1. r.out = <<>>
    <3>0. \A x : Len(<<x>>) = 1 OBVIOUS
    <3>1. Len(s.out) = 1 BY <3>0, <1>8
    <3>2. Tail(s.out) \in Seq(Command) /\ Len(Tail(s.out)) = 0 BY <3>1, <1>t, TailFacts
    <3> QED BY <3>2, <1>0, EmptySeq
  <2>2. ~s.sent_capend /\ ~s.refreshing /\ d.sasl = 0
    BY <1>2 DEF Registering, Opening, NoOpening, None
  <2> QED BY <2>1, <2>2, <1>0, <1>6, <1>8, AnnouncedRegisters
<1>10. ~d.offer.sts /\ Free(q, Policies) => Free(p, Policies)
  <2> SUFFICES ASSUME ~d.offer.sts, Free(q, Policies) PROVE Free(p, Policies) OBVIOUS
  <2>1. a \notin Policies /\ b \notin Policies BY <1>a, <1>b
  <2>2. Free(u, Policies) BY <2>1, FreeAppend DEF u
  <2>3. Free(Append(q, b), Policies) /\ Free(Append(u, b), Policies)
    BY <2>1, <2>2, <1>u, FreeAppend
  <2> QED BY <2>3, <1>s
<1>11. s.loginmethod = "none" => Plain(p, r, d)
  <2> SUFFICES ASSUME s.loginmethod = "none" PROVE Plain(p, r, d) OBVIOUS
  <2>1. Plain(q, s, d) BY <1>3 DEF Now
  <2>2. ~d.registered => q = <<>> BY <1>3, <1>8 DEF Now, Late
  <2>3. Free(s.out, Ends) => Free(r.out, Ends) BY <1>0, <1>t, FreeTail
  <2> QED BY <2>1, <2>2, <2>3, <1>6, <1>7, <1>10 DEF Plain
<1>12. Late(r, f) <=> Late(s, f) BY <1>7 DEF Late
<1> HIDE DEF single, double, m
<1>13. Now(p, r, d, f) BY <1>3, <1>4, <1>5, <1>7, <1>9, <1>11, <1>12 DEF Now
<1>14. Good(p, r, d, f) BY <1>0, <1>10, <1>13, ServedGood
<1> QED BY <1>0, <1>p, <1>14

(* What the server does to its own record. *)
LEMMA IrcdTyped ==
  ASSUME NEW d \in Ircd
  PROVE  /\ d.offer \in Offer /\ d.enabled \subseteq Caps /\ d.registered \in BOOLEAN
         /\ d.sasl \in 0..3 /\ d.mech \in Mechs
         /\ d.offer.caps \subseteq Caps /\ d.offer.sts \in BOOLEAN /\ d.offer.mechs \in MechList
<1>1. /\ d.offer \in Offer /\ d.enabled \subseteq Caps /\ d.registered \in BOOLEAN
      /\ d.sasl \in 0..3 /\ d.mech \in Mechs
  BY DEF Ircd
<1>2. \A o \in Offer : o.caps \subseteq Caps /\ o.sts \in BOOLEAN /\ o.mechs \in MechList
  BY DEF Offer
<1> QED BY <1>1, <1>2

Enabled(d, n) == [d EXCEPT !.enabled = n]

LEMMA EnabledFields ==
  ASSUME NEW d \in Ircd, NEW n \in SUBSET Caps, NEW e, e = Enabled(d, n)
  PROVE  /\ e \in Ircd /\ e.offer = d.offer /\ e.registered = d.registered /\ e.sasl = d.sasl
         /\ e.mech = d.mech /\ e.enabled = n
<1>1. e \in Ircd BY DEF Ircd, Enabled
<1> QED BY <1>1 DEF Ircd, Enabled

LEMMA RegisteredFields ==
  ASSUME NEW d \in Ircd, NEW e, e = [d EXCEPT !.registered = TRUE]
  PROVE  /\ e \in Ircd /\ e.offer = d.offer /\ e.registered /\ e.sasl = d.sasl
         /\ e.mech = d.mech /\ e.enabled = d.enabled
<1> DEFINE yes == TRUE
<1>1. yes \in BOOLEAN /\ yes OBVIOUS
<1>2. e = [d EXCEPT !.registered = yes] OBVIOUS
<1> HIDE DEF yes
<1>3. e \in Ircd BY <1>1, <1>2 DEF Ircd
<1>4. /\ e.offer = d.offer /\ e.registered = yes /\ e.sasl = d.sasl
      /\ e.mech = d.mech /\ e.enabled = d.enabled
  BY <1>2 DEF Ircd
<1> QED BY <1>1, <1>3, <1>4

LEMMA SaslFields ==
  ASSUME NEW d \in Ircd, NEW n \in 0..3, NEW e, e = [d EXCEPT !.sasl = n]
  PROVE  /\ e \in Ircd /\ e.offer = d.offer /\ e.registered = d.registered /\ e.sasl = n
         /\ e.mech = d.mech /\ e.enabled = d.enabled
<1>1. e \in Ircd BY DEF Ircd
<1> QED BY <1>1 DEF Ircd

LEMMA MechFields ==
  ASSUME NEW d \in Ircd, NEW m \in Mechs, NEW e, e = [d EXCEPT !.mech = m]
  PROVE  /\ e \in Ircd /\ e.offer = d.offer /\ e.registered = d.registered /\ e.sasl = d.sasl
         /\ e.mech = m /\ e.enabled = d.enabled
<1>1. e \in Ircd BY DEF Ircd
<1> QED BY <1>1 DEF Ircd

Offering(d, o) == [d EXCEPT !.offer = o]

LEMMA OfferFields ==
  ASSUME NEW d \in Ircd, NEW o \in Offer, NEW e, e = Offering(d, o)
  PROVE  /\ e \in Ircd /\ e.offer = o /\ e.registered = d.registered /\ e.sasl = d.sasl
         /\ e.mech = d.mech /\ e.enabled = d.enabled
<1>1. e \in Ircd BY DEF Ircd, Offering
<1> QED BY <1>1 DEF Ircd, Offering

Offered(o, caps) == [o EXCEPT !.caps = caps]

LEMMA CapsFields ==
  ASSUME NEW o \in Offer, NEW caps \in SUBSET Caps, NEW n, n = Offered(o, caps)
  PROVE  n \in Offer /\ n.caps = caps /\ n.sts = o.sts /\ n.mechs = o.mechs
<1>1. n \in Offer BY DEF Offer, Offered
<1> QED BY <1>1 DEF Offer, Offered

-----------------------------------------------------------------------------
(* The steps of the server.  *)

LEMMA TookStep ==
  ASSUME IInv, NEW d \in Ircd, NEW replies, NEW p \in Seq(Reply), inq \o replies = p,
         taken(serv) \in Server, Good(p, taken(serv), d, features), Took(d, replies)
  PROVE  IInv'
<1>1. serv' = taken(serv) /\ ircd' = d /\ inq' = p /\ features' = features
  BY DEF Took, taken
<1>2. TypeOK' BY <1>1 DEF IInv, TypeOK
<1>3. Good(inq', serv', ircd', features') BY <1>1
<1> QED BY <1>2, <1>3 DEF IInv

LEMMA IrcdReqStep == ASSUME IInv, IrcdReq PROVE IInv'
<1> DEFINE caps == Head(serv.out).caps  r == taken(serv)
           no == [cmd |-> "NAK", caps |-> caps]  yes == [cmd |-> "ACK", caps |-> caps]
           e == [ircd EXCEPT !.enabled = @ \cup caps]
<1>0. /\ inq \in Seq(Reply) /\ serv \in Server /\ ircd \in Ircd
      /\ Good(inq, serv, ircd, features)
  BY DEF IInv, TypeOK
<1>1. /\ serv.connected /\ serv.out # <<>> /\ Head(serv.out).cmd = "REQ"
      /\ Took(ircd, <<no>>) \/ Took(e, <<yes>>)
  BY DEF IrcdReq, Gets
<1>2. caps \in SUBSET Caps
  <2>1. Head(serv.out) \in Command BY <1>0, <1>1, TakenFields
  <2> QED BY <2>1, <1>1, CommandFields
<1>3. no \in Reply /\ no.cmd = "NAK" /\ no.caps = caps BY <1>2, Lines
<1>4. yes \in Reply /\ yes.cmd = "ACK" /\ yes.caps = caps BY <1>2, Lines
<1>5. /\ e \in Ircd /\ e.offer = ircd.offer /\ e.registered = ircd.registered
      /\ e.sasl = ircd.sasl /\ e.mech = ircd.mech /\ e.enabled = ircd.enabled \cup caps
  <2> DEFINE n == ircd.enabled \cup caps
  <2>1. n \in SUBSET Caps BY <1>0, <1>2, IrcdTyped
  <2>2. e = Enabled(ircd, n) BY DEF Enabled
  <2> HIDE DEF n, e
  <2>3. /\ e \in Ircd /\ e.offer = ircd.offer /\ e.registered = ircd.registered
        /\ e.sasl = ircd.sasl /\ e.mech = ircd.mech /\ e.enabled = n
    BY <2>1, <2>2, <1>0, EnabledFields
  <2> QED BY <2>3 DEF n
<1>c. caps = Head(serv.out).caps OBVIOUS
<1> HIDE DEF no, yes, e, caps
<1>6. /\ inq \o <<no>> = Append(inq, no) /\ Append(inq, no) \in Seq(Reply)
      /\ inq \o <<yes>> = Append(inq, yes) /\ Append(inq, yes) \in Seq(Reply)
  BY <1>0, <1>3, <1>4, ConcatOne, AppendFacts
<1>7. r \in Server /\ Good(Append(inq, no), r, ircd, features)
  BY <1>0, <1>1, <1>3, <1>c, ReqGood
<1>8. Good(Append(inq, yes), r, e, features)
  BY <1>0, <1>1, <1>4, <1>5, <1>c, ReqGood
<1>9. CASE Took(ircd, <<no>>) BY <1>9, <1>0, <1>6, <1>7, TookStep
<1>10. CASE Took(e, <<yes>>) BY <1>10, <1>5, <1>6, <1>7, <1>8, TookStep
<1> QED BY <1>1, <1>9, <1>10

LEMMA IrcdEndStep == ASSUME IInv, IrcdEnd PROVE IInv'
<1> DEFINE e == [ircd EXCEPT !.registered = TRUE]  r == taken(serv)
<1>0. /\ inq \in Seq(Reply) /\ serv \in Server /\ ircd \in Ircd
      /\ Good(inq, serv, ircd, features)
  BY DEF IInv, TypeOK
<1>1. /\ serv.connected /\ serv.out # <<>> /\ Head(serv.out).cmd = "END"
      /\ Took(e, <<>>)
  BY DEF IrcdEnd, Gets
<1>2. /\ e \in Ircd /\ e.offer = ircd.offer /\ e.registered /\ e.sasl = ircd.sasl
      /\ e.mech = ircd.mech /\ e.enabled = ircd.enabled
  BY <1>0, RegisteredFields
<1> HIDE DEF e
<1>3. r \in Server /\ Good(inq, r, e, features) BY <1>0, <1>1, <1>2, EndGood
<1>4. inq \o <<>> = inq BY <1>0, ConcatEmptySeq
<1> QED BY <1>0, <1>1, <1>2, <1>3, <1>4, TookStep

LEMMA IrcdAuthStep == ASSUME IInv, IrcdAuth PROVE IInv'
<1> DEFINE arg == Head(serv.out).arg  r == taken(serv)
           over == [ircd EXCEPT !.sasl = 0]  next == [ircd EXCEPT !.sasl = @ + 1]
           open == [next EXCEPT !.mech = arg]
<1>0. /\ inq \in Seq(Reply) /\ serv \in Server /\ ircd \in Ircd
      /\ Good(inq, serv, ircd, features)
  BY DEF IInv, TypeOK
<1>1. /\ serv.connected /\ serv.out # <<>> /\ Head(serv.out).cmd = "AUTH"
      /\ \/ arg = "*" /\ Took(over, Numeric("906"))
         \/ arg # "*" /\ Took(over, Numeric("904"))
         \/ arg # "*" /\ "abort" \in features /\ Took(over, Numeric("906"))
         \/ /\ ircd.sasl = 0 /\ arg \in Mechs /\ "sasl" \in ircd.enabled
            /\ Took(open, Challenge("+"))
         \/ /\ arg \in {"data", "+"} /\ ircd.sasl = (IF ircd.mech = "SCRAM" THEN 3 ELSE 1)
            /\ Took(over, Numeric("903"))
         \/ /\ arg = "data" /\ ircd.sasl \in 1..2 /\ ircd.mech = "SCRAM"
            /\ Took(next, Challenge(IF ircd.sasl = 1 THEN "server-first" ELSE "server-final"))
  BY DEF IrcdAuth, Gets
<1>2. /\ over \in Ircd /\ over.offer = ircd.offer /\ over.registered = ircd.registered
      /\ over.sasl = 0 /\ over.mech = ircd.mech /\ over.enabled = ircd.enabled
  BY <1>0, SaslFields
<1>3. ASSUME ircd.sasl \in 0..2
      PROVE  /\ next \in Ircd /\ next.offer = ircd.offer /\ next.registered = ircd.registered
             /\ next.sasl = ircd.sasl + 1 /\ next.mech = ircd.mech
             /\ next.enabled = ircd.enabled
  <2> DEFINE n == ircd.sasl + 1
  <2>1. n \in 0..3 BY <1>3
  <2>2. next = [ircd EXCEPT !.sasl = n] OBVIOUS
  <2> HIDE DEF n, next
  <2>3. /\ next \in Ircd /\ next.offer = ircd.offer /\ next.registered = ircd.registered
        /\ next.sasl = n /\ next.mech = ircd.mech /\ next.enabled = ircd.enabled
    BY <2>1, <2>2, <1>0, SaslFields
  <2> QED BY <2>3 DEF n
<1> HIDE DEF next
<1>4. ASSUME ircd.sasl = 0, arg \in Mechs
      PROVE  /\ open \in Ircd /\ open.offer = ircd.offer /\ open.registered = ircd.registered
             /\ open.sasl = 1 /\ open.mech = arg /\ open.enabled = ircd.enabled
  BY <1>3, <1>4, MechFields
<1>r. r \in Server BY <1>0, <1>1, TakenFields
<1>c. arg = Head(serv.out).arg OBVIOUS
<1> HIDE DEF over, open, r, arg
<1>5. ASSUME NEW a, NEW e \in Ircd, Answered(arg, features, ircd, a, e), Took(e, <<a>>),
             e.offer = ircd.offer, e.registered = ircd.registered, e.enabled = ircd.enabled
      PROVE  IInv'
  <2>1. a \in Reply BY <1>5, AnsweredKind
  <2>2. inq \o <<a>> = Append(inq, a) /\ Append(inq, a) \in Seq(Reply)
    BY <2>1, <1>0, ConcatOne, AppendFacts
  <2>3. Good(Append(inq, a), r, e, features) BY <1>0, <1>1, <1>5, <1>c, AuthGood DEF r
  <2> QED BY <2>2, <2>3, <1>5, <1>r, TookStep DEF r
<1>6. CASE arg = "*" /\ Took(over, Numeric("906"))
  <2> DEFINE a == [cmd |-> "906"]
  <2>1. Answered(arg, features, ircd, a, over) BY <1>2, <1>6 DEF Answered
  <2>2. Took(over, <<a>>) BY <1>6 DEF Numeric
  <2> QED BY <2>1, <2>2, <1>2, <1>5
<1>7. CASE arg # "*" /\ Took(over, Numeric("904"))
  <2> DEFINE a == [cmd |-> "904"]
  <2>1. Answered(arg, features, ircd, a, over) BY <1>2, <1>7 DEF Answered
  <2>2. Took(over, <<a>>) BY <1>7 DEF Numeric
  <2> QED BY <2>1, <2>2, <1>2, <1>5
<1>8. CASE arg # "*" /\ "abort" \in features /\ Took(over, Numeric("906"))
  <2> DEFINE a == [cmd |-> "906"]
  <2>0. ~Lacks(features, {"abort"}) BY <1>8 DEF Lacks
  <2>1. Answered(arg, features, ircd, a, over) BY <2>0, <1>2, <1>8 DEF Answered
  <2>2. Took(over, <<a>>) BY <1>8 DEF Numeric
  <2> QED BY <2>1, <2>2, <1>2, <1>5
<1>9. CASE ircd.sasl = 0 /\ arg \in Mechs /\ Took(open, Challenge("+"))
  <2> DEFINE a == [cmd |-> "AUTH", arg |-> "+"]
  <2>1. Answered(arg, features, ircd, a, open) BY <1>4, <1>9 DEF Answered
  <2>2. Took(open, <<a>>) BY <1>9 DEF Challenge
  <2> QED BY <2>1, <2>2, <1>4, <1>5, <1>9
<1>10. CASE /\ arg \in {"data", "+"} /\ ircd.sasl = (IF ircd.mech = "SCRAM" THEN 3 ELSE 1)
            /\ Took(over, Numeric("903"))
  <2> DEFINE a == [cmd |-> "903"]
  <2>1. Answered(arg, features, ircd, a, over) BY <1>2, <1>10 DEF Answered
  <2>2. Took(over, <<a>>) BY <1>10 DEF Numeric
  <2> QED BY <2>1, <2>2, <1>2, <1>5
<1>11. CASE /\ arg = "data" /\ ircd.sasl \in 1..2 /\ ircd.mech = "SCRAM"
            /\ Took(next, Challenge(IF ircd.sasl = 1 THEN "server-first" ELSE "server-final"))
  <2>1. CASE ircd.sasl = 1
    <3> DEFINE a == [cmd |-> "AUTH", arg |-> "server-first"]
    <3>1. /\ next \in Ircd /\ next.offer = ircd.offer /\ next.registered = ircd.registered
          /\ next.sasl = 2 /\ next.mech = ircd.mech /\ next.enabled = ircd.enabled
      BY <2>1, <1>3
    <3>2. Answered(arg, features, ircd, a, next) BY <3>1, <2>1, <1>11 DEF Answered
    <3>3. Took(next, <<a>>) BY <2>1, <1>11 DEF Challenge
    <3> QED BY <3>1, <3>2, <3>3, <1>5
  <2>2. CASE ircd.sasl = 2
    <3> DEFINE a == [cmd |-> "AUTH", arg |-> "server-final"]
    <3>1. /\ next \in Ircd /\ next.offer = ircd.offer /\ next.registered = ircd.registered
          /\ next.sasl = 3 /\ next.mech = ircd.mech /\ next.enabled = ircd.enabled
      BY <2>2, <1>3
    <3>2. Answered(arg, features, ircd, a, next) BY <3>1, <2>2, <1>11 DEF Answered
    <3>3. Took(next, <<a>>) BY <2>2, <1>11 DEF Challenge
    <3> QED BY <3>1, <3>2, <3>3, <1>5
  <2> QED BY <2>1, <2>2, <1>11
<1> QED BY <1>1, <1>6, <1>7, <1>8, <1>9, <1>10, <1>11

LEMMA ConcatTwo ==
  ASSUME NEW S, NEW q \in Seq(S), NEW a \in S, NEW b \in S
  PROVE  q \o <<a, b>> = Append(Append(q, a), b)
<1>1. <<a>> \in Seq(S) /\ <<b>> \in Seq(S) BY SeqDef
<1>2. <<a, b>> = <<a>> \o <<b>> BY <1>1, Pair, ConcatOne
<1>3. q \o (<<a>> \o <<b>>) = (q \o <<a>>) \o <<b>> BY <1>1, ConcatAssociative
<1>4. q \o <<a>> = Append(q, a) /\ Append(q, a) \in Seq(S) BY ConcatOne, AppendFacts
<1>5. Append(q, a) \o <<b>> = Append(Append(q, a), b) BY <1>4, ConcatOne
<1> QED BY <1>2, <1>3, <1>4, <1>5

LEMMA LsLineFields ==
  ASSUME ircd \in Ircd, NEW more \in BOOLEAN, NEW caps \in SUBSET Caps, NEW sts \in BOOLEAN,
         NEW a, a = LsLine(more, caps, sts)
  PROVE  a \in Reply /\ a.cmd = "LS" /\ a.more = more /\ a.caps = caps /\ a.sts = sts
<1> DEFINE k == ircd.offer.mechs
<1>1. k \in MechList BY IrcdTyped
<1>2. a = [cmd |-> "LS", more |-> more, caps |-> caps, sts |-> sts, mechs |-> k]
  BY DEF LsLine
<1> HIDE DEF k
<1>3. a \in Reply BY <1>1, <1>2, Lines
<1> QED BY <1>2, <1>3

LEMMA IrcdLsStep == ASSUME IInv, IrcdLs PROVE IInv'
<1> DEFINE r == taken(serv)  sts == ircd.offer.sts  caps == ircd.offer.caps
           yes == TRUE  no == FALSE
<1>0. /\ inq \in Seq(Reply) /\ serv \in Server /\ ircd \in Ircd
      /\ Good(inq, serv, ircd, features)
  BY DEF IInv, TypeOK
<1>1. serv.connected /\ serv.out # <<>> /\ Head(serv.out).cmd = "LS" BY DEF IrcdLs, Gets
<1>2. caps \in SUBSET Caps /\ sts \in BOOLEAN BY <1>0, IrcdTyped
<1>3. \/ Took(ircd, <<LsLine(no, caps, sts)>>)
      \/ \E first \in SUBSET caps, early \in BOOLEAN :
           Took(ircd, <<LsLine(yes, first, sts /\ early),
                        LsLine(no, caps \ first, sts /\ ~early)>>)
  BY DEF IrcdLs
<1>4. yes \in BOOLEAN /\ no \in BOOLEAN /\ yes /\ ~no OBVIOUS
<1> HIDE DEF yes, no
<1>5. CASE Took(ircd, <<LsLine(no, caps, sts)>>)
  <2> DEFINE b == LsLine(no, caps, sts)  a == LsLine(yes, {}, no)  p == Append(inq, b)
  <2>1. b \in Reply /\ b.cmd = "LS" /\ b.more = no /\ b.caps = caps /\ b.sts = sts
    BY <1>0, <1>2, <1>4, LsLineFields
  <2>2. a \in Reply /\ a.cmd = "LS" /\ a.more = yes /\ a.caps = {} /\ a.sts = no
    <3>1. {} \in SUBSET Caps OBVIOUS
    <3> QED BY <3>1, <1>0, <1>4, LsLineFields, ZenonT(60)
  <2>3. inq \o <<b>> = p BY <2>1, <1>0, ConcatOne
  <2>s. sts = ircd.offer.sts OBVIOUS
  <2>t. Took(ircd, <<b>>) BY <1>5
  <2> HIDE DEF b, a, sts
  <2>4. b.sts => ircd.offer.sts BY <2>1, <2>s
  <2>5. a.sts => ircd.offer.sts BY <2>2, <1>4
  <2>6. ircd.offer.sts => b.sts BY <2>1, <2>s
  <2>7. r \in Server /\ p \in Seq(Reply) /\ Good(p, r, ircd, features)
    BY <2>1, <2>2, <2>4, <2>5, <2>6, <1>0, <1>1, <1>4, LsAnswerGood
  <2> QED BY <2>3, <2>7, <2>t, <1>0, TookStep
<1>6. ASSUME NEW first \in SUBSET caps, NEW early \in BOOLEAN,
             Took(ircd, <<LsLine(yes, first, sts /\ early),
                          LsLine(no, caps \ first, sts /\ ~early)>>)
      PROVE  IInv'
  <2> DEFINE x == sts /\ early  y == sts /\ ~early  rest == caps \ first
             a == LsLine(yes, first, x)  b == LsLine(no, rest, y)
             u == Append(inq, a)  p == Append(u, b)
  <2>0. x \in BOOLEAN /\ y \in BOOLEAN /\ (x => sts) /\ (y => sts) /\ (sts => x \/ y) BY <1>2
  <2>c. first \in SUBSET Caps /\ rest \in SUBSET Caps /\ ("sasl" \notin first \/ "sasl" \notin rest)
    BY <1>2
  <2>t. Took(ircd, <<a, b>>) BY <1>6
  <2>s. sts = ircd.offer.sts OBVIOUS
  <2> HIDE DEF x, y, rest, sts
  <2>1. b \in Reply /\ b.cmd = "LS" /\ b.more = no /\ b.caps = rest /\ b.sts = y
    BY <2>0, <2>c, <1>0, <1>4, LsLineFields
  <2>2. a \in Reply /\ a.cmd = "LS" /\ a.more = yes /\ a.caps = first /\ a.sts = x
    <3> DEFINE g == first
    <3>1. g \in SUBSET Caps /\ x \in BOOLEAN /\ a = LsLine(yes, g, x) BY <2>0, <2>c
    <3>0. ircd \in Ircd /\ yes \in BOOLEAN BY <1>0, <1>4
    <3> HIDE DEF a, g, b, u, p, r
    <3>2. a \in Reply /\ a.cmd = "LS" /\ a.more = yes /\ a.caps = g /\ a.sts = x
      BY <3>0, <3>1, LsLineFields
    <3> QED BY <3>2 DEF g
  <2> HIDE DEF a, b
  <2>3. inq \o <<a, b>> = p BY <2>1, <2>2, <1>0, ConcatTwo
  <2>4. (b.sts => ircd.offer.sts) /\ (a.sts => ircd.offer.sts) BY <2>0, <2>1, <2>2, <2>s
  <2>6. ircd.offer.sts => a.sts \/ b.sts BY <2>0, <2>1, <2>2, <2>s
  <2>8. "sasl" \notin a.caps \/ "sasl" \notin b.caps BY <2>c, <2>1, <2>2
  <2>9. b.cmd = "LS" /\ ~b.more /\ a.cmd = "LS" /\ a.more BY <2>1, <2>2, <1>4
  <2>10. b \in Reply /\ a \in Reply BY <2>1, <2>2
  <2>7. r \in Server /\ p \in Seq(Reply) /\ Good(p, r, ircd, features)
    BY <2>4, <2>6, <2>8, <2>9, <2>10, <1>0, <1>1, LsAnswerGood
  <2> HIDE DEF p
  <2> QED BY <2>3, <2>7, <2>t, <1>0, TookStep
<1> QED BY <1>3, <1>5, <1>6

LEMMA IrcdAbortsStep == ASSUME IInv, IrcdAborts PROVE IInv'
<1> DEFINE a == [cmd |-> "906"]  e == [ircd EXCEPT !.sasl = 0]  p == Append(inq, a)
<1>0. /\ inq \in Seq(Reply) /\ serv \in Server /\ ircd \in Ircd
      /\ Good(inq, serv, ircd, features)
  BY DEF IInv, TypeOK
<1>1. /\ "abort" \in features /\ serv.connected /\ ircd.sasl > 0
      /\ ircd' = e /\ inq' = p /\ serv' = serv /\ features' = features
  BY DEF IrcdAborts
<1>2. a \in Reply BY Lines
<1>3. p \in Seq(Reply) BY <1>0, <1>2, AppendFacts
<1>4. /\ e \in Ircd /\ e.offer = ircd.offer /\ e.registered = ircd.registered
      /\ e.sasl = 0 /\ e.enabled = ircd.enabled
  BY <1>0, SaslFields
<1>5. ~Lacks(features, {"abort"}) BY <1>1 DEF Lacks
<1>a. a = [cmd |-> "906"] OBVIOUS
<1> HIDE DEF e, a
<1>6. Good(p, serv, e, features) BY <1>0, <1>1, <1>4, <1>5, <1>a, AbortGood
<1> HIDE DEF p
<1>7. TypeOK' BY <1>0, <1>1, <1>3, <1>4 DEF IInv, TypeOK
<1>8. Good(inq', serv', ircd', features') BY <1>1, <1>6
<1> QED BY <1>7, <1>8 DEF IInv

LEMMA IrcdNewStep == ASSUME IInv, IrcdNew PROVE IInv'
<1>0. /\ inq \in Seq(Reply) /\ serv \in Server /\ ircd \in Ircd
      /\ Good(inq, serv, ircd, features)
  BY DEF IInv, TypeOK
<1>1. serv.connected /\ ircd.registered /\ inq = <<>> /\ serv.out = <<>>
  BY DEF IrcdNew, IrcdQuiet
<1>2. PICK caps \in SUBSET Caps : /\ ircd' = [ircd EXCEPT !.offer.caps = @ \cup caps]
                                  /\ inq' = <<LsLine(FALSE, caps, FALSE)>>
  BY DEF IrcdNew
<1>3. serv' = serv /\ features' = features BY DEF IrcdNew
<1> DEFINE no == FALSE  a == LsLine(no, caps, no)  n == ircd.offer.caps \cup caps
           o == Offered(ircd.offer, n)  e == Offering(ircd, o)
<1>4. no \in BOOLEAN /\ ~no /\ inq' = <<a>> BY <1>2
<1>5. n \in SUBSET Caps /\ ircd.offer \in Offer BY <1>0, IrcdTyped
<1>6. ircd' = e BY <1>2 DEF Offered, Offering
<1> HIDE DEF no, n
<1>7. a \in Reply /\ a.cmd = "LS" /\ a.sts = no BY <1>0, <1>4, LsLineFields
<1>8. o \in Offer /\ o.sts = ircd.offer.sts BY <1>5, CapsFields
<1> HIDE DEF a, o
<1>9. /\ e \in Ircd /\ e.offer = o /\ e.registered = ircd.registered /\ e.sasl = ircd.sasl
      /\ e.mech = ircd.mech /\ e.enabled = ircd.enabled
  BY <1>0, <1>8, OfferFields
<1> HIDE DEF e
<1>10. Good(<<>>, serv, ircd, features) BY <1>0, <1>1
<1>11. ~a.sts /\ e.registered /\ e.offer.sts = ircd.offer.sts BY <1>1, <1>4, <1>7, <1>8, <1>9
<1>12. Good(<<a>>, serv, e, features) BY <1>0, <1>1, <1>7, <1>9, <1>10, <1>11, AnnounceGood
<1>13. <<a>> \in Seq(Reply) BY <1>7, SeqDef
<1>14. inq' \in Seq(Reply) BY <1>4, <1>13
<1>15. TypeOK' BY <1>0, <1>3, <1>6, <1>9, <1>14 DEF IInv, TypeOK
<1>16. Good(inq', serv', ircd', features') BY <1>3, <1>4, <1>6, <1>12
<1> QED BY <1>15, <1>16 DEF IInv

LEMMA IrcdDelStep == ASSUME IInv, IrcdDel PROVE IInv'
<1>0. /\ inq \in Seq(Reply) /\ serv \in Server /\ ircd \in Ircd
      /\ Good(inq, serv, ircd, features)
  BY DEF IInv, TypeOK
<1>1. serv.connected /\ ircd.registered /\ inq = <<>> /\ serv.out = <<>>
  BY DEF IrcdDel, IrcdQuiet
<1>2. PICK caps \in SUBSET ircd.offer.caps :
         /\ ircd' = [ircd EXCEPT !.offer.caps = @ \ caps, !.enabled = @ \ caps]
         /\ inq' = <<[cmd |-> "DEL", caps |-> caps]>>
  BY DEF IrcdDel
<1>3. serv' = serv /\ features' = features BY DEF IrcdDel
<1> DEFINE a == [cmd |-> "DEL", caps |-> caps]
           n == ircd.offer.caps \ caps  m == ircd.enabled \ caps
           o == Offered(ircd.offer, n)  d == Offering(ircd, o)  e == Enabled(d, m)
<1>5. /\ n \in SUBSET Caps /\ m \in SUBSET Caps /\ ircd.offer \in Offer /\ caps \in SUBSET Caps
  BY <1>0, IrcdTyped
<1>7. a \in Reply /\ a.cmd = "DEL" /\ a.caps = caps BY <1>5, Lines
<1>4. inq' = <<a>> BY <1>2
<1>8. o \in Offer /\ o.sts = ircd.offer.sts BY <1>5, CapsFields
<1>9. /\ d \in Ircd /\ d.offer = o /\ d.registered = ircd.registered /\ d.sasl = ircd.sasl
      /\ d.mech = ircd.mech /\ d.enabled = ircd.enabled
  BY <1>0, <1>8, OfferFields
<1>r. /\ e \in Ircd /\ e.offer = d.offer /\ e.registered = d.registered /\ e.sasl = d.sasl
      /\ e.mech = d.mech /\ e.enabled = m
  <2>1. m \in SUBSET Caps /\ d \in Ircd /\ e = Enabled(d, m) BY <1>5, <1>9
  <2> HIDE DEF m, d, e
  <2> QED BY <2>1, EnabledFields
<1>6. ircd' = e BY <1>2 DEF Offered, Offering, Enabled
<1>m. m = ircd.enabled \ a.caps BY <1>7
<1> HIDE DEF a, o, n, m, d, e
<1>10. Good(<<>>, serv, ircd, features) BY <1>0, <1>1
<1>11. /\ e.registered /\ e.offer.sts = ircd.offer.sts /\ e.sasl = ircd.sasl /\ e.mech = ircd.mech
       /\ e.enabled = ircd.enabled \ a.caps
  BY <1>1, <1>7, <1>8, <1>9, <1>r, <1>m
<1>12. Good(<<a>>, serv, e, features) BY <1>0, <1>1, <1>7, <1>10, <1>11, AnnounceGood
<1>13. <<a>> \in Seq(Reply) BY <1>7, SeqDef
<1>14. inq' \in Seq(Reply) BY <1>4, <1>13
<1>15. TypeOK' BY <1>0, <1>3, <1>6, <1>r, <1>14 DEF IInv, TypeOK
<1>16. Good(inq', serv', ircd', features') BY <1>3, <1>4, <1>6, <1>12
<1> QED BY <1>15, <1>16 DEF IInv

-----------------------------------------------------------------------------
(* The inductive invariant holds.  *)

LEMMA InitIInv == ASSUME Init PROVE IInv
<1>1. PICK l \in Logins :
        serv = [connected |-> FALSE, ssl |-> FALSE, policy |-> FALSE,
                loginmethod |-> l, sasl_mech |-> "PLAIN", have |-> {},
                sent_capend |-> FALSE, waiting_on_cap |-> FALSE,
                waiting_on_sasl |-> FALSE, sts_upgrade_port |-> FALSE,
                scram_session |-> 0, oauth_refresh_attempted |-> FALSE,
                refreshing |-> FALSE, late |-> 0, needless |-> FALSE, out |-> <<>>]
  BY DEF Init
<1> DEFINE no == FALSE  n == <<>>
           w == [connected |-> no, ssl |-> no, policy |-> no,
                 loginmethod |-> l, sasl_mech |-> "PLAIN", have |-> {},
                 sent_capend |-> no, waiting_on_cap |-> no,
                 waiting_on_sasl |-> no, sts_upgrade_port |-> no,
                 scram_session |-> 0, oauth_refresh_attempted |-> no,
                 refreshing |-> no, late |-> 0, needless |-> no, out |-> n]
           o == [caps |-> {}, sts |-> no, mechs |-> "no list"]
<1>2. serv = w BY <1>1
<1>3. inq = <<>> /\ ircd = Welcome(o) /\ features \in Scenarios BY DEF Init
<1>4. no \in BOOLEAN /\ ~no /\ n = <<>> /\ n \in Seq(Command) OBVIOUS
<1>5. l \in AllLogins /\ "PLAIN" \in Mechs /\ 0 \in 0..2
  BY LoginsAssumption DEF AllLogins, Mechs
<1> HIDE DEF no, n
<1>6. w \in Server BY <1>4, <1>5 DEF Server
<1>7. /\ w.connected = no /\ w.loginmethod = l /\ w.sasl_mech = "PLAIN"
      /\ w.waiting_on_sasl = no /\ w.sts_upgrade_port = no /\ w.scram_session = 0
      /\ w.refreshing = no /\ w.late = 0 /\ w.needless = no /\ w.out = n
  OBVIOUS
<1>8. o \in Offer /\ o.sts = no BY <1>4 DEF Offer, MechList
<1> HIDE DEF w, o
<1>9. ircd \in Ircd /\ ~ircd.offer.sts
  <2>1. ircd.offer = o BY <1>3 DEF Welcome
  <2> QED BY <2>1, <1>3, <1>4, <1>8, WelcomeTyped
<1>10. inq \in Seq(Reply) BY <1>3
<1>11. TypeOK BY <1>2, <1>3, <1>6, <1>9, <1>10 DEF TypeOK
<1>12. Method(serv, features) BY <1>2, <1>4, <1>7 DEF Method
<1>13. Port(serv, ircd) BY <1>2, <1>4, <1>7 DEF Port
<1>14. Unannounced(inq, serv, ircd) BY <1>2, <1>3, <1>4, <1>7, <1>9, FreeEmpty DEF Unannounced
<1>15. ~serv.connected /\ serv.out = <<>> BY <1>2, <1>4, <1>7
<1>16. Good(inq, serv, ircd, features) BY <1>12, <1>13, <1>14, <1>15 DEF Good
<1> QED BY <1>11, <1>16 DEF IInv

LEMMA NextKeeps == ASSUME IInv, [Next]_vars PROVE IInv'
<1>1. CASE Connect BY <1>1, ConnectStep
<1>2. CASE Lost BY <1>2, LostStep
<1>3. CASE Read BY <1>3, ReadStep
<1>4. CASE oauth_sasl_retry_cb BY <1>4, RetryStep
<1>5. CASE IrcdAnswers BY <1>5, IrcdLsStep, IrcdReqStep, IrcdEndStep, IrcdAuthStep DEF IrcdAnswers
<1>6. CASE IrcdAborts BY <1>6, IrcdAbortsStep
<1>7. CASE IrcdNew BY <1>7, IrcdNewStep
<1>8. CASE IrcdDel BY <1>8, IrcdDelStep
<1>9. CASE UNCHANGED vars
  <2>1. serv' = serv /\ inq' = inq /\ ircd' = ircd /\ features' = features BY <1>9 DEF vars
  <2>2. TypeOK' BY <2>1 DEF IInv, TypeOK
  <2>3. Good(inq', serv', ircd', features') BY <2>1 DEF IInv
  <2> QED BY <2>2, <2>3 DEF IInv
<1> QED BY <1>1, <1>2, <1>3, <1>4, <1>5, <1>6, <1>7, <1>8, <1>9 DEF Next

(* The inductive invariant holds for every set of capabilities, login      *)
(* methods and features.                                                   *)
THEOREM Invariant == Spec => []IInv
<1>1. Init => IInv BY InitIInv
<1>2. IInv /\ [Next]_vars => IInv' BY NextKeeps
<1> QED BY <1>1, <1>2, PTL DEF Spec

(* The server structure and the lines in both directions have their types: *)
(* a handler reads only fields its line has, and a SCRAM session has three *)
(* states (inbound.c, scram_authenticate).                                 *)
THEOREM TypeCorrect == Spec => []TypeOK
<1>1. IInv => TypeOK BY DEF IInv
<1> QED BY <1>1, Invariant, PTL

(* CAP END is written once, outside an exchange, and after the STS upgrade *)
(* (inbound_cap_ls, inbound_cap_nak, the SASL numerics).                   *)
THEOREM AlwaysEndIsDue == Spec => []EndIsDue
<1>1. IInv => EndIsDue
  <2> SUFFICES ASSUME IInv PROVE EndIsDue OBVIOUS
  <2>0. /\ serv \in Server /\ ircd \in Ircd /\ Good(inq, serv, ircd, features)
        /\ serv.out \in Seq(Command) /\ ircd.sasl \in 0..3
    BY ServerTyped, IrcdTyped DEF IInv, TypeOK
  <2>1. ~ircd.registered /\ ~LateRefresh /\ serv.connected => Registering(inq, serv, ircd)
    BY <2>0 DEF Good, Now, Late, LateRefresh, Lacks, Never
  <2>2. EndOnce
    <3> DEFINE l == Len(serv.out)  out == serv.out
               S == {i \in 1..l : out[i].cmd = "END"}
    <3> SUFFICES ASSUME ~ircd.registered, ~LateRefresh PROVE Cardinality(S) <= 1
      BY DEF EndOnce
    <3>1. AtMostOne(out, Ends)
      <4>1. CASE serv.connected BY <4>1, <2>1 DEF Registering, Ending
      <4>2. CASE ~serv.connected BY <4>2, <2>0, FreeEmpty DEF Good
      <4> QED BY <4>1, <4>2
    <3>2. \A i \in 1..l : out[i] \in Command BY <2>0, ElementOfSeq
    <3>3. \A i \in S : i \in 1..l /\ out[i] \in Ends BY <3>2 DEF Ends
    <3>4. \A i, j \in S : i = j BY <3>1, <3>3 DEF AtMostOne
    <3> HIDE DEF S
    <3>5. CASE S = {} BY <3>5, FS_EmptySet
    <3>6. ASSUME NEW i \in S PROVE Cardinality(S) <= 1
      <4>1. S = {i} BY <3>4, <3>6
      <4> QED BY <4>1, FS_Singleton
    <3> QED BY <3>5, <3>6
  <2>3. NoEndInSasl
    <3> SUFFICES ASSUME Gets("END"), ~ircd.registered, ~LateRefresh PROVE ircd.sasl = 0
      BY DEF NoEndInSasl
    <3>1. serv.connected /\ serv.out # <<>> /\ Head(serv.out).cmd = "END" BY DEF Gets
    <3>2. Head(serv.out) \in Command BY <3>1, <2>0, TailFacts
    <3>3. Head(serv.out) \in Ends BY <3>1, <3>2 DEF Ends
    <3>4. ~Free(serv.out, Ends) BY <3>1, <3>3, <2>0, FreeTail
    <3>5. serv.sent_capend BY <3>1, <3>4, <2>1 DEF Registering, Ending
    <3>6. ~(ircd.sasl > 0) BY <3>1, <3>5, <2>1 DEF Registering, Exchanging
    <3> QED BY <3>6, <2>0
  <2>4. StsFirst BY <2>0 DEF StsFirst, Good, Now, Plain
  <2> QED BY <2>2, <2>3, <2>4 DEF EndIsDue
<1> QED BY <1>1, Invariant, PTL

(* Nothing of an earlier connection or exchange is taken for the present   *)
(* one's: flags, SCRAM session, payloads, STS port (server_set_defaults,   *)
(* inbound_toggle_caps, scram_authenticate).                               *)
THEOREM NeverCarriedOver == Spec => []NothingCarriedOver
<1>1. IInv => NothingCarriedOver
  <2> SUFFICES ASSUME IInv PROVE NothingCarriedOver OBVIOUS
  <2>0. /\ serv \in Server /\ ircd \in Ircd /\ Good(inq, serv, ircd, features)
        /\ serv.out \in Seq(Command) /\ inq \in Seq(Reply) /\ ircd.sasl \in 0..3
    BY ServerTyped, IrcdTyped DEF IInv, TypeOK
  <2>1. FlagsCurrent
    <3> SUFFICES ASSUME serv.connected, NEW c \in Caps \cap ClearedCaps, Settled(c)
                 PROVE  c \in serv.have <=> c \in ircd.enabled
      BY DEF FlagsCurrent
    <3>1. Free(inq, Toggles(c)) BY DEF Settled, Free, Toggles
    <3> QED BY <3>1, <2>0 DEF Good, Now, Flags
  <2>2. ASSUME serv.connected, serv.loginmethod # "OAUTHBEARER", Never({"abort"})
        PROVE  InStep(inq, serv, ircd)
    BY <2>2, <2>0 DEF Good, Now, Lacks, Never
  <2>3. ScramFresh
    <3> SUFFICES ASSUME Reads("AUTH"), Head(inq).arg = "+", Never({"abort"})
                 PROVE  serv.scram_session = 0
      BY DEF ScramFresh
    <3>1. serv.connected /\ inq # <<>> /\ Head(inq).cmd = "AUTH" BY DEF Reads
    <3>2. CASE serv.loginmethod = "OAUTHBEARER" BY <3>2, <2>0 DEF Good, Method
    <3>3. CASE serv.loginmethod # "OAUTHBEARER"
      <4>1. Head(inq) \in Reply BY <3>1, <2>0, TailFacts
      <4>2. Head(inq) \in OfExchange BY <3>1, <4>1, ReplyKind
      <4>3. AtIn(Head(inq), serv, ircd) BY <3>1, <3>3, <4>2, <2>0, <2>2, StepRead
      <4> QED BY <4>3, <3>1 DEF AtIn
    <3> QED BY <3>2, <3>3
  <2>4. PayloadInExchange
    <3> SUFFICES ASSUME Gets("AUTH"), Head(serv.out).arg = "data",
                        serv.loginmethod # "OAUTHBEARER", Never({"abort"})
                 PROVE  ircd.sasl > 0
      BY DEF PayloadInExchange
    <3> DEFINE m == Head(serv.out)
    <3>1. serv.connected /\ serv.out # <<>> /\ m.cmd = "AUTH" /\ m.arg = "data" BY DEF Gets
    <3>2. m \in Command BY <3>1, <2>0, TailFacts
    <3>3. "data" \notin Mechs BY DEF Mechs, AllLogins
    <3>4. m \in ToExchange BY <3>1, <3>2, <3>3 DEF ToExchange, Payloads
    <3>5. \A i \in 1..Len(serv.out) : serv.out[i] \in ToExchange => AtOut(serv.out[i], serv, ircd)
      BY <3>1, <2>2 DEF InStep
    <3>6. m = serv.out[1] /\ 1 \in 1..Len(serv.out)
      <4>1. m = serv.out[1] /\ Len(serv.out) \in Nat \ {0} BY <3>1, <2>0, TailFacts
      <4> QED BY <4>1
    <3>7. AtOut(m, serv, ircd) BY <3>4, <3>5, <3>6
    <3> QED BY <3>1, <3>7 DEF AtOut
  <2>5. NoNeedlessUpgrade
    BY <2>0 DEF NoNeedlessUpgrade, Good, Port, Lacks, Never
  <2> QED BY <2>1, <2>3, <2>4, <2>5 DEF NothingCarriedOver
<1> QED BY <1>1, Invariant, PTL
=============================================================================
