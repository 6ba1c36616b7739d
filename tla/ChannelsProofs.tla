--------------------------- MODULE ChannelsProofs ---------------------------
(***************************************************************************)
(* Proofs about Channels for all channels, favourites and features: the    *)
(* types, that the tabs say where the client is (TabsMatch), and that the  *)
(* client is where the user wants it (OnWanted).                           *)
(*                                                                         *)
(* Both compare what the client has with the server when nothing is under  *)
(* way.  The inductive invariants say for any other moment what the lines  *)
(* under way will make of it: IInv of the view that a tab gives of its     *)
(* channel, WInv of the channels that the user wants.                      *)
(***************************************************************************)
EXTENDS Channels, FiniteSetTheorems, SequenceTheorems, WellFoundedInduction, TLAPS

(* A set of numbers has a smallest one: < is well-founded on Nat. *)
LEMMA SmallestExists == ASSUME NEW T \in SUBSET Nat, T # {} PROVE \E x \in T : \A y \in T : x <= y
<1> DEFINE R == {ss \in Nat \X Nat : ss[1] < ss[2]}
<1>1. OpToRel(<, Nat) = R
  BY Zenon DEF OpToRel
<1>2. IsWellFoundedOn(R, Nat)
  BY <1>1, NatLessThanWellFounded, Zenon
<1>3. \A a, b \in Nat : a < b => <<a, b>> \in R
  <2> SUFFICES ASSUME NEW a \in Nat, NEW b \in Nat, a < b PROVE <<a, b>> \in R
    OBVIOUS
  <2>1. <<a, b>>[1] = a /\ <<a, b>>[2] = b OBVIOUS
  <2>2. <<a, b>> \in Nat \X Nat OBVIOUS
  <2> QED BY <2>1, <2>2
<1> HIDE DEF R
<1>4. PICK x \in T : \A y \in T : ~ (<<y, x>> \in R)
  BY <1>2, WFMin, Zenon
<1>5. ASSUME NEW y \in T, ~(x <= y) PROVE FALSE
  <2>1. x \in Nat /\ y \in Nat /\ y < x BY <1>5
  <2>2. <<y, x>> \in R BY <2>1, <1>3, Zenon
  <2> QED BY <1>4, <2>2, Zenon
<1> QED BY <1>5

-----------------------------------------------------------------------------
(* What a client shows of a channel: nothing, or its members and whether   *)
(* their list is complete.                                                 *)
Seen(users, ends) == [on |-> TRUE, users |-> users, ends |-> ends]
Off == [on |-> FALSE, users |-> {}, ends |-> FALSE]
View == [on: BOOLEAN, users: SUBSET {Me, Other}, ends: BOOLEAN]

(* What a line makes of the view of channel c. *)
Updated(v, l) ==
    CASE l.cmd = "NAMES" -> Seen((IF v.ends THEN {} ELSE v.users) \cup l.names, FALSE)
      [] l.cmd = "END" -> Seen(v.users, TRUE)
      [] l.cmd = "JOIN" -> Seen(v.users \cup {Other}, v.ends)
      [] OTHER -> Seen(v.users \ {Other}, v.ends)

Effect(v, l, c) ==
    IF l.chan # c \/ l.cmd = "REFUSED" THEN v
    ELSE IF l.cmd = "UJOIN" THEN Seen({}, FALSE)
    ELSE IF ~v.on \/ l.cmd \in {"UPART", "UKICK"} THEN Off
    ELSE Updated(v, l)

(* The lines q lead from the view v to one of W. *)
Leads(q, v, c, W) ==
    \E w \in [0..Len(q) -> View] :
      /\ w[0] = v /\ w[Len(q)] \in W
      /\ \A i \in 1..Len(q) : w[i] = Effect(w[i - 1], q[i], c)

-----------------------------------------------------------------------------
(* The tabs. *)

At(ts, s, c) == {i \in 1..Len(ts) : ts[i].serv = s /\ ts[i].channel = c}

Unique(ts) ==
    \A i, j \in 1..Len(ts) :
      ts[i].channel # None /\ ts[i].channel = ts[j].channel /\ ts[i].serv = ts[j].serv => i = j

OnlyIn(ts, st) == \A i \in 1..Len(ts) : ts[i].channel # None => st[ts[i].serv] = "in"

Shows(ts, s, c, v) ==
    /\ At(ts, s, c) = {} => v = Off
    /\ \A i \in At(ts, s, c) : v = Seen(ts[i].users, ts[i].end_of_names)

-----------------------------------------------------------------------------
(* The inductive invariant. *)

(* A PART of c is among the lines o to the server. *)
Parting(o, c) == \E i \in 1..Len(o) : o[i] = ToLine("PART", c)

(* The views that fit the members m of c: a tab that was closed is behind  *)
(* until the server has read the PART.                                     *)
Fitting(m, o, c) ==
    {v \in View : IF Me \in m THEN v = Seen(m, TRUE) \/ (v = Off /\ Parting(o, c)) ELSE v = Off}

Follows(ts, q, o, m, s, c) ==
    \E v \in View : Shows(ts, s, c, v) /\ Leads(q, v, c, Fitting(m, o, c))

Agrees(ts, st, q, o, m, s, c) ==
    /\ st = "in" => Follows(ts, q, o, m, s, c)
    /\ st # "in" => Me \notin m

IInv ==
    /\ TypeOK
    /\ Unique(tabs)
    /\ OnlyIn(tabs, stat)
    /\ \A s \in Serv, c \in Chan : Agrees(tabs, stat[s], inq[s], out[s], ircd[s][c], s, c)

-----------------------------------------------------------------------------
(* Lemmas about views. *)

LEMMA Views ==
  /\ Off \in View /\ ~Off.on
  /\ \A u \in SUBSET {Me, Other}, e \in BOOLEAN :
       /\ Seen(u, e) \in View /\ Seen(u, e) # Off
       /\ Seen(u, e).on /\ Seen(u, e).users = u /\ (Seen(u, e).ends <=> e)
<1>1. Off \in View /\ ~Off.on
  <2> DEFINE f == FALSE
  <2>1. f \in BOOLEAN /\ ~f OBVIOUS
  <2>2. Off = [on |-> f, users |-> {}, ends |-> f] BY DEF Off
  <2> HIDE DEF f
  <2> QED BY <2>1, <2>2 DEF View
<1>2. ASSUME NEW u \in SUBSET {Me, Other}, NEW e \in BOOLEAN
      PROVE  /\ Seen(u, e) \in View
             /\ Seen(u, e).on /\ Seen(u, e).users = u /\ (Seen(u, e).ends <=> e)
  <2> DEFINE t == TRUE
  <2>1. t \in BOOLEAN /\ t OBVIOUS
  <2>2. Seen(u, e) = [on |-> t, users |-> u, ends |-> e] BY DEF Seen
  <2> HIDE DEF t
  <2>3. [on |-> t, users |-> u, ends |-> e] \in View BY <2>1 DEF View
  <2>4. Seen(u, e).on = t /\ Seen(u, e).users = u /\ Seen(u, e).ends = e BY <2>2
  <2> QED BY <2>1, <2>2, <2>3, <2>4
<1> QED BY <1>1, <1>2

LEMMA AnswerTyped ==
  ASSUME NEW l \in Answer
  PROVE  /\ l.chan \in Chan /\ l.names \in SUBSET {Me, Other}
         /\ l.cmd \in {"UJOIN", "UPART", "UKICK", "NAMES", "END", "REFUSED", "JOIN", "PART"}
BY DEF Answer

LEMMA ViewTyped ==
  ASSUME NEW v \in View
  PROVE  v.on \in BOOLEAN /\ v.users \in SUBSET {Me, Other} /\ v.ends \in BOOLEAN
BY DEF View

LEMMA UpdatedFacts ==
  ASSUME NEW v \in View, NEW l \in Answer
  PROVE  /\ Updated(v, l) \in View
         /\ l.cmd = "NAMES" =>
              Updated(v, l) = Seen((IF v.ends THEN {} ELSE v.users) \cup l.names, FALSE)
         /\ l.cmd = "END" => Updated(v, l) = Seen(v.users, TRUE)
         /\ l.cmd = "JOIN" => Updated(v, l) = Seen(v.users \cup {Other}, v.ends)
         /\ l.cmd \notin {"NAMES", "END", "JOIN"} => Updated(v, l) = Seen(v.users \ {Other}, v.ends)
<1> DEFINE no == FALSE  yes == TRUE
           listed == (IF v.ends THEN {} ELSE v.users) \cup l.names
           more == v.users \cup {Other}
           less == v.users \ {Other}
<1>1. /\ l.cmd = "NAMES" => Updated(v, l) = Seen(listed, no)
      /\ l.cmd = "END" => Updated(v, l) = Seen(v.users, yes)
      /\ l.cmd = "JOIN" => Updated(v, l) = Seen(more, v.ends)
      /\ l.cmd \notin {"NAMES", "END", "JOIN"} => Updated(v, l) = Seen(less, v.ends)
  BY Zenon DEF Updated
<1>2. v.users \in SUBSET {Me, Other} /\ v.ends \in BOOLEAN /\ l.names \in SUBSET {Me, Other}
  BY ViewTyped, AnswerTyped
<1>3. /\ listed \in SUBSET {Me, Other} /\ more \in SUBSET {Me, Other}
      /\ less \in SUBSET {Me, Other} /\ no \in BOOLEAN /\ yes \in BOOLEAN
  BY <1>2
<1>4. Updated(v, l) \in View
  <2> HIDE DEF no, yes, listed, more, less
  <2> QED BY <1>1, <1>2, <1>3, Views
<1> QED BY <1>1, <1>4, Zenon

LEMMA EffectFacts ==
  ASSUME NEW v \in View, NEW l \in Answer, NEW c
  PROVE  /\ Effect(v, l, c) \in View
         /\ l.chan # c \/ l.cmd = "REFUSED" => Effect(v, l, c) = v
         /\ l.chan = c /\ l.cmd = "UJOIN" => Effect(v, l, c) = Seen({}, FALSE)
         /\ l.chan = c /\ l.cmd \in {"UPART", "UKICK"} => Effect(v, l, c) = Off
         /\ l.cmd # "UJOIN" => Effect(Off, l, c) = Off
         /\ l.chan = c /\ v.on /\ l.cmd \in {"NAMES", "END", "JOIN", "PART"} =>
              Effect(v, l, c) = Updated(v, l)
<1> DEFINE no == FALSE  joined == Seen({}, no)
<1>1. joined \in View
  <2>1. no \in BOOLEAN OBVIOUS
  <2> HIDE DEF no
  <2> QED BY <2>1, Views
<1>2. Off \in View /\ ~Off.on /\ Updated(v, l) \in View BY Views, UpdatedFacts
<1>3. \A x \in View : /\ l.chan # c \/ l.cmd = "REFUSED" => Effect(x, l, c) = x
                      /\ l.chan = c /\ l.cmd = "UJOIN" => Effect(x, l, c) = joined
                      /\ l.chan = c /\ l.cmd \in {"UPART", "UKICK"} => Effect(x, l, c) = Off
                      /\ l.chan = c /\ l.cmd \notin {"UJOIN", "REFUSED"} /\ ~x.on => Effect(x, l, c) = Off
                      /\ l.chan = c /\ x.on /\ l.cmd \notin {"UJOIN", "REFUSED", "UPART", "UKICK"} =>
                           Effect(x, l, c) = Updated(x, l)
  BY DEF Effect
<1> HIDE DEF joined
<1>4. Effect(v, l, c) \in View BY <1>1, <1>2, <1>3
<1>5. l.cmd # "UJOIN" => Effect(Off, l, c) = Off BY <1>2, <1>3
<1>6. /\ l.chan # c \/ l.cmd = "REFUSED" => Effect(v, l, c) = v
      /\ l.chan = c /\ l.cmd = "UJOIN" => Effect(v, l, c) = joined
      /\ l.chan = c /\ l.cmd \in {"UPART", "UKICK"} => Effect(v, l, c) = Off
      /\ l.chan = c /\ v.on /\ l.cmd \in {"NAMES", "END", "JOIN", "PART"} =>
              Effect(v, l, c) = Updated(v, l)
  BY <1>3
<1> QED BY <1>4, <1>5, <1>6, Zenon DEF joined

LEMMA OffStays == ASSUME NEW l, NEW c, l.cmd # "UJOIN" PROVE Effect(Off, l, c) = Off
<1>1. ~Off.on BY Views
<1> DEFINE off == Off
<1> HIDE DEF off
<1>2. ~off.on BY <1>1 DEF off
<1>3. Effect(off, l, c) = IF l.chan # c \/ l.cmd = "REFUSED" THEN off ELSE Off
  BY <1>2, Zenon DEF Effect
<1>4. off = Off BY DEF off
<1> QED BY <1>3, <1>4, Zenon

-----------------------------------------------------------------------------
(* Lemmas about what lines lead to: none, a first one that is read, a last *)
(* one that is written, and a tab that is closed before them.              *)

LEMMA LeadsNowhere ==
  ASSUME NEW v \in View, NEW c, NEW W
  PROVE  Leads(<<>>, v, c, W) <=> v \in W
<1>1. Len(<<>>) = 0 OBVIOUS
<1>2. ASSUME Leads(<<>>, v, c, W) PROVE v \in W BY <1>1, <1>2 DEF Leads
<1>3. ASSUME v \in W PROVE Leads(<<>>, v, c, W)
  <2> DEFINE w == [i \in 0..0 |-> v]
  <2>1. w \in [0..0 -> View] /\ w[0] = v OBVIOUS
  <2> HIDE DEF w
  <2>2. \A i \in 1..0 : w[i] = Effect(w[i - 1], <<>>[i], c) OBVIOUS
  <2> QED BY <1>1, <1>3, <2>1, <2>2 DEF Leads
<1> QED BY <1>2, <1>3

LEMMA LeadsWider ==
  ASSUME NEW q, NEW v, NEW c, NEW W, NEW V, W \subseteq V, Leads(q, v, c, W)
  PROVE  Leads(q, v, c, V)
BY DEF Leads

LEMMA LeadsRead ==
  ASSUME NEW q \in Seq(Answer), q # <<>>, NEW v, NEW c, NEW W, Leads(q, v, c, W)
  PROVE  Leads(Tail(q), Effect(v, Head(q), c), c, W)
<1> DEFINE n == Len(q)  p == Tail(q)  k == Len(p)
<1>1. /\ n \in Nat \ {0} /\ k = n - 1 /\ Head(q) = q[1] /\ \A i \in 1..k : p[i] = q[i + 1]
  BY EmptySeq, HeadTailProperties
<1> HIDE DEF n, p, k
<1>2. PICK w \in [0..n -> View] : /\ w[0] = v /\ w[n] \in W
                                  /\ \A i \in 1..n : w[i] = Effect(w[i - 1], q[i], c)
  BY DEF Leads, n
<1> DEFINE x == [i \in 0..k |-> w[i + 1]]
<1>3. \A i \in 0..k : i + 1 \in 0..n BY <1>1
<1>4. x \in [0..k -> View] BY <1>3
<1>5. x[0] = w[1] /\ w[1] = Effect(v, Head(q), c)
  <2>1. 0 \in 0..k /\ 0 + 1 = 1 /\ 1 \in 1..n /\ 1 - 1 = 0 BY <1>1
  <2> QED BY <1>1, <1>2, <2>1
<1>6. x[k] \in W
  <2>1. k \in 0..k /\ k + 1 = n BY <1>1
  <2> QED BY <1>2, <2>1
<1>7. ASSUME NEW i \in 1..k PROVE x[i] = Effect(x[i - 1], p[i], c)
  <2>1. /\ i \in 0..k /\ i - 1 \in 0..k /\ i + 1 \in 1..n
        /\ (i + 1) - 1 = i /\ (i - 1) + 1 = i
    BY <1>1
  <2>2. w[i + 1] = Effect(w[i], q[i + 1], c) BY <1>2, <2>1
  <2> QED BY <1>1, <2>1, <2>2
<1> HIDE DEF x
<1> QED BY <1>4, <1>5, <1>6, <1>7 DEF Leads, p, k

LEMMA LeadsOn ==
  ASSUME NEW q \in Seq(Answer), NEW a \in Answer, NEW v, NEW c, NEW W, NEW V,
         Leads(q, v, c, W), \A x \in W \cap View : Effect(x, a, c) \in V
  PROVE  Leads(Append(q, a), v, c, V)
<1> DEFINE n == Len(q)  p == Append(q, a)  k == Len(p)
<1>1. /\ n \in Nat /\ k = n + 1 /\ p[k] = a /\ \A i \in 1..n : p[i] = q[i]
  BY AppendProperties
<1> HIDE DEF n, p, k
<1>2. PICK w \in [0..n -> View] : /\ w[0] = v /\ w[n] \in W
                                  /\ \A i \in 1..n : w[i] = Effect(w[i - 1], q[i], c)
  BY DEF Leads, n
<1> DEFINE last == Effect(w[n], a, c)
           x == [i \in 0..k |-> IF i = k THEN last ELSE w[i]]
<1>3. w[n] \in View /\ last \in View /\ last \in V
  <2>1. n \in 0..n BY <1>1
  <2>2. w[n] \in View BY <1>2, <2>1
  <2> QED BY <1>2, <2>2, EffectFacts
<1> HIDE DEF last
<1>4. \A i \in 0..k : i = k \/ (i \in 0..n /\ i # k) BY <1>1
<1>5. x \in [0..k -> View]
  <2>1. \A i \in 0..k : (IF i = k THEN last ELSE w[i]) \in View BY <1>2, <1>3, <1>4
  <2> QED BY <2>1
<1>6. x[0] = v /\ x[k] \in V
  <2>1. 0 \in 0..k /\ 0 # k /\ k \in 0..k BY <1>1
  <2> QED BY <1>2, <1>3, <2>1
<1>7. ASSUME NEW i \in 1..k PROVE x[i] = Effect(x[i - 1], p[i], c)
  <2>1. i \in 0..k /\ i - 1 \in 0..k /\ i - 1 # k BY <1>1
  <2>2. x[i - 1] = w[i - 1] BY <2>1
  <2>3. CASE i = k
    <3>1. i - 1 = n BY <1>1, <2>3
    <3>2. x[i] = last BY <2>1, <2>3
    <3> QED BY <1>1, <2>2, <2>3, <3>1, <3>2 DEF last
  <2>4. CASE i # k
    <3>1. i \in 1..n BY <1>1, <2>4
    <3>2. x[i] = w[i] BY <2>1, <2>4
    <3> HIDE DEF x
    <3> QED BY <1>1, <1>2, <2>2, <3>1, <3>2
  <2> QED BY <2>3, <2>4
<1> HIDE DEF x
<1> QED BY <1>5, <1>6, <1>7 DEF Leads, p, k

(* A view that is off is led to the same as any other by the next answer   *)
(* to a JOIN, and stays off without one.                                   *)
LEMMA LeadsFromOff ==
  ASSUME NEW q \in Seq(Answer), NEW v, NEW c, NEW W, Leads(q, v, c, W), Off \in W
  PROVE  Leads(q, Off, c, W)
<1> DEFINE n == Len(q)
           Joins(j) == q[j].cmd = "UJOIN" /\ q[j].chan = c
<1>1. n \in Nat /\ \A i \in 1..n : q[i] \in Answer BY LenProperties
<1> HIDE DEF n
<1>2. PICK w \in [0..n -> View] : /\ w[0] = v /\ w[n] \in W
                                  /\ \A i \in 1..n : w[i] = Effect(w[i - 1], q[i], c)
  BY DEF Leads, n
<1> DEFINE Back(i) == \E j \in 1..i : Joins(j)
           x == [i \in 0..n |-> IF Back(i) THEN w[i] ELSE Off]
<1>3. Off \in View BY Views
<1>4. x \in [0..n -> View] BY <1>2, <1>3
<1>5. x[0] = Off /\ x[n] \in W
  <2>1. 0 \in 0..n /\ n \in 0..n /\ ~Back(0) BY <1>1
  <2> QED BY <1>2, <2>1
<1>6. ASSUME NEW i \in 1..n PROVE x[i] = Effect(x[i - 1], q[i], c)
  <2>1. i \in 0..n /\ i - 1 \in 0..n BY <1>1
  <2>2. /\ x[i] = IF Back(i) THEN w[i] ELSE Off
        /\ x[i - 1] = IF Back(i - 1) THEN w[i - 1] ELSE Off
    BY <2>1
  <2>3. Back(i) <=> Back(i - 1) \/ Joins(i)
    <3>1. \A j : j \in 1..i <=> j \in 1..(i - 1) \/ j = i BY <1>1
    <3> HIDE DEF Joins
    <3> QED BY <3>1
  <2>4. w[i] = Effect(w[i - 1], q[i], c) /\ w[i - 1] \in View /\ q[i] \in Answer
    BY <1>1, <1>2, <2>1
  <2> HIDE DEF x, Back
  <2>5. CASE Joins(i)
    <3>1. w[i] = Seen({}, FALSE) BY <2>4, <2>5, EffectFacts, ZenonT(60)
    <3>2. x[i - 1] \in View BY <1>3, <2>2, <2>4
    <3>3. Effect(x[i - 1], q[i], c) = Seen({}, FALSE) BY <2>4, <2>5, <3>2, EffectFacts, ZenonT(60)
    <3> HIDE DEF Joins
    <3> QED BY <2>2, <2>3, <2>5, <3>1, <3>3
  <2>6. CASE ~Joins(i)
    <3>1. Effect(Off, q[i], c) = Off BY <1>3, <2>4, <2>6, EffectFacts, ZenonT(60)
    <3> HIDE DEF Joins
    <3> QED BY <2>2, <2>3, <2>4, <2>6, <3>1
  <2> QED BY <2>5, <2>6
<1> HIDE DEF x
<1> QED BY <1>4, <1>5, <1>6 DEF Leads, n

-----------------------------------------------------------------------------
(* Lemmas about the list of tabs. *)

LEMMA TabTyped ==
  ASSUME NEW t \in Tab
  PROVE  /\ t.serv \in Serv /\ t.channel \in Chan \cup {None} /\ t.wait \in Chan \cup {None}
         /\ t.will \in Chan \cup {None} /\ t.users \in SUBSET {Me, Other}
         /\ t.end_of_names \in BOOLEAN
BY DEF Tab

LEMMA ChanIsNotNone == ASSUME NEW c \in Chan PROVE c # None
BY ChannelsAssumption DEF None

(* A tab gives the same view, and is as unique, whatever it waits for. *)
Alike(ts, us) ==
    /\ Len(us) = Len(ts)
    /\ \A i \in 1..Len(ts) : /\ us[i].serv = ts[i].serv /\ us[i].channel = ts[i].channel
                             /\ us[i].users = ts[i].users
                             /\ us[i].end_of_names = ts[i].end_of_names

LEMMA AlikeFacts ==
  ASSUME NEW ts, NEW us, Alike(ts, us)
  PROVE  /\ Unique(ts) => Unique(us)
         /\ \A st : OnlyIn(ts, st) => OnlyIn(us, st)
         /\ \A s, c, v : Shows(ts, s, c, v) => Shows(us, s, c, v)
<1>1. Unique(ts) => Unique(us) BY DEF Alike, Unique
<1>2. \A st : OnlyIn(ts, st) => OnlyIn(us, st) BY DEF Alike, OnlyIn
<1>3. ASSUME NEW s, NEW c, NEW v, Shows(ts, s, c, v) PROVE Shows(us, s, c, v)
  <2>1. At(us, s, c) = At(ts, s, c) BY DEF Alike, At
  <2>2. \A i \in At(ts, s, c) : i \in 1..Len(ts) BY DEF At
  <2> QED BY <1>3, <2>1, <2>2 DEF Alike, Shows
<1> QED BY <1>1, <1>2, <1>3

(* Shown in one view only. *)
LEMMA ShowsAt ==
  ASSUME NEW ts, NEW s, NEW c, NEW v, NEW i \in At(ts, s, c), Shows(ts, s, c, v)
  PROVE  v = Seen(ts[i].users, ts[i].end_of_names)
BY DEF Shows

(* us is ts with j in the place of the tab k. *)
LEMMA PutFacts ==
  ASSUME NEW ts \in Seq(Tab), NEW k \in 1..Len(ts), NEW j \in Tab, j.serv = ts[k].serv,
         Unique(ts),
         j.channel \in {None, ts[k].channel} \/ At(ts, j.serv, j.channel) = {},
         NEW us, us = [ts EXCEPT ![k] = j]
  PROVE  /\ us \in Seq(Tab) /\ Len(us) = Len(ts)
         /\ Unique(us)
         /\ \A st : OnlyIn(ts, st) /\ (j.channel # None => st[j.serv] = "in") => OnlyIn(us, st)
         /\ \A s, v : \A c \in Chan :
              Shows(ts, s, c, v) /\ (s # j.serv \/ c \notin {j.channel, ts[k].channel})
                => Shows(us, s, c, v)
         /\ j.channel # None =>
              Shows(us, j.serv, j.channel, Seen(j.users, j.end_of_names))
         /\ ts[k].channel # None /\ j.channel # ts[k].channel =>
              Shows(us, j.serv, ts[k].channel, Off)
<1>1. us \in Seq(Tab) /\ Len(us) = Len(ts) BY ExceptSeq
<1>2. \A i \in 1..Len(us) : i \in 1..Len(ts) /\ us[i] = IF i = k THEN j ELSE ts[i]
  BY ExceptSeq
<1>3. k \in 1..Len(us) /\ us[k] = j BY <1>1, <1>2
<1>4. j.channel # None => \A i \in 1..Len(ts) :
        i # k => ~(ts[i].serv = j.serv /\ ts[i].channel = j.channel)
  BY DEF Unique, At
<1>5. Unique(us) BY <1>1, <1>2, <1>4 DEF Unique
<1>6. \A st : OnlyIn(ts, st) /\ (j.channel # None => st[j.serv] = "in") => OnlyIn(us, st)
  BY <1>1, <1>2 DEF OnlyIn
<1>7. ASSUME NEW s, NEW v, NEW c \in Chan, Shows(ts, s, c, v),
             s # j.serv \/ c \notin {j.channel, ts[k].channel}
      PROVE  Shows(us, s, c, v)
  <2>1. At(us, s, c) = At(ts, s, c) BY <1>1, <1>2, <1>7 DEF At
  <2>2. \A i \in At(ts, s, c) : us[i] = ts[i]
    <3>1. k \notin At(ts, s, c) BY <1>7 DEF At
    <3>2. \A i \in At(ts, s, c) : i \in 1..Len(us) BY <1>1 DEF At
    <3> QED BY <1>2, <3>1, <3>2
  <2> QED BY <1>7, <2>1, <2>2 DEF Shows
<1>8. ASSUME j.channel # None
      PROVE  Shows(us, j.serv, j.channel, Seen(j.users, j.end_of_names))
  <2>1. At(us, j.serv, j.channel) = {k} BY <1>1, <1>2, <1>3, <1>4, <1>8 DEF At
  <2> QED BY <1>3, <2>1 DEF Shows
<1>9. ASSUME ts[k].channel # None, j.channel # ts[k].channel
      PROVE  Shows(us, j.serv, ts[k].channel, Off)
  <2>1. At(us, j.serv, ts[k].channel) = {} BY <1>1, <1>2, <1>9 DEF At, Unique
  <2> QED BY <2>1 DEF Shows
<1> QED BY <1>1, <1>5, <1>6, <1>7, <1>8, <1>9

(* us is ts with the tab j in front. *)
LEMMA PrependFacts ==
  ASSUME NEW ts \in Seq(Tab), NEW j \in Tab, Unique(ts),
         j.channel = None \/ At(ts, j.serv, j.channel) = {},
         NEW us, us = <<j>> \o ts
  PROVE  /\ us \in Seq(Tab)
         /\ Unique(us)
         /\ \A st : OnlyIn(ts, st) /\ (j.channel # None => st[j.serv] = "in") => OnlyIn(us, st)
         /\ \A s, v : \A c \in Chan :
              Shows(ts, s, c, v) /\ (s # j.serv \/ c # j.channel) => Shows(us, s, c, v)
         /\ j.channel # None =>
              Shows(us, j.serv, j.channel, Seen(j.users, j.end_of_names))
<1> DEFINE n == Len(ts)
<1>1. n \in Nat /\ us \in Seq(Tab) /\ Len(us) = n + 1
  <2>1. <<j>> \in Seq(Tab) /\ Len(<<j>>) = 1 OBVIOUS
  <2> QED BY <2>1, ConcatProperties, LenProperties
<1>2. us[1] = j /\ \A i \in 1..n : us[i + 1] = ts[i]
  <2>1. <<j>> \in Seq(Tab) /\ Len(<<j>>) = 1 /\ <<j>>[1] = j OBVIOUS
  <2>2. \A i \in 1..(1 + n) : us[i] = IF i <= 1 THEN <<j>>[i] ELSE ts[i - 1]
    BY <2>1, ConcatProperties
  <2> HIDE DEF n
  <2>3. us[1] = j
    <3>1. 1 \in 1..(1 + n) /\ 1 <= 1 BY <1>1
    <3> QED BY <2>1, <2>2, <3>1, Zenon
  <2>4. ASSUME NEW i \in 1..n PROVE us[i + 1] = ts[i]
    <3> DEFINE m == i + 1
    <3>1. m \in 1..(1 + n) /\ ~(m <= 1) /\ m - 1 = i BY <1>1
    <3> HIDE DEF m
    <3>2. us[m] = ts[i] BY <2>2, <3>1, Zenon
    <3> QED BY <3>2 DEF m
  <2> QED BY <2>3, <2>4
<1>3. \A i \in 1..Len(us) : i = 1 \/ (i - 1 \in 1..n /\ us[i] = ts[i - 1])
  <2> HIDE DEF n
  <2>1. \A i \in 1..(n + 1) : i = 1 \/ (i - 1 \in 1..n /\ (i - 1) + 1 = i) BY <1>1
  <2> QED BY <1>1, <1>2, <2>1
<1>4. \A i \in 1..n : i + 1 \in 1..Len(us) /\ i + 1 # 1 /\ us[i + 1] = ts[i]
  <2> HIDE DEF n
  <2> QED BY <1>1, <1>2
<1>5. 1 \in 1..Len(us)
  <2> HIDE DEF n
  <2> QED BY <1>1
<1>6. j.channel # None => \A i \in 1..n : ~(ts[i].serv = j.serv /\ ts[i].channel = j.channel)
  BY DEF At
<1>7. Unique(us)
  <2> SUFFICES ASSUME NEW a \in 1..Len(us), NEW b \in 1..Len(us), us[a].channel # None,
                      us[a].channel = us[b].channel, us[a].serv = us[b].serv
               PROVE  a = b
    BY DEF Unique
  <2>1. CASE a = 1 \/ b = 1 BY <1>2, <1>3, <1>6, <2>1, ZenonT(60)
  <2>2. CASE a # 1 /\ b # 1
    <3>1. a - 1 \in 1..n /\ b - 1 \in 1..n /\ us[a] = ts[a - 1] /\ us[b] = ts[b - 1]
      BY <1>3, <2>2
    <3>2. a - 1 = b - 1 BY <3>1 DEF Unique
    <3>3. a \in Int /\ b \in Int
      <4>1. a \in 1..(n + 1) /\ b \in 1..(n + 1) BY <1>1
      <4> HIDE DEF n
      <4> QED BY <1>1, <4>1
    <3> QED BY <3>2, <3>3
  <2> QED BY <2>1, <2>2
<1>8. ASSUME NEW st, OnlyIn(ts, st), j.channel # None => st[j.serv] = "in" PROVE OnlyIn(us, st)
  BY <1>2, <1>3, <1>8, ZenonT(60) DEF OnlyIn
<1>9. ASSUME NEW s, NEW v, NEW c \in Chan, Shows(ts, s, c, v), s # j.serv \/ c # j.channel
      PROVE  Shows(us, s, c, v)
  <2>1. ASSUME NEW i \in At(us, s, c) PROVE i - 1 \in At(ts, s, c) /\ us[i] = ts[i - 1]
    <3>1. i \in 1..Len(us) /\ us[i].serv = s /\ us[i].channel = c BY DEF At
    <3>2. i # 1 BY <1>2, <1>9, <3>1
    <3>3. i - 1 \in 1..n /\ us[i] = ts[i - 1] BY <1>3, <3>1, <3>2
    <3> QED BY <3>1, <3>3 DEF At
  <2>2. ASSUME NEW i \in At(ts, s, c) PROVE i + 1 \in At(us, s, c)
    <3>1. i \in 1..n /\ ts[i].serv = s /\ ts[i].channel = c BY DEF At
    <3> QED BY <1>4, <3>1 DEF At
  <2>3. At(us, s, c) = {} => v = Off BY <1>9, <2>2 DEF Shows
  <2>4. ASSUME NEW i \in At(us, s, c) PROVE v = Seen(us[i].users, us[i].end_of_names)
    <3> DEFINE k == i - 1
    <3>1. k \in At(ts, s, c) /\ us[i] = ts[k] BY <2>1
    <3> HIDE DEF k
    <3>2. v = Seen(ts[k].users, ts[k].end_of_names) BY <1>9, <3>1, ShowsAt
    <3> QED BY <3>1, <3>2
  <2> QED BY <2>3, <2>4 DEF Shows
<1>10. ASSUME j.channel # None
       PROVE  Shows(us, j.serv, j.channel, Seen(j.users, j.end_of_names))
  <2>1. 1 \in At(us, j.serv, j.channel) BY <1>2, <1>5 DEF At
  <2>2. ASSUME NEW i \in At(us, j.serv, j.channel) PROVE i = 1
    <3>1. i \in 1..Len(us) /\ us[i].serv = j.serv /\ us[i].channel = j.channel BY DEF At
    <3> QED BY <1>3, <1>6, <1>10, <3>1
  <2> QED BY <1>2, <2>1, <2>2 DEF Shows
<1> QED BY <1>1, <1>7, <1>8, <1>9, <1>10

(* us is ts without the tab k: back[i] is where the tab i of us was.       *)
Places(back, ts, us, k) ==
    /\ \A i \in 1..(Len(ts) - 1) : us[i] = ts[back[i]] /\ back[i] # k
    /\ \A i, j \in 1..(Len(ts) - 1) : back[i] = back[j] => i = j
    /\ \A i \in 1..Len(ts) : i # k => \E j \in 1..(Len(ts) - 1) : back[j] = i

LEMMA RemovedTabs ==
  ASSUME NEW ts \in Seq(Tab), NEW k \in 1..Len(ts), NEW us, us = RemoveAt(ts, k)
  PROVE  /\ us \in Seq(Tab) /\ Len(us) = Len(ts) - 1
         /\ \E back \in [1..(Len(ts) - 1) -> 1..Len(ts)] : Places(back, ts, us, k)
<1> DEFINE n == Len(ts)  front == SubSeq(ts, 1, k - 1)  rest == SubSeq(ts, k + 1, n)
           back(i) == IF i < k THEN i ELSE i + 1
<1>1. n \in Nat /\ k \in 1..n /\ \A i \in 1..n : ts[i] \in Tab BY LenProperties
<1>2. /\ front \in Seq(Tab) /\ Len(front) = k - 1
      /\ \A i \in 1..(k - 1) : front[i] = ts[i]
  <2> HIDE DEF n
  <2>1. \A i \in 1..(k - 1) : ts[i] \in Tab BY <1>1
  <2>2. 1 \in Int /\ k - 1 \in Int /\ (1 <= k - 1 \/ k - 1 = 0) BY <1>1
  <2>3. /\ front \in Seq(Tab) /\ Len(front) = IF 1 <= k - 1 THEN (k - 1) - 1 + 1 ELSE 0
        /\ \A i \in 1..((k - 1) - 1 + 1) : front[i] = ts[1 + i - 1]
    BY <2>1, <2>2, SubSeqProperties
  <2> HIDE DEF front
  <2>4. (k - 1) - 1 + 1 = k - 1 /\ \A i \in 1..(k - 1) : 1 + i - 1 = i BY <1>1
  <2> QED BY <2>2, <2>3, <2>4
<1>3. /\ rest \in Seq(Tab) /\ Len(rest) = n - k
      /\ \A i \in 1..(n - k) : rest[i] = ts[k + i]
  <2> HIDE DEF n
  <2>1. \A i \in (k + 1)..n : ts[i] \in Tab BY <1>1
  <2>2. k + 1 \in Int /\ n \in Int /\ (k + 1 <= n \/ n - k = 0) BY <1>1
  <2>3. /\ rest \in Seq(Tab) /\ Len(rest) = IF k + 1 <= n THEN n - (k + 1) + 1 ELSE 0
        /\ \A i \in 1..(n - (k + 1) + 1) : rest[i] = ts[k + 1 + i - 1]
    BY <2>1, <2>2, SubSeqProperties
  <2> HIDE DEF rest
  <2>4. n - (k + 1) + 1 = n - k /\ \A i \in 1..(n - k) : k + 1 + i - 1 = k + i BY <1>1
  <2> QED BY <2>2, <2>3, <2>4
<1>4. us = front \o rest BY DEF RemoveAt
<1> HIDE DEF n, front, rest
<1>5. /\ us \in Seq(Tab) /\ Len(us) = (k - 1) + (n - k)
      /\ \A i \in 1..((k - 1) + (n - k)) : us[i] = IF i <= k - 1 THEN front[i] ELSE rest[i - (k - 1)]
  BY <1>2, <1>3, <1>4, ConcatProperties
<1>6. us \in Seq(Tab) /\ Len(us) = n - 1
  <2>1. (k - 1) + (n - k) = n - 1 BY <1>1
  <2> QED BY <1>5, <2>1
<1>7. ASSUME NEW i \in 1..(n - 1)
      PROVE  us[i] = ts[back(i)] /\ back(i) \in 1..n /\ back(i) # k
  <2>1. i \in 1..((k - 1) + (n - k)) BY <1>1
  <2>2. CASE i < k
    <3>1. i <= k - 1 /\ i \in 1..(k - 1) /\ i \in 1..n BY <1>1, <2>2
    <3> QED BY <1>2, <1>5, <2>1, <2>2, <3>1
  <2>3. CASE ~(i < k)
    <3>1. /\ ~(i <= k - 1) /\ i - (k - 1) \in 1..(n - k) /\ k + (i - (k - 1)) = i + 1
          /\ i + 1 \in 1..n /\ i + 1 # k
      BY <1>1, <2>3
    <3> QED BY <1>3, <1>5, <2>1, <2>3, <3>1
  <2> QED BY <2>2, <2>3
<1>8. \A i, j \in 1..(n - 1) : back(i) = back(j) => i = j BY <1>1
<1>9. \A i \in 1..n : i # k => \E j \in 1..(n - 1) : back(j) = i
  <2> SUFFICES ASSUME NEW i \in 1..n, i # k PROVE \E j \in 1..(n - 1) : back(j) = i OBVIOUS
  <2>1. CASE i < k
    <3>1. i \in 1..(n - 1) BY <1>1, <2>1
    <3> QED BY <2>1, <3>1
  <2>2. CASE ~(i < k)
    <3>1. i - 1 \in 1..(n - 1) /\ ~(i - 1 < k) /\ (i - 1) + 1 = i BY <1>1, <2>2
    <3> QED BY <3>1
  <2> QED BY <2>1, <2>2
<1> DEFINE place == [i \in 1..(n - 1) |-> back(i)]
<1> HIDE DEF back
<1>10. place \in [1..(n - 1) -> 1..n] /\ \A i \in 1..(n - 1) : place[i] = back(i) BY <1>7
<1> HIDE DEF place
<1>11. Places(place, ts, us, k)
  <2>1. \A i \in 1..(n - 1) : us[i] = ts[place[i]] /\ place[i] # k BY <1>7, <1>10
  <2>2. \A i, j \in 1..(n - 1) : place[i] = place[j] => i = j BY <1>8, <1>10
  <2>3. \A i \in 1..n : i # k => \E j \in 1..(n - 1) : place[j] = i BY <1>9, <1>10
  <2> QED BY <2>1, <2>2, <2>3 DEF Places, n
<1> QED BY <1>6, <1>10, <1>11 DEF n

LEMMA RemoveFacts ==
  ASSUME NEW ts \in Seq(Tab), NEW k \in 1..Len(ts), Unique(ts),
         NEW us, us = RemoveAt(ts, k)
  PROVE  /\ us \in Seq(Tab)
         /\ Unique(us)
         /\ \A st : OnlyIn(ts, st) => OnlyIn(us, st)
         /\ \A s, v : \A c \in Chan :
              Shows(ts, s, c, v) /\ (s # ts[k].serv \/ c # ts[k].channel) => Shows(us, s, c, v)
         /\ ts[k].channel # None => Shows(us, ts[k].serv, ts[k].channel, Off)
<1> DEFINE n == Len(ts)
<1>1. n \in Nat BY LenProperties
<1>2. PICK back \in [1..(n - 1) -> 1..n] : Places(back, ts, us, k) BY RemovedTabs
<1>6. us \in Seq(Tab) /\ Len(us) = n - 1 BY RemovedTabs
<1>7. \A i \in 1..(n - 1) : us[i] = ts[back[i]] /\ back[i] \in 1..n /\ back[i] # k
  BY <1>2 DEF Places
<1>8. \A i, j \in 1..(n - 1) : back[i] = back[j] => i = j BY <1>2 DEF Places
<1>9. \A i \in 1..n : i # k => \E j \in 1..(n - 1) : back[j] = i BY <1>2 DEF Places
<1> HIDE DEF n
<1>10. Unique(us)
  <2> SUFFICES ASSUME NEW i \in 1..(n - 1), NEW j \in 1..(n - 1), us[i].channel # None,
                      us[i].channel = us[j].channel, us[i].serv = us[j].serv
               PROVE  i = j
    BY <1>6 DEF Unique
  <2>1. /\ us[i] = ts[back[i]] /\ back[i] \in 1..Len(ts)
        /\ us[j] = ts[back[j]] /\ back[j] \in 1..Len(ts)
    BY <1>7 DEF n
  <2>2. back[i] = back[j] BY <2>1 DEF Unique
  <2> QED BY <1>8, <2>2
<1>11. \A st : OnlyIn(ts, st) => OnlyIn(us, st) BY <1>6, <1>7, SMTT(30) DEF OnlyIn, n
<1>12. ASSUME NEW s, NEW v, NEW c \in Chan, Shows(ts, s, c, v),
              s # ts[k].serv \/ c # ts[k].channel
       PROVE  Shows(us, s, c, v)
  <2>1. ASSUME NEW i \in At(us, s, c) PROVE back[i] \in At(ts, s, c) /\ us[i] = ts[back[i]]
    BY <1>6, <1>7 DEF At, n
  <2>2. ASSUME NEW i \in At(ts, s, c) PROVE \E j : j \in At(us, s, c)
    <3>1. i \in 1..n /\ i # k BY <1>12 DEF At, n
    <3>2. PICK j \in 1..(n - 1) : back[j] = i BY <1>9, <3>1
    <3>3. j \in At(us, s, c) BY <1>6, <1>7, <3>2 DEF At
    <3> QED BY <3>3
  <2>3. At(us, s, c) = {} => v = Off BY <1>12, <2>2 DEF Shows
  <2>4. ASSUME NEW i \in At(us, s, c) PROVE v = Seen(us[i].users, us[i].end_of_names)
    BY <1>12, <2>1, ShowsAt
  <2> QED BY <2>3, <2>4 DEF Shows
<1>13. ASSUME ts[k].channel # None PROVE Shows(us, ts[k].serv, ts[k].channel, Off)
  <2>1. ASSUME NEW i \in At(us, ts[k].serv, ts[k].channel) PROVE FALSE
    <3>1. /\ i \in 1..(n - 1) /\ us[i].serv = ts[k].serv /\ us[i].channel = ts[k].channel
      BY <1>6 DEF At
    <3>2. us[i] = ts[back[i]] /\ back[i] \in 1..n /\ back[i] # k BY <1>7, <3>1
    <3> QED BY <1>13, <3>1, <3>2 DEF Unique, n
  <2> QED BY <2>1 DEF Shows
<1> QED BY <1>6, <1>10, <1>11, <1>12, <1>13

-----------------------------------------------------------------------------
(* Lemmas about the functions of the code. *)

LEMMA MinFacts ==
  ASSUME NEW T \in SUBSET Nat, T # {}
  PROVE  Min(T) \in T /\ \A y \in T : Min(T) <= y
BY SmallestExists DEF Min

LEMMA FindFacts ==
  ASSUME tabs \in Seq(Tab), NEW s, NEW c
  PROVE  /\ On(s, c) <=> At(tabs, s, c) # {}
         /\ ~On(s, c) => find_channel(s, c) = 0
         /\ On(s, c) => find_channel(s, c) \in At(tabs, s, c) /\ find_channel(s, c) \in 1..Len(tabs)
<1> DEFINE I == At(tabs, s, c)
<1>1. find_channel(s, c) = IF I # {} THEN Min(I) ELSE 0
  BY DEF find_channel, SelectInSeq, At
<1>2. I \subseteq 1..Len(tabs) /\ I \in SUBSET Nat
  <2>1. Len(tabs) \in Nat BY LenProperties
  <2> QED BY <2>1 DEF At
<1>3. I # {} => Min(I) \in I BY <1>2, MinFacts
<1>4. 0 \notin I
  <2>1. \A i \in 1..Len(tabs) : i # 0 BY LenProperties
  <2> QED BY <1>2, <2>1
<1> HIDE DEF I
<1>5. /\ On(s, c) <=> I # {}
      /\ ~On(s, c) => find_channel(s, c) = 0
      /\ On(s, c) => find_channel(s, c) \in I /\ find_channel(s, c) \in 1..Len(tabs)
  BY <1>1, <1>2, <1>3, <1>4 DEF On
<1> QED BY <1>5 DEF I

LEMMA WaitFacts ==
  ASSUME tabs \in Seq(Tab), NEW s, NEW c, NEW k,
         k = find_session_from_waitchannel(s, c)
  PROVE  k = 0 \/ (k \in 1..Len(tabs) /\ tabs[k].serv = s /\ tabs[k].channel = None)
<1> DEFINE I == {i \in 1..Len(tabs) :
                   tabs[i].serv = s /\ tabs[i].channel = None /\ tabs[i].wait = c}
<1>1. k = IF I # {} THEN Min(I) ELSE 0
  BY DEF find_session_from_waitchannel, SelectInSeq
<1>2. I \in SUBSET Nat
  <2>1. Len(tabs) \in Nat BY LenProperties
  <2> QED BY <2>1
<1>3. I # {} => Min(I) \in I
  <2> HIDE DEF I
  <2> QED BY <1>2, MinFacts
<1> QED BY <1>1, <1>3

(* The tab t, once it is on channel c. *)
joined(t, c) ==
    [userlist_clear(t) EXCEPT !.channel = c, !.wait = None, !.end_of_names = FALSE]

LEMMA JoinedFacts ==
  ASSUME NEW t \in Tab, NEW c \in Chan
  PROVE  /\ joined(t, c) \in Tab /\ joined(t, c).serv = t.serv /\ joined(t, c).channel = c
         /\ Seen(joined(t, c).users, joined(t, c).end_of_names) = Seen({}, FALSE)
<1> DEFINE no == FALSE  r == [userlist_clear(t) EXCEPT !.channel = c, !.wait = None, !.end_of_names = no]
<1>1. no \in BOOLEAN /\ None \in Chan \cup {None} OBVIOUS
<1>2. joined(t, c) = r BY DEF joined
<1>3. Seen({}, FALSE) = Seen({}, no) OBVIOUS
<1> HIDE DEF no
<1>4. userlist_clear(t) \in Tab /\ userlist_clear(t).serv = t.serv /\ userlist_clear(t).users = {}
  BY DEF Tab, userlist_clear
<1>5. /\ r \in Tab /\ r.serv = userlist_clear(t).serv /\ r.channel = c
      /\ r.users = userlist_clear(t).users /\ r.end_of_names = no
  <2> DEFINE x == userlist_clear(t)
  <2> HIDE DEF x
  <2>1. x \in Tab BY <1>4 DEF x
  <2>2. [x EXCEPT !.channel = c, !.wait = None, !.end_of_names = no] \in Tab
    BY <1>1, <2>1 DEF Tab
  <2>3. DOMAIN x = {"serv", "channel", "wait", "will", "users", "end_of_names"}
    BY <2>1 DEF Tab
  <2> QED BY <1>1, <2>1, <2>2, <2>3 DEF Tab, x
<1> HIDE DEF r
<1> QED BY <1>2, <1>3, <1>4, <1>5

LEMMA NewTabFacts ==
  ASSUME NEW s \in Serv, NEW c \in Chan \cup {None}
  PROVE  NewTab(s, c) \in Tab /\ NewTab(s, c).serv = s /\ NewTab(s, c).channel = c
<1> DEFINE no == FALSE
<1>1. no \in BOOLEAN /\ None \in Chan \cup {None} OBVIOUS
<1>2. NewTab(s, c) = [serv |-> s, channel |-> c, wait |-> None, will |-> None,
                      users |-> {}, end_of_names |-> no]
  BY DEF NewTab
<1> HIDE DEF no
<1> QED BY <1>1, <1>2 DEF Tab

LEMMA UjoinForms ==
  ASSUME tabs \in Seq(Tab), NEW s \in Serv, NEW c \in Chan
  PROVE  \/ \E k \in 1..Len(tabs) :
              /\ tabs[k].serv = s
              /\ k \in At(tabs, s, c) \/ (At(tabs, s, c) = {} /\ tabs[k].channel = None)
              /\ inbound_ujoin(s, c) = [tabs EXCEPT ![k] = joined(tabs[k], c)]
         \/ /\ At(tabs, s, c) = {}
            /\ inbound_ujoin(s, c) = <<joined(NewTab(s, c), c)>> \o tabs
<1> DEFINE a == find_channel(s, c)
           b == find_session_from_waitchannel(s, c)
           d == find_unused_session(s)
           old == <<a, b, d>>
           I == {i \in 1..Len(old) : old[i] # 0}
           k == IF I # {} THEN Min(I) ELSE 0
           there == IF k = 0 THEN <<NewTab(s, c)>> \o tabs ELSE tabs
           i == IF k = 0 THEN 1 ELSE old[k]
<1>1. inbound_ujoin(s, c) = [there EXCEPT ![i] = joined(there[i], c)]
  BY DEF inbound_ujoin, SelectInSeq, joined
<1>2. a = 0 \/ (a \in At(tabs, s, c) /\ a \in 1..Len(tabs)) BY FindFacts
<1>3. a = 0 => At(tabs, s, c) = {}
  <2>1. \A j \in 1..Len(tabs) : j # 0 BY LenProperties
  <2>2. At(tabs, s, c) # {} => a \in 1..Len(tabs) BY FindFacts
  <2> QED BY <2>1, <2>2
<1>4. b = 0 \/ (b \in 1..Len(tabs) /\ tabs[b].serv = s /\ tabs[b].channel = None) BY WaitFacts
<1>5. d = 0 \/ (d \in 1..Len(tabs) /\ tabs[d].serv = s /\ tabs[d].channel = None)
  BY WaitFacts DEF find_unused_session
<1> HIDE DEF a, b, d
<1>6. Len(old) = 3 /\ old[1] = a /\ old[2] = b /\ old[3] = d OBVIOUS
<1>7. I \in SUBSET Nat /\ \A j \in I : j \in {1, 2, 3} /\ old[j] # 0
  BY <1>6
<1>8. I # {} => k \in I /\ \A j \in I : k <= j
  <2> HIDE DEF I
  <2> QED BY <1>7, MinFacts
<1>9. a # 0 => 1 \in I BY <1>6
<1>10. k # 0 => I # {} OBVIOUS
<1> HIDE DEF old, I, k
<1>11. CASE k = 0
  <2>1. I = {} BY <1>7, <1>8, <1>11
  <2>2. a = 0 BY <1>9, <2>1
  <2> DEFINE n == NewTab(s, c)  ts == <<n>> \o tabs  j == joined(n, c)
  <2>3. inbound_ujoin(s, c) = [ts EXCEPT ![1] = joined(ts[1], c)] BY <1>1, <1>11
  <2>4. n \in Tab /\ j \in Tab BY NewTabFacts, JoinedFacts
  <2> HIDE DEF n, j
  <2>5. ts[1] = n /\ [ts EXCEPT ![1] = j] = <<j>> \o tabs
    <3> DEFINE m == Len(tabs)
    <3>1. <<n>> \in Seq(Tab) /\ <<j>> \in Seq(Tab) /\ Len(<<n>>) = 1 /\ Len(<<j>>) = 1
          /\ <<n>>[1] = n /\ <<j>>[1] = j /\ m \in Nat
      BY <2>4, LenProperties
    <3>2. /\ ts \in Seq(Tab) /\ Len(ts) = 1 + m
          /\ \A x \in 1..(1 + m) : ts[x] = IF x <= 1 THEN <<n>>[x] ELSE tabs[x - 1]
      BY <3>1, ConcatProperties
    <3> DEFINE us == <<j>> \o tabs
    <3>3. /\ us \in Seq(Tab) /\ Len(us) = 1 + m
          /\ \A x \in 1..(1 + m) : us[x] = IF x <= 1 THEN <<j>>[x] ELSE tabs[x - 1]
      BY <3>1, ConcatProperties
    <3> HIDE DEF m, ts, us
    <3>4. 1 \in 1..(1 + m) /\ \A x \in 1..(1 + m) : x <= 1 <=> x = 1 BY <3>1
    <3> DEFINE vs == [ts EXCEPT ![1] = j]
    <3>5. /\ vs \in Seq(Tab) /\ Len(vs) = 1 + m
          /\ \A x \in 1..(1 + m) : vs[x] = IF x = 1 THEN j ELSE ts[x]
      <4>1. 1 \in 1..Len(ts) BY <3>2, <3>4
      <4> QED BY <2>4, <3>2, <4>1, ExceptSeq
    <3> HIDE DEF vs
    <3>6. ASSUME NEW x \in 1..(1 + m) PROVE vs[x] = us[x]
      <4>1. CASE x = 1
        <5>1. vs[x] = j BY <3>5, <4>1
        <5>2. us[x] = <<j>>[x] BY <3>3, <3>4, <4>1
        <5> QED BY <3>1, <4>1, <5>1, <5>2
      <4>2. CASE x # 1
        <5>1. vs[x] = ts[x] /\ ts[x] = tabs[x - 1] BY <3>2, <3>4, <3>5, <4>2
        <5>2. us[x] = tabs[x - 1] BY <3>3, <3>4, <4>2
        <5> QED BY <5>1, <5>2
      <4> QED BY <4>1, <4>2
    <3>7. vs = us BY <3>3, <3>5, <3>6, SeqEqual
    <3> QED BY <3>1, <3>2, <3>4, <3>7 DEF vs, us
  <2>6. inbound_ujoin(s, c) = <<j>> \o tabs
    <3> HIDE DEF ts
    <3> QED BY <2>3, <2>5 DEF j
  <2> QED BY <1>3, <2>2, <2>6 DEF j, n
<1>12. CASE k # 0
  <2> DEFINE e == old[k]
  <2>1. inbound_ujoin(s, c) = [tabs EXCEPT ![e] = joined(tabs[e], c)] BY <1>1, <1>12
  <2>2. k \in I /\ \A j \in I : k <= j BY <1>8, <1>10, <1>12
  <2>3. k \in {1, 2, 3} /\ e # 0 BY <1>7, <2>2
  <2>4. a # 0 => k = 1 BY <1>9, <2>2, <2>3
  <2>5. e = a \/ (a = 0 /\ e \in {b, d}) BY <1>6, <2>3, <2>4
  <2> HIDE DEF e
  <2>6. /\ e \in 1..Len(tabs) /\ tabs[e].serv = s
        /\ e \in At(tabs, s, c) \/ (At(tabs, s, c) = {} /\ tabs[e].channel = None)
    BY <1>2, <1>3, <1>4, <1>5, <2>3, <2>5 DEF At
  <2> QED BY <2>1, <2>6
<1> QED BY <1>11, <1>12

(* The tabs us are what reading the line l of server s makes of ts. *)
ReadAs(ts, us, s, l) ==
    /\ us \in Seq(Tab) /\ Unique(us)
    /\ \A st : OnlyIn(ts, st) /\ st[s] = "in" => OnlyIn(us, st)
    /\ \A r \in Serv, c \in Chan, v \in View :
         Shows(ts, r, c, v) => Shows(us, r, c, IF r = s THEN Effect(v, l, c) ELSE v)

LEMMA NothingRead ==
  ASSUME NEW ts \in Seq(Tab), Unique(ts), NEW s, NEW l \in Answer,
         l.cmd = "REFUSED" \/ (l.cmd # "UJOIN" /\ At(ts, s, l.chan) = {})
  PROVE  ReadAs(ts, ts, s, l)
<1>1. ASSUME NEW r \in Serv, NEW c \in Chan, NEW v \in View, Shows(ts, r, c, v)
      PROVE  Shows(ts, r, c, IF r = s THEN Effect(v, l, c) ELSE v)
  <2>1. CASE r # s BY <1>1, <2>1
  <2>2. CASE r = s /\ (l.cmd = "REFUSED" \/ l.chan # c)
    <3>1. Effect(v, l, c) = v BY <2>2, EffectFacts
    <3> QED BY <1>1, <2>2, <3>1
  <2>3. CASE r = s /\ l.cmd # "REFUSED" /\ l.chan = c
    <3>1. v = Off BY <1>1, <2>3 DEF Shows
    <3>2. Effect(Off, l, c) = Off BY <2>3, EffectFacts
    <3> QED BY <1>1, <2>3, <3>1, <3>2
  <2> QED BY <2>1, <2>2, <2>3
<1> QED BY <1>1 DEF ReadAs

LEMMA UjoinRead ==
  ASSUME tabs \in Seq(Tab), Unique(tabs), NEW s \in Serv, NEW l \in Answer, l.cmd = "UJOIN"
  PROVE  ReadAs(tabs, inbound_ujoin(s, l.chan), s, l)
<1> DEFINE c == l.chan  us == inbound_ujoin(s, c)
<1>1. c \in Chan /\ c # None BY AnswerTyped, ChanIsNotNone
<1>2. \A v \in View : Effect(v, l, c) = Seen({}, FALSE) BY EffectFacts
<1>3. \A v \in View : \A d \in Chan : d # c => Effect(v, l, d) = v BY EffectFacts
<1>4. \/ \E k \in 1..Len(tabs) :
           /\ tabs[k].serv = s
           /\ k \in At(tabs, s, c) \/ (At(tabs, s, c) = {} /\ tabs[k].channel = None)
           /\ us = [tabs EXCEPT ![k] = joined(tabs[k], c)]
      \/ /\ At(tabs, s, c) = {}
         /\ us = <<joined(NewTab(s, c), c)>> \o tabs
  BY <1>1, UjoinForms
<1> HIDE DEF us, c
<1>5. ASSUME us \in Seq(Tab), Unique(us),
             \A st : OnlyIn(tabs, st) /\ st[s] = "in" => OnlyIn(us, st),
             Shows(us, s, c, Seen({}, FALSE)),
             \A r, v : \A d \in Chan : Shows(tabs, r, d, v) /\ (r # s \/ d # c) => Shows(us, r, d, v)
      PROVE  ReadAs(tabs, us, s, l)
  <2> SUFFICES ASSUME NEW r \in Serv, NEW d \in Chan, NEW v \in View, Shows(tabs, r, d, v)
               PROVE  Shows(us, r, d, IF r = s THEN Effect(v, l, d) ELSE v)
    BY <1>5 DEF ReadAs
  <2>1. CASE r # s BY <1>5, <2>1
  <2>2. CASE r = s /\ d # c
    <3>1. Effect(v, l, d) = v BY <1>3, <2>2
    <3> QED BY <1>5, <2>2, <3>1
  <2>3. CASE r = s /\ d = c
    <3>1. Effect(v, l, d) = Seen({}, FALSE) BY <1>2, <2>3
    <3> QED BY <1>5, <2>3, <3>1
  <2> QED BY <2>1, <2>2, <2>3
<1>6. ASSUME NEW k \in 1..Len(tabs), tabs[k].serv = s,
             k \in At(tabs, s, c) \/ (At(tabs, s, c) = {} /\ tabs[k].channel = None),
             us = [tabs EXCEPT ![k] = joined(tabs[k], c)]
      PROVE  ReadAs(tabs, us, s, l)
  <2> DEFINE t == tabs[k]  j == joined(t, c)
  <2>1. t \in Tab /\ t.serv = s /\ t.channel \in {c, None}
    <3>1. t \in Tab BY LenProperties
    <3> QED BY <1>6, <3>1 DEF At
  <2>2. j \in Tab /\ j.serv = s /\ j.channel = c
        /\ Seen(j.users, j.end_of_names) = Seen({}, FALSE)
    <3> HIDE DEF t
    <3> QED BY <1>1, <2>1, JoinedFacts
  <2>3. j.channel = t.channel \/ At(tabs, j.serv, j.channel) = {}
    BY <1>6, <2>2 DEF At
  <2>4. us = [tabs EXCEPT ![k] = j] BY <1>6
  <2> HIDE DEF j
  <2>5. /\ us \in Seq(Tab) /\ Unique(us)
        /\ \A st : OnlyIn(tabs, st) /\ (j.channel # None => st[j.serv] = "in") => OnlyIn(us, st)
        /\ \A r, v : \A d \in Chan :
             Shows(tabs, r, d, v) /\ (r # j.serv \/ d \notin {j.channel, tabs[k].channel})
               => Shows(us, r, d, v)
        /\ j.channel # None => Shows(us, j.serv, j.channel, Seen(j.users, j.end_of_names))
    BY <1>6, <2>2, <2>3, <2>4, PutFacts
  <2>6. Shows(us, s, c, Seen({}, FALSE)) BY <1>1, <2>2, <2>5
  <2>7. \A r, v : \A d \in Chan : Shows(tabs, r, d, v) /\ (r # s \/ d # c) => Shows(us, r, d, v)
    BY <2>1, <2>2, <2>5, ChanIsNotNone
  <2> QED BY <1>5, <2>2, <2>5, <2>6, <2>7
<1>7. ASSUME At(tabs, s, c) = {}, us = <<joined(NewTab(s, c), c)>> \o tabs
      PROVE  ReadAs(tabs, us, s, l)
  <2> DEFINE t == NewTab(s, c)  j == joined(t, c)
  <2>1. t \in Tab /\ t.serv = s BY <1>1, NewTabFacts
  <2>2. j \in Tab /\ j.serv = s /\ j.channel = c
        /\ Seen(j.users, j.end_of_names) = Seen({}, FALSE)
    <3> HIDE DEF t
    <3> QED BY <1>1, <2>1, JoinedFacts
  <2>3. us = <<j>> \o tabs BY <1>7
  <2> HIDE DEF j
  <2>4. At(tabs, j.serv, j.channel) = {} BY <1>7, <2>2
  <2>5. /\ us \in Seq(Tab) /\ Unique(us)
        /\ \A st : OnlyIn(tabs, st) /\ (j.channel # None => st[j.serv] = "in") => OnlyIn(us, st)
        /\ \A r, v : \A d \in Chan :
             Shows(tabs, r, d, v) /\ (r # j.serv \/ d # j.channel) => Shows(us, r, d, v)
        /\ j.channel # None => Shows(us, j.serv, j.channel, Seen(j.users, j.end_of_names))
    BY <2>2, <2>3, <2>4, PrependFacts
  <2>6. Shows(us, s, c, Seen({}, FALSE)) BY <1>1, <2>2, <2>5
  <2> QED BY <1>5, <2>2, <2>5, <2>6
<1> QED BY <1>4, <1>6, <1>7 DEF us, c

LEMMA InTabRead ==
  ASSUME tabs \in Seq(Tab), Unique(tabs), NEW s \in Serv, NEW l \in Answer,
         NEW c, c = l.chan, NEW t, NEW old, old = TabOf(s, c),
         On(s, c) =>
           /\ t \in Tab /\ t.serv = s /\ t.channel \in {c, None}
           /\ t.channel = c =>
                Effect(Seen(old.users, old.end_of_names), l, c) = Seen(t.users, t.end_of_names)
           /\ t.channel = None => Effect(Seen(old.users, old.end_of_names), l, c) = Off,
         l.cmd # "UJOIN"
  PROVE  ReadAs(tabs, InTab(s, c, t), s, l)
<1> DEFINE us == InTab(s, c, t)  k == find_channel(s, c)
<1>1. c \in Chan /\ c # None BY AnswerTyped, ChanIsNotNone
<1>2. CASE ~On(s, c)
  <2>1. us = tabs /\ At(tabs, s, c) = {} BY <1>2, FindFacts DEF InTab
  <2> QED BY <2>1, NothingRead
<1>3. CASE On(s, c)
  <2>1. k \in At(tabs, s, c) /\ k \in 1..Len(tabs) BY <1>3, FindFacts
  <2>2. us = [tabs EXCEPT ![k] = t] /\ old = tabs[k] BY <1>3 DEF InTab, TabOf
  <2>3. tabs[k].serv = s /\ tabs[k].channel = c BY <2>1 DEF At
  <2> DEFINE w == Effect(Seen(old.users, old.end_of_names), l, c)
  <2>4. /\ t \in Tab /\ t.serv = s /\ t.channel \in {c, None}
        /\ t.channel = c => w = Seen(t.users, t.end_of_names)
        /\ t.channel = None => w = Off
    BY <1>3
  <2> HIDE DEF k, us, w
  <2>5. t.channel \in {None, tabs[k].channel} \/ At(tabs, t.serv, t.channel) = {} BY <2>3, <2>4
  <2>6. /\ us \in Seq(Tab) /\ Unique(us)
        /\ \A st : OnlyIn(tabs, st) /\ (t.channel # None => st[t.serv] = "in") => OnlyIn(us, st)
        /\ \A r, v : \A d \in Chan :
             Shows(tabs, r, d, v) /\ (r # t.serv \/ d \notin {t.channel, tabs[k].channel})
               => Shows(us, r, d, v)
        /\ t.channel # None => Shows(us, t.serv, t.channel, Seen(t.users, t.end_of_names))
        /\ tabs[k].channel # None /\ t.channel # tabs[k].channel =>
              Shows(us, t.serv, tabs[k].channel, Off)
    BY <2>1, <2>2, <2>3, <2>4, <2>5, PutFacts
  <2>7. Shows(us, s, c, w) BY <1>1, <2>3, <2>4, <2>6
  <2>8. \A v : Shows(tabs, s, c, v) => v = Seen(old.users, old.end_of_names)
    BY <2>1, <2>2, ShowsAt
  <2>9. ASSUME NEW r \in Serv, NEW d \in Chan, NEW v \in View, Shows(tabs, r, d, v)
        PROVE  Shows(us, r, d, IF r = s THEN Effect(v, l, d) ELSE v)
    <3>1. CASE r # s BY <2>4, <2>6, <2>9, <3>1
    <3>2. CASE r = s /\ d # c
      <4>1. Effect(v, l, d) = v BY <3>2, EffectFacts
      <4>2. d \notin {t.channel, tabs[k].channel} BY <2>3, <2>4, <3>2, ChanIsNotNone
      <4> QED BY <2>6, <2>9, <3>2, <4>1, <4>2
    <3>3. CASE r = s /\ d = c
      <4>1. v = Seen(old.users, old.end_of_names) BY <2>8, <2>9, <3>3
      <4>2. Effect(v, l, d) = w BY <3>3, <4>1 DEF w
      <4> QED BY <2>7, <3>3, <4>2
    <3> QED BY <3>1, <3>2, <3>3
  <2>10. ReadAs(tabs, us, s, l) BY <2>4, <2>6, <2>9 DEF ReadAs
  <2> QED BY <2>10 DEF us
<1> QED BY <1>2, <1>3

(* The functions on one tab. *)
LEMMA UserlistFacts ==
  ASSUME NEW t \in Tab, NEW u \in SUBSET {Me, Other}
  PROVE  /\ userlist_add(t, u) \in Tab /\ userlist_add(t, u).serv = t.serv
         /\ userlist_add(t, u).channel = t.channel /\ userlist_add(t, u).users = t.users \cup u
         /\ userlist_add(t, u).end_of_names = t.end_of_names
         /\ inbound_part(t) \in Tab /\ inbound_part(t).serv = t.serv
         /\ inbound_part(t).channel = t.channel /\ inbound_part(t).users = t.users \ {Other}
         /\ inbound_part(t).end_of_names = t.end_of_names
         /\ userlist_clear(t) \in Tab /\ userlist_clear(t).serv = t.serv
         /\ userlist_clear(t).channel = t.channel /\ userlist_clear(t).users = {}
         /\ userlist_clear(t).end_of_names = t.end_of_names
<1>1. t.users \cup u \in SUBSET {Me, Other} /\ t.users \ {Other} \in SUBSET {Me, Other}
  BY TabTyped
<1> QED BY <1>1 DEF Tab, userlist_add, inbound_part, userlist_remove, userlist_clear

LEMMA ClearFacts ==
  ASSUME NEW t \in Tab
  PROVE  /\ clear_channel(t) \in Tab /\ clear_channel(t).serv = t.serv
         /\ clear_channel(t).channel = None
         /\ \A w \in Chan \cup {None} :
              /\ [clear_channel(t) EXCEPT !.wait = w] \in Tab
              /\ [clear_channel(t) EXCEPT !.wait = w].serv = t.serv
              /\ [clear_channel(t) EXCEPT !.wait = w].channel = None
<1> DEFINE x == userlist_clear(t)  w == IF t.channel = None THEN x.wait ELSE t.channel
<1>1. x \in Tab /\ x.serv = t.serv BY UserlistFacts
<1>2. w \in Chan \cup {None} /\ None \in Chan \cup {None}
  <2> HIDE DEF x
  <2> QED BY <1>1, TabTyped
<1>3. clear_channel(t) = [x EXCEPT !.wait = w, !.channel = None] BY DEF clear_channel
<1> HIDE DEF x, w
<1>4. clear_channel(t) \in Tab /\ clear_channel(t).serv = t.serv /\ clear_channel(t).channel = None
  BY <1>1, <1>2, <1>3 DEF Tab
<1> QED BY <1>4 DEF Tab

LEMMA NameslistFacts ==
  ASSUME NEW t \in Tab, NEW names \in SUBSET {Me, Other}, NEW n, NEW e,
         n = inbound_nameslist(t, names), e = inbound_nameslist_end(t)
  PROVE  /\ n \in Tab /\ n.serv = t.serv /\ n.channel = t.channel
         /\ Seen(n.users, n.end_of_names) =
              Seen((IF t.end_of_names THEN {} ELSE t.users) \cup names, FALSE)
         /\ e \in Tab /\ e.serv = t.serv /\ e.channel = t.channel
         /\ Seen(e.users, e.end_of_names) = Seen(t.users, TRUE)
<1> DEFINE no == FALSE  yes == TRUE
           x == IF t.end_of_names THEN userlist_clear(t) ELSE t
           y == [x EXCEPT !.end_of_names = no]
           z == [t EXCEPT !.end_of_names = yes]
<1>1. no \in BOOLEAN /\ yes \in BOOLEAN OBVIOUS
<1>2. n = userlist_add(y, names) /\ e = z
  BY DEF inbound_nameslist, inbound_nameslist_end
<1>3. /\ x \in Tab /\ x.serv = t.serv /\ x.channel = t.channel
      /\ x.users = IF t.end_of_names THEN {} ELSE t.users
  BY UserlistFacts
<1>4. no = FALSE /\ yes = TRUE OBVIOUS
<1> HIDE DEF no, yes, x
<1>5. /\ y \in Tab /\ y.serv = x.serv /\ y.channel = x.channel /\ y.users = x.users
      /\ y.end_of_names = no
  BY <1>1, <1>3 DEF Tab
<1>6. /\ z \in Tab /\ z.serv = t.serv /\ z.channel = t.channel /\ z.users = t.users
      /\ z.end_of_names = yes
  BY <1>1 DEF Tab
<1> HIDE DEF y, z
<1>7. /\ userlist_add(y, names) \in Tab /\ userlist_add(y, names).serv = y.serv
      /\ userlist_add(y, names).channel = y.channel
      /\ userlist_add(y, names).users = y.users \cup names
      /\ userlist_add(y, names).end_of_names = y.end_of_names
  BY <1>5, UserlistFacts
<1>8. /\ n \in Tab /\ n.serv = t.serv /\ n.channel = t.channel
      /\ n.users = (IF t.end_of_names THEN {} ELSE t.users) \cup names
      /\ n.end_of_names = no
      /\ e \in Tab /\ e.serv = t.serv /\ e.channel = t.channel
      /\ e.users = t.users /\ e.end_of_names = yes
  BY <1>2, <1>3, <1>5, <1>6, <1>7
<1> QED BY <1>4, <1>8, Zenon

(* What reading a line that shows makes of a tab and of its view. *)
LEMMA ShownRead ==
  ASSUME tabs \in Seq(Tab), Unique(tabs), NEW s \in Serv, NEW l \in Answer, l.cmd # "UKICK"
  PROVE  ReadAs(tabs, Shown(s, l), s, l)
<1> DEFINE c == l.chan  t == TabOf(s, c)  v == Seen(t.users, t.end_of_names)
<1>1. /\ c \in Chan /\ c # None /\ l.names \in SUBSET {Me, Other}
      /\ l.cmd \in {"UJOIN", "UPART", "NAMES", "END", "REFUSED", "JOIN", "PART"}
  BY AnswerTyped, ChanIsNotNone
<1>2. ASSUME On(s, c) PROVE t \in Tab /\ t.serv = s /\ t.channel = c
  <2>1. find_channel(s, c) \in At(tabs, s, c) /\ find_channel(s, c) \in 1..Len(tabs)
    BY <1>2, FindFacts
  <2>2. \A i \in 1..Len(tabs) : tabs[i] \in Tab BY LenProperties
  <2> QED BY <2>1, <2>2 DEF TabOf, At
<1>3. ASSUME On(s, c) PROVE v \in View /\ v.on /\ v.users = t.users /\ (v.ends <=> t.end_of_names)
  <2> HIDE DEF t
  <2>1. t.users \in SUBSET {Me, Other} /\ t.end_of_names \in BOOLEAN BY <1>2, <1>3, TabTyped
  <2> QED BY <2>1, Views
<1>4. /\ l.cmd = "UJOIN" => Shown(s, l) = inbound_ujoin(s, c)
      /\ l.cmd = "UPART" => Shown(s, l) = InTab(s, c, clear_channel(t))
      /\ l.cmd = "NAMES" => Shown(s, l) = InTab(s, c, inbound_nameslist(t, l.names))
      /\ l.cmd = "END" => Shown(s, l) = InTab(s, c, inbound_nameslist_end(t))
      /\ l.cmd = "JOIN" => Shown(s, l) = InTab(s, c, inbound_join(t))
      /\ l.cmd = "PART" => Shown(s, l) = InTab(s, c, inbound_part(t))
      /\ l.cmd = "REFUSED" => Shown(s, l) = tabs
  BY Zenon DEF Shown
<1>5. t = TabOf(s, c) OBVIOUS
<1> HIDE DEF t, c, v
<1>6. ASSUME NEW r,
             On(s, c) => /\ r \in Tab /\ r.serv = s /\ r.channel \in {c, None}
                         /\ r.channel = c => Effect(v, l, c) = Seen(r.users, r.end_of_names)
                         /\ r.channel = None => Effect(v, l, c) = Off,
             l.cmd # "UJOIN"
      PROVE  ReadAs(tabs, InTab(s, c, r), s, l)
  <2>1. c = l.chan BY DEF c
  <2> QED BY <1>5, <1>6, <2>1, InTabRead DEF v
<1>7. CASE l.cmd = "UJOIN" BY <1>4, <1>7, UjoinRead DEF c
<1>8. CASE l.cmd = "REFUSED" BY <1>4, <1>8, NothingRead
<1>9. CASE l.cmd = "UPART"
  <2> DEFINE r == clear_channel(t)
  <2>1. ASSUME On(s, c)
        PROVE  r \in Tab /\ r.serv = s /\ r.channel = None /\ Effect(v, l, c) = Off
    <3>1. l.chan = c BY DEF c
    <3> QED BY <1>2, <1>3, <1>9, <2>1, <3>1, ClearFacts, EffectFacts
  <2> HIDE DEF r
  <2>2. ReadAs(tabs, InTab(s, c, r), s, l) BY <1>1, <1>6, <1>9, <2>1
  <2> QED BY <1>4, <1>9, <2>2 DEF r
<1>10. ASSUME l.cmd \in {"NAMES", "END", "JOIN", "PART"},
              NEW r, On(s, c) => /\ r \in Tab /\ r.serv = s /\ r.channel = c
                                 /\ Updated(v, l) = Seen(r.users, r.end_of_names),
              Shown(s, l) = InTab(s, c, r)
       PROVE  ReadAs(tabs, Shown(s, l), s, l)
  <2>1. l.chan = c BY DEF c
  <2>2. ASSUME On(s, c) PROVE Effect(v, l, c) = Updated(v, l)
    BY <1>3, <1>10, <2>1, <2>2, EffectFacts
  <2> QED BY <1>1, <1>6, <1>10, <2>2
<1>11. CASE l.cmd = "NAMES"
  <2> DEFINE r == inbound_nameslist(t, l.names)
  <2>1. ASSUME On(s, c)
        PROVE  /\ r \in Tab /\ r.serv = s /\ r.channel = c
               /\ Updated(v, l) = Seen(r.users, r.end_of_names)
    <3> DEFINE names == l.names  listed == IF t.end_of_names THEN {} ELSE t.users
    <3>1. r = inbound_nameslist(t, names) /\ names \in SUBSET {Me, Other} BY <1>1
    <3> HIDE DEF r, names
    <3>2. /\ r \in Tab /\ r.serv = s /\ r.channel = c
          /\ Seen(r.users, r.end_of_names) = Seen(listed \cup names, FALSE)
      BY <1>2, <2>1, <3>1, NameslistFacts
    <3>3. Updated(v, l) = Seen((IF v.ends THEN {} ELSE v.users) \cup names, FALSE)
      BY <1>3, <1>11, <2>1, UpdatedFacts DEF names
    <3>4. (IF v.ends THEN {} ELSE v.users) = listed BY <1>3, <2>1
    <3> HIDE DEF listed
    <3> QED BY <3>2, <3>3, <3>4
  <2> HIDE DEF r
  <2> QED BY <1>4, <1>10, <1>11, <2>1 DEF r
<1>12. CASE l.cmd = "END"
  <2> DEFINE r == inbound_nameslist_end(t)
  <2>1. ASSUME On(s, c)
        PROVE  /\ r \in Tab /\ r.serv = s /\ r.channel = c
               /\ Updated(v, l) = Seen(r.users, r.end_of_names)
    <3>1. r = inbound_nameslist_end(t) OBVIOUS
    <3> HIDE DEF r
    <3>2. /\ r \in Tab /\ r.serv = s /\ r.channel = c
          /\ Seen(r.users, r.end_of_names) = Seen(t.users, TRUE)
      BY <1>2, <2>1, <3>1, NameslistFacts, ZenonT(60)
    <3>3. Updated(v, l) = Seen(v.users, TRUE) BY <1>3, <1>12, <2>1, UpdatedFacts
    <3> QED BY <1>3, <2>1, <3>2, <3>3
  <2> HIDE DEF r
  <2> QED BY <1>4, <1>10, <1>12, <2>1 DEF r
<1>13. ASSUME On(s, c) PROVE v.ends = t.end_of_names
  <2>1. t.end_of_names \in BOOLEAN /\ v.ends \in BOOLEAN BY <1>2, <1>3, <1>13, TabTyped, ViewTyped
  <2> QED BY <1>3, <1>13, <2>1
<1>14. CASE l.cmd = "JOIN"
  <2> DEFINE r == inbound_join(t)
  <2>1. ASSUME On(s, c)
        PROVE  /\ r \in Tab /\ r.serv = s /\ r.channel = c
               /\ Updated(v, l) = Seen(r.users, r.end_of_names)
    <3>1. r = userlist_add(t, {Other}) /\ {Other} \in SUBSET {Me, Other} BY DEF inbound_join
    <3> HIDE DEF r
    <3>2. /\ r \in Tab /\ r.serv = s /\ r.channel = c
          /\ r.users = t.users \cup {Other} /\ r.end_of_names = t.end_of_names
      BY <1>2, <2>1, <3>1, UserlistFacts, ZenonT(60)
    <3>3. Updated(v, l) = Seen(v.users \cup {Other}, v.ends) BY <1>3, <1>14, <2>1, UpdatedFacts
    <3> QED BY <1>3, <1>13, <2>1, <3>2, <3>3
  <2> HIDE DEF r
  <2> QED BY <1>4, <1>10, <1>14, <2>1 DEF r
<1>15. CASE l.cmd = "PART"
  <2> DEFINE r == inbound_part(t)
  <2>1. ASSUME On(s, c)
        PROVE  /\ r \in Tab /\ r.serv = s /\ r.channel = c
               /\ Updated(v, l) = Seen(r.users, r.end_of_names)
    <3>1. {Other} \in SUBSET {Me, Other} OBVIOUS
    <3>2. /\ r \in Tab /\ r.serv = s /\ r.channel = c
          /\ r.users = t.users \ {Other} /\ r.end_of_names = t.end_of_names
      BY <1>2, <2>1, <3>1, UserlistFacts
    <3> HIDE DEF r
    <3>3. Updated(v, l) = Seen(v.users \ {Other}, v.ends) BY <1>3, <1>15, <2>1, UpdatedFacts
    <3> QED BY <1>3, <1>13, <2>1, <3>2, <3>3
  <2> HIDE DEF r
  <2> QED BY <1>4, <1>10, <1>15, <2>1 DEF r
<1> QED BY <1>1, <1>7, <1>8, <1>9, <1>11, <1>12, <1>14, <1>15

LEMMA KickRead ==
  ASSUME tabs \in Seq(Tab), Unique(tabs), NEW s \in Serv, NEW l \in Answer, l.cmd = "UKICK",
         NEW us, \/ us = InTab(s, l.chan, clear_channel(TabOf(s, l.chan)))
                 \/ us = InTab(s, l.chan, [clear_channel(TabOf(s, l.chan)) EXCEPT !.wait = l.chan])
  PROVE  ReadAs(tabs, us, s, l)
<1> DEFINE c == l.chan  t == TabOf(s, c)
           x == clear_channel(t)  y == [clear_channel(t) EXCEPT !.wait = c]
<1>1. c \in Chan BY AnswerTyped
<1>2. ASSUME On(s, c)
      PROVE  /\ t \in Tab /\ t.serv = s
             /\ Effect(Seen(t.users, t.end_of_names), l, c) = Off
  <2>1. find_channel(s, c) \in At(tabs, s, c) /\ find_channel(s, c) \in 1..Len(tabs)
    BY <1>2, FindFacts
  <2>2. \A i \in 1..Len(tabs) : tabs[i] \in Tab BY LenProperties
  <2>3. t \in Tab /\ t.serv = s BY <2>1, <2>2 DEF TabOf, At
  <2> HIDE DEF t
  <2>4. Seen(t.users, t.end_of_names) \in View BY <2>3, TabTyped, Views
  <2> QED BY <2>3, <2>4, EffectFacts
<1>3. ASSUME On(s, c)
      PROVE  x \in Tab /\ x.serv = s /\ x.channel = None /\ y \in Tab /\ y.serv = s /\ y.channel = None
  <2> HIDE DEF t
  <2> QED BY <1>1, <1>2, <1>3, ClearFacts
<1>4. us = InTab(s, c, x) \/ us = InTab(s, c, y) OBVIOUS
<1>5. c # None BY <1>1, ChanIsNotNone
<1>6. t = TabOf(s, c) /\ c = l.chan OBVIOUS
<1> HIDE DEF x, y, t, c
<1>7. ReadAs(tabs, InTab(s, c, x), s, l) BY <1>2, <1>3, <1>5, <1>6, InTabRead
<1>8. ReadAs(tabs, InTab(s, c, y), s, l) BY <1>2, <1>3, <1>5, <1>6, InTabRead
<1> QED BY <1>4, <1>7, <1>8

-----------------------------------------------------------------------------
(* Lemmas about lines to and from the server. *)

LEMMA Lines ==
  ASSUME NEW c \in Chan
  PROVE  /\ ToLine("JOIN", c) \in Line /\ ToLine("PART", c) \in Line /\ ToLine("NAMES", c) \in Line
         /\ ToLine("JOIN", c) # ToLine("PART", c) /\ ToLine("NAMES", c) # ToLine("PART", c)
         /\ \A d \in Chan : d # c => ToLine("PART", d) # ToLine("PART", c)
BY DEF ToLine, Line

LEMMA Replies ==
  ASSUME NEW c \in Chan, NEW u \in SUBSET {Me, Other},
         NEW cmd \in {"UJOIN", "UPART", "UKICK", "NAMES", "END", "REFUSED", "JOIN", "PART"}
  PROVE  /\ Reply(cmd, c, u) \in Answer /\ Reply(cmd, c, u).cmd = cmd
         /\ Reply(cmd, c, u).chan = c /\ Reply(cmd, c, u).names = u
BY DEF Reply, Answer

LEMMA SentParting ==
  ASSUME NEW o \in Seq(Line), NEW lines \in Seq(Line)
  PROVE  /\ o \o lines \in Seq(Line)
         /\ \A c : Parting(o, c) => Parting(o \o lines, c)
<1> DEFINE n == Len(o)  m == Len(lines)  p == o \o lines
<1>1. /\ p \in Seq(Line) /\ Len(p) = n + m /\ n \in Nat /\ m \in Nat
      /\ \A i \in 1..(n + m) : p[i] = IF i <= n THEN o[i] ELSE lines[i - n]
  BY ConcatProperties, LenProperties
<1> HIDE DEF n, m, p
<1>2. \A i \in 1..n : i \in 1..(n + m) /\ i <= n BY <1>1
<1>3. \A i \in 1..n : i \in 1..Len(p) /\ p[i] = o[i] BY <1>1, <1>2
<1>4. \A c : Parting(o, c) => Parting(p, c) BY <1>3 DEF Parting, n
<1> QED BY <1>1, <1>4 DEF p

LEMMA SentPart ==
  ASSUME NEW o \in Seq(Line), NEW c \in Chan
  PROVE  Parting(o \o <<ToLine("PART", c)>>, c)
<1> DEFINE n == Len(o)  a == ToLine("PART", c)  p == o \o <<a>>
<1>1. a \in Line BY Lines
<1>2. a = ToLine("PART", c) OBVIOUS
<1> HIDE DEF a
<1>3. p = Append(o, a) BY <1>1, AppendIsConcat
<1>4. n \in Nat /\ Len(Append(o, a)) = n + 1 /\ Append(o, a)[n + 1] = a
  BY <1>1, AppendProperties, LenProperties
<1> HIDE DEF n, p
<1>5. n + 1 \in 1..Len(p) /\ p[n + 1] = a BY <1>3, <1>4
<1> QED BY <1>2, <1>5 DEF Parting, p, a

LEMMA TakenParting ==
  ASSUME NEW o \in Seq(Line), o # <<>>
  PROVE  /\ Tail(o) \in Seq(Line) /\ Head(o) \in Line
         /\ \A c : Parting(o, c) /\ Head(o) # ToLine("PART", c) => Parting(Tail(o), c)
<1> DEFINE n == Len(o)  p == Tail(o)  k == Len(p)
<1>1. /\ n \in Nat \ {0} /\ p \in Seq(Line) /\ Head(o) \in Line
      /\ k = n - 1 /\ Head(o) = o[1] /\ \A i \in 1..k : p[i] = o[i + 1]
  BY EmptySeq, HeadTailProperties
<1> HIDE DEF n, p, k
<1>2. ASSUME NEW c, Parting(o, c), Head(o) # ToLine("PART", c) PROVE Parting(p, c)
  <2>1. PICK i \in 1..n : o[i] = ToLine("PART", c) BY <1>2 DEF Parting, n
  <2>2. i # 1 BY <1>1, <1>2, <2>1
  <2> DEFINE j == i - 1
  <2>3. j \in 1..k /\ j + 1 = i BY <1>1, <2>2
  <2> HIDE DEF j
  <2>4. p[j] = ToLine("PART", c) BY <1>1, <2>1, <2>3
  <2> QED BY <2>3, <2>4 DEF Parting, k
<1> QED BY <1>1, <1>2 DEF p

LEMMA FittingFacts ==
  ASSUME NEW m \in SUBSET {Me, Other}, NEW o, NEW c
  PROVE  /\ Me \in m => /\ Seen(m, TRUE) \in Fitting(m, o, c)
                        /\ \A v \in Fitting(m, o, c) : v = Seen(m, TRUE) \/ v = Off
                        /\ Off \in Fitting(m, o, c) <=> Parting(o, c)
         /\ Me \notin m => Off \in Fitting(m, o, c) /\ \A v \in Fitting(m, o, c) : v = Off
<1> DEFINE yes == TRUE
<1>1. yes \in BOOLEAN /\ Seen(m, TRUE) = Seen(m, yes) OBVIOUS
<1> HIDE DEF yes
<1>2. Seen(m, yes) \in View /\ Seen(m, yes) # Off /\ Off \in View BY <1>1, Views
<1> DEFINE full == Seen(m, TRUE)
<1>3. full \in View /\ full # Off BY <1>1, <1>2
<1>4. Fitting(m, o, c) =
        {v \in View : IF Me \in m THEN v = full \/ (v = Off /\ Parting(o, c)) ELSE v = Off}
  BY DEF Fitting
<1> HIDE DEF full
<1>5. /\ Me \in m => /\ full \in Fitting(m, o, c)
                     /\ \A v \in Fitting(m, o, c) : v = full \/ v = Off
                     /\ Off \in Fitting(m, o, c) <=> Parting(o, c)
      /\ Me \notin m => Off \in Fitting(m, o, c) /\ \A v \in Fitting(m, o, c) : v = Off
  BY <1>2, <1>3, <1>4
<1> QED BY <1>5 DEF full

LEMMA FittingWider ==
  ASSUME NEW m, NEW o, NEW p, NEW c, Parting(o, c) => Parting(p, c)
  PROVE  Fitting(m, o, c) \subseteq Fitting(m, p, c)
BY DEF Fitting

(* A piece of an answer that may be left out. *)
LEMMA LeadsBy ==
  ASSUME NEW q \in Seq(Answer), NEW a \in Answer, NEW v, NEW c, NEW W, NEW V, NEW p,
         Leads(q, v, c, W),
         p = <<a>> => \A x \in W \cap View : Effect(x, a, c) \in V,
         p = <<>> => W \cap View \subseteq V,
         p = <<>> \/ p = <<a>>
  PROVE  q \o p \in Seq(Answer) /\ Leads(q \o p, v, c, V)
<1>1. CASE p = <<a>>
  <2>1. q \o p = Append(q, a) BY <1>1, AppendIsConcat
  <2>2. Append(q, a) \in Seq(Answer) BY AppendProperties
  <2> QED BY <1>1, <2>1, <2>2, LeadsOn
<1>2. CASE p = <<>>
  <2>1. q \o p = q BY <1>2, ConcatEmptySeq
  <2>2. Leads(q, v, c, W \cap View)
    <3> DEFINE n == Len(q)
    <3>1. PICK w \in [0..n -> View] : /\ w[0] = v /\ w[n] \in W
                                      /\ \A i \in 1..n : w[i] = Effect(w[i - 1], q[i], c)
      BY DEF Leads
    <3>2. n \in Nat BY LenProperties
    <3> HIDE DEF n
    <3>3. w[n] \in W \cap View BY <3>1, <3>2
    <3> QED BY <3>1, <3>3 DEF Leads, n
  <2>3. W \cap View \subseteq V BY <1>2
  <2> QED BY <2>1, <2>2, <2>3, LeadsWider
<1> QED BY <1>1, <1>2

(* The list of the members of d: it makes the view of d complete, and      *)
(* nothing of any other.                                                   *)
LEMMA NamesLead ==
  ASSUME NEW q \in Seq(Answer), NEW v, NEW c, NEW W, NEW V,
         NEW d \in Chan, NEW members \in SUBSET {Me, Other},
         Leads(q, v, c, W),
         d # c => W \cap View \subseteq V,
         d = c => /\ \A x \in W \cap View : x = Off \/ (Me \in members /\ x.on /\ (x.ends \/ x.users = {}))
                  /\ Off \in W => Off \in V
                  /\ Me \in members => Seen(members, TRUE) \in V
  PROVE  q \o Names(d, members) \in Seq(Answer) /\ Leads(q \o Names(d, members), v, c, V)
<1> DEFINE a == Reply("NAMES", d, {Me})  b == Reply("NAMES", d, {Other})  e == Reply("END", d, {})
           A == IF Me \in members THEN <<a>> ELSE <<>>
           B == IF Other \in members THEN <<b>> ELSE <<>>
           q1 == q \o A  q2 == q1 \o B
<1>1. /\ a \in Answer /\ a.cmd = "NAMES" /\ a.chan = d /\ a.names = {Me}
      /\ b \in Answer /\ b.cmd = "NAMES" /\ b.chan = d /\ b.names = {Other}
      /\ e \in Answer /\ e.cmd = "END" /\ e.chan = d
  BY Replies
<1>2. Names(d, members) = A \o B \o <<e>> BY DEF Names
<1> HIDE DEF a, b, e
<1>3. (A = <<>> \/ A = <<a>>) /\ (B = <<>> \/ B = <<b>>) OBVIOUS
<1>4. A \in Seq(Answer) /\ B \in Seq(Answer) /\ <<e>> \in Seq(Answer) BY <1>1
<1>5. (Me \in members => A = <<a>>) /\ (Me \notin members => A = <<>>)
      /\ (Other \in members => B = <<b>>) /\ (Other \notin members => B = <<>>)
  OBVIOUS
<1>6. <<a>> # <<>> /\ <<b>> # <<>> /\ <<e>> # <<>> OBVIOUS
<1> HIDE DEF A, B
<1>7. q \o Names(d, members) = q2 \o <<e>>
  <2>1. A \o B \in Seq(Answer) BY <1>4, ConcatProperties
  <2>2. q \o ((A \o B) \o <<e>>) = (q \o (A \o B)) \o <<e>> BY <1>4, <2>1, ConcatAssociative
  <2>3. q \o (A \o B) = (q \o A) \o B BY <1>4, ConcatAssociative, SMTT(30)
  <2> QED BY <1>2, <2>2, <2>3
<1>8. CASE d # c
  <2>1. \A x \in View : /\ Effect(x, a, c) = x /\ Effect(x, b, c) = x /\ Effect(x, e, c) = x
    BY <1>1, <1>8, EffectFacts
  <2> DEFINE U == W \cap View
  <2>2. q1 \in Seq(Answer) /\ Leads(q1, v, c, U)
    <3>1. /\ A = <<a>> => \A x \in W \cap View : Effect(x, a, c) \in U
          /\ A = <<>> => W \cap View \subseteq U
      BY <2>1
    <3> HIDE DEF U
    <3> QED BY <1>1, <1>3, <3>1, LeadsBy
  <2> HIDE DEF q1
  <2>3. q2 \in Seq(Answer) /\ Leads(q2, v, c, U)
    <3>1. /\ B = <<b>> => \A x \in U \cap View : Effect(x, b, c) \in U
          /\ B = <<>> => U \cap View \subseteq U
      BY <2>1
    <3> HIDE DEF U
    <3> QED BY <1>1, <1>3, <2>2, <3>1, LeadsBy
  <2> HIDE DEF q2
  <2>4. \A x \in U \cap View : Effect(x, e, c) \in V BY <1>8, <2>1
  <2> HIDE DEF U
  <2> DEFINE p == <<e>>
  <2>5. p # <<>> /\ p = <<e>> BY <1>6
  <2> HIDE DEF p
  <2>6. Leads(q2 \o p, v, c, V) /\ q2 \o p \in Seq(Answer)
    BY <1>1, <2>3, <2>4, <2>5, LeadsBy
  <2> QED BY <1>7, <2>6 DEF p
<1>9. CASE d = c
  <2> DEFINE no == FALSE
             W1 == {x \in View : (x = Off /\ Off \in W) \/ (Me \in members /\ x = Seen({Me}, no))}
             W2 == {x \in View : (x = Off /\ Off \in W) \/ (Me \in members /\ x = Seen(members, no))}
  <2>1. no \in BOOLEAN /\ {Me} \in SUBSET {Me, Other} /\ {} \in SUBSET {Me, Other} OBVIOUS
  <2>2. \A u, w : Seen(u \cup w, FALSE) = Seen(u \cup w, no) OBVIOUS
  <2> HIDE DEF no
  <2>3. Off \in View /\ Seen({Me}, no) \in View /\ Seen(members, no) \in View BY <2>1, Views
  <2>4. /\ Seen({Me}, no).on /\ Seen({Me}, no).users = {Me} /\ ~Seen({Me}, no).ends
        /\ Seen(members, no).on /\ Seen(members, no).users = members
    BY <2>1, <2>2, Views DEF no
  <2>c. /\ \A x \in View : x.on => /\ Effect(x, a, c) = Updated(x, a)
                                 /\ Effect(x, b, c) = Updated(x, b)
                                 /\ Effect(x, e, c) = Updated(x, e)
    <3> SUFFICES ASSUME NEW x \in View, x.on
                 PROVE  /\ Effect(x, a, c) = Updated(x, a) /\ Effect(x, b, c) = Updated(x, b)
                        /\ Effect(x, e, c) = Updated(x, e)
      OBVIOUS
    <3>1. a.chan = c /\ b.chan = c /\ e.chan = c BY <1>1, <1>9
    <3>2. /\ a.cmd \in {"NAMES", "END", "JOIN", "PART"} /\ b.cmd \in {"NAMES", "END", "JOIN", "PART"}
          /\ e.cmd \in {"NAMES", "END", "JOIN", "PART"}
      BY <1>1
    <3>3. Effect(x, a, c) = Updated(x, a) BY <1>1, <3>1, <3>2, EffectFacts, Zenon
    <3>4. Effect(x, b, c) = Updated(x, b) BY <1>1, <3>1, <3>2, EffectFacts, Zenon
    <3>5. Effect(x, e, c) = Updated(x, e) BY <1>1, <3>1, <3>2, EffectFacts, Zenon
    <3> QED BY <3>3, <3>4, <3>5
  <2>5. Effect(Off, a, c) = Off /\ Effect(Off, b, c) = Off /\ Effect(Off, e, c) = Off
    <3>1. a.cmd # "UJOIN" /\ b.cmd # "UJOIN" /\ e.cmd # "UJOIN" BY <1>1
    <3>2. Effect(Off, a, c) = Off BY <3>1, OffStays, Zenon
    <3>3. Effect(Off, b, c) = Off BY <3>1, OffStays, Zenon
    <3>4. Effect(Off, e, c) = Off BY <3>1, OffStays, Zenon
    <3> QED BY <3>2, <3>3, <3>4
  <2>6. \A x \in W \cap View : Me \in members => Effect(x, a, c) \in W1
    <3> SUFFICES ASSUME NEW x \in W \cap View, Me \in members PROVE Effect(x, a, c) \in W1
      OBVIOUS
    <3>1. CASE x = Off BY <2>3, <2>5, <3>1
    <3>2. CASE x # Off
      <4>1. x.on /\ (x.ends \/ x.users = {}) BY <1>9, <3>2
      <4>2. Effect(x, a, c) = Updated(x, a) BY <2>c, <4>1
      <4>3. Updated(x, a) = Seen((IF x.ends THEN {} ELSE x.users) \cup {Me}, FALSE)
        BY <1>1, UpdatedFacts
      <4>4. (IF x.ends THEN {} ELSE x.users) \cup {Me} = {Me} BY <4>1
      <4>5. Effect(x, a, c) = Seen({Me}, no) BY <4>2, <4>3, <4>4 DEF no
      <4> QED BY <2>3, <4>5
    <3> QED BY <3>1, <3>2
  <2>7. Me \notin members => W \cap View \subseteq W1 BY <1>9, <2>3
  <2>8. \A x \in W1 \cap View : Other \in members => Effect(x, b, c) \in W2
    <3> SUFFICES ASSUME NEW x \in W1 \cap View, Other \in members PROVE Effect(x, b, c) \in W2
      OBVIOUS
    <3>1. CASE x = Off /\ Off \in W BY <2>3, <2>5, <3>1
    <3>2. CASE Me \in members /\ x = Seen({Me}, no)
      <4>1. Effect(x, b, c) = Updated(x, b) BY <2>3, <2>4, <2>c, <3>2
      <4>2. Updated(x, b) = Seen((IF x.ends THEN {} ELSE x.users) \cup {Other}, FALSE)
        BY <1>1, UpdatedFacts
      <4>3. (IF x.ends THEN {} ELSE x.users) \cup {Other} = members BY <2>4, <3>2
      <4>4. Effect(x, b, c) = Seen(members, no) BY <4>1, <4>2, <4>3 DEF no
      <4> QED BY <2>3, <3>2, <4>4
    <3> QED BY <3>1, <3>2
  <2>9. Other \notin members => W1 \cap View \subseteq W2
    <3>1. Other \notin members /\ Me \in members => members = {Me} OBVIOUS
    <3> QED BY <3>1
  <2>10. \A x \in W2 \cap View : Effect(x, e, c) \in V
    <3> SUFFICES ASSUME NEW x \in W2 \cap View PROVE Effect(x, e, c) \in V OBVIOUS
    <3>1. CASE x = Off /\ Off \in W BY <1>9, <2>5, <3>1
    <3>2. CASE Me \in members /\ x = Seen(members, no)
      <4>1. Effect(x, e, c) = Updated(x, e) BY <2>3, <2>4, <2>c, <3>2
      <4>2. Updated(x, e) = Seen(x.users, TRUE) BY <1>1, UpdatedFacts
      <4> QED BY <1>9, <2>4, <3>2, <4>1, <4>2
    <3> QED BY <3>1, <3>2
  <2> HIDE DEF W1, W2, no
  <2>11. q1 \in Seq(Answer) /\ Leads(q1, v, c, W1)
    BY <1>1, <1>3, <1>5, <1>6, <2>6, <2>7, LeadsBy
  <2> HIDE DEF q1
  <2>12. q2 \in Seq(Answer) /\ Leads(q2, v, c, W2)
    BY <1>1, <1>3, <1>5, <1>6, <2>8, <2>9, <2>11, LeadsBy
  <2> HIDE DEF q2
  <2> DEFINE p == <<e>>
  <2>13. p # <<>> /\ p = <<e>> BY <1>6
  <2> HIDE DEF p
  <2>14. Leads(q2 \o p, v, c, V) /\ q2 \o p \in Seq(Answer)
    BY <1>1, <2>10, <2>12, <2>13, LeadsBy
  <2> QED BY <1>7, <2>14 DEF p
<1> QED BY <1>8, <1>9

-----------------------------------------------------------------------------
(* What keeps the invariant: a step that leaves the channels of the tabs   *)
(* and what the server has as they are, and one that concerns one server.  *)

Others ==
    /\ joindelay \in [Serv -> BOOLEAN]
    /\ \A s \in Serv : joindelay[s] => stat[s] = "in"
    /\ banned \in [Serv -> SUBSET Chan] /\ want \in [Serv -> SUBSET Chan]
    /\ events \in 0..MaxEvents /\ features \in Scenarios

Links ==
    /\ stat \in [Serv -> {"down", "connecting", "in"}]
    /\ out \in [Serv -> Seq(Line)] /\ inq \in [Serv -> Seq(Answer)]
    /\ \A s \in Serv : stat[s] # "in" => out[s] = <<>> /\ inq[s] = <<>>
    /\ ircd \in [Serv -> [Chan -> SUBSET {Me, Other}]]

LEMMA Types == TypeOK <=> tabs \in Seq(Tab) /\ Links /\ Others
BY DEF TypeOK, Links, Others

(* us has the channels of ts, each with the same view. *)
SameChannels(ts, us) ==
    /\ us \in Seq(Tab) /\ Unique(us)
    /\ \A st : OnlyIn(ts, st) => OnlyIn(us, st)
    /\ \A r \in Serv, c \in Chan, v \in View : Shows(ts, r, c, v) => Shows(us, r, c, v)

LEMMA AlikeIsSame ==
  ASSUME NEW ts, NEW us \in Seq(Tab), Unique(ts), Alike(ts, us)
  PROVE  SameChannels(ts, us)
BY AlikeFacts DEF SameChannels

LEMMA SameView ==
  ASSUME NEW ts, NEW us, NEW st, NEW q, NEW o, NEW p, NEW m, NEW s, NEW c,
         Agrees(ts, st, q, o, m, s, c), Parting(o, c) => Parting(p, c),
         \A v \in View : Shows(ts, s, c, v) => Shows(us, s, c, v)
  PROVE  Agrees(us, st, q, p, m, s, c)
<1>1. ASSUME Follows(ts, q, o, m, s, c) PROVE Follows(us, q, p, m, s, c)
  <2>1. PICK v \in View : Shows(ts, s, c, v) /\ Leads(q, v, c, Fitting(m, o, c))
    BY <1>1 DEF Follows
  <2>2. Leads(q, v, c, Fitting(m, p, c)) BY <2>1, FittingWider, LeadsWider
  <2> QED BY <2>1, <2>2 DEF Follows
<1> QED BY <1>1 DEF Agrees

LEMMA OneServer ==
  ASSUME IInv, TypeOK', Unique(tabs'), OnlyIn(tabs', stat'), NEW s \in Serv,
         \A r \in Serv : r # s => /\ stat'[r] = stat[r] /\ inq'[r] = inq[r]
                                  /\ out'[r] = out[r] /\ ircd'[r] = ircd[r],
         \A r \in Serv, c \in Chan, v \in View :
           r # s /\ Shows(tabs, r, c, v) => Shows(tabs', r, c, v),
         \A c \in Chan : Agrees(tabs', stat'[s], inq'[s], out'[s], ircd'[s][c], s, c)
  PROVE  IInv'
<1>1. ASSUME NEW r \in Serv, NEW c \in Chan
      PROVE  Agrees(tabs', stat'[r], inq'[r], out'[r], ircd'[r][c], r, c)
  <2>1. CASE r = s BY <2>1
  <2>2. CASE r # s
    <3>1. Agrees(tabs, stat[r], inq[r], out[r], ircd[r][c], r, c) BY DEF IInv
    <3>2. \A v \in View : Shows(tabs, r, c, v) => Shows(tabs', r, c, v) BY <2>2
    <3>p. Parting(out[r], c) => Parting(out[r], c) OBVIOUS
    <3>3. Agrees(tabs', stat[r], inq[r], out[r], ircd[r][c], r, c)
      BY <3>1, <3>2, <3>p, SameView
    <3> QED BY <2>2, <3>3
  <2> QED BY <2>1, <2>2
<1> QED BY <1>1 DEF IInv

LEMMA SendFacts ==
  ASSUME Links, NEW s \in Serv, NEW lines \in Seq(Line), Send(s, lines)
  PROVE  /\ out' \in [Serv -> Seq(Line)] /\ out'[s] = out[s] \o lines
         /\ \A r \in Serv : r # s => out'[r] = out[r]
         /\ \A c : Parting(out[s], c) => Parting(out'[s], c)
<1>1. out \in [Serv -> Seq(Line)] /\ out' = [out EXCEPT ![s] = out[s] \o lines]
  BY DEF Links, Send
<1>2. out[s] \in Seq(Line) BY <1>1
<1> DEFINE p == out[s] \o lines
<1>3. p \in Seq(Line) /\ \A c : Parting(out[s], c) => Parting(p, c) BY <1>2, SentParting
<1>4. out' = [out EXCEPT ![s] = p] BY <1>1
<1> HIDE DEF p
<1>5. /\ out' \in [Serv -> Seq(Line)] /\ out'[s] = p
      /\ \A r \in Serv : r # s => out'[r] = out[r]
  BY <1>1, <1>3, <1>4
<1> QED BY <1>3, <1>5 DEF p

(* The client writes lines, or none, and changes no channel of a tab. *)
LEMMA TalkStep ==
  ASSUME IInv, NEW s \in Serv, SameChannels(tabs, tabs'), Others',
         stat' = stat, inq' = inq, ircd' = ircd,
         out' = out \/ (stat[s] = "in" /\ \E lines \in Seq(Line) : Send(s, lines))
  PROVE  IInv'
<1>1. tabs \in Seq(Tab) /\ Links /\ Others BY Types DEF IInv
<1>2. /\ out' \in [Serv -> Seq(Line)] /\ \A r \in Serv : r # s => out'[r] = out[r]
      /\ \A c : Parting(out[s], c) => Parting(out'[s], c)
      /\ stat[s] # "in" => out'[s] = out[s]
  <2>1. CASE out' = out BY <1>1, <2>1 DEF Links
  <2>2. CASE stat[s] = "in" /\ \E lines \in Seq(Line) : Send(s, lines)
    BY <1>1, <2>2, SendFacts
  <2> QED BY <2>1, <2>2
<1>3. Links' BY <1>1, <1>2 DEF Links
<1>4. TypeOK'
  <2>1. tabs' \in Seq(Tab) BY DEF SameChannels
  <2>2. TypeOK' <=> tabs' \in Seq(Tab) /\ Links' /\ Others'
    BY DEF TypeOK, Links, Others
  <2> QED BY <1>3, <2>1, <2>2
<1>5. Unique(tabs') /\ OnlyIn(tabs', stat') BY DEF SameChannels, IInv
<1>6. \A r \in Serv, c \in Chan, v \in View : Shows(tabs, r, c, v) => Shows(tabs', r, c, v)
  BY DEF SameChannels
<1>7. ASSUME NEW c \in Chan PROVE Agrees(tabs', stat'[s], inq'[s], out'[s], ircd'[s][c], s, c)
  <2>1. Agrees(tabs, stat[s], inq[s], out[s], ircd[s][c], s, c) BY DEF IInv
  <2>2. \A v \in View : Shows(tabs, s, c, v) => Shows(tabs', s, c, v) BY <1>6
  <2>3. Parting(out[s], c) => Parting(out'[s], c) BY <1>2
  <2>4. Agrees(tabs', stat[s], inq[s], out'[s], ircd[s][c], s, c)
    BY <2>1, <2>2, <2>3, SameView, Zenon
  <2> QED BY <2>4
<1>8. \A r \in Serv : r # s => /\ stat'[r] = stat[r] /\ inq'[r] = inq[r]
                               /\ out'[r] = out[r] /\ ircd'[r] = ircd[r]
  BY <1>2
<1>9. \A r \in Serv, c \in Chan, v \in View :
        r # s /\ Shows(tabs, r, c, v) => Shows(tabs', r, c, v)
  BY <1>6
<1> QED BY <1>4, <1>5, <1>7, <1>8, <1>9, OneServer

(* Lines of the server s and of the client are read and written while s is *)
(* connected.                                                              *)
LEMMA ServedStep ==
  ASSUME IInv, NEW s \in Serv, stat[s] = "in", stat' = stat, Others',
         tabs' \in Seq(Tab), Unique(tabs'), OnlyIn(tabs', stat),
         out' \in [Serv -> Seq(Line)], inq' \in [Serv -> Seq(Answer)],
         ircd' \in [Serv -> [Chan -> SUBSET {Me, Other}]],
         \A r \in Serv : r # s => inq'[r] = inq[r] /\ out'[r] = out[r] /\ ircd'[r] = ircd[r],
         \A r \in Serv, c \in Chan, v \in View :
           r # s /\ Shows(tabs, r, c, v) => Shows(tabs', r, c, v),
         \A c \in Chan : Follows(tabs', inq'[s], out'[s], ircd'[s][c], s, c)
  PROVE  IInv'
<1>1. tabs \in Seq(Tab) /\ Links /\ Others BY Types DEF IInv
<1>2. Links' BY <1>1 DEF Links
<1>3. TypeOK'
  <2>1. TypeOK' <=> tabs' \in Seq(Tab) /\ Links' /\ Others'
    BY DEF TypeOK, Links, Others
  <2> QED BY <1>2, <2>1
<1>4. \A c \in Chan : Agrees(tabs', stat'[s], inq'[s], out'[s], ircd'[s][c], s, c)
  BY DEF Agrees
<1>5. OnlyIn(tabs', stat') OBVIOUS
<1>6. \A r \in Serv : r # s => /\ stat'[r] = stat[r] /\ inq'[r] = inq[r]
                               /\ out'[r] = out[r] /\ ircd'[r] = ircd[r]
  OBVIOUS
<1> QED BY <1>3, <1>4, <1>5, <1>6, OneServer

-----------------------------------------------------------------------------
(* The steps of the client and its user. *)

LEMMA EventTyped == ASSUME Others, Event PROVE events' \in 0..MaxEvents
BY ChannelsAssumption DEF Others, Event

LEMMA IsSame == ASSUME NEW ts \in Seq(Tab), Unique(ts) PROVE SameChannels(ts, ts)
BY DEF SameChannels

LEMMA ConnectStep == ASSUME IInv, NEW s \in Serv, Connect(s) PROVE IInv'
<1>1. tabs \in Seq(Tab) /\ Links /\ Others BY Types DEF IInv
<1>2. /\ stat[s] = "down" /\ stat' = [stat EXCEPT ![s] = "connecting"]
      /\ tabs' = tabs /\ joindelay' = joindelay /\ out' = out /\ inq' = inq /\ ircd' = ircd
      /\ banned' = banned /\ features' = features
      /\ want' = [want EXCEPT ![s] = IF May("favs") THEN Fav ELSE {}]
      /\ events' \in 0..MaxEvents
  BY <1>1, EventTyped DEF Connect, world
<1>3. stat'[s] = "connecting" /\ \A r \in Serv : r # s => stat'[r] = stat[r]
  BY <1>1, <1>2 DEF Links
<1>4. Links'
  <2>1. stat' \in [Serv -> {"down", "connecting", "in"}] BY <1>1, <1>2 DEF Links
  <2>2. \A r \in Serv : stat'[r] # "in" => out[r] = <<>> /\ inq[r] = <<>>
    BY <1>1, <1>2, <1>3 DEF Links
  <2> QED BY <1>1, <1>2, <2>1, <2>2 DEF Links
<1>5. Others'
  <2>1. want' \in [Serv -> SUBSET Chan]
    <3> DEFINE w == IF May("favs") THEN Fav ELSE {}
    <3>1. w \in SUBSET Chan BY ChannelsAssumption
    <3> HIDE DEF w
    <3> QED BY <1>1, <1>2, <3>1 DEF Others, w
  <2>2. \A r \in Serv : joindelay[r] => stat'[r] = "in"
    BY <1>1, <1>2, <1>3 DEF Others
  <2> QED BY <1>1, <1>2, <2>1, <2>2 DEF Others
<1>6. TypeOK'
  <2>1. TypeOK' <=> tabs' \in Seq(Tab) /\ Links' /\ Others' BY DEF TypeOK, Links, Others
  <2> QED BY <1>1, <1>2, <1>4, <1>5, <2>1
<1>7. Unique(tabs') /\ OnlyIn(tabs', stat')
  <2>1. \A i \in 1..Len(tabs) : tabs[i].serv \in Serv BY <1>1, LenProperties, TabTyped
  <2> QED BY <1>2, <1>3, <2>1 DEF IInv, OnlyIn
<1>8. \A c \in Chan : Agrees(tabs', stat'[s], inq'[s], out'[s], ircd'[s][c], s, c)
  BY <1>2, <1>3 DEF IInv, Agrees
<1> QED BY <1>2, <1>3, <1>6, <1>7, <1>8, OneServer

(* Joining the channels of tabs or the favourites. *)
LEMMA SetToSeqFacts ==
  ASSUME NEW S, IsFiniteSet(S)
  PROVE  SetToSeq(S) \in Seq(S)
<1> DEFINE n == Cardinality(S)
<1>1. n \in Nat /\ ExistsBijection(1..n, S) BY FS_CardinalityType
<1> HIDE DEF n
<1>2. \E f \in [1..n -> S] : IsInjective(f)
  BY <1>1 DEF ExistsBijection, Bijection, Injection, IsInjective
<1>3. SetToSeq(S) \in [1..n -> S] BY <1>2 DEF SetToSeq, n
<1> QED BY <1>1, <1>3, SeqDef

(* Each element of S is at some place. *)
LEMMA SetToSeqAll ==
  ASSUME NEW S, IsFiniteSet(S)
  PROVE  \A x \in S : \E i \in 1..Len(SetToSeq(S)) : SetToSeq(S)[i] = x
<1> DEFINE n == Cardinality(S)  f == SetToSeq(S)
<1>1. n \in Nat /\ ExistsBijection(1..n, S) BY FS_CardinalityType
<1>2. IsFiniteSet(1..n) /\ Cardinality(1..n) = n
  <2> HIDE DEF n
  <2>1. 1 \in Int /\ n \in Int BY <1>1
  <2>2. Cardinality(1..n) = IF 1 > n THEN 0 ELSE n - 1 + 1 BY <2>1, FS_Interval
  <2>3. IsFiniteSet(1..n) BY <2>1, FS_Interval
  <2> QED BY <1>1, <2>2, <2>3
<1> HIDE DEF n
<1>3. \E g \in [1..n -> S] : IsInjective(g)
  BY <1>1 DEF ExistsBijection, Bijection, Injection, IsInjective
<1>4. f \in [1..n -> S] /\ IsInjective(f) BY <1>3 DEF SetToSeq, n
<1> HIDE DEF f
<1>5. f \in Injection(1..n, S) BY <1>4 DEF Injection
<1>6. f \in Surjection(1..n, S) BY <1>2, <1>5, FS_Injection DEF n
<1>7. \A x \in S : \E i \in 1..n : f[i] = x BY <1>6 DEF Surjection
<1>8. Len(f) = n
  <2>1. f \in Seq(S) BY <1>1, <1>4, SeqDef
  <2>2. DOMAIN f = 1..Len(f) /\ Len(f) \in Nat BY <2>1, LenProperties
  <2> QED BY <1>1, <1>4, <2>2
<1> QED BY <1>7, <1>8 DEF f

LEMMA JoinListTyped ==
  ASSUME NEW chans \in Seq(Chan)
  PROVE  irc_join_list(chans) \in Seq(Line)
<1> DEFINE n == Len(chans)
<1>1. n \in Nat /\ DOMAIN chans = 1..n /\ \A i \in 1..n : chans[i] \in Chan BY LenProperties
<1> HIDE DEF n
<1>2. \A i \in 1..n : ToLine("JOIN", chans[i]) \in Line BY <1>1, Lines
<1>3. irc_join_list(chans) \in [1..n -> Line] BY <1>1, <1>2 DEF irc_join_list
<1> QED BY <1>1, <1>3, SeqDef

(* What is joined: the channels that the tabs of s are marked with, or the *)
(* favourites if none is.                                                  *)
LEMMA AutoJoinLines ==
  ASSUME tabs \in Seq(Tab), NEW s \in Serv, AutoJoin(s)
  PROVE  \E chans \in Seq(Chan) :
           /\ Send(s, irc_join_list(chans))
           /\ \A c \in Chan : (\E i \in 1..Len(chans) : chans[i] = c) <=>
                IF \E i \in 1..Len(tabs) : tabs[i].serv = s /\ tabs[i].will # None
                THEN \E i \in 1..Len(tabs) : tabs[i].serv = s /\ tabs[i].will = c
                ELSE May("favs") /\ c \in Fav
<1> DEFINE marked == {i \in DOMAIN tabs : tabs[i].serv = s /\ tabs[i].will # None}
           order == SetToSeq(marked)
           favs == IF May("favs") THEN SetToSeq(Fav) ELSE <<>>
           willed == [k \in DOMAIN order |-> tabs[order[k]].will]
           chans == IF marked # {} THEN willed ELSE favs
           n == Len(tabs)
<1>1. Send(s, irc_join_list(chans)) BY DEF AutoJoin
<1>2. n \in Nat /\ DOMAIN tabs = 1..n /\ \A i \in 1..n : tabs[i] \in Tab BY LenProperties
<1>3. \A i \in marked : i \in 1..n /\ tabs[i].will \in Chan BY <1>2, TabTyped
<1>4. /\ willed \in Seq(Chan)
      /\ \A c : (\E i \in 1..Len(willed) : willed[i] = c) <=> \E i \in marked : tabs[i].will = c
  <2>1. IsFiniteSet(marked)
    <3>1. IsFiniteSet(1..n) BY <1>2, FS_Interval
    <3>2. marked \subseteq 1..n BY <1>3
    <3> HIDE DEF marked, n
    <3> QED BY <3>1, <3>2, FS_Subset
  <2> DEFINE k == Len(order)
  <2>2. order \in Seq(marked) /\ \A x \in marked : \E i \in 1..k : order[i] = x
    <3> HIDE DEF marked
    <3> QED BY <2>1, SetToSeqFacts, SetToSeqAll
  <2>3. k \in Nat /\ DOMAIN order = 1..k /\ \A i \in 1..k : order[i] \in marked
    <3> HIDE DEF order, marked
    <3> QED BY <2>2, LenProperties
  <2>4. \A i \in 1..k : tabs[order[i]].will \in Chan
    <3> HIDE DEF order, marked, k
    <3> QED BY <1>3, <2>3
  <2>5. willed \in [1..k -> Chan] /\ \A i \in 1..k : willed[i] = tabs[order[i]].will
    <3> HIDE DEF order, k
    <3> QED BY <2>3, <2>4
  <2> HIDE DEF willed, k, order, marked
  <2>6. willed \in Seq(Chan) BY <2>3, <2>5, SeqDef
  <2>7. Len(willed) = k
    <3>1. DOMAIN willed = 1..k /\ DOMAIN willed = 1..Len(willed) /\ Len(willed) \in Nat
      BY <2>5, <2>6, LenProperties
    <3> QED BY <2>3, <3>1
  <2>8. ASSUME NEW c
        PROVE  (\E i \in 1..k : willed[i] = c) <=> \E i \in marked : tabs[i].will = c
    BY <2>2, <2>3, <2>5, SMTT(30)
  <2> QED BY <2>6, <2>7, <2>8
<1>5. /\ favs \in Seq(Chan)
      /\ \A c : (\E i \in 1..Len(favs) : favs[i] = c) <=> May("favs") /\ c \in Fav
  <2> DEFINE f == SetToSeq(Fav)
  <2>1. f \in Seq(Fav) /\ \A x \in Fav : \E i \in 1..Len(f) : f[i] = x
    BY ChannelsAssumption, SetToSeqFacts, SetToSeqAll
  <2> HIDE DEF f
  <2>2. f \in Seq(Chan) BY <2>1, ChannelsAssumption, SeqMonotonic
  <2>3. \A i \in 1..Len(f) : f[i] \in Fav BY <2>1, LenProperties
  <2>4. CASE May("favs")
    <3>1. favs = f BY <2>4 DEF f
    <3> HIDE DEF favs
    <3> QED BY <2>1, <2>2, <2>3, <2>4, <3>1
  <2>5. CASE ~May("favs")
    <3>1. favs = <<>> BY <2>5
    <3> HIDE DEF favs
    <3>2. favs \in Seq(Chan) /\ Len(favs) = 0 BY <3>1, EmptySeq
    <3>3. \A i \in 1..Len(favs) : FALSE BY <3>2
    <3> QED BY <2>5, <3>2, <3>3
  <2> QED BY <2>4, <2>5
<1>6. marked # {} <=> \E i \in 1..n : tabs[i].serv = s /\ tabs[i].will # None BY <1>2
<1>7. ASSUME NEW c \in Chan
      PROVE  (\E i \in marked : tabs[i].will = c) <=>
                \E i \in 1..n : tabs[i].serv = s /\ tabs[i].will = c
  BY <1>2, ChanIsNotNone
<1> HIDE DEF willed, favs, marked
<1>8. chans \in Seq(Chan) BY <1>4, <1>5
<1>9. ASSUME NEW c \in Chan
      PROVE  (\E i \in 1..Len(chans) : chans[i] = c) <=>
                IF \E i \in 1..n : tabs[i].serv = s /\ tabs[i].will # None
                THEN \E i \in 1..n : tabs[i].serv = s /\ tabs[i].will = c
                ELSE May("favs") /\ c \in Fav
  <2>1. CASE marked # {}
    <3>1. chans = willed BY <2>1
    <3> HIDE DEF chans, n
    <3> QED BY <1>4, <1>6, <1>7, <2>1, <3>1
  <2>2. CASE marked = {}
    <3>1. chans = favs BY <2>2
    <3> HIDE DEF chans, n
    <3> QED BY <1>5, <1>6, <2>2, <3>1
  <2> QED BY <2>1, <2>2
<1> HIDE DEF chans
<1> QED BY <1>1, <1>8, <1>9

(* The marks are taken from the tabs of s.                                 *)
LEMMA AutoJoinTabs ==
  ASSUME tabs \in Seq(Tab), NEW s \in Serv, AutoJoin(s)
  PROVE  /\ tabs' \in Seq(Tab) /\ Alike(tabs, tabs')
         /\ \A i \in 1..Len(tabs) :
              /\ tabs[i].serv = s => tabs'[i].will = None
              /\ tabs[i].serv # s => tabs'[i] = tabs[i]
<1> DEFINE marked == {i \in DOMAIN tabs : tabs[i].serv = s /\ tabs[i].will # None}
           moved(i) == [tabs[i] EXCEPT !.wait = tabs[i].will, !.will = None]
           n == Len(tabs)
<1>1. tabs' = [i \in DOMAIN tabs |-> IF i \in marked THEN moved(i) ELSE tabs[i]]
  BY DEF AutoJoin
<1>2. n \in Nat /\ DOMAIN tabs = 1..n /\ \A i \in 1..n : tabs[i] \in Tab BY LenProperties
<1>3. ASSUME NEW i \in 1..n
      PROVE  LET t == IF i \in marked THEN moved(i) ELSE tabs[i]
             IN t \in Tab /\ t.serv = tabs[i].serv /\ t.channel = tabs[i].channel
                /\ t.users = tabs[i].users /\ t.end_of_names = tabs[i].end_of_names
                /\ (tabs[i].serv = s => t.will = None) /\ (tabs[i].serv # s => t = tabs[i])
  <2>1. tabs[i] \in Tab BY <1>2
  <2>2. tabs[i].will \in Chan \cup {None} /\ None \in Chan \cup {None} BY <2>1, TabTyped
  <2>3. /\ moved(i) \in Tab /\ moved(i).serv = tabs[i].serv /\ moved(i).channel = tabs[i].channel
        /\ moved(i).users = tabs[i].users /\ moved(i).end_of_names = tabs[i].end_of_names
        /\ moved(i).will = None
    BY <2>1, <2>2 DEF Tab
  <2>4. i \in marked <=> tabs[i].serv = s /\ tabs[i].will # None BY <1>2
  <2> HIDE DEF moved, marked
  <2> QED BY <2>1, <2>3, <2>4
<1> HIDE DEF moved, marked
<1>4. tabs' \in [1..n -> Tab] /\ \A i \in 1..n :
        /\ tabs'[i].serv = tabs[i].serv /\ tabs'[i].channel = tabs[i].channel
        /\ tabs'[i].users = tabs[i].users /\ tabs'[i].end_of_names = tabs[i].end_of_names
        /\ (tabs[i].serv = s => tabs'[i].will = None) /\ (tabs[i].serv # s => tabs'[i] = tabs[i])
  BY <1>1, <1>2, <1>3
<1>5. tabs' \in Seq(Tab) /\ Len(tabs') = n
  <2> HIDE DEF n
  <2>1. tabs' \in Seq(Tab) BY <1>2, <1>4, SeqDef
  <2>2. DOMAIN tabs' = 1..n /\ DOMAIN tabs' = 1..Len(tabs') /\ Len(tabs') \in Nat
    BY <1>4, <2>1, LenProperties
  <2> QED BY <1>2, <2>1, <2>2
<1>6. Alike(tabs, tabs') BY <1>4, <1>5 DEF Alike
<1> QED BY <1>4, <1>5, <1>6

LEMMA AutoJoinFacts ==
  ASSUME tabs \in Seq(Tab), Unique(tabs), NEW s \in Serv, AutoJoin(s)
  PROVE  SameChannels(tabs, tabs') /\ \E lines \in Seq(Line) : Send(s, lines)
BY AutoJoinLines, AutoJoinTabs, AlikeIsSame, JoinListTyped

LEMMA CheckAutojoinStep ==
  ASSUME IInv, NEW s \in Serv, check_autojoin_channels(s) PROVE IInv'
<1>1. tabs \in Seq(Tab) /\ Links /\ Others /\ Unique(tabs) BY Types DEF IInv
<1>2. /\ joindelay[s] /\ joindelay' = [joindelay EXCEPT ![s] = FALSE]
      /\ AutoJoin(s) /\ stat' = stat /\ inq' = inq /\ ircd' = ircd
      /\ banned' = banned /\ features' = features /\ want' = want /\ events' = events
  BY DEF check_autojoin_channels, world
<1>3. stat[s] = "in" BY <1>1, <1>2 DEF Others
<1>4. Others'
  <2> DEFINE no == FALSE
  <2>1. no \in BOOLEAN /\ ~no /\ joindelay' = [joindelay EXCEPT ![s] = no] BY <1>2
  <2> HIDE DEF no
  <2>2. joindelay' \in [Serv -> BOOLEAN] BY <1>1, <2>1 DEF Others
  <2>3. \A r \in Serv : joindelay'[r] => joindelay[r] BY <1>1, <2>1 DEF Others
  <2> QED BY <1>1, <1>2, <2>2, <2>3 DEF Others
<1>5. SameChannels(tabs, tabs') /\ \E lines \in Seq(Line) : Send(s, lines)
  BY <1>1, <1>2, AutoJoinFacts
<1> QED BY <1>2, <1>3, <1>4, <1>5, TalkStep

LEMMA LoginEndStep == ASSUME IInv, NEW s \in Serv, inbound_login_end(s) PROVE IInv'
<1>1. tabs \in Seq(Tab) /\ Links /\ Others /\ Unique(tabs) /\ OnlyIn(tabs, stat)
  BY Types DEF IInv
<1>2. /\ stat[s] = "connecting" /\ stat' = [stat EXCEPT ![s] = "in"]
      /\ \/ joindelay' = [joindelay EXCEPT ![s] = TRUE] /\ tabs' = tabs /\ out' = out
         \/ AutoJoin(s) /\ joindelay' = joindelay
      /\ inq' = inq /\ want' = want /\ events' = events
      /\ ircd' = ircd /\ banned' = banned /\ features' = features
  BY DEF inbound_login_end, world
<1>3. stat'[s] = "in" /\ stat' \in [Serv -> {"down", "connecting", "in"}]
      /\ \A r \in Serv : r # s => stat'[r] = stat[r]
  BY <1>1, <1>2 DEF Links
<1>4. /\ SameChannels(tabs, tabs') /\ out' \in [Serv -> Seq(Line)]
      /\ \A r \in Serv : r # s => out'[r] = out[r]
  <2>1. CASE tabs' = tabs /\ out' = out BY <1>1, <2>1, IsSame DEF Links
  <2>2. CASE AutoJoin(s) BY <1>1, <2>2, AutoJoinFacts, SendFacts
  <2> QED BY <1>2, <2>1, <2>2
<1>5. Others'
  <2>1. joindelay' \in [Serv -> BOOLEAN] /\ \A r \in Serv : r # s /\ joindelay'[r] => joindelay[r]
    <3> DEFINE yes == TRUE
    <3>1. yes \in BOOLEAN /\ (joindelay' = [joindelay EXCEPT ![s] = yes] \/ joindelay' = joindelay)
      BY <1>2
    <3> HIDE DEF yes
    <3>2. CASE joindelay' = joindelay BY <1>1, <3>2 DEF Others
    <3>3. CASE joindelay' = [joindelay EXCEPT ![s] = yes] BY <1>1, <3>1, <3>3 DEF Others
    <3> QED BY <3>1, <3>2, <3>3
  <2>2. \A r \in Serv : joindelay'[r] => stat'[r] = "in" BY <1>1, <1>3, <2>1 DEF Others
  <2> QED BY <1>1, <1>2, <2>1, <2>2 DEF Others
<1>6. Links' BY <1>1, <1>2, <1>3, <1>4 DEF Links
<1>7. TypeOK'
  <2>1. TypeOK' <=> tabs' \in Seq(Tab) /\ Links' /\ Others' BY DEF TypeOK, Links, Others
  <2> QED BY <1>4, <1>5, <1>6, <2>1 DEF SameChannels
<1>8. OnlyIn(tabs, stat')
  <2>1. \A i \in 1..Len(tabs) : tabs[i].serv \in Serv BY <1>1, LenProperties, TabTyped
  <2> QED BY <1>1, <1>3, <2>1 DEF OnlyIn
<1>9. Unique(tabs') /\ OnlyIn(tabs', stat') BY <1>4, <1>8 DEF SameChannels
<1>10. ASSUME NEW c \in Chan PROVE Agrees(tabs', stat'[s], inq'[s], out'[s], ircd'[s][c], s, c)
  <2>1. Me \notin ircd[s][c]
    <3>1. Agrees(tabs, stat[s], inq[s], out[s], ircd[s][c], s, c) BY DEF IInv
    <3> QED BY <1>2, <3>1 DEF Agrees
  <2>2. inq'[s] = <<>> BY <1>1, <1>2 DEF Links
  <2>3. Off \in View BY Views
  <2>4. Shows(tabs, s, c, Off)
    <3>1. At(tabs, s, c) = {} BY <1>1, <1>2, ChanIsNotNone DEF OnlyIn, At
    <3> QED BY <3>1 DEF Shows
  <2>5. Shows(tabs', s, c, Off) BY <1>4, <2>3, <2>4 DEF SameChannels
  <2>6. ircd[s][c] \in SUBSET {Me, Other} BY <1>1 DEF Links
  <2>7. Off \in Fitting(ircd[s][c], out'[s], c) BY <2>1, <2>6, FittingFacts
  <2>8. Leads(<<>>, Off, c, Fitting(ircd[s][c], out'[s], c)) BY <2>3, <2>7, LeadsNowhere
  <2>9. Follows(tabs', inq'[s], out'[s], ircd'[s][c], s, c)
    BY <1>2, <2>2, <2>3, <2>5, <2>8 DEF Follows
  <2> QED BY <1>3, <2>9 DEF Agrees
<1>11. \A r \in Serv, c \in Chan, v \in View :
         r # s /\ Shows(tabs, r, c, v) => Shows(tabs', r, c, v)
  BY <1>4 DEF SameChannels
<1> QED BY <1>2, <1>3, <1>4, <1>7, <1>9, <1>10, <1>11, OneServer

(* What users say leaves the rest as it is. *)
LEMMA OthersKept ==
  ASSUME Others, joindelay' = joindelay, stat' = stat, banned' = banned, features' = features,
         events' \in 0..MaxEvents, want' \in [Serv -> SUBSET Chan]
  PROVE  Others'
BY DEF Others

LEMMA WantTyped ==
  ASSUME Others, NEW s \in Serv
  PROVE  /\ \A c \in Chan : Wanted(s, c) => want' \in [Serv -> SUBSET Chan]
         /\ \A C : Unwanted(s, C) => want' \in [Serv -> SUBSET Chan]
<1>1. want \in [Serv -> SUBSET Chan] BY DEF Others
<1>2. ASSUME NEW c \in Chan, Wanted(s, c) PROVE want' \in [Serv -> SUBSET Chan]
  <2> DEFINE w == want[s] \cup {c}
  <2>1. w \in SUBSET Chan BY <1>1
  <2>2. want' = [want EXCEPT ![s] = w] BY <1>2 DEF Wanted
  <2> HIDE DEF w
  <2> QED BY <1>1, <2>1, <2>2
<1>3. ASSUME NEW C, Unwanted(s, C) PROVE want' \in [Serv -> SUBSET Chan]
  <2> DEFINE w == want[s] \ C
  <2>1. w \in SUBSET Chan BY <1>1
  <2>2. want' = [want EXCEPT ![s] = w] BY <1>3 DEF Unwanted
  <2> HIDE DEF w
  <2> QED BY <1>1, <2>1, <2>2
<1> QED BY <1>2, <1>3

LEMMA OpenTabStep == ASSUME IInv, NEW s \in Serv, OpenTab(s) PROVE IInv'
<1>1. tabs \in Seq(Tab) /\ Links /\ Others /\ Unique(tabs) BY Types DEF IInv
<1>2. /\ tabs' = <<NewTab(s, None)>> \o tabs
      /\ stat' = stat /\ joindelay' = joindelay /\ out' = out /\ inq' = inq /\ want' = want
      /\ ircd' = ircd /\ banned' = banned /\ features' = features
      /\ events' \in 0..MaxEvents
  BY <1>1, EventTyped DEF OpenTab, world
<1>3. Others' BY <1>1, <1>2, OthersKept DEF Others
<1> DEFINE t == NewTab(s, None)
<1>4. t \in Tab /\ t.serv = s /\ t.channel = None BY NewTabFacts
<1>5. tabs' = <<t>> \o tabs BY <1>2
<1> HIDE DEF t
<1>6. /\ tabs' \in Seq(Tab) /\ Unique(tabs')
      /\ \A st : OnlyIn(tabs, st) => OnlyIn(tabs', st)
      /\ \A r, v : \A c \in Chan :
           Shows(tabs, r, c, v) /\ (r # t.serv \/ c # t.channel) => Shows(tabs', r, c, v)
  <2> DEFINE us == tabs'
  <2>1. us = <<t>> \o tabs BY <1>5
  <2> HIDE DEF us
  <2>2. /\ us \in Seq(Tab) /\ Unique(us)
        /\ \A st : OnlyIn(tabs, st) /\ (t.channel # None => st[t.serv] = "in") => OnlyIn(us, st)
        /\ \A r, v : \A c \in Chan :
             Shows(tabs, r, c, v) /\ (r # t.serv \/ c # t.channel) => Shows(us, r, c, v)
    BY <1>1, <1>4, <2>1, PrependFacts
  <2> QED BY <1>4, <2>2 DEF us
<1>7. SameChannels(tabs, tabs') BY <1>4, <1>6, ChanIsNotNone DEF SameChannels
<1> QED BY <1>2, <1>3, <1>7, TalkStep

LEMMA JoinStep ==
  ASSUME IInv, NEW s \in Serv, NEW c \in Chan, NEW i \in 0..Len(tabs), cmd_join(s, c, i)
  PROVE  IInv'
<1>1. tabs \in Seq(Tab) /\ Links /\ Others /\ Unique(tabs) BY Types DEF IInv
<1> DEFINE a == ToLine("JOIN", c)  n == Len(tabs)
<1>2. /\ stat[s] = "in"
      /\ \/ tabs' = tabs /\ out' = out
         \/ /\ Send(s, <<a>>)
            /\ \/ tabs' = tabs
               \/ i # 0 /\ tabs' = [tabs EXCEPT ![i].wait = c]
      /\ stat' = stat /\ joindelay' = joindelay /\ inq' = inq /\ Wanted(s, c)
      /\ ircd' = ircd /\ banned' = banned /\ features' = features
      /\ events' \in 0..MaxEvents
  BY <1>1, EventTyped DEF cmd_join, Commands, world
<1>3. a \in Line BY Lines
<1> HIDE DEF a
<1>4. <<a>> \in Seq(Line) BY <1>3
<1>5. out' = out \/ (stat[s] = "in" /\ \E lines \in Seq(Line) : Send(s, lines)) BY <1>2, <1>4
<1>6. n \in Nat /\ \A j \in 1..n : tabs[j] \in Tab BY <1>1, LenProperties
<1>7. ASSUME i # 0, tabs' = [tabs EXCEPT ![i].wait = c] PROVE SameChannels(tabs, tabs')
  <2> DEFINE t == [tabs[i] EXCEPT !.wait = c]
  <2>1. i \in 1..n BY <1>6, <1>7
  <2>2. tabs[i] \in Tab BY <1>6, <2>1
  <2>3. /\ t \in Tab /\ t.serv = tabs[i].serv /\ t.channel = tabs[i].channel
        /\ t.users = tabs[i].users /\ t.end_of_names = tabs[i].end_of_names
    BY <2>2 DEF Tab
  <2>4. tabs' = [tabs EXCEPT ![i] = t] BY <1>7
  <2> HIDE DEF t
  <2>5. tabs' \in Seq(Tab) /\ Len(tabs') = n BY <1>1, <2>1, <2>3, <2>4, ExceptSeq
  <2>6. DOMAIN tabs = 1..n BY <1>1, LenProperties
  <2> HIDE DEF n
  <2>7. \A j \in 1..n : tabs'[j] = IF j = i THEN t ELSE tabs[j] BY <2>4, <2>6
  <2>8. Alike(tabs, tabs') BY <2>3, <2>5, <2>7 DEF Alike, n
  <2> QED BY <1>1, <2>5, <2>8, AlikeIsSame
<1>8. SameChannels(tabs, tabs') BY <1>1, <1>2, <1>7, IsSame
<1>9. want' \in [Serv -> SUBSET Chan] BY <1>1, <1>2, WantTyped
<1>10. Others' BY <1>1, <1>2, <1>9, OthersKept
<1> QED BY <1>2, <1>5, <1>8, <1>10, TalkStep

LEMMA AskStep ==
  ASSUME IInv, NEW s \in Serv, NEW c \in Chan,
         cmd_part(s, c) \/ cmd_cycle(s, c) \/ cmd_names(s, c)
  PROVE  IInv'
<1>1. tabs \in Seq(Tab) /\ Links /\ Others /\ Unique(tabs) BY Types DEF IInv
<1> DEFINE a == ToLine("JOIN", c)  b == ToLine("PART", c)  d == ToLine("NAMES", c)
<1>2. /\ stat[s] = "in" /\ (Send(s, <<b>>) \/ Send(s, <<b, a>>) \/ Send(s, <<d>>))
      /\ tabs' = tabs /\ stat' = stat /\ joindelay' = joindelay /\ inq' = inq
      /\ want' = want \/ Wanted(s, c) \/ Unwanted(s, {c})
      /\ ircd' = ircd /\ banned' = banned /\ features' = features
      /\ events' \in 0..MaxEvents
  BY <1>1, EventTyped DEF cmd_part, cmd_cycle, cmd_names, Commands, world
<1>3. a \in Line /\ b \in Line /\ d \in Line BY Lines
<1> HIDE DEF a, b, d
<1>4. <<b>> \in Seq(Line) /\ <<b, a>> \in Seq(Line) /\ <<d>> \in Seq(Line) BY <1>3
<1>5. \E lines \in Seq(Line) : Send(s, lines) BY <1>2, <1>4
<1>6. want' \in [Serv -> SUBSET Chan]
  <2>1. CASE want' = want BY <1>1, <2>1 DEF Others
  <2> QED BY <1>1, <1>2, <2>1, WantTyped
<1>7. Others' BY <1>1, <1>2, <1>6, OthersKept
<1>8. SameChannels(tabs, tabs') BY <1>1, <1>2, IsSame
<1> QED BY <1>2, <1>5, <1>7, <1>8, TalkStep

(* A connection that ends: the tabs of its server are cleared.             *)
LEMMA MarkedFacts ==
  ASSUME NEW ts \in Seq(Tab), NEW us, us = Marked(ts)
  PROVE  us \in Seq(Tab) /\ Alike(ts, us)
<1> DEFINE n == Len(ts)
           kept(t) == t.channel = None \/ May("norejoin")
           mark(t) == [t EXCEPT !.wait = t.channel, !.will = t.channel]
<1>1. n \in Nat /\ DOMAIN ts = 1..n /\ \A i \in 1..n : ts[i] \in Tab BY LenProperties
<1>2. us = [i \in DOMAIN ts |-> IF kept(ts[i]) THEN ts[i] ELSE mark(ts[i])] BY DEF Marked
<1>3. ASSUME NEW t \in Tab
      PROVE  /\ mark(t) \in Tab /\ mark(t).serv = t.serv /\ mark(t).channel = t.channel
             /\ mark(t).users = t.users /\ mark(t).end_of_names = t.end_of_names
  <2>1. t.channel \in Chan \cup {None} BY TabTyped
  <2> QED BY <2>1 DEF Tab
<1> HIDE DEF kept, mark, n
<1>4. us \in [1..n -> Tab] BY <1>1, <1>2, <1>3
<1>5. us \in Seq(Tab) BY <1>1, <1>4, SeqDef
<1>6. DOMAIN us = 1..n /\ DOMAIN us = 1..Len(us) /\ Len(us) \in Nat
  BY <1>4, <1>5, LenProperties
<1>7. Len(us) = n BY <1>1, <1>6
<1>8. \A i \in 1..n : /\ us[i].serv = ts[i].serv /\ us[i].channel = ts[i].channel
                      /\ us[i].users = ts[i].users /\ us[i].end_of_names = ts[i].end_of_names
  BY <1>1, <1>2, <1>3
<1>9. Alike(ts, us) BY <1>7, <1>8 DEF Alike, n
<1> QED BY <1>5, <1>9

LEMMA ClearedFacts ==
  ASSUME NEW ts \in Seq(Tab), Unique(ts), NEW s \in Serv, NEW us, us = Cleared(ts, s)
  PROVE  /\ us \in Seq(Tab) /\ Unique(us)
         /\ \A st, nst : /\ OnlyIn(ts, st)
                         /\ \A r \in Serv : r # s => nst[r] = st[r]
                         => OnlyIn(us, nst)
         /\ \A r, v : \A c \in Chan : r # s /\ Shows(ts, r, c, v) => Shows(us, r, c, v)
<1> DEFINE n == Len(ts)
<1>1. n \in Nat /\ DOMAIN ts = 1..n /\ \A i \in 1..n : ts[i] \in Tab BY LenProperties
<1>2. us = [i \in DOMAIN ts |-> IF ts[i].serv = s THEN clear_channel(ts[i]) ELSE ts[i]]
  BY DEF Cleared
<1>3. \A i \in 1..n : /\ clear_channel(ts[i]) \in Tab /\ clear_channel(ts[i]).serv = ts[i].serv
                      /\ clear_channel(ts[i]).channel = None
  BY <1>1, ClearFacts
<1> HIDE DEF n
<1>4. us \in [1..n -> Tab] BY <1>1, <1>2, <1>3
<1>5. us \in Seq(Tab) BY <1>1, <1>4, SeqDef
<1>6. DOMAIN us = 1..n /\ DOMAIN us = 1..Len(us) /\ Len(us) \in Nat
  BY <1>4, <1>5, LenProperties
<1>7. Len(us) = n BY <1>1, <1>6
<1>8. \A i \in 1..n : /\ us[i].serv = ts[i].serv
                      /\ ts[i].serv = s => us[i].channel = None
                      /\ ts[i].serv # s => us[i] = ts[i]
  BY <1>1, <1>2, <1>3
<1>9. Unique(us)
  <2>1. ASSUME NEW i \in 1..n, NEW j \in 1..n,
               us[i].channel # None, us[i].channel = us[j].channel, us[i].serv = us[j].serv
        PROVE  i = j
    <3>1. us[i] = ts[i] /\ us[j] = ts[j] BY <1>8, <2>1
    <3> QED BY <2>1, <3>1 DEF Unique, n
  <2> QED BY <1>7, <2>1 DEF Unique
<1>10. ASSUME NEW st, NEW nst, OnlyIn(ts, st), \A r \in Serv : r # s => nst[r] = st[r]
       PROVE  OnlyIn(us, nst)
  <2>1. ASSUME NEW i \in 1..n, us[i].channel # None PROVE nst[us[i].serv] = "in"
    <3>1. us[i] = ts[i] /\ ts[i].serv # s BY <1>8, <2>1
    <3>2. ts[i].serv \in Serv BY <1>1, TabTyped
    <3>3. st[ts[i].serv] = "in" BY <1>10, <2>1, <3>1 DEF OnlyIn, n
    <3> QED BY <1>10, <3>1, <3>2, <3>3
  <2> QED BY <1>7, <2>1 DEF OnlyIn
<1>11. ASSUME NEW r, NEW v, NEW c \in Chan, r # s, Shows(ts, r, c, v)
       PROVE  Shows(us, r, c, v)
  <2>1. At(us, r, c) = At(ts, r, c)
    <3>1. \A i \in 1..n : us[i].serv = r /\ us[i].channel = c
                          <=> ts[i].serv = r /\ ts[i].channel = c
      BY <1>8, <1>11
    <3> QED BY <1>7, <3>1 DEF At, n
  <2>2. \A i \in At(ts, r, c) : us[i] = ts[i] BY <1>8, <1>11 DEF At, n
  <2> QED BY <1>11, <2>1, <2>2 DEF Shows
<1> QED BY <1>5, <1>9, <1>10, <1>11

LEMMA GoneStep ==
  ASSUME IInv, NEW s \in Serv, Gone(s), joindelay' = NoDelay(s),
         stat' \in [Serv -> {"down", "connecting", "in"}], stat'[s] # "in",
         \A r \in Serv : r # s => stat'[r] = stat[r],
         tabs' \in Seq(Tab), Unique(tabs'), OnlyIn(tabs', stat'),
         \A r \in Serv, c \in Chan, v \in View :
           r # s /\ Shows(tabs, r, c, v) => Shows(tabs', r, c, v),
         banned' = banned, features' = features, events' \in 0..MaxEvents,
         want' \in [Serv -> SUBSET Chan]
  PROVE  IInv'
<1>1. Links /\ Others BY Types DEF IInv
<1> DEFINE left == [c \in Chan |-> ircd[s][c] \ {Me}]  no == FALSE  none == <<>>
<1>2. /\ out' = [out EXCEPT ![s] = none] /\ inq' = [inq EXCEPT ![s] = none]
      /\ ircd' = [ircd EXCEPT ![s] = left]
      /\ joindelay' = [joindelay EXCEPT ![s] = no]
  BY DEF Gone, NoDelay
<1>3. none \in Seq(Line) /\ none \in Seq(Answer) /\ no \in BOOLEAN /\ ~no BY EmptySeq
<1>4. ircd[s] \in [Chan -> SUBSET {Me, Other}] BY <1>1 DEF Links
<1>5. left \in [Chan -> SUBSET {Me, Other}] /\ \A c \in Chan : Me \notin left[c] BY <1>4
<1>6. none = <<>> OBVIOUS
<1> HIDE DEF left, no, none
<1>7. /\ out' \in [Serv -> Seq(Line)] /\ inq' \in [Serv -> Seq(Answer)]
      /\ ircd' \in [Serv -> [Chan -> SUBSET {Me, Other}]]
      /\ out'[s] = none /\ inq'[s] = none /\ ircd'[s] = left
      /\ \A r \in Serv : r # s => inq'[r] = inq[r] /\ out'[r] = out[r] /\ ircd'[r] = ircd[r]
  BY <1>1, <1>2, <1>3, <1>5 DEF Links
<1>8. Links'
  <2>1. \A r \in Serv : stat'[r] # "in" => out'[r] = <<>> /\ inq'[r] = <<>>
    BY <1>1, <1>6, <1>7 DEF Links
  <2> QED BY <1>7, <2>1 DEF Links
<1>9. Others'
  <2>1. joindelay' \in [Serv -> BOOLEAN] /\ ~joindelay'[s]
        /\ \A r \in Serv : r # s => joindelay'[r] = joindelay[r]
    BY <1>1, <1>2, <1>3 DEF Others
  <2>2. \A r \in Serv : joindelay'[r] => stat'[r] = "in" BY <1>1, <2>1 DEF Others
  <2> QED BY <1>1, <2>1, <2>2 DEF Others
<1>10. TypeOK'
  <2>1. TypeOK' <=> tabs' \in Seq(Tab) /\ Links' /\ Others' BY DEF TypeOK, Links, Others
  <2> QED BY <1>8, <1>9, <2>1
<1>11. \A c \in Chan : Agrees(tabs', stat'[s], inq'[s], out'[s], ircd'[s][c], s, c)
  BY <1>5, <1>7 DEF Agrees
<1>12. \A r \in Serv : r # s => /\ stat'[r] = stat[r] /\ inq'[r] = inq[r]
                                /\ out'[r] = out[r] /\ ircd'[r] = ircd[r]
  BY <1>7
<1> QED BY <1>10, <1>11, <1>12, OneServer

LEMMA DisconStep == ASSUME IInv, NEW s \in Serv, cmd_discon(s) PROVE IInv'
<1>1. tabs \in Seq(Tab) /\ Links /\ Others /\ Unique(tabs) /\ OnlyIn(tabs, stat)
  BY Types DEF IInv
<1> DEFINE none == {}
<1>2. /\ stat' = [stat EXCEPT ![s] = "down"] /\ joindelay' = NoDelay(s)
      /\ tabs' = Cleared(tabs, s) /\ want' = [want EXCEPT ![s] = none] /\ Gone(s)
      /\ banned' = banned /\ features' = features /\ events' \in 0..MaxEvents
  BY <1>1, EventTyped DEF cmd_discon
<1>3. /\ stat' \in [Serv -> {"down", "connecting", "in"}] /\ stat'[s] # "in"
      /\ \A r \in Serv : r # s => stat'[r] = stat[r]
  BY <1>1, <1>2 DEF Links
<1>4. want' \in [Serv -> SUBSET Chan]
  <2>1. none \in SUBSET Chan OBVIOUS
  <2> HIDE DEF none
  <2> QED BY <1>1, <1>2, <2>1 DEF Others
<1> DEFINE us == tabs'  nst == stat'
<1>5. /\ us \in Seq(Tab) /\ Unique(us)
      /\ \A r, v : \A c \in Chan : r # s /\ Shows(tabs, r, c, v) => Shows(us, r, c, v)
      /\ OnlyIn(us, nst)
  <2>1. us = Cleared(tabs, s) /\ \A r \in Serv : r # s => nst[r] = stat[r] BY <1>2, <1>3
  <2> HIDE DEF us, nst
  <2>2. /\ us \in Seq(Tab) /\ Unique(us)
        /\ \A st, mst : /\ OnlyIn(tabs, st)
                        /\ \A r \in Serv : r # s => mst[r] = st[r]
                        => OnlyIn(us, mst)
        /\ \A r, v : \A c \in Chan : r # s /\ Shows(tabs, r, c, v) => Shows(us, r, c, v)
    BY <1>1, <2>1, ClearedFacts
  <2>3. OnlyIn(us, nst) BY <1>1, <2>1, <2>2
  <2> QED BY <2>2, <2>3
<1>6. \A r \in Serv, c \in Chan, v \in View :
        r # s /\ Shows(tabs, r, c, v) => Shows(tabs', r, c, v)
  BY <1>5
<1>7. tabs' \in Seq(Tab) /\ Unique(tabs') /\ OnlyIn(tabs', stat') BY <1>5
<1> HIDE DEF us, nst, none
<1> QED BY <1>2, <1>3, <1>4, <1>6, <1>7, GoneStep

LEMMA LostStep == ASSUME IInv, NEW s \in Serv, Lost(s) PROVE IInv'
<1>1. tabs \in Seq(Tab) /\ Links /\ Others /\ Unique(tabs) /\ OnlyIn(tabs, stat)
  BY Types DEF IInv
<1>2. /\ stat' = [stat EXCEPT ![s] = "connecting"] /\ joindelay' = NoDelay(s)
      /\ tabs' = Cleared(Marked(tabs), s) \/ (stat[s] # "in" /\ tabs' = tabs)
      /\ Gone(s) /\ want' = want
      /\ banned' = banned /\ features' = features /\ events' \in 0..MaxEvents
  BY <1>1, EventTyped DEF Lost, auto_reconnect
<1>3. /\ stat' \in [Serv -> {"down", "connecting", "in"}] /\ stat'[s] # "in"
      /\ \A r \in Serv : r # s => stat'[r] = stat[r]
  BY <1>1, <1>2 DEF Links
<1>4. want' \in [Serv -> SUBSET Chan] BY <1>1, <1>2 DEF Others
<1> DEFINE us == tabs'  nst == stat'  ms == Marked(tabs)
<1>5. CASE us = Cleared(ms, s)
  <2>1. ms \in Seq(Tab) /\ Alike(tabs, ms) BY <1>1, MarkedFacts
  <2> HIDE DEF ms, us
  <2>2. SameChannels(tabs, ms) BY <1>1, <2>1, AlikeIsSame
  <2>3. /\ Unique(ms) /\ OnlyIn(ms, stat)
        /\ \A r \in Serv, c \in Chan, v \in View : Shows(tabs, r, c, v) => Shows(ms, r, c, v)
    BY <1>1, <2>2 DEF SameChannels
  <2>4. \A r \in Serv : r # s => nst[r] = stat[r] BY <1>3
  <2> HIDE DEF nst
  <2>5. /\ us \in Seq(Tab) /\ Unique(us)
        /\ \A st, mst : /\ OnlyIn(ms, st)
                        /\ \A r \in Serv : r # s => mst[r] = st[r]
                        => OnlyIn(us, mst)
        /\ \A r, v : \A c \in Chan : r # s /\ Shows(ms, r, c, v) => Shows(us, r, c, v)
    BY <1>5, <2>1, <2>3, ClearedFacts
  <2>6. OnlyIn(us, nst) BY <2>3, <2>4, <2>5
  <2>7. \A r \in Serv, c \in Chan, v \in View :
          r # s /\ Shows(tabs, r, c, v) => Shows(us, r, c, v)
    BY <2>3, <2>5
  <2>8. tabs' \in Seq(Tab) /\ Unique(tabs') /\ OnlyIn(tabs', stat') BY <2>5, <2>6 DEF us, nst
  <2>9. \A r \in Serv, c \in Chan, v \in View :
          r # s /\ Shows(tabs, r, c, v) => Shows(tabs', r, c, v)
    BY <2>7 DEF us
  <2> QED BY <1>2, <1>3, <1>4, <2>8, <2>9, GoneStep
<1>6. CASE stat[s] # "in" /\ tabs' = tabs
  <2>1. \A i \in 1..Len(tabs) : tabs[i].serv \in Serv BY <1>1, LenProperties, TabTyped
  <2>2. OnlyIn(tabs, stat') BY <1>1, <1>3, <1>6, <2>1 DEF OnlyIn
  <2>3. tabs' \in Seq(Tab) /\ Unique(tabs') /\ OnlyIn(tabs', stat') BY <1>1, <1>6, <2>2
  <2>4. \A r \in Serv, c \in Chan, v \in View :
          r # s /\ Shows(tabs, r, c, v) => Shows(tabs', r, c, v)
    BY <1>6
  <2> HIDE DEF us, nst, ms
  <2> QED BY <1>2, <1>3, <1>4, <2>3, <2>4, GoneStep
<1> QED BY <1>2, <1>5, <1>6

(* A closed tab: its view is behind until the server has read the PART.    *)
LEMMA FreeStep ==
  ASSUME IInv, NEW i \in DOMAIN tabs, session_free(i) PROVE IInv'
<1>1. tabs \in Seq(Tab) /\ Links /\ Others /\ Unique(tabs) /\ OnlyIn(tabs, stat)
  BY Types DEF IInv
<1> DEFINE t == tabs[i]  s == t.serv  d == t.channel  us == tabs'
<1>2. /\ Send(s, send_quit_or_part(t)) /\ Unwanted(s, StandsFor(i)) /\ tabs' = RemoveAt(tabs, i)
      /\ stat' = stat /\ joindelay' = joindelay /\ inq' = inq
      /\ ircd' = ircd /\ banned' = banned /\ features' = features /\ events' \in 0..MaxEvents
  BY <1>1, EventTyped DEF session_free, world
<1>3. i \in 1..Len(tabs) /\ t \in Tab /\ s \in Serv /\ d \in Chan \cup {None}
  BY <1>1, LenProperties, TabTyped
<1>4. /\ us \in Seq(Tab) /\ Unique(us)
      /\ \A st : OnlyIn(tabs, st) => OnlyIn(us, st)
      /\ \A r, v : \A c \in Chan : Shows(tabs, r, c, v) /\ (r # s \/ c # d) => Shows(us, r, c, v)
      /\ d # None => Shows(us, s, d, Off)
  <2>1. us = RemoveAt(tabs, i) BY <1>2
  <2> HIDE DEF us
  <2> QED BY <1>1, <1>3, <2>1, RemoveFacts
<1>5. want' \in [Serv -> SUBSET Chan] BY <1>1, <1>2, <1>3, WantTyped
<1>6. Others' BY <1>1, <1>2, <1>5, OthersKept
<1>7. CASE d = None
  <2>1. send_quit_or_part(t) = <<>> BY <1>7 DEF send_quit_or_part
  <2>2. out \in [Serv -> Seq(Line)] /\ out[s] \in Seq(Line) BY <1>1, <1>3 DEF Links
  <2>3. out[s] \o <<>> = out[s] BY <2>2
  <2>4. out' = [out EXCEPT ![s] = out[s] \o <<>>] BY <1>2, <2>1 DEF Send
  <2>5. out' = out BY <2>2, <2>3, <2>4
  <2>6. SameChannels(tabs, tabs') BY <1>4, <1>7, ChanIsNotNone DEF SameChannels
  <2> HIDE DEF s, t, d, us
  <2> QED BY <1>2, <1>3, <1>6, <2>5, <2>6, TalkStep
<1>8. CASE d # None
  <2> DEFINE a == ToLine("PART", d)
  <2>1. d \in Chan /\ stat[s] = "in" BY <1>1, <1>3, <1>8 DEF OnlyIn
  <2>2. a \in Line BY <2>1, Lines
  <2>3. send_quit_or_part(t) = <<a>> BY <1>8, <2>1 DEF send_quit_or_part
  <2>4. Send(s, <<a>>) BY <1>2, <2>3
  <2>5. out[s] \in Seq(Line) /\ inq[s] \in Seq(Answer) /\ inq \in [Serv -> Seq(Answer)]
        /\ ircd \in [Serv -> [Chan -> SUBSET {Me, Other}]]
    BY <1>1, <1>3 DEF Links
  <2> HIDE DEF t, s, us
  <2>6. Parting(out[s] \o <<a>>, d) BY <2>1, <2>5, SentPart
  <2> HIDE DEF d, a
  <2>7. <<a>> \in Seq(Line) BY <2>2
  <2>8. /\ out' \in [Serv -> Seq(Line)] /\ out'[s] = out[s] \o <<a>>
        /\ \A r \in Serv : r # s => out'[r] = out[r]
        /\ \A c : Parting(out[s], c) => Parting(out'[s], c)
    BY <1>1, <1>3, <2>4, <2>7, SendFacts
  <2>9. ASSUME NEW c \in Chan PROVE Follows(tabs', inq'[s], out'[s], ircd'[s][c], s, c)
    <3> DEFINE m == ircd[s][c]  o == out[s]  p == out'[s]  q == inq[s]
    <3>1. Agrees(tabs, stat[s], q, o, m, s, c) BY <1>3 DEF IInv
    <3>2. PICK v \in View : Shows(tabs, s, c, v) /\ Leads(q, v, c, Fitting(m, o, c))
      BY <2>1, <3>1 DEF Agrees, Follows
    <3>3. m \in SUBSET {Me, Other} BY <1>3, <2>5
    <3>4. Parting(o, c) => Parting(p, c) BY <2>8
    <3>5. c = d => Parting(p, c) BY <2>6, <2>8
    <3>6. inq'[s] = q /\ ircd'[s][c] = m BY <1>2
    <3>7. q \in Seq(Answer) BY <2>5
    <3> HIDE DEF m, o, p, q
    <3>8. Leads(q, v, c, Fitting(m, p, c)) BY <3>2, <3>4, FittingWider, LeadsWider
    <3>9. CASE c # d
      <4>1. Shows(us, s, c, v) BY <1>4, <3>2, <3>9
      <4> QED BY <3>6, <3>8, <4>1 DEF Follows, us, p
    <3>10. CASE c = d
      <4>1. Shows(us, s, c, Off) BY <1>4, <1>8, <3>10
      <4>2. Off \in Fitting(m, p, c) BY <3>3, <3>5, <3>10, FittingFacts
      <4>3. Leads(q, Off, c, Fitting(m, p, c)) BY <3>7, <3>8, <4>2, LeadsFromOff
      <4>4. Off \in View BY Views
      <4> QED BY <3>6, <4>1, <4>3, <4>4 DEF Follows, us, p
    <3> QED BY <3>9, <3>10
  <2>10. tabs' \in Seq(Tab) /\ Unique(tabs') /\ OnlyIn(tabs', stat) BY <1>1, <1>4 DEF us
  <2>11. \A r \in Serv, c \in Chan, v \in View :
           r # s /\ Shows(tabs, r, c, v) => Shows(tabs', r, c, v)
    BY <1>4 DEF us
  <2>12. /\ inq' \in [Serv -> Seq(Answer)] /\ ircd' \in [Serv -> [Chan -> SUBSET {Me, Other}]]
         /\ \A r \in Serv : r # s => inq'[r] = inq[r] /\ out'[r] = out[r] /\ ircd'[r] = ircd[r]
    BY <1>2, <2>5, <2>8
  <2> QED BY <1>2, <1>3, <1>6, <2>1, <2>8, <2>9, <2>10, <2>11, <2>12, ServedStep
<1> QED BY <1>7, <1>8

-----------------------------------------------------------------------------
(* The lines of the server. *)

LEMMA ReadStep == ASSUME IInv, NEW s \in Serv, Read(s) PROVE IInv'
<1>1. tabs \in Seq(Tab) /\ Links /\ Others /\ Unique(tabs) /\ OnlyIn(tabs, stat)
  BY Types DEF IInv
<1> DEFINE l == Head(inq[s])  d == l.chan  rest == Tail(inq[s])
<1>2. inq \in [Serv -> Seq(Answer)] /\ inq[s] \in Seq(Answer)
      /\ ircd \in [Serv -> [Chan -> SUBSET {Me, Other}]]
  BY <1>1 DEF Links
<1>3. inq[s] # <<>> /\ inq' = [inq EXCEPT ![s] = rest] BY DEF Read
<1>4. l \in Answer /\ rest \in Seq(Answer) BY <1>2, <1>3, HeadTailProperties
<1>5. d \in Chan BY <1>4, AnswerTyped
<1>6. stat[s] = "in" BY <1>1, <1>3 DEF Links
<1>7. /\ \/ l.cmd = "UKICK" /\ inbound_ukick(s, d)
         \/ /\ l.cmd # "UKICK" /\ tabs' = Shown(s, l) /\ out' = out
            /\ (want' = want \/ Unwanted(s, {d}))
      /\ stat' = stat /\ joindelay' = joindelay /\ events' = events
      /\ ircd' = ircd /\ banned' = banned /\ features' = features
  BY DEF Read, world
<1> DEFINE us == tabs'  a == ToLine("JOIN", d)
           once == InTab(s, d, clear_channel(TabOf(s, d)))
           again == InTab(s, d, [clear_channel(TabOf(s, d)) EXCEPT !.wait = d])
<1>8. /\ \/ l.cmd = "UKICK" /\ (us = once \/ us = again)
         \/ l.cmd # "UKICK" /\ us = Shown(s, l)
      /\ out' = out \/ Send(s, <<a>>)
      /\ want' = want \/ Unwanted(s, {d})
  <2>1. ASSUME inbound_ukick(s, d)
        PROVE  /\ tabs' = once \/ tabs' = again
               /\ out' = out \/ Send(s, <<a>>)
               /\ want' = want \/ Unwanted(s, {d})
    <3> HIDE DEF d, l
    <3>1. CASE On(s, d) /\ May("autorejoin") BY <2>1, <3>1 DEF inbound_ukick
    <3>2. CASE ~(On(s, d) /\ May("autorejoin")) BY <2>1, <3>2 DEF inbound_ukick
    <3> QED BY <3>1, <3>2
  <2> HIDE DEF d, l, once, again, a
  <2> QED BY <1>7, <2>1
<1>9. ReadAs(tabs, us, s, l)
  <2>1. CASE l.cmd # "UKICK" /\ us = Shown(s, l)
    <3> HIDE DEF us, l
    <3>1. ReadAs(tabs, Shown(s, l), s, l) BY <1>1, <1>4, <2>1, ShownRead
    <3> QED BY <2>1, <3>1
  <2>2. CASE l.cmd = "UKICK" /\ (us = once \/ us = again)
    <3> HIDE DEF l, us
    <3>1. \/ us = InTab(s, l.chan, clear_channel(TabOf(s, l.chan)))
          \/ us = InTab(s, l.chan, [clear_channel(TabOf(s, l.chan)) EXCEPT !.wait = l.chan])
      BY <2>2 DEF once, again, d
    <3> HIDE DEF once, again, d
    <3> QED BY <1>1, <1>4, <2>2, <3>1, KickRead
  <2> QED BY <1>8, <2>1, <2>2
<1>10. /\ out' \in [Serv -> Seq(Line)]
       /\ \A r \in Serv : r # s => out'[r] = out[r]
       /\ \A c : Parting(out[s], c) => Parting(out'[s], c)
  <2>1. a \in Line BY <1>5, Lines
  <2> HIDE DEF a
  <2>2. <<a>> \in Seq(Line) BY <2>1
  <2>3. CASE out' = out BY <1>1, <2>3 DEF Links
  <2>4. CASE Send(s, <<a>>) BY <1>1, <2>2, <2>4, SendFacts
  <2> QED BY <1>8, <2>3, <2>4
<1>11. Others'
  <2>1. want' \in [Serv -> SUBSET Chan]
    <3>1. CASE want' = want BY <1>1, <3>1 DEF Others
    <3> QED BY <1>1, <1>8, <3>1, WantTyped
  <2>2. events' \in 0..MaxEvents BY <1>1, <1>7 DEF Others
  <2> QED BY <1>1, <1>7, <2>1, <2>2, OthersKept
<1>12. inq' \in [Serv -> Seq(Answer)] /\ inq'[s] = rest /\ \A r \in Serv : r # s => inq'[r] = inq[r]
  <2> HIDE DEF rest
  <2> QED BY <1>2, <1>3, <1>4
<1> HIDE DEF a, once, again, d
<1>13. ASSUME NEW c \in Chan PROVE Follows(tabs', inq'[s], out'[s], ircd'[s][c], s, c)
  <2> DEFINE m == ircd[s][c]  o == out[s]  p == out'[s]  q == inq[s]
  <2>1. Agrees(tabs, stat[s], q, o, m, s, c) BY DEF IInv
  <2>2. PICK v \in View : Shows(tabs, s, c, v) /\ Leads(q, v, c, Fitting(m, o, c))
    BY <1>6, <2>1 DEF Agrees, Follows
  <2>3. Parting(o, c) => Parting(p, c) BY <1>10
  <2>4. Effect(v, l, c) \in View /\ Shows(us, s, c, Effect(v, l, c))
    <3> HIDE DEF l, us, m, o, q
    <3>1. Effect(v, l, c) \in View BY <1>4, EffectFacts
    <3>2. Shows(us, s, c, IF s = s THEN Effect(v, l, c) ELSE v) BY <1>9, <2>2 DEF ReadAs
    <3> QED BY <3>1, <3>2
  <2>5. q \in Seq(Answer) /\ q # <<>> /\ l = Head(q) /\ rest = Tail(q) BY <1>2, <1>3
  <2>6. inq'[s] = rest /\ ircd'[s][c] = m BY <1>7, <1>12
  <2> HIDE DEF q, m, o, p, l, rest, us
  <2>7. Leads(Tail(q), Effect(v, Head(q), c), c, Fitting(m, o, c)) BY <2>2, <2>5, LeadsRead
  <2>8. Leads(rest, Effect(v, l, c), c, Fitting(m, o, c)) BY <2>5, <2>7
  <2>9. Leads(rest, Effect(v, l, c), c, Fitting(m, p, c)) BY <2>3, <2>8, FittingWider, LeadsWider
  <2> QED BY <2>4, <2>6, <2>9 DEF Follows, us, p
<1>14. tabs' \in Seq(Tab) /\ Unique(tabs') /\ OnlyIn(tabs', stat)
  <2> HIDE DEF l
  <2> QED BY <1>1, <1>6, <1>9 DEF ReadAs
<1>15. \A r \in Serv, c \in Chan, v \in View :
         r # s /\ Shows(tabs, r, c, v) => Shows(tabs', r, c, v)
  <2> HIDE DEF l
  <2> QED BY <1>9 DEF ReadAs
<1>16. /\ ircd' \in [Serv -> [Chan -> SUBSET {Me, Other}]]
       /\ \A r \in Serv : r # s => inq'[r] = inq[r] /\ out'[r] = out[r] /\ ircd'[r] = ircd[r]
  BY <1>2, <1>7, <1>10, <1>12
<1> HIDE DEF l, rest, us
<1> QED BY <1>6, <1>7, <1>10, <1>11, <1>12, <1>13, <1>14, <1>15, <1>16, ServedStep

-----------------------------------------------------------------------------
(* The IRC server. *)

LEMMA SpokenStep ==
  ASSUME IInv, NEW s \in Serv, stat[s] = "in", tabs' = tabs, stat' = stat, Others',
         out' \in [Serv -> Seq(Line)], inq' \in [Serv -> Seq(Answer)],
         ircd' \in [Serv -> [Chan -> SUBSET {Me, Other}]],
         \A r \in Serv : r # s => inq'[r] = inq[r] /\ out'[r] = out[r] /\ ircd'[r] = ircd[r],
         \A c \in Chan, v \in View :
           Leads(inq[s], v, c, Fitting(ircd[s][c], out[s], c))
             => Leads(inq'[s], v, c, Fitting(ircd'[s][c], out'[s], c))
  PROVE  IInv'
<1>1. tabs \in Seq(Tab) /\ Unique(tabs) /\ OnlyIn(tabs, stat) BY Types DEF IInv
<1>2. ASSUME NEW c \in Chan PROVE Follows(tabs', inq'[s], out'[s], ircd'[s][c], s, c)
  <2>1. Agrees(tabs, stat[s], inq[s], out[s], ircd[s][c], s, c) BY DEF IInv
  <2>2. PICK v \in View :
          Shows(tabs, s, c, v) /\ Leads(inq[s], v, c, Fitting(ircd[s][c], out[s], c))
    BY <2>1 DEF Agrees, Follows
  <2>3. Leads(inq'[s], v, c, Fitting(ircd'[s][c], out'[s], c)) BY <2>2
  <2> QED BY <2>2, <2>3 DEF Follows
<1>3. tabs' \in Seq(Tab) /\ Unique(tabs') /\ OnlyIn(tabs', stat) BY <1>1
<1>4. \A r \in Serv, c \in Chan, v \in View :
        r # s /\ Shows(tabs, r, c, v) => Shows(tabs', r, c, v)
  OBVIOUS
<1> QED BY <1>2, <1>3, <1>4, ServedStep

LEMMA TakenFits ==
  ASSUME NEW o \in Seq(Line), o # <<>>, NEW m, NEW d,
         Head(o).cmd # "PART" \/ Head(o).chan # d
  PROVE  Fitting(m, o, d) \subseteq Fitting(m, Tail(o), d)
<1>1. ToLine("PART", d).cmd = "PART" /\ ToLine("PART", d).chan = d BY DEF ToLine
<1>2. Head(o) # ToLine("PART", d) BY <1>1
<1>3. Parting(o, d) => Parting(Tail(o), d) BY <1>2, TakenParting
<1> QED BY <1>3, FittingWider

(* What the server makes of a line, and what it answers. *)
After(l, m, ban) ==
    CASE l.cmd = "JOIN" /\ l.chan \notin ban -> m \cup {Me}
      [] l.cmd = "PART" -> m \ {Me}
      [] OTHER -> m

AnswerTo(l, m, ban) ==
    CASE l.cmd = "NAMES" -> Names(l.chan, After(l, m, ban))
      [] l.cmd = "JOIN" /\ l.chan \in ban -> <<Reply("REFUSED", l.chan, {})>>
      [] l.cmd = "JOIN" /\ l.chan \notin ban /\ Me \notin m ->
           <<Reply("UJOIN", l.chan, {})>> \o Names(l.chan, After(l, m, ban))
      [] l.cmd = "PART" /\ Me \in m -> <<Reply("UPART", l.chan, {})>>
      [] OTHER -> <<>>

(* The members n after line l of channel c, and the answer p to it.        *)
Answered(l, c, m, n, p) ==
    \/ l.cmd = "NAMES" /\ n = m /\ p = Names(c, m)
    \/ l.cmd = "JOIN" /\ n = m /\ (p = <<>> \/ p = <<Reply("REFUSED", c, {})>>)
    \/ /\ l.cmd = "JOIN" /\ Me \notin m /\ n = m \cup {Me}
       /\ p = <<Reply("UJOIN", c, {})>> \o Names(c, n)
    \/ /\ l.cmd = "PART" /\ Me \in m /\ n = m \ {Me}
       /\ p = <<Reply("UPART", c, {})>>
    \/ l.cmd = "PART" /\ Me \notin m /\ n = m /\ p = <<>>

LEMMA AnswerForms ==
  ASSUME NEW l \in Line, NEW m \in SUBSET {Me, Other}, NEW ban, NEW n, n = After(l, m, ban),
         NEW p, p = AnswerTo(l, m, ban)
  PROVE  Answered(l, l.chan, m, n, p)
<1>1. l.cmd \in {"JOIN", "PART", "NAMES"} BY DEF Line
<1>2. CASE l.cmd = "NAMES" BY <1>2 DEF After, AnswerTo, Answered
<1>3. CASE l.cmd = "PART"
  <2>1. n = m \ {Me} BY <1>3 DEF After
  <2>2. CASE Me \in m BY <1>3, <2>1, <2>2 DEF AnswerTo, Answered
  <2>3. CASE Me \notin m
    <3>1. p = <<>> BY <1>3, <2>3 DEF AnswerTo
    <3> QED BY <1>3, <2>1, <2>3, <3>1 DEF Answered
  <2> QED BY <2>2, <2>3
<1>4. CASE l.cmd = "JOIN"
  <2>1. CASE l.chan \in ban BY <1>4, <2>1 DEF After, AnswerTo, Answered
  <2>2. CASE l.chan \notin ban /\ Me \notin m BY <1>4, <2>2 DEF After, AnswerTo, Answered
  <2>3. CASE l.chan \notin ban /\ Me \in m
    <3>1. n = m \cup {Me} /\ p = <<>> BY <1>4, <2>3 DEF After, AnswerTo
    <3> QED BY <1>4, <2>3, <3>1 DEF Answered
  <2> QED BY <2>1, <2>2, <2>3
<1> QED BY <1>1, <1>2, <1>3, <1>4

LEMMA NamesTyped ==
  ASSUME NEW d \in Chan, NEW m
  PROVE  Names(d, m) \in Seq(Answer)
<1> DEFINE A == IF Me \in m THEN <<Reply("NAMES", d, {Me})>> ELSE <<>>
           B == IF Other \in m THEN <<Reply("NAMES", d, {Other})>> ELSE <<>>
           E == <<Reply("END", d, {})>>
<1>1. A \in Seq(Answer) /\ B \in Seq(Answer) /\ E \in Seq(Answer) BY Replies
<1>2. Names(d, m) = A \o B \o E BY DEF Names
<1> HIDE DEF A, B, E
<1>3. A \o B \in Seq(Answer) BY <1>1, ConcatProperties
<1>4. (A \o B) \o E \in Seq(Answer) BY <1>1, <1>3, ConcatProperties
<1> QED BY <1>2, <1>4

(* A line of another channel, which its answer leaves as it was.           *)
LEMMA ElsewhereLeads ==
  ASSUME NEW q \in Seq(Answer), NEW v, NEW d \in Chan, NEW W, NEW V, W \subseteq V,
         NEW c \in Chan, c # d, NEW n \in SUBSET {Me, Other}, Leads(q, v, d, W),
         NEW p, \/ p = <<>> \/ p = Names(c, n)
                \/ \E cmd \in {"REFUSED", "UPART", "UKICK", "JOIN", "PART"} : p = <<Reply(cmd, c, {})>>
                \/ p = <<Reply("UJOIN", c, {})>> \o Names(c, n)
  PROVE  q \o p \in Seq(Answer) /\ Leads(q \o p, v, d, V)
<1>1. W \cap View \subseteq V OBVIOUS
<1>2. CASE p = <<>>
  <2>1. q \o p = q BY <1>2
  <2> QED BY <2>1, LeadsWider
<1>3. ASSUME NEW cmd \in {"UJOIN", "REFUSED", "UPART", "UKICK", "JOIN", "PART"}, NEW V2, W \subseteq V2
      PROVE  q \o <<Reply(cmd, c, {})>> \in Seq(Answer) /\ Leads(q \o <<Reply(cmd, c, {})>>, v, d, V2)
  <2> DEFINE a == Reply(cmd, c, {})  p2 == <<a>>
  <2>1. a \in Answer /\ a.chan = c BY Replies
  <2> HIDE DEF a
  <2>2. \A x \in W \cap View : Effect(x, a, d) \in V2
    <3>1. ASSUME NEW x \in W \cap View PROVE Effect(x, a, d) \in V2
      <4>1. Effect(x, a, d) = x BY <2>1, EffectFacts
      <4> QED BY <1>3, <4>1
    <3> QED BY <3>1
  <2>3. p2 # <<>> /\ p2 = <<a>> OBVIOUS
  <2> HIDE DEF p2
  <2>4. p2 = <<a>> => \A x \in W \cap View : Effect(x, a, d) \in V2 BY <2>2
  <2>5. p2 = <<>> => W \cap View \subseteq V2 BY <2>3
  <2>6. p2 = <<>> \/ p2 = <<a>> BY <2>3
  <2>7. q \o p2 \in Seq(Answer) /\ Leads(q \o p2, v, d, V2)
    BY <2>1, <2>4, <2>5, <2>6, LeadsBy
  <2> QED BY <2>7 DEF p2, a
<1>4. CASE p = Names(c, n)
  <2>1. c # d => W \cap View \subseteq V BY <1>1
  <2>2. c = d => /\ \A x \in W \cap View : x = Off \/ (Me \in n /\ x.on /\ (x.ends \/ x.users = {}))
                 /\ Off \in W => Off \in V
                 /\ Me \in n => Seen(n, TRUE) \in V
    OBVIOUS
  <2>3. q \o Names(c, n) \in Seq(Answer) /\ Leads(q \o Names(c, n), v, d, V)
    BY <2>1, <2>2, NamesLead, Zenon
  <2> QED BY <1>4, <2>3
<1>5. CASE p = <<Reply("UJOIN", c, {})>> \o Names(c, n)
  <2> DEFINE a == <<Reply("UJOIN", c, {})>>  ns == Names(c, n)  q2 == q \o a
  <2>1. q2 \in Seq(Answer) /\ Leads(q2, v, d, W) BY <1>3
  <2>2. a \in Seq(Answer) BY Replies
  <2>3. ns \in Seq(Answer) BY NamesTyped
  <2>4. q \o p = q2 \o ns
    <3>1. p = a \o ns BY <1>5
    <3> HIDE DEF a, ns
    <3>2. (q \o a) \o ns = q \o (a \o ns) BY <2>2, <2>3, ConcatAssociative
    <3> QED BY <3>1, <3>2
  <2> HIDE DEF a, q2
  <2>5. c # d => W \cap View \subseteq V BY <1>1
  <2>6. c = d => /\ \A x \in W \cap View : x = Off \/ (Me \in n /\ x.on /\ (x.ends \/ x.users = {}))
                 /\ Off \in W => Off \in V
                 /\ Me \in n => Seen(n, TRUE) \in V
    OBVIOUS
  <2>7. q2 \o Names(c, n) \in Seq(Answer) /\ Leads(q2 \o Names(c, n), v, d, V)
    <3> HIDE DEF ns
    <3> QED BY <2>1, <2>5, <2>6, NamesLead, Zenon
  <2> QED BY <2>4, <2>7
<1> QED BY <1>2, <1>3, <1>4, <1>5

(* The channel of the line itself.                                         *)
LEMMA HereLeads ==
  ASSUME NEW q \in Seq(Answer), NEW v, NEW o \in Seq(Line), o # <<>>,
         NEW l \in Line, l = Head(o), NEW c \in Chan, c = l.chan,
         NEW m \in SUBSET {Me, Other}, NEW n \in SUBSET {Me, Other}, NEW p,
         Leads(q, v, c, Fitting(m, o, c)),
         Answered(l, c, m, n, p)
  PROVE  q \o p \in Seq(Answer) /\ Leads(q \o p, v, c, Fitting(n, Tail(o), c))
<1> DEFINE W == Fitting(m, o, c)  V == Fitting(n, Tail(o), c)
<1>1. l.cmd # "PART" /\ n = m => W \subseteq V BY TakenFits
<1>2. Me \notin m => Off \in W /\ \A x \in W : x = Off BY FittingFacts
<1>3. Me \in m => \A x \in W : x = Seen(m, TRUE) \/ x = Off BY FittingFacts
<1>4. Me \notin n => Off \in V BY FittingFacts
<1>5. Me \in n => Seen(n, TRUE) \in V BY FittingFacts
<1>6. Leads(q, v, c, W) OBVIOUS
<1> HIDE DEF W, V
<1>7. ASSUME NEW cmd \in {"UJOIN", "REFUSED", "UPART"}, NEW V2,
             \A a \in Answer : a.cmd = cmd /\ a.chan = c => \A x \in W \cap View : Effect(x, a, c) \in V2
      PROVE  q \o <<Reply(cmd, c, {})>> \in Seq(Answer) /\ Leads(q \o <<Reply(cmd, c, {})>>, v, c, V2)
  <2> DEFINE a == Reply(cmd, c, {})  p2 == <<a>>
  <2>1. a \in Answer /\ a.chan = c /\ a.cmd = cmd BY Replies
  <2> HIDE DEF a
  <2>2. \A x \in W \cap View : Effect(x, a, c) \in V2 BY <1>7, <2>1
  <2>3. p2 # <<>> /\ p2 = <<a>> OBVIOUS
  <2> HIDE DEF p2
  <2>4. p2 = <<a>> => \A x \in W \cap View : Effect(x, a, c) \in V2 BY <2>2
  <2>5. p2 = <<>> => W \cap View \subseteq V2 BY <2>3
  <2>6. p2 = <<>> \/ p2 = <<a>> BY <2>3
  <2>7. q \o p2 \in Seq(Answer) /\ Leads(q \o p2, v, c, V2)
    BY <1>6, <2>1, <2>4, <2>5, <2>6, LeadsBy
  <2> QED BY <2>7 DEF p2, a
<1>8. CASE l.cmd = "NAMES" /\ n = m /\ p = Names(c, m)
  <2>1. W \subseteq V BY <1>1, <1>8
  <2>2. c # c => W \cap View \subseteq V OBVIOUS
  <2>3. \A x \in W \cap View : x = Off \/ (Me \in m /\ x.on /\ (x.ends \/ x.users = {}))
    <3> DEFINE yes == TRUE
    <3>1. yes \in BOOLEAN /\ yes OBVIOUS
    <3>2. Me \in m => \A x \in W : x = Seen(m, yes) \/ x = Off BY <1>3
    <3> HIDE DEF yes
    <3>3. Seen(m, yes).on /\ Seen(m, yes).ends BY <3>1, Views
    <3> QED BY <1>2, <3>2, <3>3
  <2>4. Off \in W => Off \in V BY <2>1
  <2>5. Me \in m => Seen(m, TRUE) \in V BY <1>5, <1>8
  <2>6. c = c => /\ \A x \in W \cap View : x = Off \/ (Me \in m /\ x.on /\ (x.ends \/ x.users = {}))
                 /\ Off \in W => Off \in V
                 /\ Me \in m => Seen(m, TRUE) \in V
    BY <2>3, <2>4, <2>5, Zenon
  <2>7. q \o Names(c, m) \in Seq(Answer) /\ Leads(q \o Names(c, m), v, c, V)
    BY <1>6, <2>2, <2>6, NamesLead, Zenon
  <2> QED BY <1>8, <2>7 DEF V
<1>9. CASE l.cmd = "JOIN" /\ n = m /\ p = <<>>
  <2>1. W \subseteq V BY <1>1, <1>9
  <2>2. q \o p = q BY <1>9
  <2>3. Leads(q, v, c, V) BY <1>6, <2>1, LeadsWider
  <2> QED BY <2>2, <2>3 DEF V
<1>10. CASE l.cmd = "JOIN" /\ n = m /\ p = <<Reply("REFUSED", c, {})>>
  <2>1. W \subseteq V BY <1>1, <1>10
  <2>2. \A a \in Answer : a.cmd = "REFUSED" /\ a.chan = c => \A x \in W \cap View : Effect(x, a, c) \in V
    <3>1. ASSUME NEW a \in Answer, a.cmd = "REFUSED", NEW x \in W \cap View PROVE Effect(x, a, c) \in V
      <4>1. Effect(x, a, c) = x BY <3>1, EffectFacts
      <4> QED BY <2>1, <4>1
    <3> QED BY <3>1
  <2>3. q \o <<Reply("REFUSED", c, {})>> \in Seq(Answer)
        /\ Leads(q \o <<Reply("REFUSED", c, {})>>, v, c, V)
    BY <1>7, <2>2
  <2> QED BY <1>10, <2>3 DEF V
<1>11. CASE /\ l.cmd = "JOIN" /\ Me \notin m /\ n = m \cup {Me}
            /\ p = <<Reply("UJOIN", c, {})>> \o Names(c, n)
  <2> DEFINE a == <<Reply("UJOIN", c, {})>>  ns == Names(c, n)  q2 == q \o a
             no == FALSE  new == Seen({}, no)  W2 == {new}
  <2>1. \A b \in Answer : b.cmd = "UJOIN" /\ b.chan = c => \A x \in W \cap View : Effect(x, b, c) \in W2
    <3>1. ASSUME NEW b \in Answer, b.cmd = "UJOIN", b.chan = c, NEW x \in W \cap View
          PROVE  Effect(x, b, c) \in W2
      <4>1. Effect(x, b, c) = new BY <3>1, EffectFacts
      <4> QED BY <4>1
    <3> QED BY <3>1
  <2>2. q2 \in Seq(Answer) /\ Leads(q2, v, c, W2)
    <3> HIDE DEF W2
    <3> QED BY <1>7, <2>1
  <2>3. a \in Seq(Answer) BY Replies
  <2>4. ns \in Seq(Answer) BY NamesTyped
  <2>5. q \o p = q2 \o ns
    <3>1. p = a \o ns BY <1>11
    <3> HIDE DEF a, ns
    <3>2. (q \o a) \o ns = q \o (a \o ns) BY <2>3, <2>4, ConcatAssociative
    <3> QED BY <3>1, <3>2
  <2>6. new.on /\ new.users = {} /\ new # Off
    <3>1. no \in BOOLEAN /\ {} \in SUBSET {Me, Other} OBVIOUS
    <3> HIDE DEF no
    <3> QED BY <3>1, Views
  <2>7. Me \in n BY <1>11
  <2> HIDE DEF a, q2, new
  <2>8. c # c => W2 \cap View \subseteq V OBVIOUS
  <2>9. \A x \in W2 \cap View : x = Off \/ (Me \in n /\ x.on /\ (x.ends \/ x.users = {}))
    BY <2>6, <2>7
  <2>10. Off \notin W2 BY <2>6
  <2> HIDE DEF W2
  <2>11. c = c => /\ \A x \in W2 \cap View : x = Off \/ (Me \in n /\ x.on /\ (x.ends \/ x.users = {}))
                  /\ Off \in W2 => Off \in V
                  /\ Me \in n => Seen(n, TRUE) \in V
    BY <1>5, <2>9, <2>10, Zenon
  <2>12. q2 \o Names(c, n) \in Seq(Answer) /\ Leads(q2 \o Names(c, n), v, c, V)
    <3> HIDE DEF ns
    <3> QED BY <2>2, <2>8, <2>11, NamesLead, Zenon
  <2> QED BY <2>5, <2>12 DEF V
<1>12. CASE l.cmd = "PART" /\ Me \in m /\ n = m \ {Me} /\ p = <<Reply("UPART", c, {})>>
  <2>1. Off \in V BY <1>4, <1>12
  <2>2. \A a \in Answer : a.cmd = "UPART" /\ a.chan = c => \A x \in W \cap View : Effect(x, a, c) \in V
    <3>1. ASSUME NEW a \in Answer, a.cmd = "UPART", a.chan = c, NEW x \in W \cap View
          PROVE  Effect(x, a, c) \in V
      <4>1. Effect(x, a, c) = Off BY <3>1, EffectFacts, ZenonT(60)
      <4> QED BY <2>1, <4>1
    <3> QED BY <3>1
  <2>3. q \o <<Reply("UPART", c, {})>> \in Seq(Answer)
        /\ Leads(q \o <<Reply("UPART", c, {})>>, v, c, V)
    BY <1>7, <2>2
  <2> QED BY <1>12, <2>3 DEF V
<1>13. CASE l.cmd = "PART" /\ Me \notin m /\ n = m /\ p = <<>>
  <2>1. W \subseteq V BY <1>2, <1>4, <1>13
  <2>2. q \o p = q BY <1>13
  <2>3. Leads(q, v, c, V) BY <1>6, <2>1, LeadsWider
  <2> QED BY <2>2, <2>3 DEF V
<1> QED BY <1>8, <1>9, <1>10, <1>11, <1>12, <1>13 DEF Answered

LEMMA IrcdReadsStep == ASSUME IInv, NEW s \in Serv, IrcdReads(s) PROVE IInv'
<1>1. tabs \in Seq(Tab) /\ Links /\ Others BY Types DEF IInv
<1> DEFINE o == out[s]  l == Head(o)  c == l.chan  m == ircd[s][c]  rest == Tail(o)
           n == After(l, m, banned[s])  p == AnswerTo(l, m, banned[s])  q == inq[s]  heard == q \o p
<1>2. /\ o # <<>> /\ out' = [out EXCEPT ![s] = rest]
      /\ ircd' = [ircd EXCEPT ![s][c] = n] /\ inq' = [inq EXCEPT ![s] = heard]
      /\ tabs' = tabs /\ stat' = stat /\ joindelay' = joindelay
      /\ banned' = banned /\ want' = want /\ events' = events /\ features' = features
  BY DEF IrcdReads, After, AnswerTo
<1>3. /\ out \in [Serv -> Seq(Line)] /\ inq \in [Serv -> Seq(Answer)]
      /\ ircd \in [Serv -> [Chan -> SUBSET {Me, Other}]]
  BY <1>1 DEF Links
<1>4. o \in Seq(Line) /\ q \in Seq(Answer) BY <1>3
<1>5. l \in Line /\ rest \in Seq(Line)
  <2> HIDE DEF o
  <2> QED BY <1>2, <1>4, HeadTailProperties
<1>6. c \in Chan BY <1>5 DEF Line
<1>7. m \in SUBSET {Me, Other} BY <1>3, <1>6
<1>8. stat[s] = "in" BY <1>1, <1>2 DEF Links
<1>9. Others' BY <1>1, <1>2 DEF Others
<1>10. l = Head(o) /\ c = l.chan /\ rest = Tail(o) /\ heard = q \o p /\ m = ircd[s][c]
       /\ o = out[s] /\ q = inq[s] /\ n = After(l, m, banned[s]) /\ p = AnswerTo(l, m, banned[s])
  OBVIOUS
<1> HIDE DEF o, l, c, m, rest, n, p, q, heard
<1>11. Answered(l, c, m, n, p) BY <1>5, <1>7, <1>10, AnswerForms
<1>12. n \in SUBSET {Me, Other}
  <2>1. n = m \/ n = m \cup {Me} \/ n = m \ {Me} BY <1>11 DEF Answered
  <2> QED BY <1>7, <2>1
<1>13. ASSUME NEW d \in Chan, NEW v, Leads(q, v, d, Fitting(ircd[s][d], o, d))
       PROVE  /\ heard \in Seq(Answer)
              /\ Leads(heard, v, d, Fitting(IF d = c THEN n ELSE ircd[s][d], rest, d))
  <2>1. CASE d = c
    <3>1. Leads(q, v, c, Fitting(m, o, c)) BY <1>10, <1>13, <2>1, SMTT(30)
    <3>2. q \o p \in Seq(Answer) /\ Leads(q \o p, v, c, Fitting(n, Tail(o), c))
      BY <1>2, <1>4, <1>5, <1>6, <1>7, <1>10, <1>11, <1>12, <3>1, HereLeads, ZenonT(60)
    <3> QED BY <1>10, <2>1, <3>2, SMTT(30)
  <2>2. CASE d # c
    <3> DEFINE W == Fitting(ircd[s][d], o, d)  V == Fitting(ircd[s][d], rest, d)
    <3>1. W \subseteq V BY <1>2, <1>4, <1>10, <2>2, TakenFits
    <3>2. Leads(q, v, d, W) BY <1>13
    <3> HIDE DEF W, V
    <3>3. \/ p = <<>> \/ p = Names(c, n)
          \/ \E cmd \in {"REFUSED", "UPART", "UKICK", "JOIN", "PART"} : p = <<Reply(cmd, c, {})>>
          \/ p = <<Reply("UJOIN", c, {})>> \o Names(c, n)
      BY <1>11, Zenon DEF Answered
    <3>4. q \o p \in Seq(Answer) /\ Leads(q \o p, v, d, V)
      BY <1>4, <1>6, <1>12, <2>2, <3>1, <3>2, <3>3, ElsewhereLeads, SMTT(30)
    <3> QED BY <1>10, <2>2, <3>4 DEF V
  <2> QED BY <2>1, <2>2, SMTT(30)
<1>14. heard \in Seq(Answer)
  <2>1. <<>> \in Seq(Answer) /\ Names(c, m) \in Seq(Answer) /\ Names(c, n) \in Seq(Answer)
    BY <1>6, NamesTyped, EmptySeq
  <2>2. /\ <<Reply("REFUSED", c, {})>> \in Seq(Answer) /\ <<Reply("UPART", c, {})>> \in Seq(Answer)
        /\ <<Reply("UJOIN", c, {})>> \in Seq(Answer)
    BY <1>6, Replies
  <2>3. <<Reply("UJOIN", c, {})>> \o Names(c, n) \in Seq(Answer)
    BY <2>1, <2>2, ConcatProperties
  <2>4. p \in Seq(Answer) BY <1>11, <2>1, <2>2, <2>3, Zenon DEF Answered
  <2> QED BY <1>4, <1>10, <2>4, ConcatProperties
<1>15. /\ out' \in [Serv -> Seq(Line)] /\ out'[s] = rest
       /\ inq' \in [Serv -> Seq(Answer)] /\ inq'[s] = heard
       /\ \A r \in Serv : r # s => inq'[r] = inq[r] /\ out'[r] = out[r]
  BY <1>2, <1>3, <1>5, <1>14
<1>16. /\ ircd' \in [Serv -> [Chan -> SUBSET {Me, Other}]]
       /\ \A r \in Serv : r # s => ircd'[r] = ircd[r]
       /\ \A d \in Chan : ircd'[s][d] = IF d = c THEN n ELSE ircd[s][d]
  BY <1>2, <1>3, <1>6, <1>12, SMTT(30)
<1>17. \A d \in Chan, v \in View :
         Leads(inq[s], v, d, Fitting(ircd[s][d], out[s], d))
           => Leads(inq'[s], v, d, Fitting(ircd'[s][d], out'[s], d))
  BY <1>10, <1>13, <1>15, <1>16, ZenonT(60)
<1> QED BY <1>2, <1>8, <1>9, <1>15, <1>16, <1>17, SpokenStep, SMTT(30)

LEMMA KickStep == ASSUME IInv, NEW s \in Serv, NEW c \in Chan, Kick(s, c) PROVE IInv'
<1>1. tabs \in Seq(Tab) /\ Links /\ Others BY Types DEF IInv
<1> DEFINE m == ircd[s][c]  n == m \ {Me}  a == Reply("UKICK", c, {})  q == inq[s]
           heard == Append(q, a)
<1>2. /\ Me \in m /\ ircd' = [ircd EXCEPT ![s][c] = n] /\ inq' = [inq EXCEPT ![s] = heard]
      /\ banned' \in [Serv -> SUBSET Chan] /\ tabs' = tabs /\ stat' = stat /\ joindelay' = joindelay
      /\ out' = out /\ want' = want /\ features' = features /\ events' \in 0..MaxEvents
  BY <1>1, EventTyped DEF Kick, Others
<1>3. /\ out \in [Serv -> Seq(Line)] /\ inq \in [Serv -> Seq(Answer)]
      /\ ircd \in [Serv -> [Chan -> SUBSET {Me, Other}]]
  BY <1>1 DEF Links
<1>4. q \in Seq(Answer) /\ m \in SUBSET {Me, Other} /\ n \in SUBSET {Me, Other} /\ Me \notin n
  BY <1>3
<1>5. a \in Answer /\ a.cmd = "UKICK" /\ a.chan = c BY Replies
<1>6. stat[s] = "in"
  <2>1. Agrees(tabs, stat[s], inq[s], out[s], ircd[s][c], s, c) BY DEF IInv
  <2> QED BY <1>2, <2>1 DEF Agrees
<1>7. Others' BY <1>1, <1>2 DEF Others
<1>8. heard = Append(q, a) /\ m = ircd[s][c] /\ q = inq[s] OBVIOUS
<1> HIDE DEF a, q, m, n, heard
<1>9. heard \in Seq(Answer) BY <1>4, <1>5, <1>8, AppendProperties
<1>10. inq' \in [Serv -> Seq(Answer)] /\ inq'[s] = heard /\ \A r \in Serv : r # s => inq'[r] = inq[r]
  BY <1>2, <1>3, <1>9
<1>11. /\ ircd' \in [Serv -> [Chan -> SUBSET {Me, Other}]]
       /\ \A r \in Serv : r # s => ircd'[r] = ircd[r]
       /\ \A d \in Chan : ircd'[s][d] = IF d = c THEN n ELSE ircd[s][d]
  BY <1>2, <1>3, <1>4
<1>12. ASSUME NEW d \in Chan, NEW v \in View, Leads(inq[s], v, d, Fitting(ircd[s][d], out[s], d))
       PROVE  Leads(inq'[s], v, d, Fitting(ircd'[s][d], out'[s], d))
  <2> DEFINE W == Fitting(ircd[s][d], out[s], d)  V == Fitting(ircd'[s][d], out'[s], d)
  <2>1. ASSUME NEW x \in W \cap View PROVE Effect(x, a, d) \in V
    <3>1. CASE d = c
      <4>1. Effect(x, a, d) = Off BY <1>5, <2>1, <3>1, EffectFacts, ZenonT(60)
      <4>2. ircd'[s][d] = n BY <1>11, <3>1
      <4>3. Off \in Fitting(n, out'[s], d) BY <1>4, FittingFacts
      <4> QED BY <4>1, <4>2, <4>3
    <3>2. CASE d # c
      <4>1. Effect(x, a, d) = x BY <1>5, <2>1, <3>2, EffectFacts
      <4>2. ircd'[s][d] = ircd[s][d] BY <1>11, <3>2
      <4>3. V = W BY <1>2, <4>2
      <4> QED BY <4>1, <4>3
    <3> QED BY <3>1, <3>2
  <2>2. Leads(q, v, d, W) BY <1>8, <1>12
  <2> HIDE DEF W, V
  <2>3. Leads(Append(q, a), v, d, V) BY <1>4, <1>5, <2>1, <2>2, LeadsOn
  <2> QED BY <1>8, <1>10, <2>3 DEF V
<1>13. out' \in [Serv -> Seq(Line)] /\ \A r \in Serv : r # s => out'[r] = out[r] BY <1>2, <1>3
<1> QED BY <1>2, <1>6, <1>7, <1>10, <1>11, <1>12, <1>13, SpokenStep

(* Somebody else comes or goes: the line and the members change alike.     *)
LEMMA OtherSeen ==
  ASSUME NEW m \in SUBSET {Me, Other}, Me \in m, NEW o, NEW c, NEW x \in Fitting(m, o, c),
         NEW n \in SUBSET {Me, Other}, NEW a \in Answer, a.chan = c,
         (a.cmd = "PART" /\ n = m \ {Other}) \/ (a.cmd = "JOIN" /\ n = m \cup {Other})
  PROVE  Effect(x, a, c) \in Fitting(n, o, c)
<1> DEFINE yes == TRUE  full == Seen(m, yes)  V == Fitting(n, o, c)
<1>1. yes \in BOOLEAN /\ yes OBVIOUS
<1>2. Me \in n BY DEF Me, Other
<1>3. Seen(n, yes) \in V /\ (Off \in V <=> Parting(o, c)) BY <1>2, FittingFacts
<1>4. x = full \/ (x = Off /\ Off \in Fitting(m, o, c)) BY FittingFacts
<1>5. Off \in Fitting(m, o, c) => Off \in V BY <1>3, FittingFacts
<1> HIDE DEF yes, V
<1>6. full \in View /\ full.on /\ full.users = m /\ (full.ends <=> yes) /\ full.ends \in BOOLEAN
  <2>1. full \in View /\ full.on /\ full.users = m /\ (full.ends <=> yes) BY <1>1, Views
  <2> HIDE DEF full
  <2> QED BY <2>1, ViewTyped
<1>7. full.ends = yes BY <1>1, <1>6
<1> HIDE DEF full
<1>8. CASE x = Off
  <2>1. Effect(Off, a, c) = Off BY <1>6, EffectFacts, ZenonT(60)
  <2>2. Off \in V BY <1>4, <1>5, <1>8
  <2> QED BY <1>8, <2>1, <2>2 DEF V
<1>9. CASE x = full
  <2>1. Effect(full, a, c) = Updated(full, a) BY <1>6, EffectFacts
  <2>2. CASE a.cmd = "PART" /\ n = m \ {Other}
    <3>1. Updated(full, a) = Seen(full.users \ {Other}, full.ends) BY <1>6, <2>2, UpdatedFacts
    <3>2. Updated(full, a) = Seen(n, yes) BY <1>6, <1>7, <2>2, <3>1
    <3> QED BY <1>3, <1>9, <2>1, <3>2 DEF V
  <2>3. CASE a.cmd = "JOIN" /\ n = m \cup {Other}
    <3>1. Updated(full, a) = Seen(full.users \cup {Other}, full.ends) BY <1>6, <2>3, UpdatedFacts
    <3>2. Updated(full, a) = Seen(n, yes) BY <1>6, <1>7, <2>3, <3>1
    <3> QED BY <1>3, <1>9, <2>1, <3>2 DEF V
  <2> QED BY <2>2, <2>3
<1> QED BY <1>4, <1>8, <1>9

LEMMA OtherMovesStep ==
  ASSUME IInv, NEW s \in Serv, NEW c \in Chan, OtherMoves(s, c) PROVE IInv'
<1>1. tabs \in Seq(Tab) /\ Links /\ Others /\ Unique(tabs) /\ OnlyIn(tabs, stat)
  BY Types DEF IInv
<1> DEFINE m == ircd[s][c]  leaves == Other \in m
           n == IF leaves THEN m \ {Other} ELSE m \cup {Other}
           cmd == IF leaves THEN "PART" ELSE "JOIN"
           a == Reply(cmd, c, {})  q == inq[s]  heard == Append(q, a)
<1>2. /\ ircd' = [ircd EXCEPT ![s][c] = n]
      /\ Me \in m => inq' = [inq EXCEPT ![s] = heard]
      /\ Me \notin m => inq' = inq
      /\ tabs' = tabs /\ stat' = stat /\ joindelay' = joindelay /\ out' = out
      /\ banned' = banned /\ want' = want /\ features' = features /\ events' \in 0..MaxEvents
  BY <1>1, EventTyped DEF OtherMoves
<1>3. /\ out \in [Serv -> Seq(Line)] /\ inq \in [Serv -> Seq(Answer)]
      /\ ircd \in [Serv -> [Chan -> SUBSET {Me, Other}]]
  BY <1>1 DEF Links
<1>4. q \in Seq(Answer) /\ m \in SUBSET {Me, Other} BY <1>3
<1>5. n \in SUBSET {Me, Other} /\ (Me \in n <=> Me \in m) BY <1>4 DEF Me, Other
<1>6. (cmd = "PART" /\ n = m \ {Other}) \/ (cmd = "JOIN" /\ n = m \cup {Other}) OBVIOUS
<1>7. m = ircd[s][c] /\ q = inq[s] OBVIOUS
<1> HIDE DEF n, cmd, m
<1>8. a \in Answer /\ a.chan = c /\ a.cmd = cmd BY <1>6, Replies
<1> HIDE DEF a
<1>9. heard \in Seq(Answer) BY <1>4, <1>8, AppendProperties
<1>10. heard = Append(q, a) OBVIOUS
<1> HIDE DEF q, heard
<1>11. /\ inq' \in [Serv -> Seq(Answer)]
       /\ \A r \in Serv : r # s => inq'[r] = inq[r]
       /\ Me \in m => inq'[s] = heard
       /\ Me \notin m => inq'[s] = inq[s]
  BY <1>2, <1>3, <1>9
<1>12. /\ ircd' \in [Serv -> [Chan -> SUBSET {Me, Other}]]
       /\ \A r \in Serv : r # s => ircd'[r] = ircd[r]
       /\ \A d \in Chan : ircd'[s][d] = IF d = c THEN n ELSE ircd[s][d]
  BY <1>2, <1>3, <1>5
<1>13. Others' BY <1>1, <1>2 DEF Others
<1>14. CASE stat[s] = "in"
  <2>1. ASSUME NEW d \in Chan, NEW v \in View, Leads(inq[s], v, d, Fitting(ircd[s][d], out[s], d))
        PROVE  Leads(inq'[s], v, d, Fitting(ircd'[s][d], out'[s], d))
    <3> DEFINE W == Fitting(ircd[s][d], out[s], d)  V == Fitting(ircd'[s][d], out'[s], d)
    <3>1. Leads(q, v, d, W) BY <1>7, <2>1
    <3>2. d # c => V = W
      <4>1. ASSUME d # c PROVE ircd'[s][d] = ircd[s][d] BY <1>12, <4>1
      <4> QED BY <1>2, <4>1
    <3>3. CASE Me \in m
      <4>1. ASSUME NEW x \in W \cap View PROVE Effect(x, a, d) \in V
        <5>1. CASE d # c
          <6>1. Effect(x, a, d) = x BY <1>8, <4>1, <5>1, EffectFacts
          <6> QED BY <3>2, <4>1, <5>1, <6>1
        <5>2. CASE d = c
          <6> DEFINE o == out[s]
          <6>1. x \in Fitting(m, o, c) BY <1>7, <5>2
          <6> HIDE DEF W, V, o
          <6>2. Effect(x, a, c) \in Fitting(n, o, c)
            BY <1>4, <1>5, <1>6, <1>8, <3>3, <6>1, OtherSeen
          <6>3. ircd'[s][d] = n /\ out'[s] = o BY <1>2, <1>12, <5>2 DEF o
          <6> QED BY <5>2, <6>2, <6>3 DEF V
        <5> QED BY <5>1, <5>2
      <4> HIDE DEF W, V
      <4>2. Leads(Append(q, a), v, d, V) BY <1>4, <1>8, <3>1, <4>1, LeadsOn
      <4> QED BY <1>10, <1>11, <3>3, <4>2 DEF V
    <3>4. CASE Me \notin m
      <4>1. W \subseteq V
        <5>1. CASE d # c BY <3>2, <5>1
        <5>2. CASE d = c
          <6>1. \A x \in Fitting(m, out[s], c) : x = Off BY <1>4, <3>4, FittingFacts
          <6>2. Off \in Fitting(n, out'[s], c) BY <1>5, <3>4, FittingFacts
          <6>3. ircd'[s][d] = n BY <1>12, <5>2
          <6> QED BY <1>7, <5>2, <6>1, <6>2, <6>3
        <5> QED BY <5>1, <5>2
      <4>2. inq'[s] = q BY <1>7, <1>11, <3>4
      <4> HIDE DEF W, V
      <4>3. Leads(q, v, d, V) BY <3>1, <4>1, LeadsWider
      <4> QED BY <4>2, <4>3 DEF V
    <3> QED BY <3>3, <3>4
  <2>2. out' \in [Serv -> Seq(Line)] /\ \A r \in Serv : r # s => out'[r] = out[r] BY <1>2, <1>3
  <2> QED BY <1>2, <1>11, <1>12, <1>13, <1>14, <2>1, <2>2, SpokenStep
<1>15. CASE stat[s] # "in"
  <2>1. ASSUME NEW d \in Chan PROVE Me \notin ircd[s][d]
    <3>1. Agrees(tabs, stat[s], inq[s], out[s], ircd[s][d], s, d) BY DEF IInv
    <3> QED BY <1>15, <3>1 DEF Agrees
  <2>2. Me \notin m BY <1>7, <2>1
  <2>3. \A d \in Chan : Me \notin ircd'[s][d] BY <1>5, <1>12, <2>1, <2>2
  <2>4. stat'[s] # "in" /\ inq' = inq BY <1>2, <1>15, <2>2
  <2>5. \A d \in Chan : Agrees(tabs', stat'[s], inq'[s], out'[s], ircd'[s][d], s, d)
    BY <2>3, <2>4 DEF Agrees
  <2>6. Links' BY <1>1, <1>2, <1>12, <2>4 DEF Links
  <2>7. TypeOK'
    <3>1. TypeOK' <=> tabs' \in Seq(Tab) /\ Links' /\ Others' BY DEF TypeOK, Links, Others
    <3> QED BY <1>1, <1>2, <1>13, <2>6, <3>1
  <2>8. Unique(tabs') /\ OnlyIn(tabs', stat') BY <1>1, <1>2
  <2>9. \A r \in Serv : r # s => /\ stat'[r] = stat[r] /\ inq'[r] = inq[r]
                                 /\ out'[r] = out[r] /\ ircd'[r] = ircd[r]
    BY <1>2, <1>12, <2>4
  <2>10. \A r \in Serv, d \in Chan, v \in View :
           r # s /\ Shows(tabs, r, d, v) => Shows(tabs', r, d, v)
    BY <1>2
  <2> QED BY <2>5, <2>7, <2>8, <2>9, <2>10, OneServer
<1> QED BY <1>14, <1>15

-----------------------------------------------------------------------------
(* The invariant. *)

LEMMA InitHolds == Init => IInv
<1> SUFFICES ASSUME Init PROVE IInv OBVIOUS
<1> DEFINE none == <<>>  no == FALSE  left == [c \in Chan |-> {}]
<1>1. /\ tabs = none /\ stat = [s \in Serv |-> "down"] /\ joindelay = [s \in Serv |-> no]
      /\ out = [s \in Serv |-> none] /\ inq = [s \in Serv |-> none]
      /\ ircd = [s \in Serv |-> left]
      /\ banned = [s \in Serv |-> {}] /\ want = [s \in Serv |-> {}]
      /\ events = 0 /\ features \in Scenarios
  BY DEF Init
<1>2. none = <<>> /\ none \in Seq(Tab) /\ none \in Seq(Line) /\ none \in Seq(Answer) /\ Len(none) = 0
  BY EmptySeq
<1>3. no \in BOOLEAN /\ ~no OBVIOUS
<1>4. left \in [Chan -> SUBSET {Me, Other}] /\ \A c \in Chan : Me \notin left[c] OBVIOUS
<1> HIDE DEF none, no, left
<1>5. Links BY <1>1, <1>2, <1>4 DEF Links
<1>6. Others
  <2>1. events \in 0..MaxEvents BY <1>1, ChannelsAssumption
  <2>2. joindelay \in [Serv -> BOOLEAN] /\ \A s \in Serv : ~joindelay[s] BY <1>1, <1>3
  <2> QED BY <1>1, <2>1, <2>2 DEF Others
<1>7. TypeOK BY <1>1, <1>2, <1>5, <1>6, Types
<1>8. Unique(tabs) /\ OnlyIn(tabs, stat) BY <1>1, <1>2 DEF Unique, OnlyIn
<1>9. ASSUME NEW s \in Serv, NEW c \in Chan
      PROVE  Agrees(tabs, stat[s], inq[s], out[s], ircd[s][c], s, c)
  <2>1. stat[s] = "down" /\ Me \notin ircd[s][c] BY <1>1, <1>4
  <2> QED BY <2>1 DEF Agrees
<1> QED BY <1>7, <1>8, <1>9 DEF IInv

LEMMA NextHolds == IInv /\ [Next]_vars => IInv'
<1> SUFFICES ASSUME IInv, [Next]_vars PROVE IInv' OBVIOUS
<1>1. ASSUME NEW s \in Serv, Connect(s) PROVE IInv' BY <1>1, ConnectStep
<1>2. ASSUME NEW s \in Serv, inbound_login_end(s) PROVE IInv' BY <1>2, LoginEndStep
<1>3. ASSUME NEW s \in Serv, check_autojoin_channels(s) PROVE IInv' BY <1>3, CheckAutojoinStep
<1>4. ASSUME NEW s \in Serv, Lost(s) PROVE IInv' BY <1>4, LostStep
<1>5. ASSUME NEW s \in Serv, cmd_discon(s) PROVE IInv' BY <1>5, DisconStep
<1>6. ASSUME NEW s \in Serv, OpenTab(s) PROVE IInv' BY <1>6, OpenTabStep
<1>7. ASSUME NEW s \in Serv, Read(s) PROVE IInv' BY <1>7, ReadStep
<1>8. ASSUME NEW s \in Serv, IrcdReads(s) PROVE IInv' BY <1>8, IrcdReadsStep
<1>9. ASSUME NEW s \in Serv, NEW c \in Chan, NEW i \in 0..Len(tabs), cmd_join(s, c, i) PROVE IInv'
  BY <1>9, JoinStep
<1>10. ASSUME NEW s \in Serv, NEW c \in Chan, cmd_part(s, c) \/ cmd_cycle(s, c) \/ cmd_names(s, c)
       PROVE  IInv'
  BY <1>10, AskStep
<1>11. ASSUME NEW s \in Serv, NEW c \in Chan, Kick(s, c) PROVE IInv' BY <1>11, KickStep
<1>12. ASSUME NEW s \in Serv, NEW c \in Chan, OtherMoves(s, c) PROVE IInv' BY <1>12, OtherMovesStep
<1>13. ASSUME NEW i \in DOMAIN tabs, session_free(i) PROVE IInv' BY <1>13, FreeStep
<1>14. CASE UNCHANGED vars
  <2>1. /\ tabs' = tabs /\ stat' = stat /\ joindelay' = joindelay /\ out' = out /\ inq' = inq
        /\ ircd' = ircd /\ banned' = banned /\ want' = want /\ events' = events
        /\ features' = features
    BY <1>14 DEF vars
  <2>2. TypeOK'
    <3>1. TypeOK' <=> tabs' \in Seq(Tab) /\ Links' /\ Others' BY DEF TypeOK, Links, Others
    <3>2. tabs \in Seq(Tab) /\ Links /\ Others BY Types DEF IInv
    <3> QED BY <2>1, <3>1, <3>2 DEF Links, Others
  <2> QED BY <2>1, <2>2 DEF IInv
<1> QED BY <1>1, <1>2, <1>3, <1>4, <1>5, <1>6, <1>7, <1>8, <1>9, <1>10, <1>11, <1>12, <1>13,
           <1>14 DEF Next

(* The lines under way lead the view that a tab gives of its channel to    *)
(* what the IRC server has, or to nothing where the tab was closed and its *)
(* PART is not read (inbound_ujoin, clear_channel, session_free).          *)
THEOREM Invariant == Spec => []IInv
BY InitHolds, NextHolds, PTL DEF Spec

(* Every variable keeps its type (the tabs of sess_list and the lines      *)
(* under way).                                                             *)
THEOREM TypeCorrect == Spec => []TypeOK
<1>1. IInv => TypeOK BY DEF IInv
<1> QED BY <1>1, Invariant, PTL

(* A channel that the server has answered for is shown as it is.           *)
LEMMA QuietView ==
  ASSUME IInv, NEW s \in Serv, NEW c \in Chan, Quiet(s)
  PROVE  /\ On(s, c) <=> Me \in ircd[s][c]
         /\ On(s, c) => tabs[find_channel(s, c)].users = ircd[s][c]
<1> DEFINE m == ircd[s][c]  k == find_channel(s, c)
<1>1. tabs \in Seq(Tab) /\ Links BY Types DEF IInv
<1>2. stat[s] = "in" /\ out[s] = <<>> /\ inq[s] = <<>> BY DEF Quiet, Ready
<1>3. m \in SUBSET {Me, Other} BY <1>1 DEF Links
<1>4. PICK v \in View : Shows(tabs, s, c, v) /\ Leads(<<>>, v, c, Fitting(m, <<>>, c))
  <2>1. Agrees(tabs, stat[s], inq[s], out[s], m, s, c) BY DEF IInv
  <2> HIDE DEF m
  <2> QED BY <1>2, <2>1 DEF Agrees, Follows
<1> HIDE DEF m
<1>5. v \in Fitting(m, <<>>, c) BY <1>4, LeadsNowhere
<1>6. ~Parting(<<>>, c) BY DEF Parting
<1>7. /\ On(s, c) <=> At(tabs, s, c) # {}
      /\ On(s, c) => k \in At(tabs, s, c) /\ k \in 1..Len(tabs)
  BY <1>1, FindFacts
<1> HIDE DEF k
<1>8. ASSUME On(s, c) PROVE v # Off /\ v.users = tabs[k].users
  <2> DEFINE t == tabs[k]
  <2>1. t \in Tab BY <1>1, <1>7, <1>8, LenProperties
  <2>2. v = Seen(t.users, t.end_of_names) BY <1>4, <1>7, <1>8, ShowsAt
  <2> HIDE DEF t
  <2>3. t.users \in SUBSET {Me, Other} /\ t.end_of_names \in BOOLEAN BY <2>1, TabTyped
  <2>4. v # Off /\ v.users = t.users BY <2>2, <2>3, Views
  <2> QED BY <2>4 DEF t
<1>9. CASE Me \in m
  <2> DEFINE yes == TRUE
  <2>1. yes \in BOOLEAN OBVIOUS
  <2>2. v = Seen(m, yes) \/ v = Off BY <1>3, <1>5, <1>9, FittingFacts
  <2>3. v # Off BY <1>3, <1>5, <1>6, <1>9, FittingFacts
  <2> HIDE DEF yes
  <2>4. v.users = m BY <1>3, <2>1, <2>2, <2>3, Views
  <2>5. At(tabs, s, c) # {} BY <1>4, <2>3 DEF Shows
  <2> QED BY <1>7, <1>8, <1>9, <2>4, <2>5 DEF m, k
<1>10. CASE Me \notin m
  <2>1. v = Off BY <1>3, <1>5, <1>10, FittingFacts
  <2> QED BY <1>8, <1>10, <2>1 DEF m
<1> QED BY <1>9, <1>10

(* The tabs say where the client is: each channel has one tab at most,     *)
(* there are none without a connection, and once the server has answered   *)
(* everything they are the channels it has us on, with the members it has  *)
(* (inbound_ujoin, clear_channel, send_quit_or_part, inbound_nameslist).   *)
THEOREM AlwaysTabsMatch == Spec => []TabsMatch
<1>1. ASSUME IInv PROVE TabsMatch
  <2>1. DOMAIN tabs = 1..Len(tabs)
    <3>1. tabs \in Seq(Tab) BY <1>1, Types DEF IInv
    <3> QED BY <3>1, LenProperties
  <2>2. \A i, j \in DOMAIN tabs :
          tabs[i].channel # None /\ tabs[i].channel = tabs[j].channel /\ tabs[i].serv = tabs[j].serv
          => i = j
    BY <1>1, <2>1 DEF IInv, Unique
  <2>3. \A i \in DOMAIN tabs : tabs[i].channel # None => stat[tabs[i].serv] = "in"
    BY <1>1, <2>1 DEF IInv, OnlyIn
  <2>4. \A s \in Serv : Quiet(s) =>
          \A c \in Chan :
            /\ On(s, c) <=> Me \in ircd[s][c]
            /\ On(s, c) => tabs[find_channel(s, c)].users = ircd[s][c]
    BY <1>1, QuietView
  <2> QED BY <2>2, <2>3, <2>4 DEF TabsMatch
<1> QED BY <1>1, Invariant, PTL

-----------------------------------------------------------------------------
(* What is wanted.  OnWanted compares the wants of the user with what the  *)
(* server has when nothing is under way.  The inductive invariant says for *)
(* any other moment what the lines under way will make of it.              *)

(* The tabs of server s. *)
Mine(ts, s) == {ts[i] : i \in {j \in 1..Len(ts) : ts[j].serv = s}}

(* A JOIN of c is among the lines o to the server; none of a PART follows. *)
Joining(o, c) == \E i \in 1..Len(o) : o[i] = ToLine("JOIN", c)
JoinsLast(o, c) ==
    \E i \in 1..Len(o) : /\ o[i] = ToLine("JOIN", c)
                         /\ \A j \in (i + 1)..Len(o) : o[j] # ToLine("PART", c)

(* An answer of that kind for c is among the lines q to the client; a kick *)
(* is, and none that we joined again follows.                              *)
Has(q, cmd, c) == \E i \in 1..Len(q) : q[i].cmd = cmd /\ q[i].chan = c
Kicked(q, c) ==
    \E i \in 1..Len(q) : /\ q[i].cmd = "UKICK" /\ q[i].chan = c
                         /\ \A j \in (i + 1)..Len(q) : ~(q[j].cmd = "UJOIN" /\ q[j].chan = c)

(* We shall be among the members of c, which are m, once the server has    *)
(* read the lines o, if it refuses none.                                   *)
Hope(o, m, c) == JoinsLast(o, c) \/ (Me \in m /\ ~Parting(o, c))

(* Logged in: the user wants the channels that we shall be on and those    *)
(* where the client does not know yet that we shall not.  A client that    *)
(* joins again after a kick does so where it is wanted.                    *)
Sought(c, M, q, o, m, ban, w, f) ==
    /\ Hope(o, m, c) => c \in w \/ c \in ban
    /\ c \in w => Hope(o, m, c) \/ Has(q, "REFUSED", c) \/ (Kicked(q, c) /\ ~Joining(o, c))
    /\ /\ {"kick", "autorejoin"} \subseteq f
       /\ (\E t \in M : t.channel = c) \/ Joining(o, c) \/ Has(q, "UJOIN", c)
       => c \in w \/ c \in ban

(* Not logged in, or in the delay: the tabs are marked with what is wanted *)
(* and nothing is under way that would change what they are on.            *)
Waiting(M, q, o, R, w, f) ==
    /\ \A c \in Chan : /\ Me \notin R[c] /\ ~Joining(o, c) /\ ~Parting(o, c)
                       /\ \A cmd \in {"UJOIN", "UKICK", "REFUSED"} : ~Has(q, cmd, c)
    /\ \A t \in M : t.channel = None /\ ("favs" \in f => t.will = None /\ t.wait = None)
    /\ w = IF "favs" \in f THEN Fav ELSE {t.will : t \in M} \ {None}

Lawful(q, R, ban, f) ==
    \A c \in Chan : /\ Me \in R[c] => c \notin ban
                    /\ Has(q, "REFUSED", c) => c \in ban
                    /\ Has(q, "UKICK", c) => "kick" \in f

Loses(s, f) == (IF s = 1 THEN "lost" ELSE "lost2") \in f

Held(s, M, st, dl, q, o, R, ban, w, f) ==
    /\ Lawful(q, R, ban, f)
    /\ st = "down" => M = {} /\ w = {}
    /\ st = "connecting" \/ dl => Waiting(M, q, o, R, w, f)
    /\ st = "in" /\ ~dl => /\ \A c \in Chan : Sought(c, M, q, o, R[c], ban, w, f)
                           /\ Loses(s, f) => \A t \in M : t.will = None

WInv ==
    Orderly => \A s \in Serv :
      Held(s, Mine(tabs, s), stat[s], joindelay[s], inq[s], out[s], ircd[s], banned[s], want[s],
           features)

-----------------------------------------------------------------------------
(* Lines to the server. *)

LEMMA SentFacts ==
  ASSUME NEW o \in Seq(Line), NEW a \in Line, NEW p, p = Append(o, a), NEW c
  PROVE  /\ p \in Seq(Line)
         /\ Joining(p, c) <=> Joining(o, c) \/ a = ToLine("JOIN", c)
         /\ Parting(p, c) <=> Parting(o, c) \/ a = ToLine("PART", c)
         /\ JoinsLast(p, c) <=> a = ToLine("JOIN", c) \/ (JoinsLast(o, c) /\ a # ToLine("PART", c))
<1> DEFINE n == Len(o)  J == ToLine("JOIN", c)  P == ToLine("PART", c)
<1>1. /\ p \in Seq(Line) /\ n \in Nat /\ Len(p) = n + 1 /\ p[n + 1] = a
      /\ \A i \in 1..n : p[i] = o[i]
  BY AppendProperties, LenProperties
<1>0. J # P BY DEF ToLine
<1> HIDE DEF n, J, P
<1>2. \A i : i \in 1..(n + 1) <=> i \in 1..n \/ i = n + 1 BY <1>1
<1>3. Joining(p, c) <=> Joining(o, c) \/ a = J BY <1>1, <1>2 DEF Joining, n, J
<1>4. Parting(p, c) <=> Parting(o, c) \/ a = P BY <1>1, <1>2 DEF Parting, n, P
<1>5. JoinsLast(o, c) <=> \E i \in 1..n : o[i] = J /\ \A j \in (i + 1)..n : o[j] # P
  BY DEF JoinsLast, n, J, P
<1>6. JoinsLast(p, c) <=> \E i \in 1..(n + 1) : p[i] = J /\ \A j \in (i + 1)..(n + 1) : p[j] # P
  BY <1>1 DEF JoinsLast, J, P
<1>7. ASSUME a = J PROVE JoinsLast(p, c)
  <2>1. n + 1 \in 1..(n + 1) /\ \A j \in ((n + 1) + 1)..(n + 1) : p[j] # P BY <1>1
  <2> QED BY <1>1, <1>6, <1>7, <2>1
<1>8. ASSUME JoinsLast(o, c), a # P PROVE JoinsLast(p, c)
  <2>1. PICK i \in 1..n : o[i] = J /\ \A j \in (i + 1)..n : o[j] # P BY <1>5, <1>8
  <2>2. i \in 1..(n + 1) /\ p[i] = J BY <1>1, <2>1
  <2>3. ASSUME NEW j \in (i + 1)..(n + 1) PROVE p[j] # P
    <3>1. CASE j = n + 1 BY <1>1, <1>8, <3>1
    <3>2. CASE j # n + 1
      <4>1. j \in (i + 1)..n /\ j \in 1..n BY <1>1, <3>2
      <4> QED BY <1>1, <2>1, <4>1
    <3> QED BY <3>1, <3>2
  <2> QED BY <1>6, <2>2, <2>3
<1>9. ASSUME JoinsLast(p, c), a # J PROVE JoinsLast(o, c) /\ a # P
  <2>1. PICK i \in 1..(n + 1) : p[i] = J /\ \A j \in (i + 1)..(n + 1) : p[j] # P BY <1>6, <1>9
  <2>2. i \in 1..n BY <1>1, <1>2, <1>9, <2>1
  <2>3. o[i] = J BY <1>1, <2>1, <2>2
  <2>4. n + 1 \in (i + 1)..(n + 1) BY <1>1, <2>2
  <2>5. ASSUME NEW j \in (i + 1)..n PROVE o[j] # P
    <3>1. j \in (i + 1)..(n + 1) /\ j \in 1..n BY <1>1
    <3> QED BY <1>1, <2>1, <3>1
  <2> QED BY <1>1, <1>5, <2>1, <2>2, <2>3, <2>4, <2>5
<1>10. JoinsLast(p, c) <=> a = J \/ (JoinsLast(o, c) /\ a # P) BY <1>0, <1>7, <1>8, <1>9
<1> QED BY <1>1, <1>3, <1>4, <1>10 DEF J, P

LEMMA TakenFacts ==
  ASSUME NEW o \in Seq(Line), o # <<>>, NEW h, h = Head(o), NEW p, p = Tail(o), NEW c
  PROVE  /\ Joining(o, c) <=> h = ToLine("JOIN", c) \/ Joining(p, c)
         /\ Parting(o, c) <=> h = ToLine("PART", c) \/ Parting(p, c)
         /\ JoinsLast(o, c) <=> JoinsLast(p, c) \/ (h = ToLine("JOIN", c) /\ ~Parting(p, c))
<1> DEFINE n == Len(o)  k == Len(p)  J == ToLine("JOIN", c)  P == ToLine("PART", c)
<1>1. /\ n \in Nat \ {0} /\ k = n - 1 /\ h = o[1] /\ \A i \in 1..k : p[i] = o[i + 1]
  BY EmptySeq, HeadTailProperties
<1> HIDE DEF n, k, J, P
<1>2. \A i \in 1..n : i = 1 \/ (i - 1 \in 1..k /\ (i - 1) + 1 = i) BY <1>1
<1>3. \A i \in 1..k : i + 1 \in 1..n BY <1>1
<1>4. 1 \in 1..n BY <1>1
<1>5. Joining(o, c) <=> h = J \/ Joining(p, c)
  <2>1. Joining(o, c) <=> \E i \in 1..n : o[i] = J BY DEF Joining, n, J
  <2>2. Joining(p, c) <=> \E i \in 1..k : p[i] = J BY DEF Joining, k, J
  <2>3. \A i \in 1..n : i # 1 => i - 1 \in 1..k /\ p[i - 1] = o[i] BY <1>1, <1>2
  <2> QED BY <1>1, <1>3, <1>4, <2>1, <2>2, <2>3, ZenonT(60)
<1>6. Parting(o, c) <=> h = P \/ Parting(p, c)
  <2>1. Parting(o, c) <=> \E i \in 1..n : o[i] = P BY DEF Parting, n, P
  <2>2. Parting(p, c) <=> \E i \in 1..k : p[i] = P BY DEF Parting, k, P
  <2>3. \A i \in 1..n : i # 1 => i - 1 \in 1..k /\ p[i - 1] = o[i] BY <1>1, <1>2
  <2> QED BY <1>1, <1>3, <1>4, <2>1, <2>2, <2>3
<1>7. JoinsLast(o, c) <=> \E i \in 1..n : o[i] = J /\ \A j \in (i + 1)..n : o[j] # P
  BY DEF JoinsLast, n, J, P
<1>8. JoinsLast(p, c) <=> \E i \in 1..k : p[i] = J /\ \A j \in (i + 1)..k : p[j] # P
  BY DEF JoinsLast, k, J, P
<1>9. ASSUME JoinsLast(p, c) PROVE JoinsLast(o, c)
  <2>1. PICK i \in 1..k : p[i] = J /\ \A j \in (i + 1)..k : p[j] # P BY <1>8, <1>9
  <2>2. i + 1 \in 1..n /\ o[i + 1] = J BY <1>1, <1>3, <2>1
  <2>3. ASSUME NEW j \in ((i + 1) + 1)..n PROVE o[j] # P
    <3>1. j - 1 \in (i + 1)..k /\ j - 1 \in 1..k /\ (j - 1) + 1 = j BY <1>1, <2>1
    <3> QED BY <1>1, <2>1, <3>1
  <2> QED BY <1>7, <2>2, <2>3
<1>10. ASSUME h = J, ~Parting(p, c) PROVE JoinsLast(o, c)
  <2>1. \A i \in 1..k : p[i] # P BY <1>10 DEF Parting, k, P
  <2>2. ASSUME NEW j \in (1 + 1)..n PROVE o[j] # P
    <3>1. j - 1 \in 1..k /\ (j - 1) + 1 = j BY <1>1
    <3> QED BY <1>1, <2>1, <3>1
  <2> QED BY <1>1, <1>4, <1>7, <1>10, <2>2
<1>11. ASSUME JoinsLast(o, c), ~JoinsLast(p, c) PROVE h = J /\ ~Parting(p, c)
  <2>1. PICK i \in 1..n : o[i] = J /\ \A j \in (i + 1)..n : o[j] # P BY <1>7, <1>11
  <2>2. CASE i = 1
    <3>1. ASSUME NEW j \in 1..k PROVE p[j] # P
      <4>1. j + 1 \in (i + 1)..n BY <1>1, <2>2
      <4> QED BY <1>1, <2>1, <4>1
    <3> QED BY <1>1, <2>1, <2>2, <3>1 DEF Parting, k, P
  <2>3. CASE i # 1
    <3>1. i - 1 \in 1..k /\ p[i - 1] = J BY <1>1, <1>2, <2>1, <2>3
    <3>2. ASSUME NEW j \in ((i - 1) + 1)..k PROVE p[j] # P
      <4>1. j + 1 \in (i + 1)..n /\ j \in 1..k BY <1>1, <2>1, <2>3
      <4> QED BY <1>1, <2>1, <4>1
    <3> QED BY <1>8, <1>11, <3>1, <3>2
  <2> QED BY <2>2, <2>3
<1> QED BY <1>5, <1>6, <1>9, <1>10, <1>11 DEF J, P

(* Lines to the client. *)
LEMMA HeardFacts ==
  ASSUME NEW q \in Seq(Answer), NEW p \in Seq(Answer), NEW u, u = q \o p, NEW c
  PROVE  /\ u \in Seq(Answer)
         /\ \A cmd : Has(u, cmd, c) <=> Has(q, cmd, c) \/ Has(p, cmd, c)
         /\ Kicked(q, c) /\ ~Has(p, "UJOIN", c) => Kicked(u, c)
<1> DEFINE n == Len(q)  m == Len(p)
<1>1. /\ u \in Seq(Answer) /\ Len(u) = n + m /\ n \in Nat /\ m \in Nat
      /\ \A i \in 1..(n + m) : u[i] = IF i <= n THEN q[i] ELSE p[i - n]
  BY ConcatProperties, LenProperties
<1> HIDE DEF n, m
<1>2. \A i \in 1..n : i \in 1..(n + m) /\ u[i] = q[i] BY <1>1
<1>3. \A i \in 1..m : n + i \in 1..(n + m) /\ u[n + i] = p[i]
  <2> SUFFICES ASSUME NEW i \in 1..m PROVE n + i \in 1..(n + m) /\ u[n + i] = p[i] OBVIOUS
  <2>1. n + i \in 1..(n + m) /\ ~(n + i <= n) /\ (n + i) - n = i BY <1>1
  <2> QED BY <1>1, <2>1
<1>4. \A i \in 1..(n + m) : i \in 1..n \/ (i - n \in 1..m /\ n + (i - n) = i) BY <1>1
<1>5. ASSUME NEW cmd PROVE Has(u, cmd, c) <=> Has(q, cmd, c) \/ Has(p, cmd, c)
  <2>1. Has(q, cmd, c) <=> \E i \in 1..n : q[i].cmd = cmd /\ q[i].chan = c BY DEF Has, n
  <2>2. Has(p, cmd, c) <=> \E i \in 1..m : p[i].cmd = cmd /\ p[i].chan = c BY DEF Has, m
  <2>3. Has(u, cmd, c) <=> \E i \in 1..(n + m) : u[i].cmd = cmd /\ u[i].chan = c BY <1>1 DEF Has
  <2>4. \A i \in 1..(n + m) : i \in 1..n \/ (i - n \in 1..m /\ u[i] = p[i - n]) BY <1>3, <1>4
  <2>5. ASSUME Has(q, cmd, c) PROVE Has(u, cmd, c) BY <1>2, <2>1, <2>3, <2>5
  <2>6. ASSUME Has(p, cmd, c) PROVE Has(u, cmd, c)
    <3>1. PICK i \in 1..m : p[i].cmd = cmd /\ p[i].chan = c BY <2>2, <2>6
    <3>2. n + i \in 1..(n + m) /\ u[n + i] = p[i] BY <1>3
    <3> QED BY <2>3, <3>1, <3>2
  <2>7. ASSUME Has(u, cmd, c) PROVE Has(q, cmd, c) \/ Has(p, cmd, c) 
    <3>1. PICK i \in 1..(n + m) : u[i].cmd = cmd /\ u[i].chan = c BY <2>3, <2>7
    <3>2. CASE i \in 1..n BY <1>2, <2>1, <3>1, <3>2
    <3>3. CASE i - n \in 1..m /\ u[i] = p[i - n] BY <2>2, <3>1, <3>3
    <3> QED BY <2>4, <3>2, <3>3
  <2> QED BY <2>5, <2>6, <2>7
<1>6. ASSUME Kicked(q, c), ~Has(p, "UJOIN", c) PROVE Kicked(u, c)
  <2>1. PICK i \in 1..n : /\ q[i].cmd = "UKICK" /\ q[i].chan = c
                          /\ \A j \in (i + 1)..n : ~(q[j].cmd = "UJOIN" /\ q[j].chan = c)
    BY <1>6 DEF Kicked, n
  <2>2. i \in 1..(n + m) /\ u[i] = q[i] BY <1>2
  <2>3. ASSUME NEW j \in (i + 1)..(n + m) PROVE ~(u[j].cmd = "UJOIN" /\ u[j].chan = c)
    <3>1. CASE j <= n
      <4>1. j \in (i + 1)..n /\ j \in 1..n BY <1>1, <2>1, <3>1
      <4> QED BY <1>2, <2>1, <4>1
    <3>2. CASE ~(j <= n)
      <4>1. j - n \in 1..m /\ n + (j - n) = j BY <1>1, <2>1, <3>2
      <4>2. u[j] = p[j - n] BY <1>3, <4>1
      <4> QED BY <1>6, <4>1, <4>2 DEF Has, m
    <3> QED BY <3>1, <3>2
  <2> QED BY <1>1, <2>1, <2>2, <2>3 DEF Kicked
<1> QED BY <1>1, <1>5, <1>6

LEMMA ReadFacts ==
  ASSUME NEW q \in Seq(Answer), q # <<>>, NEW h, h = Head(q), NEW p, p = Tail(q), NEW c
  PROVE  /\ \A cmd : Has(q, cmd, c) <=> (h.cmd = cmd /\ h.chan = c) \/ Has(p, cmd, c)
         /\ Kicked(q, c) <=> Kicked(p, c) \/ (h.cmd = "UKICK" /\ h.chan = c /\ ~Has(p, "UJOIN", c))
<1> DEFINE n == Len(q)  k == Len(p)
<1>1. /\ n \in Nat \ {0} /\ k = n - 1 /\ h = q[1] /\ \A i \in 1..k : p[i] = q[i + 1]
  BY EmptySeq, HeadTailProperties
<1> HIDE DEF n, k
<1>2. \A i \in 1..n : i = 1 \/ (i - 1 \in 1..k /\ (i - 1) + 1 = i) BY <1>1
<1>3. \A i \in 1..k : i + 1 \in 1..n BY <1>1
<1>4. 1 \in 1..n BY <1>1
<1>5. ASSUME NEW cmd PROVE Has(q, cmd, c) <=> (h.cmd = cmd /\ h.chan = c) \/ Has(p, cmd, c)
  <2>1. Has(q, cmd, c) <=> \E i \in 1..n : q[i].cmd = cmd /\ q[i].chan = c BY DEF Has, n
  <2>2. Has(p, cmd, c) <=> \E i \in 1..k : p[i].cmd = cmd /\ p[i].chan = c BY DEF Has, k
  <2>3. \A i \in 1..n : i # 1 => i - 1 \in 1..k /\ p[i - 1] = q[i] BY <1>1, <1>2
  <2>4. ASSUME h.cmd = cmd, h.chan = c PROVE Has(q, cmd, c) BY <1>1, <1>4, <2>1, <2>4
  <2>5. ASSUME Has(p, cmd, c) PROVE Has(q, cmd, c)
    <3>1. PICK i \in 1..k : p[i].cmd = cmd /\ p[i].chan = c BY <2>2, <2>5
    <3>2. i + 1 \in 1..n /\ q[i + 1] = p[i] BY <1>1, <1>3
    <3> QED BY <2>1, <3>1, <3>2
  <2>6. ASSUME Has(q, cmd, c) PROVE (h.cmd = cmd /\ h.chan = c) \/ Has(p, cmd, c)
    <3>1. PICK i \in 1..n : q[i].cmd = cmd /\ q[i].chan = c BY <2>1, <2>6
    <3>2. CASE i = 1 BY <1>1, <3>1, <3>2
    <3>3. CASE i # 1 BY <2>2, <2>3, <3>1, <3>3
    <3> QED BY <3>2, <3>3
  <2> QED BY <2>4, <2>5, <2>6
<1>6. Kicked(q, c) <=> \E i \in 1..n :
        /\ q[i].cmd = "UKICK" /\ q[i].chan = c
        /\ \A j \in (i + 1)..n : ~(q[j].cmd = "UJOIN" /\ q[j].chan = c)
  BY DEF Kicked, n
<1>7. Kicked(p, c) <=> \E i \in 1..k :
        /\ p[i].cmd = "UKICK" /\ p[i].chan = c
        /\ \A j \in (i + 1)..k : ~(p[j].cmd = "UJOIN" /\ p[j].chan = c)
  BY DEF Kicked, k
<1>8. Has(p, "UJOIN", c) <=> \E i \in 1..k : p[i].cmd = "UJOIN" /\ p[i].chan = c BY DEF Has, k
<1>9. ASSUME Kicked(p, c) PROVE Kicked(q, c)
  <2>1. PICK i \in 1..k : /\ p[i].cmd = "UKICK" /\ p[i].chan = c
                          /\ \A j \in (i + 1)..k : ~(p[j].cmd = "UJOIN" /\ p[j].chan = c)
    BY <1>7, <1>9
  <2>2. i + 1 \in 1..n /\ q[i + 1] = p[i] BY <1>1, <1>3
  <2>3. ASSUME NEW j \in ((i + 1) + 1)..n PROVE ~(q[j].cmd = "UJOIN" /\ q[j].chan = c)
    <3>1. j - 1 \in (i + 1)..k /\ j - 1 \in 1..k /\ (j - 1) + 1 = j BY <1>1, <2>1
    <3> QED BY <1>1, <2>1, <3>1
  <2> QED BY <1>6, <2>1, <2>2, <2>3
<1>10. ASSUME h.cmd = "UKICK", h.chan = c, ~Has(p, "UJOIN", c) PROVE Kicked(q, c)
  <2>1. ASSUME NEW j \in (1 + 1)..n PROVE ~(q[j].cmd = "UJOIN" /\ q[j].chan = c)
    <3>1. j - 1 \in 1..k /\ (j - 1) + 1 = j BY <1>1
    <3> QED BY <1>1, <1>8, <1>10, <3>1
  <2> QED BY <1>1, <1>4, <1>6, <1>10, <2>1
<1>11. ASSUME Kicked(q, c), ~Kicked(p, c)
       PROVE  h.cmd = "UKICK" /\ h.chan = c /\ ~Has(p, "UJOIN", c)
  <2>1. PICK i \in 1..n : /\ q[i].cmd = "UKICK" /\ q[i].chan = c
                          /\ \A j \in (i + 1)..n : ~(q[j].cmd = "UJOIN" /\ q[j].chan = c)
    BY <1>6, <1>11
  <2>2. CASE i = 1
    <3>1. ASSUME NEW j \in 1..k PROVE ~(p[j].cmd = "UJOIN" /\ p[j].chan = c)
      <4>1. j + 1 \in (i + 1)..n BY <1>1, <2>2
      <4> QED BY <1>1, <2>1, <4>1
    <3> QED BY <1>1, <1>8, <2>1, <2>2, <3>1
  <2>3. CASE i # 1
    <3>1. i - 1 \in 1..k /\ p[i - 1] = q[i] BY <1>1, <1>2, <2>3
    <3>2. ASSUME NEW j \in ((i - 1) + 1)..k PROVE ~(p[j].cmd = "UJOIN" /\ p[j].chan = c)
      <4>1. j + 1 \in (i + 1)..n /\ j \in 1..k BY <1>1, <2>1, <2>3
      <4> QED BY <1>1, <2>1, <4>1
    <3> QED BY <1>7, <1>11, <2>1, <3>1, <3>2
  <2> QED BY <2>2, <2>3
<1> QED BY <1>5, <1>9, <1>10, <1>11

LEMMA OneAnswer ==
  ASSUME NEW a \in Answer, NEW c
  PROVE  /\ <<a>> \in Seq(Answer)
         /\ \A cmd : Has(<<a>>, cmd, c) <=> a.cmd = cmd /\ a.chan = c
         /\ \A cmd : ~Has(<<>>, cmd, c)
<1> DEFINE q == <<a>>
<1>1. Len(q) = 1 /\ q[1] = a /\ q \in Seq(Answer) OBVIOUS
<1>2. Len(<<>>) = 0 OBVIOUS
<1> HIDE DEF q
<1>3. ASSUME NEW cmd PROVE Has(q, cmd, c) <=> a.cmd = cmd /\ a.chan = c
  <2>1. Has(q, cmd, c) <=> \E i \in 1..1 : q[i].cmd = cmd /\ q[i].chan = c BY <1>1 DEF Has
  <2>2. \A i : i \in 1..1 <=> i = 1 OBVIOUS
  <2> QED BY <1>1, <2>1, <2>2
<1>4. ASSUME NEW cmd, Has(<<>>, cmd, c) PROVE FALSE
  <2>1. \E i \in 1..0 : TRUE BY <1>2, <1>4 DEF Has
  <2> QED BY <2>1
<1> QED BY <1>1, <1>3, <1>4 DEF q

(* The kick that comes last is one that no JOIN follows. *)
LEMMA KickedNow ==
  ASSUME NEW q \in Seq(Answer), NEW a \in Answer, a.cmd = "UKICK"
  PROVE  Kicked(Append(q, a), a.chan)
<1> DEFINE n == Len(q)  u == Append(q, a)
<1>1. n \in Nat /\ Len(u) = n + 1 /\ u[n + 1] = a BY AppendProperties, LenProperties
<1> HIDE DEF n, u
<1>2. n + 1 \in 1..(n + 1) /\ \A j \in ((n + 1) + 1)..(n + 1) : FALSE BY <1>1
<1>3. Kicked(u, a.chan) BY <1>1, <1>2 DEF Kicked
<1> QED BY <1>3 DEF u

LEMMA NamesHave ==
  ASSUME NEW c \in Chan, NEW m, NEW cmd, NEW d, Has(Names(c, m), cmd, d)
  PROVE  cmd \in {"NAMES", "END"} /\ d = c
<1> DEFINE named(u) == IF u \in m THEN <<Reply("NAMES", c, {u})>> ELSE <<>>
           end == <<Reply("END", c, {})>>
           nm == named(Me)  no == named(Other)  both == nm \o no
<1>1. Names(c, m) = both \o end BY DEF Names
<1>2. ASSUME NEW u \in {Me, Other}
      PROVE  named(u) \in Seq(Answer) /\ (Has(named(u), cmd, d) => cmd = "NAMES" /\ d = c)
  <2> DEFINE a == Reply("NAMES", c, {u})
  <2>1. a \in Answer /\ a.cmd = "NAMES" /\ a.chan = c BY Replies
  <2> HIDE DEF a
  <2>2. named(u) = <<a>> \/ named(u) = <<>> BY DEF a
  <2> DEFINE v == named(u)
  <2>3. v = <<a>> \/ v = <<>> BY <2>2
  <2>4. /\ <<a>> \in Seq(Answer) /\ <<>> \in Seq(Answer)
        /\ Has(<<a>>, cmd, d) <=> a.cmd = cmd /\ a.chan = d
        /\ ~Has(<<>>, cmd, d)
    BY <2>1, OneAnswer, EmptySeq
  <2> HIDE DEF named, v
  <2>5. CASE v = <<a>> BY <2>1, <2>4, <2>5 DEF v
  <2>6. CASE v = <<>> BY <2>4, <2>6 DEF v
  <2> QED BY <2>3, <2>5, <2>6
<1>3. end \in Seq(Answer) /\ (Has(end, cmd, d) => cmd = "END" /\ d = c)
  <2> DEFINE a == Reply("END", c, {})
  <2>1. a \in Answer /\ a.cmd = "END" /\ a.chan = c BY Replies
  <2> HIDE DEF a
  <2>2. end = <<a>> BY DEF a
  <2> HIDE DEF end
  <2> QED BY <2>1, <2>2, OneAnswer
<1>4. /\ nm \in Seq(Answer) /\ (Has(nm, cmd, d) => cmd = "NAMES" /\ d = c)
      /\ no \in Seq(Answer) /\ (Has(no, cmd, d) => cmd = "NAMES" /\ d = c)
  BY <1>2
<1> HIDE DEF nm, no, end
<1>5. both \in Seq(Answer) /\ (Has(both, cmd, d) => Has(nm, cmd, d) \/ Has(no, cmd, d))
  BY <1>4, HeardFacts
<1> HIDE DEF both
<1>6. Has(both \o end, cmd, d) => Has(both, cmd, d) \/ Has(end, cmd, d) BY <1>3, <1>5, HeardFacts
<1> QED BY <1>1, <1>3, <1>4, <1>5, <1>6

(* What the answer to a line says: it is about the channel of the line. *)
Answers(l, c, m, ban, n, p) == c = l.chan /\ n = After(l, m, ban) /\ p = AnswerTo(l, m, ban)

LEMMA AnswerSays ==
  ASSUME NEW l \in Line, NEW c, NEW m \in SUBSET {Me, Other}, NEW ban, NEW n, NEW p,
         Answers(l, c, m, ban, n, p)
  PROVE  /\ p \in Seq(Answer)
         /\ \A cmd, d : Has(p, cmd, d) => d = c
         /\ \A cmd : Has(p, cmd, c) =>
              \/ cmd \in {"NAMES", "END", "UPART"}
              \/ cmd = "REFUSED" /\ l.cmd = "JOIN" /\ c \in ban
              \/ cmd = "UJOIN" /\ l.cmd = "JOIN" /\ c \notin ban /\ Me \notin m
         /\ l.cmd = "JOIN" /\ c \in ban => Has(p, "REFUSED", c)
         /\ Me \in n <=> (l.cmd = "JOIN" /\ c \notin ban) \/ (Me \in m /\ l.cmd # "PART")
<1>0. c = l.chan /\ n = After(l, m, ban) /\ p = AnswerTo(l, m, ban) BY DEF Answers
<1>1. c \in Chan /\ l.cmd \in {"JOIN", "PART", "NAMES"} BY <1>0 DEF Line
<1>2. /\ Me \in n <=> (l.cmd = "JOIN" /\ c \notin ban) \/ (Me \in m /\ l.cmd # "PART")
      /\ n \in SUBSET {Me, Other}
  <2>1. /\ l.cmd = "JOIN" /\ c \notin ban => n = m \cup {Me}
        /\ l.cmd = "PART" => n = m \ {Me}
        /\ ~(l.cmd = "JOIN" /\ c \notin ban) /\ l.cmd # "PART" => n = m
    BY <1>0, <1>1, Zenon DEF After
  <2> QED BY <1>1, <2>1
<1> DEFINE list == Names(c, n)  ref == Reply("REFUSED", c, {})  uj == Reply("UJOIN", c, {})
           up == Reply("UPART", c, {})
<1>3. /\ ref \in Answer /\ ref.cmd = "REFUSED" /\ ref.chan = c
      /\ uj \in Answer /\ uj.cmd = "UJOIN" /\ uj.chan = c
      /\ up \in Answer /\ up.cmd = "UPART" /\ up.chan = c
  BY <1>1, Replies
<1>4. list \in Seq(Answer) /\ \A cmd, d : Has(list, cmd, d) => cmd \in {"NAMES", "END"} /\ d = c
  BY <1>1, NamesTyped, NamesHave
<1>5. /\ l.cmd = "NAMES" => p = list
      /\ l.cmd = "JOIN" /\ c \in ban => p = <<ref>>
      /\ l.cmd = "JOIN" /\ c \notin ban /\ Me \notin m => p = <<uj>> \o list
      /\ l.cmd = "JOIN" /\ c \notin ban /\ Me \in m => p = <<>>
      /\ l.cmd = "PART" /\ Me \in m => p = <<up>>
      /\ l.cmd = "PART" /\ Me \notin m => p = <<>>
  <2> HIDE DEF ref, uj, up
  <2>1. p = CASE l.cmd = "NAMES" -> Names(c, n)
              [] l.cmd = "JOIN" /\ c \in ban -> <<ref>>
              [] l.cmd = "JOIN" /\ c \notin ban /\ Me \notin m -> <<uj>> \o Names(c, n)
              [] l.cmd = "PART" /\ Me \in m -> <<up>>
              [] OTHER -> <<>>
    BY <1>0, Zenon DEF AnswerTo, ref, uj, up
  <2>2. CASE l.cmd = "NAMES" BY <2>1, <2>2
  <2>3. CASE l.cmd = "JOIN" BY <2>1, <2>3
  <2>4. CASE l.cmd = "PART" BY <2>1, <2>4
  <2> QED BY <1>1, <2>2, <2>3, <2>4
<1> HIDE DEF list, ref, uj, up
<1>6. CASE p = list
  <2>1. l.cmd = "NAMES" \/ ~(l.cmd = "JOIN" /\ c \in ban)
    <3>1. Has(<<ref>>, "REFUSED", c) BY <1>3, OneAnswer
    <3>2. ~Has(list, "REFUSED", c) BY <1>4
    <3> QED BY <1>5, <1>6, <3>1, <3>2
  <2> QED BY <1>2, <1>4, <1>6, <2>1
<1>7. CASE p = <<>>
  <2>1. p \in Seq(Answer) /\ \A cmd, d : ~Has(p, cmd, d) BY <1>3, <1>7, OneAnswer, EmptySeq
  <2>2. Has(<<ref>>, "REFUSED", c) BY <1>3, OneAnswer
  <2> QED BY <1>2, <1>5, <1>7, <2>1, <2>2
<1>8. CASE l.cmd = "JOIN" /\ c \in ban
  <2>1. \A cmd, d : Has(<<ref>>, cmd, d) <=> ref.cmd = cmd /\ ref.chan = d BY <1>3, OneAnswer
  <2>2. p = <<ref>> /\ <<ref>> \in Seq(Answer) BY <1>3, <1>5, <1>8, OneAnswer
  <2>3. p \in Seq(Answer) /\ \A cmd, d : Has(p, cmd, d) <=> cmd = "REFUSED" /\ d = c
    BY <1>3, <2>1, <2>2
  <2> QED BY <1>2, <1>8, <2>3
<1>9. CASE l.cmd = "PART" /\ Me \in m
  <2>1. \A cmd, d : Has(<<up>>, cmd, d) <=> up.cmd = cmd /\ up.chan = d BY <1>3, OneAnswer
  <2>2. p = <<up>> /\ <<up>> \in Seq(Answer) BY <1>3, <1>5, <1>9, OneAnswer
  <2>3. p \in Seq(Answer) /\ \A cmd, d : Has(p, cmd, d) <=> cmd = "UPART" /\ d = c
    BY <1>3, <2>1, <2>2
  <2> QED BY <1>2, <1>9, <2>3
<1>10. CASE l.cmd = "JOIN" /\ c \notin ban /\ Me \notin m
  <2>1. <<uj>> \in Seq(Answer) /\ \A cmd, d : Has(<<uj>>, cmd, d) <=> cmd = "UJOIN" /\ d = c
    BY <1>3, OneAnswer
  <2>2. p = <<uj>> \o list BY <1>5, <1>10
  <2>3. p \in Seq(Answer) /\ \A cmd, d : Has(p, cmd, d) <=> Has(<<uj>>, cmd, d) \/ Has(list, cmd, d)
    BY <1>4, <2>1, <2>2, HeardFacts
  <2> QED BY <1>2, <1>4, <1>10, <2>1, <2>3
<1> QED BY <1>1, <1>5, <1>6, <1>7, <1>8, <1>9, <1>10

-----------------------------------------------------------------------------
(* The tabs of one server. *)

LEMMA MineFacts ==
  ASSUME NEW ts \in Seq(Tab), NEW s
  PROVE  /\ \A t \in Mine(ts, s) : /\ t \in Tab /\ t.serv = s
                                   /\ \E i \in 1..Len(ts) : ts[i] = t
         /\ \A i \in 1..Len(ts) : ts[i].serv = s => ts[i] \in Mine(ts, s)
         /\ \A c : (\E t \in Mine(ts, s) : t.channel = c) <=> At(ts, s, c) # {}
<1>1. \A i \in 1..Len(ts) : ts[i] \in Tab BY LenProperties
<1>2. \A t : t \in Mine(ts, s) <=> \E i \in 1..Len(ts) : ts[i].serv = s /\ t = ts[i] BY DEF Mine
<1>3. ASSUME NEW c PROVE (\E t \in Mine(ts, s) : t.channel = c) <=> At(ts, s, c) # {}
  BY <1>2 DEF At
<1> QED BY <1>1, <1>2, <1>3

(* The tabs N are on no channel, and marked with none, that those of M are *)
(* not, but for the channels C.                                            *)
Within(N, M, C) ==
    \A t \in N : /\ t.will = None \/ \E u \in M : t.will = u.will
                 /\ t.channel \in C \cup {None} \/ \E u \in M : t.channel = u.channel

LEMMA WithinItself == ASSUME NEW M, NEW C PROVE Within(M, M, C)
BY DEF Within

(* us is ts with j in the place of the tab k, or in front.                 *)
InPlace(ts, us, k, j) == us = [ts EXCEPT ![k] = j] /\ j.serv = ts[k].serv
InFront(ts, us, j) == us = <<j>> \o ts

LEMMA PutMine ==
  ASSUME NEW ts \in Seq(Tab), NEW k \in 1..Len(ts), NEW j \in Tab, NEW us, InPlace(ts, us, k, j),
         NEW C, j.will = None \/ j.will = ts[k].will,
         j.channel = None \/ j.channel = ts[k].channel \/ j.channel \in C
  PROVE  /\ \A r : r # j.serv => Mine(us, r) = Mine(ts, r)
         /\ Within(Mine(us, j.serv), Mine(ts, j.serv), C)
<1>1. us \in Seq(Tab) /\ Len(us) = Len(ts) /\ \A i \in 1..Len(ts) : us[i] = IF i = k THEN j ELSE ts[i]
  BY ExceptSeq DEF InPlace
<1>0. j.serv = ts[k].serv BY DEF InPlace
<1>2. ASSUME NEW r, r # j.serv PROVE Mine(us, r) = Mine(ts, r)
  <2>1. ASSUME NEW i \in 1..Len(ts)
        PROVE  /\ us[i].serv = r <=> ts[i].serv = r
               /\ ts[i].serv = r => us[i] = ts[i]
    BY <1>0, <1>1, <1>2
  <2>2. ASSUME NEW t PROVE t \in Mine(us, r) <=> t \in Mine(ts, r)
    <3>1. t \in Mine(us, r) <=> \E i \in 1..Len(ts) : us[i].serv = r /\ t = us[i] BY <1>1 DEF Mine
    <3>2. t \in Mine(ts, r) <=> \E i \in 1..Len(ts) : ts[i].serv = r /\ t = ts[i] BY DEF Mine
    <3> QED BY <2>1, <3>1, <3>2
  <2> QED BY <2>2
<1>3. ASSUME NEW t \in Mine(us, j.serv)
      PROVE  /\ t.will = None \/ \E u \in Mine(ts, j.serv) : t.will = u.will
             /\ t.channel \in C \cup {None} \/ \E u \in Mine(ts, j.serv) : t.channel = u.channel
  <2>1. PICK i \in 1..Len(ts) : us[i].serv = j.serv /\ t = us[i] BY <1>1 DEF Mine
  <2>2. ts[k] \in Mine(ts, j.serv) BY <1>0, MineFacts
  <2>3. CASE i = k BY <1>1, <2>1, <2>2, <2>3
  <2>4. CASE i # k
    <3>1. t = ts[i] /\ ts[i].serv = j.serv BY <1>1, <2>1, <2>4
    <3>2. t \in Mine(ts, j.serv) BY <3>1, MineFacts
    <3> QED BY <3>2
  <2> QED BY <2>3, <2>4
<1> QED BY <1>2, <1>3 DEF Within

LEMMA FrontMine ==
  ASSUME NEW ts \in Seq(Tab), NEW j \in Tab, NEW us, InFront(ts, us, j)
  PROVE  /\ \A r : r # j.serv => Mine(us, r) = Mine(ts, r)
         /\ Mine(us, j.serv) = Mine(ts, j.serv) \cup {j}
<1> DEFINE n == Len(ts)  front == <<j>>
<1>1. front \in Seq(Tab) /\ Len(front) = 1 /\ front[1] = j OBVIOUS
<1>2. n \in Nat BY LenProperties
<1> HIDE DEF front
<1>3. /\ us \in Seq(Tab) /\ Len(us) = 1 + n
      /\ \A i \in 1..(1 + n) : us[i] = IF i <= 1 THEN front[i] ELSE ts[i - 1]
  BY <1>1, <1>2, ConcatProperties DEF front, InFront
<1>4. 1 \in 1..(1 + n) /\ us[1] = j BY <1>1, <1>2, <1>3
<1>5. \A i \in 1..(1 + n) : i # 1 => i - 1 \in 1..n /\ us[i] = ts[i - 1] BY <1>2, <1>3
<1>6. ASSUME NEW i \in 1..n PROVE i + 1 \in 1..(1 + n) /\ us[i + 1] = ts[i]
  <2>1. i + 1 \in 1..(1 + n) /\ ~(i + 1 <= 1) /\ (i + 1) - 1 = i BY <1>2
  <2> QED BY <1>3, <2>1
<1>9. ASSUME NEW r, NEW t PROVE t \in Mine(us, r) <=> t \in Mine(ts, r) \/ (t = j /\ j.serv = r)
  <2>7. t \in Mine(us, r) <=> \E i \in 1..(1 + n) : us[i].serv = r /\ t = us[i]
    BY <1>3 DEF Mine
  <2>8. t \in Mine(ts, r) <=> \E i \in 1..n : ts[i].serv = r /\ t = ts[i]
    BY DEF Mine
  <2> HIDE DEF n
  <2>1. ASSUME t \in Mine(us, r) PROVE t \in Mine(ts, r) \/ (t = j /\ j.serv = r)
    <3>1. PICK i \in 1..(1 + n) : us[i].serv = r /\ t = us[i] BY <2>1, <2>7
    <3>2. CASE i = 1 BY <1>4, <3>1, <3>2
    <3>3. CASE i # 1 BY <1>5, <2>8, <3>1, <3>3
    <3> QED BY <3>2, <3>3
  <2>2. ASSUME t \in Mine(ts, r) PROVE t \in Mine(us, r)
    <3>1. PICK i \in 1..n : ts[i].serv = r /\ t = ts[i] BY <2>2, <2>8
    <3> QED BY <1>6, <2>7, <3>1
  <2>3. ASSUME j.serv = r, t = j PROVE t \in Mine(us, r) BY <1>4, <2>3, <2>7
  <2> QED BY <2>1, <2>2, <2>3
<1>10. ASSUME NEW r, r # j.serv PROVE Mine(us, r) = Mine(ts, r)
  <2>1. \A t : t \in Mine(us, r) <=> t \in Mine(ts, r) BY <1>9, <1>10
  <2> QED BY <2>1
<1>11. Mine(us, j.serv) = Mine(ts, j.serv) \cup {j}
  <2>1. \A t : t \in Mine(us, j.serv) <=> t \in Mine(ts, j.serv) \/ t = j BY <1>9
  <2> QED BY <2>1
<1> QED BY <1>10, <1>11

LEMMA RemoveMine ==
  ASSUME NEW ts \in Seq(Tab), NEW k \in 1..Len(ts), NEW us, us = RemoveAt(ts, k)
  PROVE  \A r : Mine(us, r) = {ts[i] : i \in {j \in 1..Len(ts) : j # k /\ ts[j].serv = r}}
<1> DEFINE n == Len(ts)
<1>1. us \in Seq(Tab) /\ Len(us) = n - 1 BY RemovedTabs
<1>0. PICK back \in [1..(n - 1) -> 1..n] : Places(back, ts, us, k) BY RemovedTabs
<1>2. /\ \A i \in 1..(n - 1) : us[i] = ts[back[i]] /\ back[i] # k
      /\ \A i \in 1..n : i # k => \E j \in 1..(n - 1) : back[j] = i
  BY <1>0 DEF Places
<1> HIDE DEF n
<1>3. ASSUME NEW r, NEW t
      PROVE  t \in Mine(us, r) <=> \E i \in 1..n : i # k /\ ts[i].serv = r /\ t = ts[i]
  <2>1. t \in Mine(us, r) <=> \E i \in 1..(n - 1) : us[i].serv = r /\ t = us[i] BY <1>1 DEF Mine
  <2>2. ASSUME NEW i \in 1..n, i # k, ts[i].serv = r, t = ts[i] PROVE t \in Mine(us, r)
    <3>1. PICK j \in 1..(n - 1) : back[j] = i BY <1>2, <2>2
    <3>2. us[j] = ts[i] BY <1>2, <3>1
    <3> QED BY <2>1, <2>2, <3>2
  <2>3. ASSUME t \in Mine(us, r) PROVE \E i \in 1..n : i # k /\ ts[i].serv = r /\ t = ts[i]
    <3>1. PICK i \in 1..(n - 1) : us[i].serv = r /\ t = us[i] BY <2>1, <2>3
    <3>2. us[i] = ts[back[i]] /\ back[i] # k /\ back[i] \in 1..n BY <1>2
    <3> QED BY <3>1, <3>2
  <2> QED BY <2>2, <2>3
<1> QED BY <1>3 DEF n

LEMMA OnMine ==
  ASSUME tabs \in Seq(Tab), NEW s, NEW c
  PROVE  On(s, c) <=> \E t \in Mine(tabs, s) : t.channel = c
<1>1. On(s, c) <=> At(tabs, s, c) # {} BY FindFacts
<1>2. (\E t \in Mine(tabs, s) : t.channel = c) <=> At(tabs, s, c) # {} BY MineFacts
<1> QED BY <1>1, <1>2

LEMMA AskedFacts ==
  ASSUME NEW s, out[s] \in Seq(Line), NEW lines \in Seq(Answer), NEW c
  PROVE  Asked(s, c, lines) <=> Joining(out[s], c) \/ Has(lines, "UJOIN", c)
<1> DEFINE o == out[s]
<1>1. DOMAIN o = 1..Len(o) /\ DOMAIN lines = 1..Len(lines) BY LenProperties
<1>2. Asked(s, c, lines) <=> \/ ToLine("JOIN", c) \in ToSet(o)
                             \/ \E l \in ToSet(lines) : l.cmd = "UJOIN" /\ l.chan = c
  BY DEF Asked
<1> HIDE DEF o
<1>3. ToLine("JOIN", c) \in ToSet(o) <=> Joining(o, c) BY <1>1 DEF ToSet, Joining
<1>4. (\E l \in ToSet(lines) : l.cmd = "UJOIN" /\ l.chan = c) <=> Has(lines, "UJOIN", c)
  BY <1>1 DEF ToSet, Has
<1> QED BY <1>2, <1>3, <1>4 DEF o

LEMMA LastFacts ==
  ASSUME NEW o \in Seq(Line), NEW c
  PROVE  /\ JoinsLast(o, c) => Joining(o, c)
         /\ Joining(o, c) /\ ~Parting(o, c) => JoinsLast(o, c)
<1>1. JoinsLast(o, c) => Joining(o, c) BY DEF JoinsLast, Joining
<1>2. ASSUME Joining(o, c), ~Parting(o, c) PROVE JoinsLast(o, c)
  <2> DEFINE n == Len(o)  J == ToLine("JOIN", c)  P == ToLine("PART", c)
  <2>1. n \in Nat BY LenProperties
  <2>2. \A i \in 1..n : o[i] # P BY <1>2 DEF Parting
  <2>3. PICK i \in 1..n : o[i] = J BY <1>2 DEF Joining
  <2> HIDE DEF n, J, P
  <2>4. \A j \in (i + 1)..n : j \in 1..n BY <2>1
  <2>5. \A j \in (i + 1)..n : o[j] # P BY <2>2, <2>4
  <2> QED BY <2>3, <2>5 DEF JoinsLast, n, J, P
<1> QED BY <1>1, <1>2

(* The lines that join channels, after others that do not concern c. *)
LEMMA JoinListFacts ==
  ASSUME NEW o \in Seq(Line), NEW chans \in Seq(Chan), NEW p, p = o \o irc_join_list(chans),
         NEW c, ~Joining(o, c), ~Parting(o, c)
  PROVE  /\ p \in Seq(Line) /\ ~Parting(p, c)
         /\ Joining(p, c) <=> \E i \in 1..Len(chans) : chans[i] = c
<1> DEFINE n == Len(o)  m == Len(chans)  js == irc_join_list(chans)
           J == ToLine("JOIN", c)  P == ToLine("PART", c)
<1>1. m \in Nat /\ DOMAIN chans = 1..m /\ n \in Nat BY LenProperties
<1>2. js = [i \in 1..m |-> ToLine("JOIN", chans[i])] BY <1>1 DEF irc_join_list
<1>3. js \in Seq(Line) BY JoinListTyped
<1>4. Len(js) = m
  <2> HIDE DEF js, m
  <2>1. DOMAIN js = 1..m /\ DOMAIN js = 1..Len(js) /\ Len(js) \in Nat BY <1>2, <1>3, LenProperties
  <2> QED BY <1>1, <2>1
<1>5. \A i \in 1..m : js[i] = ToLine("JOIN", chans[i]) BY <1>2
<1>6. /\ p \in Seq(Line) /\ Len(p) = n + m
      /\ \A i \in 1..(n + m) : p[i] = IF i <= n THEN o[i] ELSE js[i - n]
  <2> HIDE DEF js, m, n
  <2>1. p = o \o js BY DEF js
  <2> QED BY <1>3, <1>4, <2>1, ConcatProperties DEF n
<1>7. \A i \in 1..n : o[i] # J /\ o[i] # P BY DEF Joining, Parting
<1>8. \A d : ToLine("JOIN", d) # P /\ (ToLine("JOIN", d) = J => d = c) BY DEF ToLine
<1> HIDE DEF js, J, P
<1>9. \A i \in 1..(n + m) : (i \in 1..n /\ p[i] = o[i])
                            \/ (i - n \in 1..m /\ p[i] = ToLine("JOIN", chans[i - n]))
  <2> HIDE DEF n, m
  <2> SUFFICES ASSUME NEW i \in 1..(n + m)
               PROVE  (i \in 1..n /\ p[i] = o[i])
                      \/ (i - n \in 1..m /\ p[i] = ToLine("JOIN", chans[i - n]))
    OBVIOUS
  <2>1. CASE i <= n
    <3>1. i \in 1..n BY <1>1, <2>1
    <3> QED BY <1>6, <2>1, <3>1
  <2>2. CASE ~(i <= n)
    <3>1. i - n \in 1..m BY <1>1, <2>2
    <3>2. p[i] = js[i - n] BY <1>6, <2>2
    <3> QED BY <1>5, <3>1, <3>2
  <2> QED BY <2>1, <2>2
<1>10. ~Parting(p, c)
  <2>1. \A i \in 1..(n + m) : p[i] # P BY <1>7, <1>8, <1>9
  <2> QED BY <1>6, <2>1 DEF Parting, P
<1>11. ASSUME Joining(p, c) PROVE \E i \in 1..m : chans[i] = c
  <2>1. PICK i \in 1..(n + m) : p[i] = J BY <1>6, <1>11 DEF Joining, J
  <2>2. i - n \in 1..m /\ ToLine("JOIN", chans[i - n]) = J BY <1>7, <1>9, <2>1
  <2> QED BY <1>8, <2>2
<1>12. ASSUME NEW i \in 1..m, chans[i] = c PROVE Joining(p, c)
  <2> HIDE DEF n, m
  <2>1. n + i \in 1..(n + m) /\ ~(n + i <= n) /\ (n + i) - n = i BY <1>1
  <2>2. p[n + i] = js[i] BY <1>6, <2>1
  <2>3. p[n + i] = J BY <1>5, <1>12, <2>2 DEF J
  <2> QED BY <1>6, <2>1, <2>3 DEF Joining, J
<1> QED BY <1>6, <1>10, <1>11, <1>12

(* A view that is off is led to one that is only by an answer to a JOIN. *)
LEMMA OffLeads ==
  ASSUME NEW q \in Seq(Answer), NEW c, NEW W, Leads(q, Off, c, W), ~Has(q, "UJOIN", c)
  PROVE  Off \in W
<1> DEFINE n == Len(q)
<1>1. n \in Nat /\ \A i \in 1..n : q[i] \in Answer BY LenProperties
<1>2. \A i \in 1..n : ~(q[i].cmd = "UJOIN" /\ q[i].chan = c) BY DEF Has
<1>3. PICK w \in [0..n -> View] : /\ w[0] = Off /\ w[n] \in W
                                  /\ \A i \in 1..n : w[i] = Effect(w[i - 1], q[i], c)
  BY DEF Leads
<1> HIDE DEF n
<1> DEFINE T == {i \in 0..n : w[i] # Off}
<1>4. ASSUME T # {} PROVE FALSE
  <2>1. T \in SUBSET Nat BY <1>1
  <2>2. PICK x \in T : \A y \in T : x <= y BY <1>4, <2>1, SmallestExists
  <2>3. x \in 0..n /\ w[x] # Off BY <2>2
  <2>4. x \in 1..n /\ x - 1 \in 0..n /\ ~(x <= x - 1) BY <1>1, <1>3, <2>3
  <2>5. x - 1 \notin T BY <2>2, <2>4
  <2>6. w[x - 1] = Off BY <2>4, <2>5
  <2> HIDE DEF T
  <2>7. w[x] = Effect(Off, q[x], c) BY <1>3, <2>4, <2>6
  <2>8. q[x] \in Answer /\ Off \in View BY <1>1, <2>4, Views
  <2>9. CASE q[x].cmd # "UJOIN" BY <2>3, <2>7, <2>9, OffStays
  <2>10. CASE q[x].cmd = "UJOIN"
    <3>1. q[x].chan # c BY <1>2, <2>4, <2>10
    <3>2. Effect(Off, q[x], c) = Off BY <2>8, <3>1, EffectFacts, ZenonT(60)
    <3> QED BY <2>3, <2>7, <3>2
  <2> QED BY <2>9, <2>10
<1>5. n \in 0..n BY <1>1
<1>6. w[n] = Off BY <1>4, <1>5
<1> QED BY <1>3, <1>6

(* Where the client is not on a channel, and no answer to a JOIN is under  *)
(* way, we shall not be.                                                   *)
LEMMA NotOnIsOff ==
  ASSUME IInv, NEW s \in Serv, NEW c \in Chan, stat[s] = "in",
         \A t \in Mine(tabs, s) : t.channel # c, ~Has(inq[s], "UJOIN", c)
  PROVE  Me \in ircd[s][c] => Parting(out[s], c)
<1> DEFINE m == ircd[s][c]  o == out[s]  q == inq[s]
<1>1. tabs \in Seq(Tab) /\ Links BY Types DEF IInv
<1>2. m \in SUBSET {Me, Other} /\ q \in Seq(Answer) BY <1>1 DEF Links
<1>3. PICK v \in View : Shows(tabs, s, c, v) /\ Leads(q, v, c, Fitting(m, o, c))
  <2>1. Agrees(tabs, stat[s], q, o, m, s, c) BY DEF IInv
  <2> HIDE DEF m, o, q
  <2> QED BY <2>1 DEF Agrees, Follows
<1>4. At(tabs, s, c) = {} BY <1>1, MineFacts
<1>5. v = Off BY <1>3, <1>4 DEF Shows
<1> HIDE DEF m, o, q
<1>6. Off \in Fitting(m, o, c) BY <1>2, <1>3, <1>5, OffLeads DEF q
<1>7. Me \in m => Parting(o, c) BY <1>2, <1>6, FittingFacts
<1> QED BY <1>7 DEF m, o

(* Nor where a kick is read that no such answer follows.                   *)
LEMMA KickedIsOff ==
  ASSUME IInv, NEW s \in Serv, NEW c \in Chan, stat[s] = "in", inq[s] # <<>>,
         Head(inq[s]).cmd = "UKICK", Head(inq[s]).chan = c, ~Has(Tail(inq[s]), "UJOIN", c)
  PROVE  Me \in ircd[s][c] => Parting(out[s], c)
<1> DEFINE m == ircd[s][c]  o == out[s]  q == inq[s]  l == Head(q)  p == Tail(q)
<1>1. tabs \in Seq(Tab) /\ Links BY Types DEF IInv
<1>2. m \in SUBSET {Me, Other} /\ q \in Seq(Answer) BY <1>1 DEF Links
<1>3. PICK v \in View : Shows(tabs, s, c, v) /\ Leads(q, v, c, Fitting(m, o, c))
  <2>1. Agrees(tabs, stat[s], q, o, m, s, c) BY DEF IInv
  <2> HIDE DEF m, o, q
  <2> QED BY <2>1 DEF Agrees, Follows
<1>4. l.cmd = "UKICK" /\ l.chan = c /\ q # <<>> /\ ~Has(p, "UJOIN", c) OBVIOUS
<1> HIDE DEF m, o, q
<1>5. l \in Answer /\ p \in Seq(Answer) BY <1>2, <1>4, HeadTailProperties
<1>6. Leads(p, Effect(v, l, c), c, Fitting(m, o, c)) BY <1>2, <1>3, <1>4, LeadsRead
<1> HIDE DEF l, p
<1>7. Effect(v, l, c) = Off BY <1>4, <1>5, EffectFacts
<1>8. Off \in Fitting(m, o, c) BY <1>4, <1>5, <1>6, <1>7, OffLeads
<1>9. Me \in m => Parting(o, c) BY <1>2, <1>8, FittingFacts
<1> QED BY <1>9 DEF m, o

-----------------------------------------------------------------------------
(* The steps. *)

(* A step of one server. *)
LEMMA WantFrame ==
  ASSUME WInv, Orderly, NEW s \in Serv, features' = features,
         \A r \in Serv : r # s =>
           /\ Mine(tabs', r) = Mine(tabs, r) /\ stat'[r] = stat[r] /\ joindelay'[r] = joindelay[r]
           /\ inq'[r] = inq[r] /\ out'[r] = out[r] /\ ircd'[r] = ircd[r]
           /\ banned'[r] = banned[r] /\ want'[r] = want[r],
         Held(s, Mine(tabs', s), stat'[s], joindelay'[s], inq'[s], out'[s], ircd'[s], banned'[s],
              want'[s], features)
  PROVE  WInv'
<1>2. ASSUME NEW r \in Serv
      PROVE  Held(r, Mine(tabs', r), stat'[r], joindelay'[r], inq'[r], out'[r], ircd'[r],
                  banned'[r], want'[r], features')
  <2>1. CASE r = s BY <1>2, <2>1
  <2>2. CASE r # s
    <3>1. Held(r, Mine(tabs, r), stat[r], joindelay[r], inq[r], out[r], ircd[r], banned[r],
               want[r], features)
      BY <1>2 DEF WInv
    <3> QED BY <2>2, <3>1
  <2> QED BY <2>1, <2>2
<1> QED BY <1>2 DEF WInv

LEMMA HeldNow ==
  ASSUME WInv, Orderly, NEW s \in Serv
  PROVE  Held(s, Mine(tabs, s), stat[s], joindelay[s], inq[s], out[s], ircd[s], banned[s], want[s],
              features)
BY DEF WInv

(* What holds of a channel still holds when the lines about it, what the   *)
(* server has and what is wanted are as they were.                         *)
LEMMA SoughtKept ==
  ASSUME NEW c, NEW M, NEW N, NEW q, NEW p, NEW o, NEW u, NEW m, NEW n, NEW ban, NEW bar, NEW w, NEW x,
         NEW f, Sought(c, M, q, o, m, ban, w, f),
         c \in x <=> c \in w, c \in ban => c \in bar,
         Hope(u, n, c) <=> Hope(o, m, c),
         Has(q, "REFUSED", c) => Has(p, "REFUSED", c),
         Kicked(q, c) /\ ~Joining(o, c) => Kicked(p, c) /\ ~Joining(u, c),
         \/ \E t \in N : t.channel = c
         \/ Joining(u, c) \/ Has(p, "UJOIN", c)
         => \/ \E t \in M : t.channel = c
            \/ Joining(o, c) \/ Has(q, "UJOIN", c)
  PROVE  Sought(c, N, p, u, n, bar, x, f)
BY DEF Sought

LEMMA WithinFacts ==
  ASSUME NEW N, NEW M, NEW C, Within(N, M, C)
  PROVE  /\ (\A t \in M : t.will = None) => \A t \in N : t.will = None
         /\ \A c \in Chan : c \notin C /\ (\E t \in N : t.channel = c) => \E t \in M : t.channel = c
BY ChanIsNotNone DEF Within

(* The user connects. *)
LEMMA ConnectWants == ASSUME IInv, WInv, Orderly, NEW s \in Serv, Connect(s) PROVE WInv'
<1>1. tabs \in Seq(Tab) /\ Links /\ Others BY Types DEF IInv
<1> DEFINE w == IF May("favs") THEN Fav ELSE {}
<1>2. /\ stat[s] = "down" /\ stat' = [stat EXCEPT ![s] = "connecting"]
      /\ want' = [want EXCEPT ![s] = w]
      /\ tabs' = tabs /\ joindelay' = joindelay /\ out' = out /\ inq' = inq
      /\ ircd' = ircd /\ banned' = banned /\ features' = features
  BY DEF Connect, world
<1>3. w = IF "favs" \in features THEN Fav ELSE {} BY DEF May
<1> HIDE DEF w
<1>4. /\ stat'[s] = "connecting" /\ \A r \in Serv : r # s => stat'[r] = stat[r]
      /\ want'[s] = w /\ \A r \in Serv : r # s => want'[r] = want[r]
  BY <1>1, <1>2 DEF Links, Others
<1>5. Held(s, Mine(tabs', s), stat'[s], joindelay'[s], inq'[s], out'[s], ircd'[s], banned'[s],
           want'[s], features)
  <2> DEFINE M == Mine(tabs, s)
  <2>1. Held(s, M, stat[s], joindelay[s], inq[s], out[s], ircd[s], banned[s], want[s], features)
    BY HeldNow
  <2>2. M = {} /\ Lawful(inq[s], ircd[s], banned[s], features) BY <1>2, <2>1 DEF Held
  <2>3. inq[s] = <<>> /\ out[s] = <<>> BY <1>1, <1>2 DEF Links
  <2>4. \A c \in Chan : Me \notin ircd[s][c]
    <3>1. ASSUME NEW c \in Chan PROVE Me \notin ircd[s][c]
      <4>1. Agrees(tabs, stat[s], inq[s], out[s], ircd[s][c], s, c) BY DEF IInv
      <4> QED BY <1>2, <4>1 DEF Agrees
    <3> QED BY <3>1
  <2> HIDE DEF M
  <2>5. \A c : /\ ~Joining(<<>>, c) /\ ~Parting(<<>>, c)
               /\ \A cmd : ~Has(<<>>, cmd, c)
    BY DEF Joining, Parting, Has
  <2>6. w = IF "favs" \in features THEN Fav ELSE {t.will : t \in {}} \ {None} BY <1>3
  <2>7. Waiting({}, <<>>, <<>>, ircd[s], w, features) BY <2>4, <2>5, <2>6 DEF Waiting
  <2>8. Held(s, {}, "connecting", joindelay[s], <<>>, <<>>, ircd[s], banned[s], w, features)
    BY <2>2, <2>3, <2>7 DEF Held
  <2> QED BY <1>2, <1>4, <2>2, <2>3, <2>8 DEF M
<1> QED BY <1>2, <1>4, <1>5, WantFrame

(* us is ts with its tabs changed in place. *)
LEMMA AlongMine ==
  ASSUME NEW ts \in Seq(Tab), NEW us \in Seq(Tab), Len(us) = Len(ts),
         \A i \in 1..Len(ts) : us[i].serv = ts[i].serv, NEW r
  PROVE  /\ (\A i \in 1..Len(ts) : ts[i].serv = r => us[i] = ts[i]) => Mine(us, r) = Mine(ts, r)
         /\ \A t : t \in Mine(us, r) <=> \E i \in 1..Len(ts) : ts[i].serv = r /\ t = us[i]
         /\ \A t : t \in Mine(ts, r) <=> \E i \in 1..Len(ts) : ts[i].serv = r /\ t = ts[i]
<1>1. \A t : t \in Mine(us, r) <=> \E i \in 1..Len(ts) : ts[i].serv = r /\ t = us[i] BY DEF Mine
<1>2. \A t : t \in Mine(ts, r) <=> \E i \in 1..Len(ts) : ts[i].serv = r /\ t = ts[i] BY DEF Mine
<1>3. ASSUME \A i \in 1..Len(ts) : ts[i].serv = r => us[i] = ts[i] PROVE Mine(us, r) = Mine(ts, r)
  <2>1. \A t : t \in Mine(us, r) <=> t \in Mine(ts, r) BY <1>1, <1>2, <1>3
  <2> QED BY <2>1
<1> QED BY <1>1, <1>2, <1>3

(* What is joined after the login is what the tabs were marked with.       *)
LEMMA AutoJoinWants ==
  ASSUME tabs \in Seq(Tab), Links, NEW s \in Serv, AutoJoin(s), NEW q, NEW R, NEW w \in SUBSET Chan,
         Waiting(Mine(tabs, s), q, out[s], R, w, features), NEW ban
  PROVE  /\ \A r \in Serv : r # s => Mine(tabs', r) = Mine(tabs, r) /\ out'[r] = out[r]
         /\ \A c \in Chan : Sought(c, Mine(tabs', s), q, out'[s], R[c], ban, w, features)
         /\ \A t \in Mine(tabs', s) : t.will = None
<1> DEFINE M == Mine(tabs, s)  N == Mine(tabs', s)  n == Len(tabs)
<1>1. /\ tabs' \in Seq(Tab) /\ Alike(tabs, tabs')
      /\ \A i \in 1..n : /\ tabs[i].serv = s => tabs'[i].will = None
                         /\ tabs[i].serv # s => tabs'[i] = tabs[i]
  BY AutoJoinTabs
<1>2. /\ Len(tabs') = n
      /\ \A i \in 1..n : tabs'[i].serv = tabs[i].serv /\ tabs'[i].channel = tabs[i].channel
  BY <1>1 DEF Alike
<1>3. ASSUME NEW r \in Serv, r # s PROVE Mine(tabs', r) = Mine(tabs, r)
  <2>1. \A i \in 1..n : tabs[i].serv = r => tabs'[i] = tabs[i] BY <1>1, <1>3
  <2> QED BY <1>1, <1>2, <2>1, AlongMine
<1>4. /\ \A t : t \in N <=> \E i \in 1..n : tabs[i].serv = s /\ t = tabs'[i]
      /\ \A t : t \in M <=> \E i \in 1..n : tabs[i].serv = s /\ t = tabs[i]
  BY <1>1, <1>2, AlongMine, SMTT(30)
<1>5. PICK chans \in Seq(Chan) :
        /\ Send(s, irc_join_list(chans))
        /\ \A c \in Chan : (\E i \in 1..Len(chans) : chans[i] = c) <=>
             IF \E i \in 1..n : tabs[i].serv = s /\ tabs[i].will # None
             THEN \E i \in 1..n : tabs[i].serv = s /\ tabs[i].will = c
             ELSE May("favs") /\ c \in Fav
  BY AutoJoinLines
<1> HIDE DEF M, N, n
<1>6. /\ \A c \in Chan : /\ Me \notin R[c] /\ ~Joining(out[s], c) /\ ~Parting(out[s], c)
                         /\ ~Has(q, "UJOIN", c)
      /\ \A t \in M : t.channel = None /\ ("favs" \in features => t.will = None)
      /\ w = IF "favs" \in features THEN Fav ELSE {t.will : t \in M} \ {None}
  BY DEF Waiting, M
<1>7. \A t \in N : t.will = None /\ t.channel = None BY <1>1, <1>2, <1>4, <1>6 DEF n
<1>8. ASSUME NEW c \in Chan PROVE (\E i \in 1..Len(chans) : chans[i] = c) <=> c \in w
  <2>1. c # None BY ChanIsNotNone
  <2>2. CASE "favs" \in features
    <3>1. ~\E i \in 1..n : tabs[i].serv = s /\ tabs[i].will # None BY <1>4, <1>6, <2>2
    <3>2. w = Fav BY <1>6, <2>2
    <3> QED BY <1>5, <2>2, <3>1, <3>2 DEF May
  <2>3. CASE "favs" \notin features
    <3>1. w = {t.will : t \in M} \ {None} BY <1>6, <2>3
    <3>2. c \in w <=> \E t \in M : t.will = c BY <2>1, <3>1
    <3>3. c \in w <=> \E i \in 1..n : tabs[i].serv = s /\ tabs[i].will = c BY <1>4, <3>2
    <3> QED BY <1>5, <2>1, <2>3, <3>3 DEF May
  <2> QED BY <2>2, <2>3
<1>9. irc_join_list(chans) \in Seq(Line) BY JoinListTyped
<1>10. out'[s] = out[s] \o irc_join_list(chans) /\ \A r \in Serv : r # s => out'[r] = out[r]
  BY <1>5, <1>9, SendFacts
<1>11. ASSUME NEW c \in Chan PROVE Sought(c, N, q, out'[s], R[c], ban, w, features)
  <2> DEFINE o == out[s]  p == out'[s]
  <2>1. /\ o \in Seq(Line) /\ p = o \o irc_join_list(chans)
        /\ ~Joining(o, c) /\ ~Parting(o, c)
    BY <1>6, <1>10 DEF Links
  <2>2. /\ p \in Seq(Line) /\ ~Parting(p, c)
        /\ Joining(p, c) <=> \E i \in 1..Len(chans) : chans[i] = c
    <3> HIDE DEF o, p
    <3> QED BY <2>1, JoinListFacts
  <2>3. JoinsLast(out'[s], c) <=> c \in w BY <1>8, <2>2, LastFacts
  <2>4. Hope(out'[s], R[c], c) <=> c \in w BY <1>6, <2>3 DEF Hope
  <2>5. Joining(out'[s], c) <=> c \in w BY <1>8, <2>2
  <2>6. ~\E t \in N : t.channel = c BY <1>7, ChanIsNotNone
  <2> QED BY <1>6, <2>4, <2>5, <2>6 DEF Sought
<1> QED BY <1>3, <1>7, <1>10, <1>11 DEF N

(* The end of the login, and of the join delay. *)
LEMMA LoginWants ==
  ASSUME IInv, WInv, Orderly, NEW s \in Serv, inbound_login_end(s) \/ check_autojoin_channels(s)
  PROVE  WInv'
<1>1. tabs \in Seq(Tab) /\ Links /\ Others BY Types DEF IInv
<1> DEFINE M == Mine(tabs, s)
<1>2. /\ stat[s] = "connecting" \/ joindelay[s]
      /\ stat'[s] = "in"
      /\ \A r \in Serv : r # s => stat'[r] = stat[r] /\ joindelay'[r] = joindelay[r]
      /\ \/ joindelay'[s] = TRUE /\ tabs' = tabs /\ out' = out
         \/ ~joindelay'[s] /\ AutoJoin(s)
      /\ inq' = inq /\ want' = want /\ ircd' = ircd /\ banned' = banned /\ features' = features
  <2>1. CASE inbound_login_end(s)
    <3>1. /\ stat[s] = "connecting" /\ stat' = [stat EXCEPT ![s] = "in"]
          /\ \/ joindelay' = [joindelay EXCEPT ![s] = TRUE] /\ tabs' = tabs /\ out' = out
             \/ AutoJoin(s) /\ joindelay' = joindelay
          /\ inq' = inq /\ want' = want /\ ircd' = ircd /\ banned' = banned /\ features' = features
      BY <2>1 DEF inbound_login_end, world
    <3>2. stat'[s] = "in" /\ \A r \in Serv : r # s => stat'[r] = stat[r] BY <1>1, <3>1 DEF Links
    <3>3. ~joindelay[s] BY <1>1, <3>1 DEF Others
    <3>4. /\ \A r \in Serv : r # s => joindelay'[r] = joindelay[r]
          /\ \/ joindelay'[s] = TRUE /\ tabs' = tabs /\ out' = out
             \/ ~joindelay'[s] /\ AutoJoin(s)
      BY <1>1, <3>1, <3>3 DEF Others
    <3> QED BY <3>1, <3>2, <3>4
  <2>2. CASE check_autojoin_channels(s)
    <3>1. /\ joindelay[s] /\ joindelay' = [joindelay EXCEPT ![s] = FALSE]
          /\ AutoJoin(s) /\ stat' = stat /\ inq' = inq /\ ircd' = ircd
          /\ banned' = banned /\ features' = features /\ want' = want
      BY <2>2 DEF check_autojoin_channels, world
    <3>2. stat[s] = "in" BY <1>1, <3>1 DEF Others
    <3>3. ~joindelay'[s] /\ \A r \in Serv : r # s => joindelay'[r] = joindelay[r]
      BY <1>1, <3>1 DEF Others
    <3> QED BY <3>1, <3>2, <3>3
  <2> QED BY <2>1, <2>2
<1>3. /\ Lawful(inq[s], ircd[s], banned[s], features)
      /\ Waiting(M, inq[s], out[s], ircd[s], want[s], features)
  <2>1. Held(s, M, stat[s], joindelay[s], inq[s], out[s], ircd[s], banned[s], want[s], features)
    BY HeldNow
  <2> QED BY <1>2, <2>1 DEF Held
<1>4. want[s] \in SUBSET Chan BY <1>1 DEF Others
<1>5. Held(s, Mine(tabs', s), stat'[s], joindelay'[s], inq'[s], out'[s], ircd'[s], banned'[s],
           want'[s], features)
  <2>1. CASE joindelay'[s] = TRUE /\ tabs' = tabs /\ out' = out
    BY <1>2, <1>3, <2>1 DEF Held
  <2>2. CASE ~joindelay'[s] /\ AutoJoin(s)
    <3>1. /\ \A c \in Chan : Sought(c, Mine(tabs', s), inq[s], out'[s], ircd[s][c], banned[s],
                                    want[s], features)
          /\ \A t \in Mine(tabs', s) : t.will = None
      BY <1>1, <1>3, <1>4, <2>2, AutoJoinWants
    <3> QED BY <1>2, <1>3, <2>2, <3>1 DEF Held
  <2> QED BY <1>2, <2>1, <2>2
<1>6. ASSUME NEW r \in Serv, r # s PROVE Mine(tabs', r) = Mine(tabs, r) /\ out'[r] = out[r]
  <2>1. CASE tabs' = tabs /\ out' = out BY <2>1
  <2>2. CASE AutoJoin(s) BY <1>1, <1>3, <1>4, <1>6, <2>2, AutoJoinWants
  <2> QED BY <1>2, <2>1, <2>2
<1> QED BY <1>2, <1>5, <1>6, WantFrame

(* What the user says. *)

LEMMA LineIs ==
  \A a, b, c, d : ToLine(a, c) = ToLine(b, d) <=> a = b /\ c = d
BY DEF ToLine

LEMMA OrderlyFacts ==
  ASSUME Orderly
  PROVE  /\ ~May("again") /\ ~May("early") /\ ~May("hasty") /\ ~May("impatient")
         /\ ~May("discon") /\ ~May("norejoin")
         /\ ~({"part", "kick", "autorejoin"} \subseteq features)
         /\ \A r, s \in Serv : Loses(r, features) /\ Loses(s, features) => r = s
         /\ \A s \in Serv : Loses(s, features) => ~May("favs")
<1>1. ~({"lost", "lost2"} \subseteq features) /\ ~({"part", "kick", "autorejoin"} \subseteq features)
  BY DEF Orderly
<1>2. features \cap {"again", "early", "hasty", "impatient", "discon", "norejoin"} = {}
  BY DEF Orderly, Never
<1>3. May("favs") => features \cap {"lost", "lost2"} = {} BY DEF Orderly, Never
<1>4. \A s \in Serv : Loses(s, features) => "lost" \in features \/ "lost2" \in features BY DEF Loses
<1>5. ASSUME NEW r \in Serv, NEW s \in Serv, Loses(r, features), Loses(s, features), r # s PROVE FALSE
  <2>1. (r = 1 /\ s = 2) \/ (r = 2 /\ s = 1) BY <1>5 DEF Serv
  <2> QED BY <1>1, <1>5, <2>1 DEF Loses
<1> QED BY <1>1, <1>2, <1>3, <1>4, <1>5 DEF May

LEMMA SentOne ==
  ASSUME Links, NEW s \in Serv, NEW a \in Line, Send(s, <<a>>)
  PROVE  /\ out[s] \in Seq(Line) /\ out'[s] = Append(out[s], a)
         /\ \A r \in Serv : r # s => out'[r] = out[r]
<1>1. out[s] \in Seq(Line) BY DEF Links
<1>2. <<a>> \in Seq(Line) OBVIOUS
<1>3. out'[s] = out[s] \o <<a>> /\ \A r \in Serv : r # s => out'[r] = out[r] BY <1>2, SendFacts
<1>4. Append(out[s], a) = out[s] \o <<a>> BY <1>1, AppendIsConcat
<1> QED BY <1>1, <1>3, <1>4

LEMMA WantIs ==
  ASSUME Others, NEW s \in Serv
  PROVE  /\ want[s] \in SUBSET Chan
         /\ \A c : Wanted(s, c) => /\ want'[s] = want[s] \cup {c}
                                   /\ \A r \in Serv : r # s => want'[r] = want[r]
         /\ \A C : Unwanted(s, C) => /\ want'[s] = want[s] \ C
                                     /\ \A r \in Serv : r # s => want'[r] = want[r]
BY DEF Others, Wanted, Unwanted

(* What a line makes of where we shall be. *)
Said(o, p, a) == p = Append(o, a)

LEMMA SentHope ==
  ASSUME NEW o \in Seq(Line), NEW a \in Line, NEW p, Said(o, p, a), NEW c, NEW m, NEW d
  PROVE  /\ p \in Seq(Line)
         /\ \/ a \in {ToLine("JOIN", c), ToLine("PART", c)} /\ d # c
            \/ a = ToLine("NAMES", c)
            => /\ Joining(p, d) <=> Joining(o, d)
               /\ Parting(p, d) <=> Parting(o, d)
               /\ Hope(p, m, d) <=> Hope(o, m, d)
         /\ a = ToLine("JOIN", c) => Joining(p, c) /\ Hope(p, m, c)
         /\ a = ToLine("PART", c) => (Joining(p, c) <=> Joining(o, c)) /\ ~Hope(p, m, c)
<1>1. \A e : /\ p \in Seq(Line)
             /\ Joining(p, e) <=> Joining(o, e) \/ a = ToLine("JOIN", e)
             /\ Parting(p, e) <=> Parting(o, e) \/ a = ToLine("PART", e)
             /\ JoinsLast(p, e) <=> a = ToLine("JOIN", e)
                                    \/ (JoinsLast(o, e) /\ a # ToLine("PART", e))
  BY SentFacts DEF Said
<1>2. CASE a = ToLine("JOIN", c)
  <2>1. \A e : a # ToLine("PART", e) /\ (a = ToLine("JOIN", e) <=> e = c) BY <1>2, LineIs
  <2>2. a # ToLine("NAMES", c) /\ a # ToLine("PART", c) BY <1>2, LineIs
  <2> QED BY <1>1, <1>2, <2>1, <2>2 DEF Hope
<1>3. CASE a = ToLine("PART", c)
  <2>1. \A e : a # ToLine("JOIN", e) /\ (a = ToLine("PART", e) <=> e = c) BY <1>3, LineIs
  <2>2. a # ToLine("NAMES", c) /\ a # ToLine("JOIN", c) BY <1>3, LineIs
  <2> QED BY <1>1, <1>3, <2>1, <2>2 DEF Hope
<1>4. CASE a = ToLine("NAMES", c)
  <2>1. \A e : a # ToLine("JOIN", e) /\ a # ToLine("PART", e) BY <1>4, LineIs
  <2> QED BY <1>1, <1>4, <2>1 DEF Hope
<1> QED BY <1>1, <1>2, <1>3, <1>4

(* A step of a client that is logged in. *)
LEMMA ReadyFrame ==
  ASSUME WInv, Orderly, NEW s \in Serv, stat[s] = "in", ~joindelay[s],
         stat' = stat, joindelay' = joindelay, features' = features,
         \A r \in Serv : r # s =>
           /\ Mine(tabs', r) = Mine(tabs, r) /\ inq'[r] = inq[r] /\ out'[r] = out[r]
           /\ ircd'[r] = ircd[r] /\ banned'[r] = banned[r] /\ want'[r] = want[r],
         Lawful(inq'[s], ircd'[s], banned'[s], features),
         NEW C, Within(Mine(tabs', s), Mine(tabs, s), C),
         \A c \in Chan : Sought(c, Mine(tabs', s), inq'[s], out'[s], ircd'[s][c], banned'[s],
                                want'[s], features)
  PROVE  WInv'
<1>1. Held(s, Mine(tabs, s), stat[s], joindelay[s], inq[s], out[s], ircd[s], banned[s], want[s],
           features)
  BY HeldNow
<1>2. Loses(s, features) => \A t \in Mine(tabs, s) : t.will = None BY <1>1 DEF Held
<1>3. Loses(s, features) => \A t \in Mine(tabs', s) : t.will = None BY <1>2, WithinFacts
<1>4. Held(s, Mine(tabs', s), stat'[s], joindelay'[s], inq'[s], out'[s], ircd'[s], banned'[s],
           want'[s], features)
  BY <1>3 DEF Held
<1> QED BY <1>4, WantFrame

LEMMA ReadyNow ==
  ASSUME WInv, Orderly, NEW s \in Serv, stat[s] = "in", ~joindelay[s]
  PROVE  /\ Lawful(inq[s], ircd[s], banned[s], features)
         /\ \A c \in Chan : Sought(c, Mine(tabs, s), inq[s], out[s], ircd[s][c], banned[s], want[s],
                                   features)
BY HeldNow DEF Held

LEMMA WaitingNow ==
  ASSUME WInv, Orderly, NEW s \in Serv, stat[s] = "connecting" \/ joindelay[s]
  PROVE  /\ Lawful(inq[s], ircd[s], banned[s], features)
         /\ Waiting(Mine(tabs, s), inq[s], out[s], ircd[s], want[s], features)
BY HeldNow DEF Held

LEMMA OpenTabWants == ASSUME IInv, WInv, Orderly, NEW s \in Serv, OpenTab(s) PROVE WInv'
<1> DEFINE t == NewTab(s, None)  M == Mine(tabs, s)  N == Mine(tabs', s)
<1>1. tabs \in Seq(Tab) /\ Links BY Types DEF IInv
<1>2. /\ stat[s] # "down" /\ tabs' = <<t>> \o tabs
      /\ stat' = stat /\ joindelay' = joindelay /\ out' = out /\ inq' = inq /\ want' = want
      /\ ircd' = ircd /\ banned' = banned /\ features' = features
  BY DEF OpenTab, world
<1>3. t \in Tab /\ t.serv = s /\ t.channel = None /\ t.will = None /\ t.wait = None
  <2>1. t \in Tab /\ t.serv = s /\ t.channel = None BY NewTabFacts
  <2> QED BY <2>1 DEF NewTab
<1> HIDE DEF t
<1>4. N = M \cup {t} /\ \A r \in Serv : r # s => Mine(tabs', r) = Mine(tabs, r)
  <2>1. tabs \in Seq(Tab) /\ InFront(tabs, tabs', t) BY <1>1, <1>2 DEF InFront
  <2>2. /\ Mine(tabs', t.serv) = Mine(tabs, t.serv) \cup {t}
        /\ \A r : r # t.serv => Mine(tabs', r) = Mine(tabs, r)
    BY <1>3, <2>1, FrontMine
  <2> QED BY <1>3, <2>2
<1>5. Within(N, M, {}) BY <1>3, <1>4 DEF Within
<1> HIDE DEF M, N
<1>6. CASE stat[s] = "in" /\ ~joindelay[s]
  <2>1. ASSUME NEW c \in Chan
        PROVE  Sought(c, N, inq[s], out[s], ircd[s][c], banned[s], want[s], features)
    <3>1. Sought(c, M, inq[s], out[s], ircd[s][c], banned[s], want[s], features)
      BY <1>6, ReadyNow DEF M
    <3>2. (\E u \in N : u.channel = c) => \E u \in M : u.channel = c BY <1>5, WithinFacts
    <3> QED BY <3>1, <3>2 DEF Sought
  <2>2. Lawful(inq[s], ircd[s], banned[s], features) BY <1>6, ReadyNow
  <2> QED BY <1>2, <1>4, <1>5, <1>6, <2>1, <2>2, ReadyFrame DEF M, N
<1>7. CASE stat[s] = "connecting" \/ joindelay[s]
  <2>1. Lawful(inq[s], ircd[s], banned[s], features)
        /\ Waiting(M, inq[s], out[s], ircd[s], want[s], features)
    BY <1>7, WaitingNow DEF M
  <2>2. {u.will : u \in N} \ {None} = {u.will : u \in M} \ {None} BY <1>3, <1>4
  <2>3. Waiting(N, inq[s], out[s], ircd[s], want[s], features)
    BY <1>3, <1>4, <2>1, <2>2 DEF Waiting
  <2>4. ~(stat[s] = "in" /\ ~joindelay[s]) BY <1>7
  <2>5. Held(s, N, stat[s], joindelay[s], inq[s], out[s], ircd[s], banned[s], want[s], features)
    BY <1>2, <2>1, <2>3, <2>4 DEF Held
  <2> QED BY <1>2, <1>4, <2>5, WantFrame DEF N
<1> QED BY <1>1, <1>2, <1>6, <1>7 DEF Links

LEMMA JoinWants ==
  ASSUME IInv, WInv, Orderly, NEW s \in Serv, NEW c \in Chan, NEW i \in 0..Len(tabs),
         cmd_join(s, c, i)
  PROVE  WInv'
<1> DEFINE a == ToLine("JOIN", c)  M == Mine(tabs, s)  N == Mine(tabs', s)
<1>1. tabs \in Seq(Tab) /\ Links /\ Others BY Types DEF IInv
<1>2. /\ stat[s] = "in" /\ ~joindelay[s] /\ Send(s, <<a>>) /\ Wanted(s, c)
      /\ \/ tabs' = tabs
         \/ i # 0 /\ tabs[i].serv = s /\ tabs' = [tabs EXCEPT ![i].wait = c]
      /\ stat' = stat /\ joindelay' = joindelay /\ inq' = inq
      /\ ircd' = ircd /\ banned' = banned /\ features' = features
  BY OrderlyFacts DEF cmd_join, Commands, world
<1>3. a \in Line BY Lines
<1>4. Within(N, M, {}) /\ \A r \in Serv : r # s => Mine(tabs', r) = Mine(tabs, r)
  <2>1. CASE tabs' = tabs BY <2>1, WithinItself
  <2>2. CASE i # 0 /\ tabs[i].serv = s /\ tabs' = [tabs EXCEPT ![i].wait = c]
    <3> DEFINE t == [tabs[i] EXCEPT !.wait = c]
    <3>1. i \in 1..Len(tabs) /\ tabs[i] \in Tab
      <4>1. Len(tabs) \in Nat BY <1>1, LenProperties
      <4>2. i \in 1..Len(tabs) BY <2>2, <4>1
      <4> QED BY <1>1, <4>2, LenProperties
    <3>2. t \in Tab /\ t.serv = s /\ t.channel = tabs[i].channel /\ t.will = tabs[i].will
      BY <2>2, <3>1 DEF Tab
    <3>3. tabs' = [tabs EXCEPT ![i] = t] BY <2>2
    <3> HIDE DEF t
    <3>4. tabs \in Seq(Tab) /\ InPlace(tabs, tabs', i, t)
      BY <1>1, <2>2, <3>2, <3>3 DEF InPlace
    <3>5. /\ \A r : r # t.serv => Mine(tabs', r) = Mine(tabs, r)
          /\ Within(Mine(tabs', t.serv), Mine(tabs, t.serv), {})
      BY <3>1, <3>2, <3>4, PutMine
    <3> QED BY <3>2, <3>5
  <2> QED BY <1>2, <2>1, <2>2
<1> HIDE DEF a, M, N
<1>5. /\ out[s] \in Seq(Line) /\ out'[s] = Append(out[s], a)
      /\ \A r \in Serv : r # s => out'[r] = out[r]
  BY <1>1, <1>2, <1>3, SentOne
<1>6. want'[s] = want[s] \cup {c} /\ \A r \in Serv : r # s => want'[r] = want[r]
  BY <1>1, <1>2, WantIs
<1>7. ASSUME NEW d \in Chan
      PROVE  Sought(d, N, inq[s], out'[s], ircd[s][d], banned[s], want'[s], features)
  <2> DEFINE o == out[s]  p == out'[s]  m == ircd[s][d]
  <2>1. Sought(d, M, inq[s], o, m, banned[s], want[s], features) BY <1>2, ReadyNow DEF M
  <2>2. (\E t \in N : t.channel = d) => \E t \in M : t.channel = d BY <1>4, WithinFacts
  <2>6. o \in Seq(Line) /\ Said(o, p, a) /\ a = ToLine("JOIN", c) BY <1>5 DEF a, Said
  <2>7. d # c => (Joining(p, d) <=> Joining(o, d)) /\ (Hope(p, m, d) <=> Hope(o, m, d))
    BY <1>3, <2>6, SentHope, ZenonT(60)
  <2>8. Joining(p, c) /\ Hope(p, m, c) BY <1>3, <2>6, SentHope
  <2>3. /\ d # c => (Joining(p, d) <=> Joining(o, d)) /\ (Hope(p, m, d) <=> Hope(o, m, d))
        /\ d = c => Joining(p, d) /\ Hope(p, m, d)
    <3> HIDE DEF o, p, m
    <3> QED BY <2>7, <2>8
  <2> HIDE DEF o, p, m
  <2>4. CASE d = c
    <3>1. d \in want'[s] BY <1>6, <2>4
    <3> QED BY <2>3, <2>4, <3>1 DEF Sought, p, m
  <2>5. CASE d # c
    <3>1. d \in want'[s] <=> d \in want[s] BY <1>6, <2>5
    <3> QED BY <2>1, <2>2, <2>3, <2>5, <3>1, SoughtKept DEF p, m
  <2> QED BY <2>4, <2>5
<1>8. Lawful(inq[s], ircd[s], banned[s], features) BY <1>2, ReadyNow
<1> QED BY <1>2, <1>4, <1>5, <1>6, <1>7, <1>8, ReadyFrame DEF M, N

LEMMA AskWants ==
  ASSUME IInv, WInv, Orderly, NEW s \in Serv, NEW c \in Chan,
         cmd_part(s, c) \/ cmd_cycle(s, c)
  PROVE  WInv'
<1> DEFINE a == ToLine("PART", c)  b == ToLine("JOIN", c)  M == Mine(tabs, s)
<1>1. Links /\ Others BY Types DEF IInv
<1>2. /\ stat[s] = "in" /\ ~joindelay[s] /\ tabs' = tabs
      /\ \/ Send(s, <<a>>) /\ Unwanted(s, {c}) /\ May("part")
         \/ Send(s, <<a, b>>) /\ Wanted(s, c)
      /\ stat' = stat /\ joindelay' = joindelay /\ inq' = inq
      /\ ircd' = ircd /\ banned' = banned /\ features' = features
  BY OrderlyFacts DEF cmd_part, cmd_cycle, Commands, world
<1>3. a \in Line /\ b \in Line BY Lines
<1> HIDE DEF a, b, M
<1>4. Lawful(inq[s], ircd[s], banned[s], features) BY <1>2, ReadyNow
<1>5. out[s] \in Seq(Line) BY <1>1 DEF Links
<1>6. CASE Send(s, <<a>>) /\ Unwanted(s, {c}) /\ May("part")
  <2>1. out'[s] = Append(out[s], a) /\ \A r \in Serv : r # s => out'[r] = out[r]
    BY <1>1, <1>3, <1>6, SentOne
  <2>2. want'[s] = want[s] \ {c} /\ \A r \in Serv : r # s => want'[r] = want[r]
    BY <1>1, <1>6, WantIs
  <2>3. ~({"kick", "autorejoin"} \subseteq features) BY <1>6, OrderlyFacts DEF May
  <2>4. ASSUME NEW d \in Chan
        PROVE  Sought(d, M, inq[s], out'[s], ircd[s][d], banned[s], want'[s], features)
    <3> DEFINE o == out[s]  p == out'[s]  m == ircd[s][d]
    <3>1. Sought(d, M, inq[s], o, m, banned[s], want[s], features) BY <1>2, ReadyNow DEF M
    <3>6. o \in Seq(Line) /\ Said(o, p, a) /\ a = ToLine("PART", c)
      BY <1>5, <2>1 DEF a, Said
    <3>7. d # c => (Joining(p, d) <=> Joining(o, d)) /\ (Hope(p, m, d) <=> Hope(o, m, d))
      BY <1>3, <3>6, SentHope, ZenonT(60)
    <3>8. ~Hope(p, m, c) BY <1>3, <3>6, SentHope
    <3>2. /\ d # c => (Joining(p, d) <=> Joining(o, d)) /\ (Hope(p, m, d) <=> Hope(o, m, d))
          /\ d = c => ~Hope(p, m, d)
      <4> HIDE DEF o, p, m
      <4> QED BY <3>7, <3>8
    <3> HIDE DEF o, p, m
    <3>3. d \in want'[s] <=> d \in want[s] /\ d # c BY <2>2
    <3>4. CASE d = c BY <2>3, <3>2, <3>3, <3>4 DEF Sought, p, m
    <3>5. CASE d # c BY <3>1, <3>2, <3>3, <3>5, SoughtKept DEF p, m
    <3> QED BY <3>4, <3>5
  <2> QED BY <1>2, <1>4, <2>1, <2>2, <2>4, ReadyFrame, WithinItself DEF M
<1>7. CASE Send(s, <<a, b>>) /\ Wanted(s, c)
  <2>1. out'[s] = Append(Append(out[s], a), b) /\ \A r \in Serv : r # s => out'[r] = out[r]
    <3>1. <<a, b>> \in Seq(Line) /\ <<a>> \in Seq(Line) /\ <<b>> \in Seq(Line) BY <1>3
    <3>2. out'[s] = out[s] \o <<a, b>> /\ \A r \in Serv : r # s => out'[r] = out[r]
      BY <1>1, <1>7, <3>1, SendFacts
    <3>3. out[s] \o <<a, b>> = Append(Append(out[s], a), b) BY <1>3, <1>5
    <3> QED BY <3>2, <3>3
  <2>2. want'[s] = want[s] \cup {c} /\ \A r \in Serv : r # s => want'[r] = want[r]
    BY <1>1, <1>7, WantIs
  <2>3. ASSUME NEW d \in Chan
        PROVE  Sought(d, M, inq[s], out'[s], ircd[s][d], banned[s], want'[s], features)
    <3> DEFINE o == out[s]  p == out'[s]  m == ircd[s][d]
    <3>0. PICK u : u = Append(o, a) OBVIOUS
    <3>1. Sought(d, M, inq[s], o, m, banned[s], want[s], features) BY <1>2, ReadyNow DEF M
    <3>2. /\ Said(o, u, a) /\ Said(u, p, b) /\ o \in Seq(Line)
          /\ a = ToLine("PART", c) /\ b = ToLine("JOIN", c)
      BY <1>5, <2>1, <3>0 DEF a, b, Said
    <3>8. u \in Seq(Line) BY <1>3, <1>5, <3>0
    <3>3. d # c => (Joining(u, d) <=> Joining(o, d)) /\ (Hope(u, m, d) <=> Hope(o, m, d))
      <4>1. d # c => (Joining(u, d) <=> Joining(o, d)) BY <1>3, <3>2, SentHope
      <4>2. d # c => (Hope(u, m, d) <=> Hope(o, m, d)) BY <1>3, <3>2, SentHope, ZenonT(60)
      <4> QED BY <4>1, <4>2
    <3>9. d # c => (Joining(p, d) <=> Joining(u, d)) /\ (Hope(p, m, d) <=> Hope(u, m, d))
      <4>1. d # c => (Joining(p, d) <=> Joining(u, d)) BY <1>3, <3>2, <3>8, SentHope
      <4>2. d # c => (Hope(p, m, d) <=> Hope(u, m, d)) BY <1>3, <3>2, <3>8, SentHope
      <4> QED BY <4>1, <4>2
    <3>10. Joining(p, c) /\ Hope(p, m, c) BY <1>3, <3>2, <3>8, SentHope
    <3>4. d = c => Joining(p, d) /\ Hope(p, m, d)
      <4> HIDE DEF o, p, m
      <4> QED BY <3>10
    <3>5. d \in want'[s] <=> d \in want[s] \/ d = c BY <2>2
    <3> HIDE DEF o, p, m
    <3>6. CASE d = c BY <3>4, <3>5, <3>6 DEF Sought, p, m
    <3>7. CASE d # c BY <3>1, <3>3, <3>5, <3>7, <3>9, SoughtKept DEF p, m
    <3> QED BY <3>6, <3>7
  <2> QED BY <1>2, <1>4, <2>1, <2>2, <2>3, ReadyFrame, WithinItself DEF M
<1> QED BY <1>2, <1>6, <1>7

LEMMA NamesWants ==
  ASSUME IInv, WInv, Orderly, NEW s \in Serv, NEW c \in Chan, cmd_names(s, c)
  PROVE  WInv'
<1> DEFINE a == ToLine("NAMES", c)  M == Mine(tabs, s)
<1>1. Links /\ Others BY Types DEF IInv
<1>2. /\ stat[s] = "in" /\ tabs' = tabs /\ Send(s, <<a>>)
      /\ stat' = stat /\ joindelay' = joindelay /\ inq' = inq /\ want' = want
      /\ ircd' = ircd /\ banned' = banned /\ features' = features
  BY DEF cmd_names, world
<1>3. a \in Line BY Lines
<1>4. /\ out[s] \in Seq(Line) /\ out'[s] = Append(out[s], a)
      /\ \A r \in Serv : r # s => out'[r] = out[r]
  BY <1>1, <1>2, <1>3, SentOne
<1>5. ASSUME NEW d \in Chan
      PROVE  /\ Joining(out'[s], d) <=> Joining(out[s], d)
             /\ Parting(out'[s], d) <=> Parting(out[s], d)
             /\ Hope(out'[s], ircd[s][d], d) <=> Hope(out[s], ircd[s][d], d)
  <2> DEFINE o == out[s]  p == out'[s]
  <2>1. o \in Seq(Line) /\ Said(o, p, a) /\ a = ToLine("NAMES", c) BY <1>4 DEF Said
  <2> HIDE DEF a
  <2>2. Joining(p, d) <=> Joining(o, d) BY <1>3, <2>1, SentHope
  <2>3. Parting(p, d) <=> Parting(o, d) BY <1>3, <2>1, SentHope
  <2>4. ASSUME NEW x PROVE Hope(p, x, d) <=> Hope(o, x, d) BY <1>3, <2>1, SentHope, ZenonT(60)
  <2> QED BY <2>2, <2>3, <2>4 DEF o, p
<1> HIDE DEF a, M
<1>6. CASE ~joindelay[s]
  <2>1. ASSUME NEW d \in Chan
        PROVE  Sought(d, M, inq[s], out'[s], ircd[s][d], banned[s], want[s], features)
    <3>1. Sought(d, M, inq[s], out[s], ircd[s][d], banned[s], want[s], features)
      BY <1>2, <1>6, ReadyNow DEF M
    <3> QED BY <1>5, <3>1, SoughtKept
  <2>2. Lawful(inq[s], ircd[s], banned[s], features) BY <1>2, <1>6, ReadyNow
  <2> QED BY <1>2, <1>4, <1>6, <2>1, <2>2, ReadyFrame, WithinItself DEF M
<1>7. CASE joindelay[s]
  <2>1. /\ Lawful(inq[s], ircd[s], banned[s], features)
        /\ Waiting(M, inq[s], out[s], ircd[s], want[s], features)
    BY <1>7, WaitingNow DEF M
  <2>2. Waiting(M, inq[s], out'[s], ircd[s], want[s], features) BY <1>5, <2>1 DEF Waiting
  <2>3. Held(s, M, stat[s], joindelay[s], inq[s], out'[s], ircd[s], banned[s], want[s], features)
    BY <1>2, <1>7, <2>1, <2>2 DEF Held
  <2> QED BY <1>2, <1>4, <2>3, WantFrame DEF M
<1> QED BY <1>6, <1>7

(* What the server says. *)

LEMMA HeardOne ==
  ASSUME NEW q \in Seq(Answer), NEW a \in Answer, NEW p, Said(q, p, a), NEW c
  PROVE  /\ p \in Seq(Answer)
         /\ \A cmd : Has(p, cmd, c) <=> Has(q, cmd, c) \/ (a.cmd = cmd /\ a.chan = c)
         /\ Kicked(q, c) /\ ~(a.cmd = "UJOIN" /\ a.chan = c) => Kicked(p, c)
         /\ a.cmd = "UKICK" /\ a.chan = c => Kicked(p, c)
<1> DEFINE one == <<a>>
<1>1. one \in Seq(Answer) /\ \A cmd : Has(one, cmd, c) <=> a.cmd = cmd /\ a.chan = c BY OneAnswer
<1>2. p = q \o one BY AppendIsConcat DEF Said
<1>3. a.cmd = "UKICK" /\ a.chan = c => Kicked(p, c) BY KickedNow DEF Said
<1> HIDE DEF one
<1>4. /\ p \in Seq(Answer)
      /\ \A cmd : Has(p, cmd, c) <=> Has(q, cmd, c) \/ Has(one, cmd, c)
      /\ Kicked(q, c) /\ ~Has(one, "UJOIN", c) => Kicked(p, c)
  BY <1>1, <1>2, HeardFacts
<1> QED BY <1>1, <1>3, <1>4

(* Nothing is said of a channel but who is there. *)
LEMMA HeldHeard ==
  ASSUME NEW s, NEW M, NEW st, NEW dl, NEW q, NEW p, NEW o, NEW R, NEW T, NEW ban, NEW w, NEW f,
         Held(s, M, st, dl, q, o, R, ban, w, f),
         \A c \in Chan : /\ Me \in T[c] <=> Me \in R[c]
                         /\ \A cmd \in {"UJOIN", "UKICK", "REFUSED"} : Has(p, cmd, c) <=> Has(q, cmd, c)
                         /\ Kicked(q, c) => Kicked(p, c)
  PROVE  Held(s, M, st, dl, p, o, T, ban, w, f)
<1>1. Lawful(p, T, ban, f) BY DEF Held, Lawful
<1>2. Waiting(M, q, o, R, w, f) => Waiting(M, p, o, T, w, f) BY DEF Waiting
<1>3. ASSUME NEW c \in Chan, Sought(c, M, q, o, R[c], ban, w, f)
      PROVE  Sought(c, M, p, o, T[c], ban, w, f)
  <2>1. Hope(o, T[c], c) <=> Hope(o, R[c], c) BY DEF Hope
  <2>2. /\ Has(p, "UJOIN", c) <=> Has(q, "UJOIN", c)
        /\ Has(p, "REFUSED", c) <=> Has(q, "REFUSED", c)
        /\ Kicked(q, c) => Kicked(p, c)
    OBVIOUS
  <2> QED BY <1>3, <2>1, <2>2 DEF Sought
<1> QED BY <1>1, <1>2, <1>3 DEF Held

LEMMA OtherMovesWants ==
  ASSUME IInv, WInv, Orderly, NEW s \in Serv, NEW c \in Chan, OtherMoves(s, c)
  PROVE  WInv'
<1> DEFINE m == ircd[s][c]  leaves == Other \in m
           n == IF leaves THEN m \ {Other} ELSE m \cup {Other}
           cmd == IF leaves THEN "PART" ELSE "JOIN"
           a == Reply(cmd, c, {})  q == inq[s]  p == inq'[s]
<1>1. Links BY Types DEF IInv
<1>2. /\ ircd' = [ircd EXCEPT ![s][c] = n]
      /\ inq' = IF Me \in m THEN [inq EXCEPT ![s] = Append(q, a)] ELSE inq
      /\ tabs' = tabs /\ stat' = stat /\ joindelay' = joindelay /\ out' = out
      /\ banned' = banned /\ want' = want /\ features' = features
  BY DEF OtherMoves
<1>3. inq \in [Serv -> Seq(Answer)] /\ ircd \in [Serv -> [Chan -> SUBSET {Me, Other}]]
  BY <1>1 DEF Links
<1>4. Me \in n <=> Me \in m BY DEF Me, Other
<1>5. cmd \in {"PART", "JOIN"} OBVIOUS
<1> HIDE DEF cmd, n
<1>6. a \in Answer /\ a.cmd \in {"PART", "JOIN"} BY <1>5, Replies
<1> HIDE DEF a
<1>7. /\ p = q \/ Said(q, p, a)
      /\ \A r \in Serv : r # s => inq'[r] = inq[r]
  BY <1>2, <1>3 DEF Said
<1>8. /\ \A r \in Serv : r # s => ircd'[r] = ircd[r]
      /\ \A d \in Chan : Me \in ircd'[s][d] <=> Me \in ircd[s][d]
  BY <1>2, <1>3, <1>4
<1>9. ASSUME NEW d \in Chan
      PROVE  /\ \A x \in {"UJOIN", "UKICK", "REFUSED"} : Has(p, x, d) <=> Has(q, x, d)
             /\ Kicked(q, d) => Kicked(p, d)
  <2>1. CASE p = q BY <2>1
  <2>2. CASE Said(q, p, a)
    <3>1. q \in Seq(Answer) BY <1>3
    <3>2. /\ \A x : Has(p, x, d) <=> Has(q, x, d) \/ (a.cmd = x /\ a.chan = d)
          /\ Kicked(q, d) /\ ~(a.cmd = "UJOIN" /\ a.chan = d) => Kicked(p, d)
      BY <1>6, <2>2, <3>1, HeardOne
    <3> QED BY <1>6, <3>2
  <2> QED BY <1>7, <2>1, <2>2
<1> DEFINE M == Mine(tabs, s)
<1>10. Held(s, M, stat[s], joindelay[s], inq[s], out[s], ircd[s], banned[s], want[s], features)
  BY HeldNow
<1> HIDE DEF M
<1>11. Held(s, M, stat[s], joindelay[s], inq'[s], out[s], ircd'[s], banned[s], want[s], features)
  BY <1>8, <1>9, <1>10, HeldHeard
<1> QED BY <1>2, <1>7, <1>8, <1>11, WantFrame DEF M

(* A kick is one that no answer to a JOIN follows yet. *)
LEMMA KickWants ==
  ASSUME IInv, WInv, Orderly, NEW s \in Serv, NEW c \in Chan, Kick(s, c)
  PROVE  WInv'
<1> DEFINE m == ircd[s][c]  n == m \ {Me}  a == Reply("UKICK", c, {})  q == inq[s]  p == inq'[s]
           o == out[s]  M == Mine(tabs, s)
<1>1. Links /\ Others BY Types DEF IInv
<1>2. /\ Me \in m /\ ircd' = [ircd EXCEPT ![s][c] = n] /\ inq' = [inq EXCEPT ![s] = Append(q, a)]
      /\ banned' = banned \/ banned' = [banned EXCEPT ![s] = @ \cup {c}]
      /\ tabs' = tabs /\ stat' = stat /\ joindelay' = joindelay
      /\ out' = out /\ want' = want /\ features' = features /\ "kick" \in features
  BY DEF Kick, May
<1>3. /\ inq \in [Serv -> Seq(Answer)] /\ ircd \in [Serv -> [Chan -> SUBSET {Me, Other}]]
      /\ banned \in [Serv -> SUBSET Chan] /\ o \in Seq(Line)
  BY <1>1 DEF Links, Others
<1>4. a \in Answer /\ a.cmd = "UKICK" /\ a.chan = c BY Replies
<1> HIDE DEF a
<1>5. q \in Seq(Answer) /\ Said(q, p, a) /\ \A r \in Serv : r # s => inq'[r] = inq[r]
  BY <1>2, <1>3 DEF Said
<1>6. /\ \A r \in Serv : r # s => ircd'[r] = ircd[r] /\ banned'[r] = banned[r]
      /\ \A d \in Chan : ircd'[s][d] = IF d = c THEN n ELSE ircd[s][d]
      /\ banned[s] \subseteq banned'[s] /\ banned'[s] \subseteq banned[s] \cup {c}
  BY <1>2, <1>3
<1>7. stat[s] = "in" /\ ~joindelay[s]
  <2>1. Agrees(tabs, stat[s], inq[s], out[s], ircd[s][c], s, c) BY DEF IInv
  <2>2. stat[s] = "in" BY <1>2, <2>1 DEF Agrees
  <2>3. ASSUME joindelay[s] PROVE FALSE
    <3>1. Waiting(M, q, o, ircd[s], want[s], features) BY <2>3, WaitingNow
    <3> QED BY <1>2, <3>1 DEF Waiting
  <2> QED BY <2>2, <2>3
<1>8. ASSUME NEW d \in Chan
      PROVE  /\ \A x : Has(p, x, d) <=> Has(q, x, d) \/ (x = "UKICK" /\ d = c)
             /\ Kicked(q, d) => Kicked(p, d)
             /\ d = c => Kicked(p, d)
  <2>1. /\ \A x : Has(p, x, d) <=> Has(q, x, d) \/ (a.cmd = x /\ a.chan = d)
        /\ Kicked(q, d) /\ ~(a.cmd = "UJOIN" /\ a.chan = d) => Kicked(p, d)
        /\ a.cmd = "UKICK" /\ a.chan = d => Kicked(p, d)
    BY <1>4, <1>5, HeardOne
  <2> QED BY <1>4, <2>1
<1>9. Lawful(p, ircd'[s], banned'[s], features)
  <2>1. Lawful(q, ircd[s], banned[s], features) BY <1>7, ReadyNow
  <2>2. ASSUME NEW d \in Chan
        PROVE  /\ Me \in ircd'[s][d] => d \notin banned'[s]
               /\ Has(p, "REFUSED", d) => d \in banned'[s]
               /\ Has(p, "UKICK", d) => "kick" \in features
    BY <1>2, <1>6, <1>8, <2>1 DEF Lawful
  <2> QED BY <2>2 DEF Lawful
<1>10. ASSUME NEW d \in Chan
       PROVE  Sought(d, M, p, o, ircd'[s][d], banned'[s], want[s], features)
  <2>1. Sought(d, M, q, o, ircd[s][d], banned[s], want[s], features) BY <1>7, ReadyNow
  <2>2. CASE d # c
    <3>1. ircd'[s][d] = ircd[s][d] BY <1>6, <2>2
    <3>2. d \in banned[s] => d \in banned'[s] BY <1>6
    <3>3. /\ Has(p, "UJOIN", d) <=> Has(q, "UJOIN", d)
          /\ Has(p, "REFUSED", d) <=> Has(q, "REFUSED", d)
          /\ Kicked(q, d) => Kicked(p, d)
      BY <1>8, <2>2
    <3> HIDE DEF M, q, p, o
    <3> QED BY <2>1, <3>1, <3>2, <3>3 DEF Sought
  <2>3. CASE d = c
    <3>1. ircd'[s][c] = n /\ Me \notin n /\ Me \in m BY <1>2, <1>6
    <3>2. c \in banned[s] => c \in banned'[s] BY <1>6
    <3>3. /\ Has(p, "UJOIN", c) <=> Has(q, "UJOIN", c)
          /\ Has(p, "REFUSED", c) <=> Has(q, "REFUSED", c)
          /\ Kicked(p, c)
      BY <1>8
    <3>4. Sought(c, M, q, o, m, banned[s], want[s], features) BY <2>1, <2>3
    <3>5. /\ JoinsLast(o, c) => Joining(o, c)
          /\ Joining(o, c) /\ ~Parting(o, c) => JoinsLast(o, c)
      BY <1>3, LastFacts
    <3> HIDE DEF M, q, p, o, m, n
    <3>6. Sought(c, M, p, o, n, banned'[s], want[s], features)
      BY <3>1, <3>2, <3>3, <3>4, <3>5 DEF Sought, Hope
    <3> QED BY <2>3, <3>1, <3>6
  <2> QED BY <2>2, <2>3
<1> QED BY <1>2, <1>5, <1>6, <1>7, <1>9, <1>10, ReadyFrame, WithinItself

LEMMA LineForm ==
  ASSUME NEW l \in Line
  PROVE  /\ l.chan \in Chan /\ l.cmd \in {"JOIN", "PART", "NAMES"}
         /\ \A cmd, d : l = ToLine(cmd, d) <=> l.cmd = cmd /\ l.chan = d
<1>1. l = [cmd |-> l.cmd, chan |-> l.chan] /\ l.chan \in Chan /\ l.cmd \in {"JOIN", "PART", "NAMES"}
  BY DEF Line
<1>2. l = ToLine(l.cmd, l.chan) BY <1>1 DEF ToLine
<1> QED BY <1>1, <1>2, LineIs

(* The server takes the line l from the lines o. *)
Takes(o, rest, l) == o # <<>> /\ l = Head(o) /\ rest = Tail(o)

(* The answer p comes after the lines q. *)
Hears(q, p, heard) == heard = q \o p

LEMMA TakenSays ==
  ASSUME NEW o \in Seq(Line), NEW rest, NEW l \in Line, Takes(o, rest, l), NEW d
  PROVE  /\ Joining(o, d) <=> (l.cmd = "JOIN" /\ l.chan = d) \/ Joining(rest, d)
         /\ Parting(o, d) <=> (l.cmd = "PART" /\ l.chan = d) \/ Parting(rest, d)
         /\ JoinsLast(o, d) <=> JoinsLast(rest, d)
                                \/ (l.cmd = "JOIN" /\ l.chan = d /\ ~Parting(rest, d))
<1>1. /\ Joining(o, d) <=> l = ToLine("JOIN", d) \/ Joining(rest, d)
      /\ Parting(o, d) <=> l = ToLine("PART", d) \/ Parting(rest, d)
      /\ JoinsLast(o, d) <=> JoinsLast(rest, d) \/ (l = ToLine("JOIN", d) /\ ~Parting(rest, d))
  BY TakenFacts DEF Takes
<1>2. /\ l = ToLine("JOIN", d) <=> l.cmd = "JOIN" /\ l.chan = d
      /\ l = ToLine("PART", d) <=> l.cmd = "PART" /\ l.chan = d
  BY LineForm
<1> QED BY <1>1, <1>2

(* What the answer p adds to what is said of the channel d. *)
Adds(l, c, m, ban, n, p, q, heard, d) ==
    /\ Has(heard, "UJOIN", d) <=> Has(q, "UJOIN", d) \/ Has(p, "UJOIN", d)
    /\ Has(heard, "UKICK", d) <=> Has(q, "UKICK", d) \/ Has(p, "UKICK", d)
    /\ Has(heard, "REFUSED", d) <=> Has(q, "REFUSED", d) \/ Has(p, "REFUSED", d)
    /\ Kicked(q, d) /\ ~Has(p, "UJOIN", d) => Kicked(heard, d)
    /\ ~Has(p, "UKICK", d)
    /\ Has(p, "REFUSED", d) => d = c /\ l.cmd = "JOIN" /\ c \in ban
    /\ Has(p, "UJOIN", d) => d = c /\ l.cmd = "JOIN" /\ c \notin ban
    /\ d = c /\ l.cmd = "JOIN" /\ c \in ban => Has(p, "REFUSED", d)
    /\ Me \in n <=> (l.cmd = "JOIN" /\ c \notin ban) \/ (Me \in m /\ l.cmd # "PART")

LEMMA AnswerHeard ==
  ASSUME NEW l \in Line, NEW c, NEW m \in SUBSET {Me, Other}, NEW ban, NEW n, NEW p,
         Answers(l, c, m, ban, n, p), NEW q \in Seq(Answer), NEW heard, Hears(q, p, heard), NEW d
  PROVE  Adds(l, c, m, ban, n, p, q, heard, d)
<1>1. p \in Seq(Answer) BY AnswerSays
<1>2. /\ Has(p, "UKICK", d) => d = c
      /\ Has(p, "REFUSED", d) => d = c
      /\ Has(p, "UJOIN", d) => d = c
  BY AnswerSays
<1>3. /\ ~Has(p, "UKICK", c)
      /\ Has(p, "REFUSED", c) => l.cmd = "JOIN" /\ c \in ban
      /\ Has(p, "UJOIN", c) => l.cmd = "JOIN" /\ c \notin ban
      /\ l.cmd = "JOIN" /\ c \in ban => Has(p, "REFUSED", c)
      /\ Me \in n <=> (l.cmd = "JOIN" /\ c \notin ban) \/ (Me \in m /\ l.cmd # "PART")
  BY AnswerSays
<1>4. /\ \A cmd : Has(heard, cmd, d) <=> Has(q, cmd, d) \/ Has(p, cmd, d)
      /\ Kicked(q, d) /\ ~Has(p, "UJOIN", d) => Kicked(heard, d)
  BY <1>1, HeardFacts DEF Hears
<1> QED BY <1>2, <1>3, <1>4 DEF Adds

(* Where we shall be does not depend on how far the server has read. *)
LEMMA TakenSought ==
  ASSUME NEW c, NEW M, NEW q \in Seq(Answer), NEW o \in Seq(Line), NEW m \in SUBSET {Me, Other},
         NEW ban, NEW w, NEW f, Sought(c, M, q, o, m, ban, w, f), Me \in m => c \notin ban,
         NEW l \in Line, NEW rest, Takes(o, rest, l), NEW n, NEW p, Answers(l, c, m, ban, n, p),
         NEW heard, Hears(q, p, heard)
  PROVE  Sought(c, M, heard, rest, n, ban, w, f)
<1>1. l.cmd \in {"JOIN", "PART", "NAMES"} /\ l.chan = c BY LineForm DEF Answers
<1>2. /\ Joining(o, c) <=> l.cmd = "JOIN" \/ Joining(rest, c)
      /\ Parting(o, c) <=> l.cmd = "PART" \/ Parting(rest, c)
      /\ JoinsLast(o, c) <=> JoinsLast(rest, c) \/ (l.cmd = "JOIN" /\ ~Parting(rest, c))
  BY <1>1, TakenSays
<1>3. /\ Has(heard, "UJOIN", c) <=> Has(q, "UJOIN", c) \/ Has(p, "UJOIN", c)
      /\ Has(heard, "REFUSED", c) <=> Has(q, "REFUSED", c) \/ Has(p, "REFUSED", c)
      /\ Kicked(q, c) /\ ~Has(p, "UJOIN", c) => Kicked(heard, c)
      /\ Has(p, "REFUSED", c) => l.cmd = "JOIN" /\ c \in ban
      /\ Has(p, "UJOIN", c) => l.cmd = "JOIN" /\ c \notin ban
      /\ l.cmd = "JOIN" /\ c \in ban => Has(p, "REFUSED", c)
      /\ Me \in n <=> (l.cmd = "JOIN" /\ c \notin ban) \/ (Me \in m /\ l.cmd # "PART")
  <2>1. Adds(l, c, m, ban, n, p, q, heard, c) BY AnswerHeard
  <2> QED BY <2>1 DEF Adds
<1>4. CASE l.cmd = "JOIN" /\ c \in ban BY <1>3, <1>4 DEF Sought
<1>5. CASE ~(l.cmd = "JOIN" /\ c \in ban)
  <2>1. Hope(rest, n, c) <=> Hope(o, m, c) BY <1>1, <1>2, <1>3, <1>5 DEF Hope
  <2>2. Has(q, "REFUSED", c) => Has(heard, "REFUSED", c) BY <1>3
  <2>3. Kicked(q, c) /\ ~Joining(o, c) => Kicked(heard, c) /\ ~Joining(rest, c) BY <1>2, <1>3
  <2>4. \/ \E t \in M : t.channel = c
        \/ Joining(rest, c) \/ Has(heard, "UJOIN", c)
        => \/ \E t \in M : t.channel = c
           \/ Joining(o, c) \/ Has(q, "UJOIN", c)
    BY <1>2, <1>3
  <2> QED BY <2>1, <2>2, <2>3, <2>4, SoughtKept
<1> QED BY <1>4, <1>5

LEMMA IrcdReadsWants == ASSUME IInv, WInv, Orderly, NEW s \in Serv, IrcdReads(s) PROVE WInv'
<1>1. Links BY Types, SMTT(30) DEF IInv
<1> DEFINE o == out[s]  l == Head(o)  c == l.chan  m == ircd[s][c]  rest == Tail(o)
           ban == banned[s]
           n == After(l, m, ban)  p == AnswerTo(l, m, ban)  q == inq[s]  heard == q \o p
           M == Mine(tabs, s)
<1>2. /\ o # <<>> /\ out' = [out EXCEPT ![s] = rest]
      /\ ircd' = [ircd EXCEPT ![s][c] = n] /\ inq' = [inq EXCEPT ![s] = heard]
      /\ tabs' = tabs /\ stat' = stat /\ joindelay' = joindelay
      /\ banned' = banned /\ want' = want /\ features' = features
  BY DEF IrcdReads, After, AnswerTo
<1>3. /\ out \in [Serv -> Seq(Line)] /\ inq \in [Serv -> Seq(Answer)]
      /\ ircd \in [Serv -> [Chan -> SUBSET {Me, Other}]]
  BY <1>1 DEF Links
<1>4. o \in Seq(Line) /\ q \in Seq(Answer) BY <1>3
<1>5. l \in Line
  <2> HIDE DEF o
  <2> QED BY <1>2, <1>4, HeadTailProperties
<1>6. c \in Chan BY <1>5 DEF Line
<1>7. m \in SUBSET {Me, Other} BY <1>3, <1>6
<1>8. stat[s] = "in" BY <1>1, <1>2 DEF Links
<1>9. /\ Takes(o, rest, l) /\ Answers(l, c, m, ban, n, p) /\ Hears(q, p, heard) /\ m = ircd[s][c]
      /\ o = out[s] /\ q = inq[s] /\ ban = banned[s] /\ M = Mine(tabs, s)
  BY <1>2 DEF Takes, Answers, Hears
<1> HIDE DEF o, l, c, m, rest, n, p, q, heard, M, ban
<1>10. /\ out'[s] = rest /\ inq'[s] = heard
       /\ \A r \in Serv : r # s => inq'[r] = inq[r] /\ out'[r] = out[r] /\ ircd'[r] = ircd[r]
       /\ \A d \in Chan : ircd'[s][d] = IF d = c THEN n ELSE ircd[s][d]
  BY <1>2, <1>3, <1>6
<1>11. ASSUME NEW d \in Chan
       PROVE  /\ Has(heard, "UJOIN", d) <=> Has(q, "UJOIN", d) \/ Has(p, "UJOIN", d)
              /\ Has(heard, "UKICK", d) <=> Has(q, "UKICK", d) \/ Has(p, "UKICK", d)
              /\ Has(heard, "REFUSED", d) <=> Has(q, "REFUSED", d) \/ Has(p, "REFUSED", d)
              /\ Kicked(q, d) /\ ~Has(p, "UJOIN", d) => Kicked(heard, d)
              /\ ~Has(p, "UKICK", d)
              /\ Has(p, "REFUSED", d) => d = c /\ l.cmd = "JOIN" /\ c \in ban
              /\ Has(p, "UJOIN", d) => d = c /\ l.cmd = "JOIN"
              /\ Me \in n <=> (l.cmd = "JOIN" /\ c \notin ban) \/ (Me \in m /\ l.cmd # "PART")
  <2>1. Adds(l, c, m, ban, n, p, q, heard, d) BY <1>4, <1>5, <1>7, <1>9, AnswerHeard
  <2> QED BY <2>1 DEF Adds
<1>12. ASSUME NEW d \in Chan
       PROVE  /\ Joining(o, d) <=> (l.cmd = "JOIN" /\ c = d) \/ Joining(rest, d)
              /\ Parting(o, d) <=> (l.cmd = "PART" /\ c = d) \/ Parting(rest, d)
              /\ d # c => (JoinsLast(o, d) <=> JoinsLast(rest, d))
  <2>1. l.chan = c BY <1>9 DEF Answers
  <2> QED BY <1>4, <1>5, <1>9, <2>1, TakenSays
<1>13. Lawful(q, ircd[s], ban, features) => Lawful(heard, ircd'[s], ban, features)
  <2>1. ASSUME Lawful(q, ircd[s], ban, features), NEW d \in Chan
        PROVE  /\ Me \in ircd'[s][d] => d \notin ban
               /\ Has(heard, "REFUSED", d) => d \in ban
               /\ Has(heard, "UKICK", d) => "kick" \in features
    <3>1. Me \in m => c \notin ban BY <1>6, <1>9, <2>1 DEF Lawful
    <3>2. /\ Me \in ircd[s][d] => d \notin ban
          /\ Has(q, "REFUSED", d) => d \in ban
          /\ Has(q, "UKICK", d) => "kick" \in features
      BY <2>1 DEF Lawful
    <3>3. Me \in ircd'[s][d] => d \notin ban BY <1>10, <1>11, <3>1, <3>2
    <3>4. Has(heard, "REFUSED", d) => d \in ban BY <1>11, <3>2
    <3>5. Has(heard, "UKICK", d) => "kick" \in features BY <1>11, <3>2
    <3> QED BY <3>3, <3>4, <3>5
  <2> QED BY <2>1 DEF Lawful
<1>14. CASE ~joindelay[s]
  <2>1. /\ Lawful(q, ircd[s], ban, features)
        /\ \A d \in Chan : Sought(d, M, q, o, ircd[s][d], ban, want[s], features)
    BY <1>8, <1>9, <1>14, ReadyNow
  <2>2. ASSUME NEW d \in Chan PROVE Sought(d, M, heard, rest, ircd'[s][d], ban, want[s], features)
    <3>1. CASE d = c
      <4>1. Me \in m => c \notin ban BY <1>6, <1>9, <2>1 DEF Lawful
      <4>2. Sought(c, M, q, o, m, ban, want[s], features) BY <1>6, <1>9, <2>1
      <4>3. Sought(c, M, heard, rest, n, ban, want[s], features)
        BY <1>4, <1>5, <1>7, <1>9, <4>1, <4>2, TakenSought
      <4> QED BY <1>10, <3>1, <4>3
    <3>2. CASE d # c
      <4>1. ircd'[s][d] = ircd[s][d] BY <1>10, <3>2
      <4>2. Sought(d, M, q, o, ircd[s][d], ban, want[s], features) BY <2>1
      <4>3. /\ Joining(o, d) <=> Joining(rest, d)
            /\ Parting(o, d) <=> Parting(rest, d)
            /\ JoinsLast(o, d) <=> JoinsLast(rest, d)
        BY <1>12, <3>2
      <4>4. /\ Has(heard, "UJOIN", d) <=> Has(q, "UJOIN", d)
            /\ Has(heard, "REFUSED", d) <=> Has(q, "REFUSED", d)
            /\ Kicked(q, d) => Kicked(heard, d)
        BY <1>11, <3>2
      <4> QED BY <4>1, <4>2, <4>3, <4>4 DEF Sought, Hope
    <3> QED BY <3>1, <3>2
  <2> QED BY <1>2, <1>8, <1>9, <1>10, <1>13, <1>14, <2>1, <2>2, ReadyFrame, WithinItself
<1>15. CASE joindelay[s]
  <2>1. /\ Lawful(q, ircd[s], ban, features)
        /\ Waiting(M, q, o, ircd[s], want[s], features)
    BY <1>9, <1>15, WaitingNow
  <2>2. l.cmd = "NAMES"
    <3>1. ~Joining(o, c) /\ ~Parting(o, c) BY <1>6, <2>1 DEF Waiting
    <3> QED BY <1>5, <1>6, <1>12, <3>1, LineForm
  <2>3. ASSUME NEW d \in Chan
        PROVE  /\ Me \notin ircd'[s][d] /\ ~Joining(rest, d) /\ ~Parting(rest, d)
               /\ \A cmd \in {"UJOIN", "UKICK", "REFUSED"} : ~Has(heard, cmd, d)
    <3>1. /\ Me \notin ircd[s][d] /\ Me \notin m /\ ~Joining(o, d) /\ ~Parting(o, d)
          /\ ~Has(q, "UJOIN", d) /\ ~Has(q, "UKICK", d) /\ ~Has(q, "REFUSED", d)
      BY <1>6, <1>9, <2>1 DEF Waiting
    <3>2. Me \notin n BY <1>11, <2>2, <3>1
    <3>3. ~Has(heard, "UJOIN", d) /\ ~Has(heard, "UKICK", d) /\ ~Has(heard, "REFUSED", d)
      BY <1>11, <2>2, <3>1
    <3> QED BY <1>10, <1>12, <3>1, <3>2, <3>3
  <2>4. Waiting(M, heard, rest, ircd'[s], want[s], features) BY <2>1, <2>3 DEF Waiting
  <2>5. Held(s, M, stat[s], joindelay[s], heard, rest, ircd'[s], ban, want[s], features)
    BY <1>8, <1>13, <1>15, <2>1, <2>4 DEF Held
  <2> QED BY <1>2, <1>9, <1>10, <2>5, WantFrame
<1> QED BY <1>14, <1>15

(* What the client reads. *)

LEMMA WillKept ==
  ASSUME NEW t \in Tab, NEW names \in SUBSET {Me, Other}, NEW c \in Chan
  PROVE  /\ clear_channel(t).will = t.will
         /\ [clear_channel(t) EXCEPT !.wait = c].will = t.will
         /\ inbound_nameslist(t, names).will = t.will
         /\ inbound_nameslist_end(t).will = t.will
         /\ inbound_join(t).will = t.will
         /\ inbound_part(t).will = t.will
         /\ joined(t, c).will = t.will
<1>1. DOMAIN t = {"serv", "channel", "wait", "will", "users", "end_of_names"} BY DEF Tab
<1>3. userlist_clear(t).will = t.will /\ DOMAIN userlist_clear(t) = DOMAIN t
  BY <1>1 DEF userlist_clear
<1>4. clear_channel(t).will = t.will /\ DOMAIN clear_channel(t) = DOMAIN t
  BY <1>1, <1>3 DEF clear_channel
<1>5. [clear_channel(t) EXCEPT !.wait = c].will = t.will BY <1>1, <1>4
<1>6. inbound_nameslist(t, names).will = t.will
  <2> DEFINE u == IF t.end_of_names THEN userlist_clear(t) ELSE t
  <2>1. u.will = t.will /\ DOMAIN u = DOMAIN t BY <1>3
  <2>2. inbound_nameslist(t, names) = userlist_add([u EXCEPT !.end_of_names = FALSE], names)
    BY DEF inbound_nameslist
  <2> HIDE DEF u
  <2> QED BY <1>1, <2>1, <2>2 DEF userlist_add
<1>7. inbound_nameslist_end(t).will = t.will BY <1>1 DEF inbound_nameslist_end
<1>8. inbound_join(t).will = t.will BY <1>1 DEF inbound_join, userlist_add
<1>9. inbound_part(t).will = t.will BY <1>1 DEF inbound_part, userlist_remove
<1>10. joined(t, c).will = t.will BY <1>1, <1>3 DEF joined
<1> QED BY <1>4, <1>5, <1>6, <1>7, <1>8, <1>9, <1>10

(* us are the tabs, where those of server s are on no channel, and marked  *)
(* with none, that they were not, but for the channels C.                  *)
Narrow(us, s, C) ==
    /\ \A r \in Serv : r # s => Mine(us, r) = Mine(tabs, r)
    /\ Within(Mine(us, s), Mine(tabs, s), C)

LEMMA PutNarrow ==
  ASSUME tabs \in Seq(Tab), NEW k \in 1..Len(tabs), NEW j \in Tab, NEW us, InPlace(tabs, us, k, j),
         j.will = tabs[k].will, j.channel = None \/ j.channel = tabs[k].channel
  PROVE  Narrow(us, j.serv, {})
<1> DEFINE none == {}  M == Mine(tabs, j.serv)  N == Mine(us, j.serv)
<1>0. none = {} OBVIOUS
<1> HIDE DEF none
<1>1. j.will = None \/ j.will = tabs[k].will OBVIOUS
<1>2. j.channel = None \/ j.channel = tabs[k].channel \/ j.channel \in none OBVIOUS
<1>3. Within(N, M, none) BY <1>1, <1>2, PutMine
<1>4. \A r : r # j.serv => Mine(us, r) = Mine(tabs, r) BY <1>1, <1>2, <1>3, PutMine
<1> QED BY <1>0, <1>3, <1>4 DEF Narrow

LEMMA InTabMine ==
  ASSUME tabs \in Seq(Tab), NEW s \in Serv, NEW c \in Chan, NEW t,
         On(s, c) => /\ t \in Tab /\ t.serv = s /\ (t.channel = c \/ t.channel = None)
                     /\ t.will = TabOf(s, c).will,
         NEW us, us = InTab(s, c, t)
  PROVE  Narrow(us, s, {}) /\ (~On(s, c) => us = tabs)
<1>1. CASE ~On(s, c)
  <2>1. us = tabs BY <1>1 DEF InTab
  <2> QED BY <1>1, <2>1, WithinItself DEF Narrow
<1>2. CASE On(s, c)
  <2> DEFINE k == find_channel(s, c)
  <2>1. k \in At(tabs, s, c) /\ k \in 1..Len(tabs) BY <1>2, FindFacts
  <2>2. tabs[k].serv = s /\ tabs[k].channel = c BY <2>1 DEF At
  <2>3. us = [tabs EXCEPT ![k] = t] BY <1>2 DEF InTab
  <2>4. t.will = tabs[k].will BY <1>2 DEF TabOf
  <2>5. k \in 1..Len(tabs) /\ t \in Tab /\ t.serv = s /\ InPlace(tabs, us, k, t)
        /\ t.will = tabs[k].will /\ (t.channel = None \/ t.channel = tabs[k].channel)
    BY <1>2, <2>1, <2>2, <2>3, <2>4 DEF InPlace
  <2> HIDE DEF k
  <2> QED BY <1>2, <2>5, PutNarrow
<1> QED BY <1>1, <1>2

LEMMA UjoinMine ==
  ASSUME tabs \in Seq(Tab), NEW s \in Serv, NEW c \in Chan, NEW us, us = inbound_ujoin(s, c)
  PROVE  Narrow(us, s, {c})
<1>1. CASE \E k \in 1..Len(tabs) : tabs[k].serv = s /\ us = [tabs EXCEPT ![k] = joined(tabs[k], c)]
  <2>1. PICK k \in 1..Len(tabs) : tabs[k].serv = s /\ us = [tabs EXCEPT ![k] = joined(tabs[k], c)]
    BY <1>1
  <2> DEFINE j == joined(tabs[k], c)
  <2>2. tabs[k] \in Tab BY LenProperties
  <2>3. j \in Tab /\ j.serv = s /\ j.channel = c /\ j.will = tabs[k].will
    <3> DEFINE t == tabs[k]
    <3> HIDE DEF t
    <3>1. t \in Tab /\ t.serv = s BY <2>1, <2>2 DEF t
    <3>2. joined(t, c) \in Tab /\ joined(t, c).serv = t.serv /\ joined(t, c).channel = c
      BY <3>1, JoinedFacts
    <3>3. joined(t, c).will = t.will BY <3>1, WillKept
    <3> QED BY <3>1, <3>2, <3>3 DEF t
  <2>4. us = [tabs EXCEPT ![k] = j] BY <2>1
  <2> HIDE DEF j
  <2>5. InPlace(tabs, us, k, j) BY <2>1, <2>3, <2>4 DEF InPlace
  <2>6. /\ \A r : r # j.serv => Mine(us, r) = Mine(tabs, r)
        /\ Within(Mine(us, j.serv), Mine(tabs, j.serv), {c})
    BY <2>3, <2>5, PutMine
  <2> QED BY <2>3, <2>6 DEF Narrow
<1>2. CASE us = <<joined(NewTab(s, c), c)>> \o tabs
  <2> DEFINE j == joined(NewTab(s, c), c)
  <2>1. j \in Tab /\ j.serv = s /\ j.channel = c /\ j.will = None
    <3> DEFINE t == NewTab(s, c)
    <3>1. t \in Tab /\ t.serv = s BY NewTabFacts
    <3>2. t.will = None BY DEF NewTab
    <3> HIDE DEF t
    <3>3. joined(t, c) \in Tab /\ joined(t, c).serv = t.serv /\ joined(t, c).channel = c
      BY <3>1, JoinedFacts
    <3>4. joined(t, c).will = t.will BY <3>1, WillKept
    <3> QED BY <3>1, <3>2, <3>3, <3>4 DEF t
  <2>2. InFront(tabs, us, j) BY <1>2 DEF InFront
  <2> HIDE DEF j
  <2>3. /\ \A r : r # j.serv => Mine(us, r) = Mine(tabs, r)
        /\ Mine(us, j.serv) = Mine(tabs, j.serv) \cup {j}
    BY <2>1, <2>2, FrontMine
  <2> QED BY <2>1, <2>3 DEF Narrow, Within
<1> QED BY <1>1, <1>2, UjoinForms

LEMMA OnTab ==
  ASSUME tabs \in Seq(Tab), NEW s, NEW c, On(s, c)
  PROVE  TabOf(s, c) \in Tab /\ TabOf(s, c).serv = s /\ TabOf(s, c).channel = c
<1>1. find_channel(s, c) \in At(tabs, s, c) /\ find_channel(s, c) \in 1..Len(tabs) BY FindFacts
<1>2. \A i \in 1..Len(tabs) : tabs[i] \in Tab BY LenProperties
<1> QED BY <1>1, <1>2 DEF TabOf, At

LEMMA ShownMine ==
  ASSUME tabs \in Seq(Tab), NEW s \in Serv, NEW l \in Answer, l.cmd # "UKICK"
  PROVE  /\ l.cmd = "UJOIN" => Narrow(Shown(s, l), s, {l.chan})
         /\ l.cmd # "UJOIN" => Narrow(Shown(s, l), s, {})
         /\ l.cmd # "UJOIN" /\ ~On(s, l.chan) => Shown(s, l) = tabs
<1> DEFINE c == l.chan  t == TabOf(s, c)
<1>1. /\ c \in Chan /\ l.names \in SUBSET {Me, Other}
      /\ l.cmd \in {"UJOIN", "UPART", "NAMES", "END", "REFUSED", "JOIN", "PART"}
  BY AnswerTyped
<1>2. On(s, c) => t \in Tab /\ t.serv = s /\ t.channel = c BY OnTab
<1>3. /\ l.cmd = "UJOIN" => Shown(s, l) = inbound_ujoin(s, c)
      /\ l.cmd = "UPART" => Shown(s, l) = InTab(s, c, clear_channel(t))
      /\ l.cmd = "NAMES" => Shown(s, l) = InTab(s, c, inbound_nameslist(t, l.names))
      /\ l.cmd = "END" => Shown(s, l) = InTab(s, c, inbound_nameslist_end(t))
      /\ l.cmd = "JOIN" => Shown(s, l) = InTab(s, c, inbound_join(t))
      /\ l.cmd = "PART" => Shown(s, l) = InTab(s, c, inbound_part(t))
      /\ l.cmd = "REFUSED" => Shown(s, l) = tabs
  BY Zenon DEF Shown
<1> DEFINE names == l.names  us == Shown(s, l)
<1>4. names \in SUBSET {Me, Other} BY <1>1
<1>5. t = TabOf(s, c) /\ c = l.chan OBVIOUS
<1> HIDE DEF t, c, names, us
<1>6. ASSUME On(s, c)
      PROVE  /\ clear_channel(t) \in Tab /\ clear_channel(t).serv = t.serv
             /\ clear_channel(t).channel = None /\ clear_channel(t).will = t.will
             /\ inbound_nameslist(t, names) \in Tab /\ inbound_nameslist(t, names).serv = t.serv
             /\ inbound_nameslist(t, names).channel = t.channel
             /\ inbound_nameslist(t, names).will = t.will
             /\ inbound_nameslist_end(t) \in Tab /\ inbound_nameslist_end(t).serv = t.serv
             /\ inbound_nameslist_end(t).channel = t.channel
             /\ inbound_nameslist_end(t).will = t.will
             /\ inbound_join(t) \in Tab /\ inbound_join(t).serv = t.serv
             /\ inbound_join(t).channel = t.channel /\ inbound_join(t).will = t.will
             /\ inbound_part(t) \in Tab /\ inbound_part(t).serv = t.serv
             /\ inbound_part(t).channel = t.channel /\ inbound_part(t).will = t.will
  <2>1. t \in Tab /\ t.serv = s /\ t.channel = c BY <1>2, <1>6
  <2>2. /\ clear_channel(t) \in Tab /\ clear_channel(t).serv = t.serv
        /\ clear_channel(t).channel = None
    BY <2>1, ClearFacts
  <2>3. /\ inbound_nameslist(t, names) \in Tab /\ inbound_nameslist(t, names).serv = t.serv
        /\ inbound_nameslist(t, names).channel = t.channel
        /\ inbound_nameslist_end(t) \in Tab /\ inbound_nameslist_end(t).serv = t.serv
        /\ inbound_nameslist_end(t).channel = t.channel
    BY <1>4, <2>1, NameslistFacts, ZenonT(60)
  <2>4. /\ inbound_part(t) \in Tab /\ inbound_part(t).serv = t.serv
        /\ inbound_part(t).channel = t.channel
    BY <1>4, <2>1, UserlistFacts
  <2>5. /\ inbound_join(t) \in Tab /\ inbound_join(t).serv = t.serv
        /\ inbound_join(t).channel = t.channel
    <3> DEFINE other == {Other}
    <3>1. other \in SUBSET {Me, Other} /\ inbound_join(t) = userlist_add(t, other) BY DEF inbound_join
    <3> HIDE DEF other
    <3>2. /\ userlist_add(t, other) \in Tab /\ userlist_add(t, other).serv = t.serv
          /\ userlist_add(t, other).channel = t.channel
      BY <2>1, <3>1, UserlistFacts, ZenonT(60)
    <3> QED BY <3>1, <3>2
  <2>6. /\ clear_channel(t).will = t.will /\ inbound_nameslist(t, names).will = t.will
        /\ inbound_nameslist_end(t).will = t.will /\ inbound_join(t).will = t.will
        /\ inbound_part(t).will = t.will
    BY <1>1, <1>4, <2>1, WillKept
  <2> QED BY <2>2, <2>3, <2>4, <2>5, <2>6
<1>7. ASSUME NEW r, us = InTab(s, c, r),
             On(s, c) => /\ r \in Tab /\ r.serv = t.serv /\ (r.channel = t.channel \/ r.channel = None)
                         /\ r.will = t.will
      PROVE  Narrow(us, s, {}) /\ (~On(s, c) => us = tabs)
  <2>1. On(s, c) => /\ r \in Tab /\ r.serv = s /\ (r.channel = c \/ r.channel = None)
                    /\ r.will = TabOf(s, c).will
    BY <1>2, <1>5, <1>7
  <2> QED BY <1>1, <1>7, <2>1, InTabMine
<1>8. CASE l.cmd = "UJOIN"
  <2>1. us = inbound_ujoin(s, c) BY <1>3, <1>8 DEF us
  <2>2. Narrow(us, s, {c}) BY <1>1, <2>1, UjoinMine
  <2> QED BY <1>5, <1>8, <2>2 DEF us
<1>9. ASSUME l.cmd # "UJOIN" PROVE Narrow(us, s, {}) /\ (~On(s, c) => us = tabs)
  <2>1. CASE l.cmd = "REFUSED"
    <3>1. us = tabs BY <1>3, <2>1 DEF us
    <3> QED BY <3>1, WithinItself DEF Narrow
  <2>2. CASE l.cmd = "UPART"
    <3>1. us = InTab(s, c, clear_channel(t)) BY <1>3, <2>2 DEF us
    <3> QED BY <1>6, <1>7, <3>1
  <2>3. CASE l.cmd = "NAMES"
    <3>1. us = InTab(s, c, inbound_nameslist(t, names)) BY <1>3, <2>3 DEF us, names
    <3> QED BY <1>6, <1>7, <3>1
  <2>4. CASE l.cmd = "END"
    <3>1. us = InTab(s, c, inbound_nameslist_end(t)) BY <1>3, <2>4 DEF us
    <3> QED BY <1>6, <1>7, <3>1
  <2>5. CASE l.cmd = "JOIN"
    <3>1. us = InTab(s, c, inbound_join(t)) BY <1>3, <2>5 DEF us
    <3> QED BY <1>6, <1>7, <3>1
  <2>6. CASE l.cmd = "PART"
    <3>1. us = InTab(s, c, inbound_part(t)) BY <1>3, <2>6 DEF us
    <3> QED BY <1>6, <1>7, <3>1
  <2> QED BY <1>1, <1>9, <2>1, <2>2, <2>3, <2>4, <2>5, <2>6
<1> QED BY <1>5, <1>8, <1>9 DEF us

LEMMA KickMine ==
  ASSUME tabs \in Seq(Tab), NEW s \in Serv, NEW c \in Chan,
         NEW us, \/ us = InTab(s, c, clear_channel(TabOf(s, c)))
                 \/ us = InTab(s, c, [clear_channel(TabOf(s, c)) EXCEPT !.wait = c])
  PROVE  Narrow(us, s, {}) /\ (~On(s, c) => us = tabs)
<1> DEFINE t == TabOf(s, c)  x == clear_channel(t)  y == [clear_channel(t) EXCEPT !.wait = c]
<1>1. ASSUME On(s, c)
      PROVE  /\ x \in Tab /\ x.serv = s /\ x.channel = None /\ x.will = t.will
             /\ y \in Tab /\ y.serv = s /\ y.channel = None /\ y.will = t.will
  <2>1. t \in Tab /\ t.serv = s BY <1>1, OnTab
  <2> HIDE DEF t
  <2>2. {} \in SUBSET {Me, Other} /\ c \in Chan \cup {None} OBVIOUS
  <2>3. /\ x \in Tab /\ x.serv = t.serv /\ x.channel = None
        /\ y \in Tab /\ y.serv = t.serv /\ y.channel = None
    BY <2>1, <2>2, ClearFacts
  <2>4. x.will = t.will /\ y.will = t.will BY <2>1, <2>2, WillKept
  <2> QED BY <2>1, <2>3, <2>4
<1>2. us = InTab(s, c, x) \/ us = InTab(s, c, y) OBVIOUS
<1>3. t = TabOf(s, c) OBVIOUS
<1> HIDE DEF x, y, t
<1>4. CASE us = InTab(s, c, x) BY <1>1, <1>3, <1>4, InTabMine
<1>5. CASE us = InTab(s, c, y) BY <1>1, <1>3, <1>5, InTabMine
<1> QED BY <1>2, <1>4, <1>5

LEMMA ReadSays ==
  ASSUME NEW q \in Seq(Answer), NEW rest, NEW l, Takes(q, rest, l), NEW d
  PROVE  /\ Has(q, "UJOIN", d) <=> (l.cmd = "UJOIN" /\ l.chan = d) \/ Has(rest, "UJOIN", d)
         /\ Has(q, "UKICK", d) <=> (l.cmd = "UKICK" /\ l.chan = d) \/ Has(rest, "UKICK", d)
         /\ Has(q, "REFUSED", d) <=> (l.cmd = "REFUSED" /\ l.chan = d) \/ Has(rest, "REFUSED", d)
         /\ Kicked(q, d) <=>
              Kicked(rest, d) \/ (l.cmd = "UKICK" /\ l.chan = d /\ ~Has(rest, "UJOIN", d))
BY ReadFacts DEF Takes

LEMMA ReadLawful ==
  ASSUME NEW q \in Seq(Answer), NEW rest, NEW l, Takes(q, rest, l), NEW R, NEW ban, NEW f,
         Lawful(q, R, ban, f)
  PROVE  Lawful(rest, R, ban, f)
<1>1. ASSUME NEW c \in Chan
      PROVE  /\ Has(rest, "REFUSED", c) => Has(q, "REFUSED", c)
             /\ Has(rest, "UKICK", c) => Has(q, "UKICK", c)
  BY ReadSays
<1> QED BY <1>1 DEF Lawful

(* Anything but a kick. *)
LEMMA ShownSought ==
  ASSUME NEW d, NEW M, NEW N, NEW q \in Seq(Answer), NEW o, NEW m, NEW ban, NEW w, NEW x, NEW f,
         Sought(d, M, q, o, m, ban, w, f), NEW rest, NEW l, Takes(q, rest, l), l.cmd # "UKICK",
         d \in x <=> d \in w /\ ~(l.cmd = "REFUSED" /\ l.chan = d),
         Has(q, "REFUSED", d) => d \in ban,
         (\E t \in N : t.channel = d) => (\E t \in M : t.channel = d) \/ (l.cmd = "UJOIN" /\ l.chan = d)
  PROVE  Sought(d, N, rest, o, m, ban, x, f)
<1>1. /\ Has(q, "UJOIN", d) <=> (l.cmd = "UJOIN" /\ l.chan = d) \/ Has(rest, "UJOIN", d)
      /\ Has(q, "REFUSED", d) <=> (l.cmd = "REFUSED" /\ l.chan = d) \/ Has(rest, "REFUSED", d)
      /\ Kicked(q, d) => Kicked(rest, d)
  BY ReadSays
<1>2. CASE l.cmd = "REFUSED" /\ l.chan = d
  <2>1. d \in ban /\ d \notin x BY <1>1, <1>2
  <2> QED BY <2>1 DEF Sought
<1>3. CASE ~(l.cmd = "REFUSED" /\ l.chan = d)
  <2>1. d \in x <=> d \in w BY <1>3
  <2>2. Has(q, "REFUSED", d) => Has(rest, "REFUSED", d) BY <1>1, <1>3
  <2> QED BY <1>1, <2>1, <2>2 DEF Sought
<1> QED BY <1>2, <1>3

(* A kick after which the client joins again. *)
LEMMA RejoinSought ==
  ASSUME NEW d, NEW M, NEW N, NEW q \in Seq(Answer), NEW o \in Seq(Line), NEW m, NEW ban, NEW w, NEW f,
         Sought(d, M, q, o, m, ban, w, f), NEW rest, NEW l, Takes(q, rest, l), l.cmd = "UKICK",
         NEW a \in Line, a.cmd = "JOIN", a.chan = l.chan, NEW p, Said(o, p, a),
         (\E t \in N : t.channel = d) => \E t \in M : t.channel = d,
         d = l.chan => "kick" \in f /\ "autorejoin" \in f /\ \E t \in M : t.channel = d
  PROVE  Sought(d, N, rest, p, m, ban, w, f)
<1> DEFINE c == l.chan
<1>0. a = ToLine("JOIN", c) BY LineForm
<1> HIDE DEF c
<1>1. /\ Has(q, "UJOIN", d) <=> Has(rest, "UJOIN", d)
      /\ Has(q, "REFUSED", d) <=> Has(rest, "REFUSED", d)
      /\ d # c => (Kicked(q, d) => Kicked(rest, d))
  BY ReadSays DEF c
<1>2. CASE d = c
  <2>1. Joining(p, c) /\ Hope(p, m, c) BY <1>0, SentHope
  <2>2. Joining(p, d) /\ Hope(p, m, d) BY <1>2, <2>1
  <2>3. d \in w \/ d \in ban
    <3>1. {"kick", "autorejoin"} \subseteq f /\ \E t \in M : t.channel = d BY <1>2 DEF c
    <3> QED BY <3>1 DEF Sought
  <2> QED BY <2>2, <2>3 DEF Sought
<1>3. CASE d # c
  <2>1. /\ Joining(p, d) <=> Joining(o, d)
        /\ Hope(p, m, d) <=> Hope(o, m, d)
    BY <1>0, <1>3, SentHope
  <2> QED BY <1>1, <1>3, <2>1 DEF Sought
<1> QED BY <1>2, <1>3

(* A kick after which it does not: the channel is wanted no more, unless a *)
(* JOIN is under way.                                                      *)
LEMMA LeftSought ==
  ASSUME NEW d, NEW M, NEW N, NEW q \in Seq(Answer), NEW o \in Seq(Line), NEW m, NEW ban, NEW w, NEW x,
         NEW f, Sought(d, M, q, o, m, ban, w, f), NEW rest, NEW l, Takes(q, rest, l), l.cmd = "UKICK",
         (\E t \in N : t.channel = d) => \E t \in M : t.channel = d,
         d \in x <=> d \in w /\ (l.chan # d \/ Joining(o, d) \/ Has(rest, "UJOIN", d)),
         d = l.chan /\ "autorejoin" \in f => \A t \in M : t.channel # d,
         d = l.chan /\ Me \in m /\ ~Has(rest, "UJOIN", d) => Parting(o, d)
  PROVE  Sought(d, N, rest, o, m, ban, x, f)
<1>1. /\ Has(q, "UJOIN", d) <=> Has(rest, "UJOIN", d)
      /\ Has(q, "REFUSED", d) <=> Has(rest, "REFUSED", d)
      /\ Kicked(q, d) <=> Kicked(rest, d) \/ (l.chan = d /\ ~Has(rest, "UJOIN", d))
  BY ReadSays
<1>2. CASE l.chan # d \/ Joining(o, d) \/ Has(rest, "UJOIN", d)
  <2>1. d \in x <=> d \in w BY <1>2
  <2>2. Kicked(q, d) /\ ~Joining(o, d) => Kicked(rest, d) BY <1>1, <1>2
  <2> QED BY <1>1, <2>1, <2>2 DEF Sought
<1>3. CASE ~(l.chan # d \/ Joining(o, d) \/ Has(rest, "UJOIN", d))
  <2>1. d \notin x BY <1>3
  <2>2. ~JoinsLast(o, d) BY <1>3, LastFacts
  <2>3. ~Hope(o, m, d) BY <1>3, <2>2 DEF Hope
  <2>4. "autorejoin" \in f => ~\E t \in N : t.channel = d BY <1>3
  <2> QED BY <1>3, <2>1, <2>3, <2>4 DEF Sought
<1> QED BY <1>2, <1>3

LEMMA ReadWants == ASSUME IInv, WInv, Orderly, NEW s \in Serv, Read(s) PROVE WInv'
<1> DEFINE q == inq[s]  l == Head(q)  rest == Tail(q)  c == l.chan  o == out[s]
           M == Mine(tabs, s)  N == Mine(tabs', s)  ban == banned[s]  a == ToLine("JOIN", c)
<1>1. tabs \in Seq(Tab) /\ Links /\ Others BY Types DEF IInv
<1>2. /\ inq \in [Serv -> Seq(Answer)] /\ q \in Seq(Answer) /\ o \in Seq(Line)
      /\ out \in [Serv -> Seq(Line)]
      /\ ircd \in [Serv -> [Chan -> SUBSET {Me, Other}]]
  BY <1>1 DEF Links
<1>3. /\ q # <<>> /\ inq' = [inq EXCEPT ![s] = rest]
      /\ stat' = stat /\ joindelay' = joindelay
      /\ ircd' = ircd /\ banned' = banned /\ features' = features
      /\ \/ /\ l.cmd = "UKICK" /\ On(s, c) /\ May("autorejoin")
            /\ tabs' = InTab(s, c, [clear_channel(TabOf(s, c)) EXCEPT !.wait = c])
            /\ Send(s, <<a>>) /\ want' = want
         \/ /\ l.cmd = "UKICK" /\ ~(On(s, c) /\ May("autorejoin"))
            /\ tabs' = InTab(s, c, clear_channel(TabOf(s, c)))
            /\ IF Asked(s, c, rest) THEN want' = want ELSE Unwanted(s, {c})
            /\ out' = out
         \/ /\ l.cmd # "UKICK" /\ tabs' = Shown(s, l) /\ out' = out
            /\ IF l.cmd = "REFUSED" THEN Unwanted(s, {c}) ELSE want' = want
  BY DEF Read, world, inbound_ukick
<1>4. stat[s] = "in" BY <1>1, <1>3 DEF Links
<1>5. l \in Answer /\ rest \in Seq(Answer) /\ Takes(q, rest, l)
  <2>1. l = Head(q) /\ rest = Tail(q) OBVIOUS
  <2> HIDE DEF q, l, rest
  <2> QED BY <1>2, <1>3, <2>1, HeadTailProperties DEF Takes
<1>6. c \in Chan BY <1>5, AnswerTyped
<1>7. a \in Line /\ a = ToLine("JOIN", c) BY <1>6, Lines
<1>8. inq'[s] = rest /\ \A r \in Serv : r # s => inq'[r] = inq[r] BY <1>2, <1>3
<1>9. \A d : On(s, d) <=> \E t \in M : t.channel = d BY <1>1, OnMine
<1>10. \A d : Asked(s, d, rest) <=> Joining(o, d) \/ Has(rest, "UJOIN", d)
  BY <1>2, <1>5, AskedFacts
<1>11. Lawful(q, ircd[s], ban, features)
  BY <1>4, ReadyNow, WaitingNow
<1>12. l.cmd = "UKICK" => "kick" \in features
  <2>1. l.cmd = "UKICK" => Has(q, "UKICK", c) BY <1>2, <1>5, ReadSays
  <2> QED BY <1>6, <1>11, <2>1 DEF Lawful
<1>13. ASSUME l.cmd = "UKICK", ~Has(rest, "UJOIN", c)
       PROVE  Me \in ircd[s][c] => Parting(o, c)
  BY <1>3, <1>4, <1>6, <1>13, KickedIsOff
<1>14. q = inq[s] /\ c = l.chan /\ o = out[s] /\ M = Mine(tabs, s) /\ N = Mine(tabs', s) /\ ban = banned[s]
  OBVIOUS
<1> HIDE DEF q, l, rest, c, o, M, N, ban, a
<1>15. Lawful(rest, ircd[s], ban, features) BY <1>2, <1>5, <1>11, ReadLawful
<1>16. CASE ~joindelay[s]
  <2>1. ASSUME NEW d \in Chan PROVE Sought(d, M, q, o, ircd[s][d], ban, want[s], features)
    BY <1>4, <1>14, <1>16, ReadyNow
  <2>2. ASSUME l.cmd = "UKICK", On(s, c), May("autorejoin"),
               tabs' = InTab(s, c, [clear_channel(TabOf(s, c)) EXCEPT !.wait = c]),
               Send(s, <<a>>), want' = want
        PROVE  WInv'
    <3>1. Narrow(tabs', s, {}) BY <1>1, <1>6, <2>2, KickMine
    <3>2. out'[s] = Append(o, a) /\ \A r \in Serv : r # s => out'[r] = out[r]
      BY <1>1, <1>7, <1>14, <2>2, SentOne
    <3> DEFINE p == out'[s]
    <3>3. Said(o, p, a) BY <3>2 DEF Said
    <3> HIDE DEF p
    <3>4. ASSUME NEW d \in Chan PROVE Sought(d, N, rest, p, ircd[s][d], ban, want[s], features)
      <4>1. (\E t \in N : t.channel = d) => \E t \in M : t.channel = d
        BY <1>14, <3>1, WithinFacts DEF Narrow
      <4>2. d = l.chan => "kick" \in features /\ "autorejoin" \in features /\ \E t \in M : t.channel = d
        BY <1>9, <1>12, <1>14, <2>2 DEF May
      <4>3. Sought(d, M, q, o, ircd[s][d], ban, want[s], features) BY <2>1
      <4>4. a \in Line /\ a.cmd = "JOIN" /\ a.chan = l.chan BY <1>7, <1>14, LineForm
      <4> QED BY <1>2, <1>5, <2>2, <3>3, <4>1, <4>2, <4>3, <4>4, RejoinSought
    <3>5. Within(N, M, {}) /\ \A r \in Serv : r # s => Mine(tabs', r) = Mine(tabs, r)
      BY <1>14, <3>1 DEF Narrow
    <3> QED BY <1>3, <1>4, <1>8, <1>14, <1>15, <1>16, <2>2, <3>2, <3>4, <3>5, ReadyFrame DEF p
  <2>3. ASSUME l.cmd = "UKICK", ~(On(s, c) /\ May("autorejoin")),
               tabs' = InTab(s, c, clear_channel(TabOf(s, c))),
               IF Asked(s, c, rest) THEN want' = want ELSE Unwanted(s, {c}), out' = out
        PROVE  WInv'
    <3>1. Narrow(tabs', s, {}) BY <1>1, <1>6, <2>3, KickMine
    <3>2. /\ want'[s] = IF Asked(s, c, rest) THEN want[s] ELSE want[s] \ {c}
          /\ \A r \in Serv : r # s => want'[r] = want[r]
      BY <1>1, <2>3, WantIs
    <3>3. ASSUME NEW d \in Chan PROVE Sought(d, N, rest, o, ircd[s][d], ban, want'[s], features)
      <4>1. (\E t \in N : t.channel = d) => \E t \in M : t.channel = d
        BY <1>14, <3>1, WithinFacts DEF Narrow
      <4>2. d \in want'[s] <=> d \in want[s] /\ (l.chan # d \/ Joining(o, d) \/ Has(rest, "UJOIN", d))
        BY <1>10, <1>14, <3>2
      <4>3. d = l.chan /\ "autorejoin" \in features => \A t \in M : t.channel # d
        BY <1>9, <1>14, <2>3 DEF May
      <4>4. d = l.chan /\ Me \in ircd[s][d] /\ ~Has(rest, "UJOIN", d) => Parting(o, d)
        BY <1>13, <1>14, <2>3
      <4>5. Sought(d, M, q, o, ircd[s][d], ban, want[s], features) BY <2>1
      <4> QED BY <1>2, <1>5, <2>3, <4>1, <4>2, <4>3, <4>4, <4>5, LeftSought
    <3>4. Within(N, M, {}) /\ \A r \in Serv : r # s => Mine(tabs', r) = Mine(tabs, r)
      BY <1>14, <3>1 DEF Narrow
    <3> QED BY <1>3, <1>4, <1>8, <1>14, <1>15, <1>16, <2>3, <3>2, <3>3, <3>4, ReadyFrame
  <2>4. ASSUME l.cmd # "UKICK", tabs' = Shown(s, l), out' = out,
               IF l.cmd = "REFUSED" THEN Unwanted(s, {c}) ELSE want' = want
        PROVE  WInv'
    <3>1. PICK C : /\ Narrow(tabs', s, C)
                   /\ C = {} \/ (C = {c} /\ l.cmd = "UJOIN")
      BY <1>1, <1>5, <1>14, <2>4, ShownMine
    <3>2. /\ want'[s] = IF l.cmd = "REFUSED" THEN want[s] \ {c} ELSE want[s]
          /\ \A r \in Serv : r # s => want'[r] = want[r]
      BY <1>1, <2>4, WantIs
    <3>3. ASSUME NEW d \in Chan PROVE Sought(d, N, rest, o, ircd[s][d], ban, want'[s], features)
      <4>1. d \notin C => ((\E t \in N : t.channel = d) => \E t \in M : t.channel = d)
        BY <1>14, <3>1, WithinFacts DEF Narrow
      <4>2. (\E t \in N : t.channel = d)
            => (\E t \in M : t.channel = d) \/ (l.cmd = "UJOIN" /\ l.chan = d)
        BY <1>14, <3>1, <4>1
      <4>3. d \in want'[s] <=> d \in want[s] /\ ~(l.cmd = "REFUSED" /\ l.chan = d)
        BY <1>14, <3>2
      <4>4. Has(q, "REFUSED", d) => d \in ban BY <1>11 DEF Lawful
      <4>5. Sought(d, M, q, o, ircd[s][d], ban, want[s], features) BY <2>1
      <4> QED BY <1>2, <1>5, <2>4, <4>2, <4>3, <4>4, <4>5, ShownSought, ZenonT(60)
    <3>4. Within(N, M, C) /\ \A r \in Serv : r # s => Mine(tabs', r) = Mine(tabs, r)
      BY <1>14, <3>1 DEF Narrow
    <3> QED BY <1>3, <1>4, <1>8, <1>14, <1>15, <1>16, <2>4, <3>2, <3>3, <3>4, ReadyFrame
  <2> QED BY <1>3, <2>2, <2>3, <2>4
<1>17. CASE joindelay[s]
  <2>1. Waiting(M, q, o, ircd[s], want[s], features) BY <1>14, <1>17, WaitingNow
  <2>2. l.cmd # "UJOIN" /\ l.cmd # "UKICK" /\ l.cmd # "REFUSED"
    <3>1. ~Has(q, "UJOIN", c) /\ ~Has(q, "UKICK", c) /\ ~Has(q, "REFUSED", c)
      BY <1>6, <2>1 DEF Waiting
    <3> QED BY <1>2, <1>5, <1>14, <3>1, ReadSays
  <2>3. ~On(s, c)
    <3>1. \A t \in M : t.channel = None BY <2>1 DEF Waiting
    <3>2. c # None BY <1>6, ChanIsNotNone
    <3> QED BY <1>9, <3>1, <3>2
  <2>4. tabs' = tabs /\ out' = out /\ want' = want
    BY <1>1, <1>3, <1>5, <1>14, <2>2, <2>3, ShownMine
  <2>5. ASSUME NEW d \in Chan
        PROVE  ~Has(rest, "UJOIN", d) /\ ~Has(rest, "UKICK", d) /\ ~Has(rest, "REFUSED", d)
    <3>1. ~Has(q, "UJOIN", d) /\ ~Has(q, "UKICK", d) /\ ~Has(q, "REFUSED", d)
      BY <2>1 DEF Waiting
    <3> QED BY <1>2, <1>5, <3>1, ReadSays
  <2>6. Waiting(M, rest, o, ircd[s], want[s], features) BY <2>1, <2>5 DEF Waiting
  <2>7. Held(s, M, stat[s], joindelay[s], rest, o, ircd[s], ban, want[s], features)
    BY <1>4, <1>15, <1>17, <2>6 DEF Held
  <2> QED BY <1>3, <1>8, <1>14, <2>4, <2>7, WantFrame
<1> QED BY <1>16, <1>17

(* A tab is closed. *)

LEMMA FreedMine ==
  ASSUME tabs \in Seq(Tab), NEW i \in 1..Len(tabs), NEW us, us = RemoveAt(tabs, i),
         NEW t, t = tabs[i], NEW s, s = t.serv, NEW N, N = Mine(us, s)
  PROVE  /\ \A r : r # s => Mine(us, r) = Mine(tabs, r)
         /\ Mine(tabs, s) = N \cup {t}
         /\ Unique(tabs) /\ t.channel # None => \A u \in N : u.channel # t.channel
         /\ \A c : c \in StandsFor(i) <=>
              /\ c # None
              /\ IF t.channel # None THEN c = t.channel
                 ELSE /\ c \in Marks(t) \/ c = t.wait
                      /\ \A u \in N : c # u.channel /\ c \notin Marks(u)
<1> DEFINE n == Len(tabs)
           others == {tabs[j] : j \in {k \in DOMAIN tabs \ {i} : tabs[k].serv = t.serv}}
           theirs == UNION {{o.channel} \cup Marks(o) : o \in others}
<1>1. DOMAIN tabs = 1..n BY LenProperties
<1>2. \A r : Mine(us, r) = {tabs[j] : j \in {k \in 1..n : k # i /\ tabs[k].serv = r}} BY RemoveMine
<1>3. ASSUME NEW r, NEW u
      PROVE  /\ u \in Mine(us, r) <=> \E j \in 1..n : j # i /\ tabs[j].serv = r /\ u = tabs[j]
             /\ u \in Mine(tabs, r) <=> \E j \in 1..n : tabs[j].serv = r /\ u = tabs[j]
  <2>1. u \in Mine(tabs, r) <=> \E j \in 1..n : tabs[j].serv = r /\ u = tabs[j] BY DEF Mine
  <2>2. Mine(us, r) = {tabs[j] : j \in {k \in 1..n : k # i /\ tabs[k].serv = r}} BY <1>2
  <2> DEFINE B == {k \in 1..n : k # i /\ tabs[k].serv = r}
  <2>3. \A j : j \in B <=> j \in 1..n /\ j # i /\ tabs[j].serv = r OBVIOUS
  <2> HIDE DEF B, n
  <2>4. u \in Mine(us, r) <=> \E j \in B : u = tabs[j] BY <2>2 DEF B
  <2> QED BY <2>1, <2>3, <2>4
<1>4. ASSUME NEW r, r # s PROVE Mine(us, r) = Mine(tabs, r)
  <2>1. \A u : u \in Mine(us, r) <=> u \in Mine(tabs, r) BY <1>3, <1>4
  <2> QED BY <2>1
<1>5. Mine(tabs, s) = N \cup {t}
  <2>1. \A u : u \in Mine(tabs, s) <=> u \in N \/ u = t BY <1>3
  <2> QED BY <2>1
<1>6. ASSUME Unique(tabs), t.channel # None, NEW u \in N PROVE u.channel # t.channel
  <2>1. PICK j \in 1..n : j # i /\ tabs[j].serv = s /\ u = tabs[j] BY <1>3
  <2> QED BY <1>6, <2>1 DEF Unique
<1>7. others = N
  <2>1. \A u : u \in others <=> \E j \in 1..n : j # i /\ tabs[j].serv = s /\ u = tabs[j] BY <1>1
  <2>2. \A u : u \in others <=> u \in N BY <1>3, <2>1
  <2> HIDE DEF others
  <2> QED BY <2>2
<1>8. StandsFor(i) = (IF t.channel # None THEN {t.channel} ELSE (Marks(t) \cup {t.wait}) \ theirs) \ {None}
  BY DEF StandsFor
<1>9. \A c : c \in theirs <=> \E u \in N : c = u.channel \/ c \in Marks(u)
  <2> HIDE DEF others
  <2>1. \A c : c \in theirs <=> \E u \in others : c \in {u.channel} \cup Marks(u) OBVIOUS
  <2> HIDE DEF theirs
  <2> QED BY <1>7, <2>1
<1> HIDE DEF theirs, others, n
<1>10. ASSUME NEW c
       PROVE  c \in StandsFor(i) <=>
                /\ c # None
                /\ IF t.channel # None THEN c = t.channel
                   ELSE /\ c \in Marks(t) \/ c = t.wait
                        /\ \A u \in N : c # u.channel /\ c \notin Marks(u)
  BY <1>8, <1>9
<1> QED BY <1>4, <1>5, <1>6, <1>10

(* What a closed tab stood for was on no other tab, and nothing under way  *)
(* will bring it back.                                                     *)
LEMMA FreedSought ==
  ASSUME NEW d \in Chan, NEW M, NEW N, N \subseteq M, NEW q, NEW o \in Seq(Line), NEW p \in Seq(Line),
         NEW m, NEW ban, NEW w, NEW x, NEW f, Sought(d, M, q, o, m, ban, w, f), NEW S,
         d \in x <=> d \in w /\ d \notin S,
         Joining(p, d) <=> Joining(o, d),
         d \in S => /\ ~Joining(o, d) /\ ~Has(q, "UJOIN", d) /\ \A t \in N : t.channel # d
                    /\ Me \in m => Parting(p, d),
         d \notin S => (Hope(p, m, d) <=> Hope(o, m, d))
  PROVE  Sought(d, N, q, p, m, ban, x, f)
<1>1. CASE d \in S
  <2>1. ~JoinsLast(p, d) BY <1>1, LastFacts
  <2>2. ~Hope(p, m, d) BY <1>1, <2>1 DEF Hope
  <2> QED BY <1>1, <2>2 DEF Sought
<1>2. CASE d \notin S
  <2>1. (d \in x <=> d \in w) /\ (Hope(p, m, d) <=> Hope(o, m, d)) BY <1>2
  <2>2. (\E t \in N : t.channel = d) => \E t \in M : t.channel = d OBVIOUS
  <2> QED BY <2>1, <2>2 DEF Sought
<1> QED BY <1>1, <1>2

LEMMA FreeWants ==
  ASSUME IInv, WInv, Orderly, NEW i \in DOMAIN tabs, session_free(i) PROVE WInv'
<1> DEFINE t == tabs[i]  s == t.serv  d == t.channel  S == StandsFor(i)
           M == Mine(tabs, s)  N == Mine(tabs', s)  o == out[s]  q == inq[s]
<1>1. tabs \in Seq(Tab) /\ Links /\ Others /\ Unique(tabs) /\ OnlyIn(tabs, stat)
  BY Types DEF IInv
<1>2. /\ Send(s, send_quit_or_part(t)) /\ Unwanted(s, S) /\ tabs' = RemoveAt(tabs, i)
      /\ \A c \in S : ~Asked(s, c, q)
      /\ stat' = stat /\ joindelay' = joindelay /\ inq' = inq
      /\ ircd' = ircd /\ banned' = banned /\ features' = features
  BY OrderlyFacts DEF session_free, world
<1>3. /\ i \in 1..Len(tabs) /\ t \in Tab /\ s \in Serv /\ d \in Chan \cup {None}
      /\ t.will \in Chan \cup {None} /\ t.wait \in Chan \cup {None}
  BY <1>1, LenProperties, TabTyped
<1>4. o \in Seq(Line) /\ q \in Seq(Answer) BY <1>1, <1>3 DEF Links
<1>5. /\ \A r : r # s => Mine(tabs', r) = Mine(tabs, r)
      /\ M = N \cup {t}
      /\ d # None => \A u \in N : u.channel # d
      /\ \A c : c \in S <=>
           /\ c # None
           /\ IF d # None THEN c = d
              ELSE /\ c \in Marks(t) \/ c = t.wait
                   /\ \A u \in N : c # u.channel /\ c \notin Marks(u)
  <2> DEFINE us == tabs'
  <2>1. us = RemoveAt(tabs, i) BY <1>2
  <2>2. t = tabs[i] /\ s = t.serv /\ N = Mine(us, s) OBVIOUS
  <2> HIDE DEF us, t, s, N
  <2> QED BY <1>1, <1>3, <2>1, <2>2, FreedMine DEF us
<1>6. want'[s] = want[s] \ S /\ \A r \in Serv : r # s => want'[r] = want[r]
  BY <1>1, <1>2, <1>3, WantIs
<1>7. \A c \in S : ~Joining(o, c) /\ ~Has(q, "UJOIN", c) BY <1>2, <1>4, AskedFacts
<1>8. \A u \in M : u.serv = s BY <1>1, MineFacts
<1>9. \A u \in M : Marks(u) = IF stat[s] = "in" /\ ~joindelay[s] THEN {} ELSE {u.will}
  BY <1>8 DEF Marks, Ready
<1>10. ASSUME d = None PROVE out' = out
  <2>1. send_quit_or_part(t) = <<>> BY <1>10 DEF send_quit_or_part
  <2>2. out \in [Serv -> Seq(Line)] BY <1>1 DEF Links
  <2>3. out[s] \o <<>> = out[s] BY <1>4
  <2>4. out' = [out EXCEPT ![s] = out[s] \o <<>>] BY <1>2, <2>1 DEF Send
  <2> QED BY <2>2, <2>3, <2>4
<1>11. d # None => d \in Chan /\ stat[s] = "in" BY <1>1, <1>3 DEF OnlyIn
<1>12. send_quit_or_part(t) = IF stat[s] = "in" /\ d # None THEN <<ToLine("PART", d)>> ELSE <<>>
  BY DEF send_quit_or_part
<1>13. N \subseteq M /\ t \in M /\ o = out[s] /\ q = inq[s] /\ M = Mine(tabs, s) /\ N = Mine(tabs', s)
       /\ d = t.channel
  BY <1>5
<1>14. stat[s] \in {"down", "connecting", "in"} /\ ircd[s] \in [Chan -> SUBSET {Me, Other}]
  BY <1>1, <1>3 DEF Links
<1> HIDE DEF t, s, d, S, M, N, o, q
<1>15. CASE stat[s] = "in" /\ ~joindelay[s]
  <2>1. /\ Lawful(q, ircd[s], banned[s], features)
        /\ \A c \in Chan : Sought(c, M, q, o, ircd[s][c], banned[s], want[s], features)
    BY <1>3, <1>13, <1>15, ReadyNow
  <2>2. Within(N, M, {}) BY <1>13 DEF Within
  <2>3. CASE d # None
    <3> DEFINE a == ToLine("PART", d)  p == out'[s]
    <3>1. a \in Line /\ a = ToLine("PART", d) /\ Send(s, <<a>>) BY <1>2, <1>11, <1>12, <2>3, Lines
    <3> HIDE DEF a
    <3>2. out'[s] = Append(o, a) /\ \A r \in Serv : r # s => out'[r] = out[r]
      BY <1>1, <1>3, <1>13, <3>1, SentOne
    <3>3. Said(o, p, a) BY <3>2 DEF Said
    <3> HIDE DEF p
    <3>4. \A c : c \in S <=> c = d BY <1>5, <2>3
    <3>5. ASSUME NEW c \in Chan
          PROVE  Sought(c, N, q, p, ircd[s][c], banned[s], want'[s], features)
      <4> DEFINE m == ircd[s][c]
      <4>1. p \in Seq(Line) BY <1>4, <3>1, <3>3, SentHope
      <4>2. (Joining(p, c) <=> Joining(o, c)) /\ (c # d => (Hope(p, m, c) <=> Hope(o, m, c)))
        <5>1. CASE c = d
          <6>1. Joining(p, d) <=> Joining(o, d) BY <1>4, <3>1, <3>3, SentHope
          <6> QED BY <5>1, <6>1
        <5>2. CASE c # d BY <1>4, <3>1, <3>3, <5>2, SentHope
        <5> QED BY <5>1, <5>2
      <4>3. Parting(p, d)
        <5>1. Parting(p, d) <=> Parting(o, d) \/ a = ToLine("PART", d)
          BY <1>4, <3>1, <3>3, SentFacts DEF Said
        <5> QED BY <3>1, <5>1
      <4>4. c \in want'[s] <=> c \in want[s] /\ c \notin S BY <1>6
      <4>5. c \in S => /\ ~Joining(o, c) /\ ~Has(q, "UJOIN", c) /\ \A u \in N : u.channel # c
                       /\ Me \in m => Parting(p, c)
        BY <1>5, <1>7, <2>3, <3>4, <4>3
      <4>6. c \notin S => (Hope(p, m, c) <=> Hope(o, m, c)) BY <3>4, <4>2
      <4>7. Sought(c, M, q, o, m, banned[s], want[s], features) BY <2>1
      <4> HIDE DEF m
      <4>8. Sought(c, N, q, p, m, banned[s], want'[s], features)
        BY <1>4, <1>13, <4>1, <4>2, <4>4, <4>5, <4>6, <4>7, FreedSought
      <4> QED BY <4>8 DEF m
    <3>6. /\ Lawful(inq'[s], ircd'[s], banned'[s], features)
          /\ Within(Mine(tabs', s), Mine(tabs, s), {})
          /\ \A c \in Chan : Sought(c, Mine(tabs', s), inq'[s], out'[s], ircd'[s][c], banned'[s],
                                    want'[s], features)
      BY <1>2, <1>13, <2>1, <2>2, <3>5 DEF p
    <3>7. \A r \in Serv : r # s =>
            /\ Mine(tabs', r) = Mine(tabs, r) /\ inq'[r] = inq[r] /\ out'[r] = out[r]
            /\ ircd'[r] = ircd[r] /\ banned'[r] = banned[r] /\ want'[r] = want[r]
      BY <1>2, <1>5, <1>6, <3>2
    <3> QED BY <1>2, <1>3, <1>15, <3>6, <3>7, ReadyFrame
  <2>4. CASE d = None
    <3>1. out' = out BY <1>10, <2>4
    <3>2. \A c \in S : \A u \in M : u.channel # c BY <1>5, <1>13, <2>4
    <3>3. ASSUME NEW c \in Chan
          PROVE  Sought(c, N, q, o, ircd[s][c], banned[s], want'[s], features)
      <4>1. c \in want'[s] <=> c \in want[s] /\ c \notin S BY <1>6
      <4>2. c \in S => /\ ~Joining(o, c) /\ ~Has(q, "UJOIN", c) /\ \A u \in N : u.channel # c
                       /\ Me \in ircd[s][c] => Parting(o, c)
        <5>1. ASSUME c \in S PROVE Me \in ircd[s][c] => Parting(o, c)
          <6>1. \A u \in Mine(tabs, s) : u.channel # c BY <1>13, <3>2, <5>1
          <6>2. ~Has(inq[s], "UJOIN", c) BY <1>7, <1>13, <5>1
          <6> QED BY <1>3, <1>13, <1>15, <6>1, <6>2, NotOnIsOff
        <5> QED BY <1>7, <1>13, <3>2, <5>1
      <4>3. Sought(c, M, q, o, ircd[s][c], banned[s], want[s], features) BY <2>1
      <4> QED BY <1>4, <1>13, <4>1, <4>2, <4>3, FreedSought
    <3>4. /\ Lawful(inq'[s], ircd'[s], banned'[s], features)
          /\ Within(Mine(tabs', s), Mine(tabs, s), {})
          /\ \A c \in Chan : Sought(c, Mine(tabs', s), inq'[s], out'[s], ircd'[s][c], banned'[s],
                                    want'[s], features)
      BY <1>2, <1>13, <2>1, <2>2, <3>1, <3>3
    <3>5. \A r \in Serv : r # s =>
            /\ Mine(tabs', r) = Mine(tabs, r) /\ inq'[r] = inq[r] /\ out'[r] = out[r]
            /\ ircd'[r] = ircd[r] /\ banned'[r] = banned[r] /\ want'[r] = want[r]
      BY <1>2, <1>5, <1>6, <3>1
    <3> QED BY <1>2, <1>3, <1>15, <3>4, <3>5, ReadyFrame
  <2> QED BY <2>3, <2>4
<1>16. CASE stat[s] = "connecting" \/ joindelay[s]
  <2>1. /\ Lawful(q, ircd[s], banned[s], features)
        /\ Waiting(M, q, o, ircd[s], want[s], features)
    BY <1>3, <1>13, <1>16, WaitingNow
  <2>2. /\ \A u \in M : u.channel = None /\ ("favs" \in features => u.will = None /\ u.wait = None)
        /\ want[s] = IF "favs" \in features THEN Fav ELSE {u.will : u \in M} \ {None}
    BY <2>1 DEF Waiting
  <2>3. d = None /\ out' = out BY <1>10, <1>13, <2>2
  <2>4. \A u \in M : Marks(u) = {u.will} BY <1>9, <1>16
  <2>5. \A c : c \in S <=> /\ c # None
                           /\ c = t.will \/ c = t.wait
                           /\ \A u \in N : c # u.will
    BY <1>5, <1>13, <2>2, <2>3, <2>4
  <2>6. want'[s] = IF "favs" \in features THEN Fav ELSE {u.will : u \in N} \ {None}
    <3>1. CASE "favs" \in features
      <4>1. \A c : c \notin S BY <1>13, <2>2, <2>5, <3>1
      <4> QED BY <1>6, <2>2, <3>1, <4>1
    <3>2. CASE "favs" \notin features
      <4>1. \A c : c \in want[s] <=> c # None /\ \E u \in M : c = u.will BY <2>2, <3>2
      <4>2. \A c : c \in want'[s] <=> c # None /\ \E u \in N : c = u.will
        BY <1>5, <1>6, <2>5, <4>1
      <4>3. want'[s] = {u.will : u \in N} \ {None} BY <4>2
      <4> QED BY <3>2, <4>3
    <3> QED BY <3>1, <3>2
  <2>7. Waiting(N, q, o, ircd[s], want'[s], features) BY <1>13, <2>1, <2>6 DEF Waiting
  <2>8. Held(s, N, stat[s], joindelay[s], q, o, ircd[s], banned[s], want'[s], features)
    <3>1. stat[s] # "down" BY <1>1, <1>3, <1>16 DEF Others
    <3> QED BY <1>16, <2>1, <2>7, <3>1 DEF Held
  <2> QED BY <1>2, <1>3, <1>5, <1>6, <1>13, <2>3, <2>8, WantFrame
<1>17. stat[s] # "down"
  <2>1. stat[s] = "down" => M = {} BY <1>3, <1>13, HeldNow DEF Held
  <2> QED BY <1>13, <2>1
<1> QED BY <1>14, <1>15, <1>16, <1>17

(* A connection is lost. *)

LEMMA LostTabs ==
  ASSUME tabs \in Seq(Tab), ~May("norejoin"), NEW s \in Serv, NEW us, us = Cleared(Marked(tabs), s)
  PROVE  /\ us \in Seq(Tab) /\ Len(us) = Len(tabs)
         /\ \A i \in 1..Len(tabs) :
              /\ us[i].serv = tabs[i].serv
              /\ tabs[i].serv = s =>
                   /\ us[i].channel = None
                   /\ us[i].will = IF tabs[i].channel = None THEN tabs[i].will ELSE tabs[i].channel
              /\ tabs[i].serv # s =>
                   /\ us[i].channel = tabs[i].channel
                   /\ tabs[i].channel = None => us[i] = tabs[i]
<1> DEFINE n == Len(tabs)  ms == Marked(tabs)
           mark(t) == IF t.channel = None THEN t ELSE [t EXCEPT !.wait = t.channel, !.will = t.channel]
           left(t) == IF t.serv = s THEN clear_channel(t) ELSE t
<1>1. n \in Nat /\ DOMAIN tabs = 1..n /\ \A i \in 1..n : tabs[i] \in Tab BY LenProperties
<1>2. ms \in Seq(Tab) /\ Len(ms) = n
  <2> HIDE DEF ms
  <2>1. ms \in Seq(Tab) /\ Alike(tabs, ms) BY MarkedFacts DEF ms
  <2> QED BY <2>1 DEF Alike
<1>3. \A i \in 1..n : ms[i] = mark(tabs[i]) BY <1>1 DEF Marked
<1> HIDE DEF ms, n
<1>4. DOMAIN ms = 1..n BY <1>2, LenProperties
<1>5. \A i \in 1..n : ms[i] \in Tab
  <2>1. \A i \in 1..Len(ms) : ms[i] \in Tab BY <1>2, LenProperties
  <2> QED BY <1>2, <2>1
<1>6. us = [i \in 1..n |-> left(ms[i])] BY <1>4 DEF Cleared, ms
<1>7. ASSUME NEW t \in Tab
      PROVE  /\ clear_channel(t) \in Tab /\ clear_channel(t).serv = t.serv
             /\ clear_channel(t).channel = None /\ clear_channel(t).will = t.will
  <2>1. clear_channel(t) \in Tab /\ clear_channel(t).serv = t.serv /\ clear_channel(t).channel = None
    BY <1>7, ClearFacts
  <2>2. DOMAIN t = {"serv", "channel", "wait", "will", "users", "end_of_names"} BY <1>7 DEF Tab
  <2>3. userlist_clear(t).will = t.will /\ DOMAIN userlist_clear(t) = DOMAIN t
    BY <2>2 DEF userlist_clear
  <2>4. clear_channel(t).will = t.will BY <2>2, <2>3 DEF clear_channel
  <2> QED BY <2>1, <2>4
<1>8. ASSUME NEW t \in Tab
      PROVE  /\ mark(t).serv = t.serv /\ mark(t).channel = t.channel
             /\ mark(t).will = IF t.channel = None THEN t.will ELSE t.channel
  <2>1. DOMAIN t = {"serv", "channel", "wait", "will", "users", "end_of_names"} BY <1>8 DEF Tab
  <2> QED BY <2>1
<1>9. ASSUME NEW i \in 1..n
      PROVE  /\ us[i] = left(ms[i]) /\ left(ms[i]) \in Tab
             /\ us[i].serv = tabs[i].serv
             /\ tabs[i].serv = s =>
                  /\ us[i].channel = None
                  /\ us[i].will = IF tabs[i].channel = None THEN tabs[i].will ELSE tabs[i].channel
             /\ tabs[i].serv # s =>
                  /\ us[i].channel = tabs[i].channel
                  /\ tabs[i].channel = None => us[i] = tabs[i]
  <2>1. us[i] = left(ms[i]) BY <1>6
  <2>2. ms[i] \in Tab /\ tabs[i] \in Tab /\ ms[i] = mark(tabs[i]) BY <1>1, <1>3, <1>5
  <2>3. /\ ms[i].serv = tabs[i].serv /\ ms[i].channel = tabs[i].channel
        /\ ms[i].will = IF tabs[i].channel = None THEN tabs[i].will ELSE tabs[i].channel
        /\ tabs[i].channel = None => ms[i] = tabs[i]
    BY <1>8, <2>2
  <2> QED BY <1>7, <2>1, <2>2, <2>3, ZenonT(60)
<1>10. us \in [1..n -> Tab] BY <1>6, <1>9
<1>11. us \in Seq(Tab) BY <1>1, <1>10, SeqDef
<1>12. Len(us) = n
  <2>1. DOMAIN us = 1..n /\ DOMAIN us = 1..Len(us) /\ Len(us) \in Nat
    BY <1>10, <1>11, LenProperties
  <2> QED BY <1>1, <2>1
<1> QED BY <1>9, <1>11, <1>12 DEF n

(* Nothing is under way on a connection that is new. *)
LEMMA NothingSaid ==
  \A c : /\ ~Joining(<<>>, c) /\ ~Parting(<<>>, c)
         /\ \A cmd : ~Has(<<>>, cmd, c)
BY DEF Joining, Parting, Has

(* The tabs N are on no channel, and marked with those the tabs M are on,  *)
(* or were marked with.                                                    *)
MarkedAs(N, M) ==
    /\ \A t \in N : t.channel = None
    /\ \A c : (\E t \in N : t.will = c) <=>
                \E t \in M : c = IF t.channel = None THEN t.will ELSE t.channel

(* The tabs of the server whose connection is lost are marked with what is *)
(* wanted.                                                                 *)
LEMMA LostMarks ==
  ASSUME WInv, Orderly, tabs \in Seq(Tab), NEW s \in Serv, stat[s] = "in" \/ stat[s] = "connecting",
         Settled(s), Loses(s, features), NEW N, MarkedAs(N, Mine(tabs, s))
  PROVE  want[s] = {t.will : t \in N} \ {None}
<1> DEFINE M == Mine(tabs, s)  all(m) == UNION {{t.channel} \cup Marks(t) : t \in m}
<1>1. want[s] = all(M) \ {None}
  <2> DEFINE mine == {tabs[i] : i \in {j \in DOMAIN tabs : tabs[j].serv = s}}
  <2>1. DOMAIN tabs = 1..Len(tabs) BY LenProperties
  <2>2. mine = M BY <2>1 DEF Mine
  <2>3. want[s] = all(mine) \ {None} BY DEF Settled
  <2> HIDE DEF mine, M, all
  <2> QED BY <2>2, <2>3
<1>2. \A t \in M : t.serv = s BY MineFacts
<1>3. ~May("favs") BY OrderlyFacts
<1>4. \A c : (\E t \in N : t.will = c) <=>
               \E t \in M : c = IF t.channel = None THEN t.will ELSE t.channel
  BY DEF MarkedAs
<1> HIDE DEF M
<1>10. \A c : c \in all(M) <=> \E t \in M : c \in {t.channel} \cup Marks(t) OBVIOUS
<1> HIDE DEF all
<1>5. \A c : c \in want[s] <=> c # None /\ \E t \in M : c = t.channel \/ c \in Marks(t)
  BY <1>1, <1>10
<1>6. \A c : c \in {t.will : t \in N} \ {None} <=> c # None /\ \E t \in N : t.will = c OBVIOUS
<1>7. CASE stat[s] = "in" /\ ~joindelay[s]
  <2>1. \A t \in M : t.will = None BY <1>7, HeldNow DEF Held, M
  <2>2. \A t \in M : Marks(t) = {} BY <1>2, <1>7 DEF Marks, Ready
  <2>3. \A c : c \in want[s] <=> c # None /\ \E t \in M : c = t.channel BY <1>5, <2>2
  <2>4. \A c : c # None => ((\E t \in N : t.will = c) <=> \E t \in M : c = t.channel)
    BY <1>4, <2>1
  <2>5. \A c : c \in want[s] <=> c \in {t.will : t \in N} \ {None} BY <1>6, <2>3, <2>4
  <2> QED BY <1>5, <1>6, <2>5
<1>8. CASE stat[s] = "connecting" \/ joindelay[s]
  <2>1. Waiting(M, inq[s], out[s], ircd[s], want[s], features) BY <1>8, WaitingNow DEF M
  <2>2. \A t \in M : t.channel = None BY <2>1 DEF Waiting
  <2>3. want[s] = {t.will : t \in M} \ {None} BY <1>3, <2>1 DEF Waiting, May
  <2>4. \A c : c \in want[s] <=> c # None /\ \E t \in M : t.will = c BY <2>3
  <2>5. \A c : (\E t \in N : t.will = c) <=> \E t \in M : t.will = c BY <1>4, <2>2
  <2>6. \A c : c \in want[s] <=> c \in {t.will : t \in N} \ {None} BY <1>6, <2>4, <2>5
  <2> QED BY <1>3, <2>1, <2>3, <2>6
<1> QED BY <1>7, <1>8

(* The tabs of the other server may be marked, but stay where they are. *)
LEMMA OtherHeld ==
  ASSUME NEW r \in Serv, NEW M, NEW N, NEW st, NEW dl, NEW q, NEW o, NEW R, NEW ban, NEW w, NEW f,
         Held(r, M, st, dl, q, o, R, ban, w, f), st \in {"down", "connecting", "in"}, dl => st = "in",
         ~Loses(r, f),
         (\A t \in M : t.channel = None) => N = M,
         \A c \in Chan : (\E t \in N : t.channel = c) <=> \E t \in M : t.channel = c
  PROVE  Held(r, N, st, dl, q, o, R, ban, w, f)
<1>1. CASE st = "down"
  <2>1. M = {} BY <1>1 DEF Held
  <2>2. N = M BY <2>1
  <2> QED BY <2>2
<1>2. CASE st = "connecting" \/ dl
  <2>1. Waiting(M, q, o, R, w, f) BY <1>2 DEF Held
  <2>2. N = M BY <2>1 DEF Waiting
  <2> QED BY <2>2
<1>3. CASE st = "in" /\ ~dl
  <2>1. ASSUME NEW c \in Chan PROVE Sought(c, N, q, o, R[c], ban, w, f)
    <3>1. Sought(c, M, q, o, R[c], ban, w, f) BY <1>3 DEF Held
    <3> QED BY <3>1 DEF Sought
  <2> QED BY <1>3, <2>1 DEF Held
<1> QED BY <1>1, <1>2, <1>3

LEMMA LostWants == ASSUME IInv, WInv, Orderly, NEW s \in Serv, Lost(s) PROVE WInv'
<1> DEFINE none == <<>>  left == [c \in Chan |-> ircd[s][c] \ {Me}]  no == FALSE
           M == Mine(tabs, s)  N == Mine(tabs', s)  n == Len(tabs)
<1>1. tabs \in Seq(Tab) /\ Links /\ Others BY Types DEF IInv
<1>2. /\ Loses(s, features) /\ Settled(s) /\ stat[s] # "down"
      /\ stat' = [stat EXCEPT ![s] = "connecting"]
      /\ joindelay' = [joindelay EXCEPT ![s] = no]
      /\ tabs' = Cleared(Marked(tabs), s) \/ (stat[s] # "in" /\ tabs' = tabs)
      /\ out' = [out EXCEPT ![s] = none] /\ inq' = [inq EXCEPT ![s] = none]
      /\ ircd' = [ircd EXCEPT ![s] = left]
      /\ want' = want /\ banned' = banned /\ features' = features
  BY OrderlyFacts DEF Lost, auto_reconnect, Gone, NoDelay, Loses, May
<1>3. /\ ~no /\ none = <<>> /\ \A c \in Chan : Me \notin left[c] OBVIOUS
<1> HIDE DEF none, left, no
<1>4. /\ stat'[s] = "connecting" /\ ~joindelay'[s] /\ out'[s] = none /\ inq'[s] = none /\ ircd'[s] = left
      /\ \A r \in Serv : r # s =>
           /\ stat'[r] = stat[r] /\ joindelay'[r] = joindelay[r] /\ out'[r] = out[r]
           /\ inq'[r] = inq[r] /\ ircd'[r] = ircd[r]
  BY <1>1, <1>2, <1>3 DEF Links, Others
<1>5. stat[s] = "in" \/ stat[s] = "connecting" BY <1>1, <1>2 DEF Links
<1>6. ~May("favs") BY <1>2, OrderlyFacts
<1> HIDE DEF M, N, n
<1>9. \A r \in Serv : r # s => ~Loses(r, features) BY <1>2, OrderlyFacts
<1>10. \A r \in Serv : stat[r] \in {"down", "connecting", "in"} /\ (joindelay[r] => stat[r] = "in")
  BY <1>1 DEF Links, Others
<1>11. ASSUME \A t \in N : t.channel = None, want[s] = {t.will : t \in N} \ {None}
       PROVE  Held(s, N, stat'[s], joindelay'[s], inq'[s], out'[s], ircd'[s], banned'[s], want'[s],
                   features)
  <2>1. /\ \A c : ~Joining(none, c) /\ ~Parting(none, c) /\ \A cmd : ~Has(none, cmd, c)
        /\ \A c \in Chan : Me \notin left[c]
        /\ "favs" \notin features
    BY <1>3, <1>6, NothingSaid DEF May
  <2>2. Waiting(N, none, none, left, want[s], features) BY <1>11, <2>1 DEF Waiting
  <2>3. Lawful(none, left, banned[s], features) BY <2>1 DEF Lawful
  <2>4. Held(s, N, "connecting", joindelay'[s], none, none, left, banned[s], want[s], features)
    BY <2>2, <2>3 DEF Held
  <2> QED BY <1>2, <1>4, <2>4
<1>12. ASSUME \A t \in N : t.channel = None, want[s] = {t.will : t \in N} \ {None},
              \A r \in Serv : r # s =>
                /\ (\A t \in Mine(tabs, r) : t.channel = None) => Mine(tabs', r) = Mine(tabs, r)
                /\ \A c \in Chan : (\E t \in Mine(tabs', r) : t.channel = c)
                                   <=> \E t \in Mine(tabs, r) : t.channel = c
       PROVE  WInv'
  <2>1. ASSUME NEW r \in Serv
        PROVE  Held(r, Mine(tabs', r), stat'[r], joindelay'[r], inq'[r], out'[r], ircd'[r],
                    banned'[r], want'[r], features')
    <3>1. CASE r = s BY <1>2, <1>11, <1>12, <3>1 DEF N
    <3>2. CASE r # s
      <4>1. Held(r, Mine(tabs, r), stat[r], joindelay[r], inq[r], out[r], ircd[r], banned[r],
                 want[r], features)
        BY HeldNow
      <4>2. Held(r, Mine(tabs', r), stat[r], joindelay[r], inq[r], out[r], ircd[r], banned[r],
                 want[r], features)
        BY <1>9, <1>10, <1>12, <3>2, <4>1, OtherHeld
      <4> QED BY <1>2, <1>4, <3>2, <4>2
    <3> QED BY <3>1, <3>2
  <2> QED BY <2>1 DEF WInv
<1>7. CASE tabs' = Cleared(Marked(tabs), s)
  <2> DEFINE us == tabs'
  <2>1. us = Cleared(Marked(tabs), s) BY <1>7
  <2> HIDE DEF us
  <2>2. /\ us \in Seq(Tab) /\ Len(us) = n
        /\ \A i \in 1..n :
             /\ us[i].serv = tabs[i].serv
             /\ tabs[i].serv = s =>
                  /\ us[i].channel = None
                  /\ us[i].will = IF tabs[i].channel = None THEN tabs[i].will ELSE tabs[i].channel
             /\ tabs[i].serv # s =>
                  /\ us[i].channel = tabs[i].channel
                  /\ tabs[i].channel = None => us[i] = tabs[i]
    BY <1>1, <2>1, LostTabs, OrderlyFacts DEF n
  <2>3. ASSUME NEW r
        PROVE  /\ \A t : t \in Mine(us, r) <=> \E i \in 1..n : tabs[i].serv = r /\ t = us[i]
               /\ \A t : t \in Mine(tabs, r) <=> \E i \in 1..n : tabs[i].serv = r /\ t = tabs[i]
    BY <1>1, <2>2, AlongMine DEF n
  <2>4. N = Mine(us, s) /\ M = Mine(tabs, s) BY DEF N, M, us
  <2>5. \A t \in N : t.channel = None BY <2>2, <2>3, <2>4
  <2>6. ASSUME NEW c
        PROVE  (\E t \in N : t.will = c) <=>
                 \E t \in M : c = IF t.channel = None THEN t.will ELSE t.channel
    <3>1. ASSUME NEW t \in N, t.will = c
          PROVE  \E u \in M : c = IF u.channel = None THEN u.will ELSE u.channel
      <4>1. PICK i \in 1..n : tabs[i].serv = s /\ t = us[i] BY <2>3, <2>4
      <4>2. tabs[i] \in M BY <2>3, <2>4, <4>1
      <4> QED BY <2>2, <3>1, <4>1, <4>2
    <3>2. ASSUME NEW u \in M, c = IF u.channel = None THEN u.will ELSE u.channel
          PROVE  \E t \in N : t.will = c
      <4>1. PICK i \in 1..n : tabs[i].serv = s /\ u = tabs[i] BY <2>3, <2>4
      <4>2. us[i] \in N BY <2>3, <2>4, <4>1
      <4> QED BY <2>2, <3>2, <4>1, <4>2
    <3> QED BY <3>1, <3>2
  <2>7. want[s] = {t.will : t \in N} \ {None}
    <3>1. MarkedAs(N, Mine(tabs, s)) BY <2>4, <2>5, <2>6 DEF MarkedAs
    <3> QED BY <1>1, <1>2, <1>5, <3>1, LostMarks
  <2>8. ASSUME NEW r \in Serv, r # s
        PROVE  /\ (\A t \in Mine(tabs, r) : t.channel = None) => Mine(us, r) = Mine(tabs, r)
               /\ \A c \in Chan : (\E t \in Mine(us, r) : t.channel = c)
                                  <=> \E t \in Mine(tabs, r) : t.channel = c
    <3>1. ASSUME \A t \in Mine(tabs, r) : t.channel = None PROVE Mine(us, r) = Mine(tabs, r)
      <4>1. \A i \in 1..n : tabs[i].serv = r => us[i] = tabs[i] BY <2>2, <2>3, <2>8, <3>1
      <4>2. \A t : t \in Mine(us, r) <=> t \in Mine(tabs, r) BY <2>3, <4>1
      <4> QED BY <4>2
    <3>2. ASSUME NEW c \in Chan
          PROVE  (\E t \in Mine(us, r) : t.channel = c) <=> \E t \in Mine(tabs, r) : t.channel = c
      <4>1. (\E t \in Mine(us, r) : t.channel = c)
            <=> \E i \in 1..n : tabs[i].serv = r /\ us[i].channel = c
        BY <2>3
      <4>2. (\E t \in Mine(tabs, r) : t.channel = c)
            <=> \E i \in 1..n : tabs[i].serv = r /\ tabs[i].channel = c
        BY <2>3
      <4> QED BY <2>2, <2>8, <4>1, <4>2
    <3> QED BY <3>1, <3>2
  <2> QED BY <1>12, <2>4, <2>5, <2>7, <2>8 DEF us
<1>8. CASE stat[s] # "in" /\ tabs' = tabs
  <2>1. Waiting(M, inq[s], out[s], ircd[s], want[s], features) BY <1>5, <1>8, WaitingNow DEF M
  <2>2. N = M BY <1>8 DEF M, N
  <2>3. \A t \in N : t.channel = None BY <2>1, <2>2 DEF Waiting
  <2>4. want[s] = {t.will : t \in N} \ {None} BY <1>6, <2>1, <2>2 DEF Waiting, May
  <2> QED BY <1>8, <1>12, <2>3, <2>4
<1> QED BY <1>2, <1>7, <1>8

-----------------------------------------------------------------------------
(* The wants of the user. *)

LEMMA InitWants == Init => WInv
<1> SUFFICES ASSUME Init PROVE WInv OBVIOUS
<1> DEFINE none == <<>>  no == FALSE  left == [c \in Chan |-> {}]
<1>1. /\ tabs = none /\ stat = [s \in Serv |-> "down"] /\ joindelay = [s \in Serv |-> no]
      /\ out = [s \in Serv |-> none] /\ inq = [s \in Serv |-> none]
      /\ ircd = [s \in Serv |-> left]
      /\ banned = [s \in Serv |-> {}] /\ want = [s \in Serv |-> {}]
  BY DEF Init
<1>2. none = <<>> /\ none \in Seq(Tab) /\ Len(none) = 0 BY EmptySeq
<1>3. ~no OBVIOUS
<1>4. \A c \in Chan : Me \notin left[c] OBVIOUS
<1> HIDE DEF none, no, left
<1>5. ASSUME NEW s \in Serv
      PROVE  Held(s, Mine(tabs, s), stat[s], joindelay[s], inq[s], out[s], ircd[s], banned[s],
                  want[s], features)
  <2>1. Mine(tabs, s) = {}
    <3>1. \A t : t \notin Mine(tabs, s) BY <1>1, <1>2 DEF Mine
    <3> QED BY <3>1
  <2>2. /\ stat[s] = "down" /\ ~joindelay[s] /\ inq[s] = none /\ ircd[s] = left /\ want[s] = {}
    BY <1>1, <1>3
  <2>3. \A c, cmd : ~Has(none, cmd, c) BY <1>2, NothingSaid
  <2>4. Lawful(inq[s], ircd[s], banned[s], features) BY <1>4, <2>2, <2>3 DEF Lawful
  <2> QED BY <2>1, <2>2, <2>4 DEF Held
<1> QED BY <1>5 DEF WInv

LEMMA NextWants == IInv /\ WInv /\ [Next]_vars => WInv'
<1> SUFFICES ASSUME IInv, WInv, [Next]_vars PROVE WInv' OBVIOUS
<1>1. features' = features
  <2>1. ASSUME UNCHANGED world PROVE features' = features BY <2>1 DEF world
  <2>2. ASSUME NEW s \in Serv,
               \/ Connect(s) \/ inbound_login_end(s) \/ check_autojoin_channels(s) \/ OpenTab(s)
               \/ Read(s)
        PROVE  features' = features
    BY <2>1, <2>2, SMTT(30) DEF Connect, inbound_login_end, check_autojoin_channels, OpenTab, Read
  <2>3. ASSUME NEW s \in Serv, Lost(s) \/ cmd_discon(s) \/ IrcdReads(s) PROVE features' = features
    BY <2>3 DEF Lost, cmd_discon, IrcdReads
  <2>4. ASSUME NEW s \in Serv, NEW c \in Chan, NEW i \in 0..Len(tabs), cmd_join(s, c, i)
        PROVE  features' = features
    BY <2>1, <2>4 DEF cmd_join
  <2>5. ASSUME NEW s \in Serv, NEW c \in Chan, cmd_part(s, c) \/ cmd_cycle(s, c) \/ cmd_names(s, c)
        PROVE  features' = features
    BY <2>1, <2>5 DEF cmd_part, cmd_cycle, cmd_names
  <2>6. ASSUME NEW s \in Serv, NEW c \in Chan, Kick(s, c) \/ OtherMoves(s, c)
        PROVE  features' = features
    BY <2>6 DEF Kick, OtherMoves
  <2>7. ASSUME NEW i \in DOMAIN tabs, session_free(i) PROVE features' = features
    BY <2>7 DEF session_free, world
  <2>8. CASE UNCHANGED vars BY <2>8 DEF vars
  <2> QED BY <2>2, <2>3, <2>4, <2>5, <2>6, <2>7, <2>8 DEF Next
<1>2. CASE ~Orderly
  <2>1. ~Orderly' BY <1>1, <1>2 DEF Orderly, Never, May
  <2> QED BY <2>1 DEF WInv
<1>3. CASE Orderly
  <2>1. ASSUME NEW s \in Serv, Connect(s) PROVE WInv' BY <1>3, <2>1, ConnectWants
  <2>2. ASSUME NEW s \in Serv, inbound_login_end(s) \/ check_autojoin_channels(s) PROVE WInv'
    BY <1>3, <2>2, LoginWants
  <2>3. ASSUME NEW s \in Serv, Lost(s) PROVE WInv' BY <1>3, <2>3, LostWants
  <2>4. ASSUME NEW s \in Serv, cmd_discon(s) PROVE WInv'
    BY <1>3, <2>4, OrderlyFacts DEF cmd_discon
  <2>5. ASSUME NEW s \in Serv, OpenTab(s) PROVE WInv' BY <1>3, <2>5, OpenTabWants
  <2>6. ASSUME NEW s \in Serv, Read(s) PROVE WInv' BY <1>3, <2>6, ReadWants
  <2>7. ASSUME NEW s \in Serv, IrcdReads(s) PROVE WInv' BY <1>3, <2>7, IrcdReadsWants
  <2>8. ASSUME NEW s \in Serv, NEW c \in Chan, NEW i \in 0..Len(tabs), cmd_join(s, c, i) PROVE WInv'
    BY <1>3, <2>8, JoinWants
  <2>9. ASSUME NEW s \in Serv, NEW c \in Chan, cmd_part(s, c) \/ cmd_cycle(s, c) PROVE WInv'
    BY <1>3, <2>9, AskWants
  <2>10. ASSUME NEW s \in Serv, NEW c \in Chan, cmd_names(s, c) PROVE WInv'
    BY <1>3, <2>10, NamesWants
  <2>11. ASSUME NEW s \in Serv, NEW c \in Chan, Kick(s, c) PROVE WInv' BY <1>3, <2>11, KickWants
  <2>12. ASSUME NEW s \in Serv, NEW c \in Chan, OtherMoves(s, c) PROVE WInv'
    BY <1>3, <2>12, OtherMovesWants
  <2>13. ASSUME NEW i \in DOMAIN tabs, session_free(i) PROVE WInv' BY <1>3, <2>13, FreeWants
  <2>14. CASE UNCHANGED vars
    <3>1. /\ tabs' = tabs /\ stat' = stat /\ joindelay' = joindelay /\ out' = out /\ inq' = inq
          /\ ircd' = ircd /\ banned' = banned /\ want' = want /\ features' = features
      BY <2>14 DEF vars
    <3>2. ASSUME NEW s \in Serv
          PROVE  Held(s, Mine(tabs', s), stat'[s], joindelay'[s], inq'[s], out'[s], ircd'[s],
                      banned'[s], want'[s], features')
      <4>1. Held(s, Mine(tabs, s), stat[s], joindelay[s], inq[s], out[s], ircd[s], banned[s],
                 want[s], features)
        BY <1>3, HeldNow
      <4> QED BY <3>1, <4>1
    <3> QED BY <3>2 DEF WInv
  <2> QED BY <2>1, <2>2, <2>3, <2>4, <2>5, <2>6, <2>7, <2>8, <2>9, <2>10, <2>11, <2>12, <2>13,
             <2>14 DEF Next
<1> QED BY <1>2, <1>3

(* When nothing is under way the lines under way make nothing of it. *)
LEMMA QuietWants ==
  ASSUME IInv, WInv, Orderly, NEW s \in Serv, Quiet(s)
  PROVE  want[s] = {c \in Chan : Me \in ircd[s][c]}
<1> DEFINE M == Mine(tabs, s)  none == <<>>
<1>1. stat[s] = "in" /\ ~joindelay[s] /\ out[s] = none /\ inq[s] = none BY DEF Quiet, Ready
<1>2. want[s] \in SUBSET Chan
  <2>1. Others BY Types DEF IInv
  <2> QED BY <2>1 DEF Others
<1>3. Held(s, M, "in", joindelay[s], none, none, ircd[s], banned[s], want[s], features)
  BY <1>1, HeldNow
<1>4. ASSUME NEW c
      PROVE  ~JoinsLast(none, c) /\ ~Parting(none, c) /\ ~Kicked(none, c)
             /\ \A cmd : ~Has(none, cmd, c)
  <2>1. Len(none) = 0 OBVIOUS
  <2>2. \A i \in 1..Len(none) : FALSE BY <2>1
  <2> HIDE DEF none
  <2> QED BY <2>2 DEF JoinsLast, Parting, Kicked, Has
<1> HIDE DEF M, none
<1>5. ASSUME NEW c \in Chan PROVE c \in want[s] <=> Me \in ircd[s][c]
  <2>1. Sought(c, M, none, none, ircd[s][c], banned[s], want[s], features) BY <1>1, <1>3 DEF Held
  <2>2. Lawful(none, ircd[s], banned[s], features) BY <1>3 DEF Held
  <2>3. Me \in ircd[s][c] => c \notin banned[s] BY <2>2 DEF Lawful
  <2> QED BY <1>4, <2>1, <2>3 DEF Sought, Hope
<1> QED BY <1>2, <1>5

(* The wants of the user are those that the lines under way, or the marks  *)
(* of the tabs until the next login, will bring the client to              *)
(* (auto_reconnect, check_autojoin_channels, inbound_ukick).               *)
THEOREM Wants == Spec => []WInv
BY InitWants, NextWants, Invariant, PTL DEF Spec

(* Once the server has answered everything we are on the channels the user *)
(* wants: those that were open are joined again after a loss               *)
(* (auto_reconnect) or a kick (inbound_ukick), and none that was left      *)
(* comes back.                                                             *)
THEOREM AlwaysOnWanted == Spec => []OnWanted
<1>1. ASSUME IInv, WInv PROVE OnWanted
  <2>1. ASSUME Orderly, NEW s \in Serv, Quiet(s)
        PROVE  want[s] = {c \in Chan : Me \in ircd[s][c]}
    BY <1>1, <2>1, QuietWants
  <2> QED BY <2>1 DEF OnWanted
<1> QED BY <1>1, Invariant, Wants, PTL
=============================================================================
