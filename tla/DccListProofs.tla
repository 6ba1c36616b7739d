--------------------------- MODULE DccListProofs ---------------------------
(***************************************************************************)
(* Proofs about DccList for every number of entries, every speed and limit *)
(* and every set of features.  First the sum over the entries, then what   *)
(* each operator does to the one entry it works on (To, Done, Gone), then  *)
(* what that means for the whole client (Good), and last the steps, one    *)
(* lemma per action.  IInv is the inductive invariant.                     *)
(***************************************************************************)
EXTENDS DccList, SequenceTheorems, WellFoundedInduction, TLAPS

(* A set of numbers has a smallest one: < is well-founded on Nat. *)
LEMMA SmallestExists == ASSUME NEW T \in SUBSET Nat, T # {} PROVE \E x \in T : \A y \in T : x <= y
<1> DEFINE R == {ss \in Nat \X Nat : ss[1] < ss[2]}
<1>1. OpToRel(<, Nat) = R
  BY Zenon DEF OpToRel
<1>2. IsWellFoundedOn(R, Nat)
  BY <1>1, NatLessThanWellFounded, Zenon
<1>3. \A a, b \in Nat : a < b => <<a, b>> \in R
  <2> SUFFICES ASSUME NEW a \in Nat, NEW b \in Nat, a < b PROVE <<a, b>> \in R
    OBVIOUS
  <2>1. <<a, b>>[1] = a /\ <<a, b>>[2] = b OBVIOUS
  <2>2. <<a, b>> \in Nat \X Nat OBVIOUS
  <2> QED BY <2>1, <2>2
<1> HIDE DEF R
<1>4. PICK x \in T : \A y \in T : ~ (<<y, x>> \in R)
  BY <1>2, WFMin, Zenon
<1>5. ASSUME NEW y \in T, ~(x <= y) PROVE FALSE
  <2>1. x \in Nat /\ y \in Nat /\ y < x BY <1>5
  <2>2. <<y, x>> \in R BY <2>1, <1>3, Zenon
  <2> QED BY <1>4, <2>2, Zenon
<1> QED BY <1>5

-----------------------------------------------------------------------------
(* Total, the sum over the entries. *)

(* f[k] is the sum of g up to k, for k up to n. *)
Sums(g, f, n) ==
    /\ f \in [0..n -> Nat]
    /\ f[0] = 0
    /\ \A k \in 1..n : f[k] = f[k - 1] + g[k]

LEMMA SumsExist ==
  ASSUME NEW g \in [Id -> Nat] PROVE \E f : Sums(g, f, Entries)
<1>1. Entries \in Nat /\ Entries > 0 BY EntriesAssumption
<1> DEFINE T == {n \in 0..Entries : ~ \E f : Sums(g, f, n)}
<1>2. SUFFICES ASSUME T # {} PROVE FALSE
  <2>1. Entries \in 0..Entries BY <1>1
  <2> QED BY <1>2, <2>1
<1>3. T \in SUBSET Nat BY <1>1
<1>4. PICK n \in T : \A m \in T : n <= m
  <2> HIDE DEF T
  <2> QED BY <1>2, <1>3, SmallestExists, Zenon
<1>5. n \in 0..Entries /\ (~ \E f : Sums(g, f, n)) OBVIOUS
<1>6. n # 0
  <2> SUFFICES ASSUME n = 0 PROVE FALSE OBVIOUS
  <2> DEFINE f == [k \in 0..0 |-> 0]
  <2>1. f \in [0..0 -> Nat] /\ f[0] = 0 /\ 1..0 = {} OBVIOUS
  <2> HIDE DEF f
  <2>2. Sums(g, f, 0) BY <2>1 DEF Sums
  <2> QED BY <1>5, <2>2
<1>7. n - 1 \in 0..Entries /\ n \in 1..Entries BY <1>1, <1>5, <1>6
<1>8. n - 1 \notin T BY <1>4, <1>7
<1>9. PICK f : Sums(g, f, n - 1) BY <1>7, <1>8
<1> HIDE DEF T
<1> DEFINE h == [k \in 0..n |-> IF k = n THEN f[n - 1] + g[n] ELSE f[k]]
<1>10. g[n] \in Nat /\ f[n - 1] \in Nat /\ f \in [0..(n - 1) -> Nat]
  <2>1. n - 1 \in 0..(n - 1) BY <1>1, <1>7
  <2>2. n \in Id BY <1>7 DEF Id
  <2> QED BY <1>9, <2>1, <2>2 DEF Sums
<1>11. \A k \in 0..n : h[k] = IF k = n THEN f[n - 1] + g[n] ELSE f[k] OBVIOUS
<1>12. DOMAIN h = 0..n /\ h = [k \in 0..n |-> h[k]] OBVIOUS
<1> HIDE DEF h
<1>13. \A k \in 0..n : h[k] \in Nat
  <2> SUFFICES ASSUME NEW k \in 0..n PROVE h[k] \in Nat OBVIOUS
  <2>1. k # n => k \in 0..(n - 1) BY <1>1, <1>7
  <2> QED BY <1>10, <1>11, <2>1
<1>14. h[0] = 0
  <2>1. 0 \in 0..n /\ 0 # n BY <1>1, <1>7
  <2> QED BY <1>9, <1>11, <2>1 DEF Sums
<1>15. \A k \in 1..n : h[k] = h[k - 1] + g[k]
  <2> SUFFICES ASSUME NEW k \in 1..n PROVE h[k] = h[k - 1] + g[k] OBVIOUS
  <2>1. k \in 0..n /\ k - 1 \in 0..n /\ k - 1 # n BY <1>1, <1>7
  <2>2. h[k - 1] = f[k - 1] BY <1>11, <2>1
  <2>3. CASE k = n BY <1>11, <2>1, <2>2, <2>3
  <2>4. CASE k # n
    <3>1. k \in 1..(n - 1) BY <1>1, <1>7, <2>4
    <3>2. h[k] = f[k] BY <1>11, <2>1, <2>4
    <3>3. f[k] = f[k - 1] + g[k] BY <1>9, <3>1 DEF Sums
    <3> QED BY <2>2, <3>2, <3>3
  <2> QED BY <2>3, <2>4
<1>16. Sums(g, h, n)
  <2>1. h \in [0..n -> Nat] BY <1>12, <1>13
  <2> QED BY <1>14, <1>15, <2>1 DEF Sums
<1> QED BY <1>5, <1>16

LEMMA TotalFacts ==
  ASSUME NEW g \in [Id -> Nat]
  PROVE  \E f : Sums(g, f, Entries) /\ Total(g) = f[Entries]
<1>1. Entries \in Nat /\ Entries > 0 BY EntriesAssumption
<1> DEFINE Def(u) == u = [k \in 0..Entries |-> IF k = 0 THEN 0 ELSE u[k - 1] + g[k]]
<1>2. PICK f : Sums(g, f, Entries) BY SumsExist
<1>3. Def(f)
  <2>1. f \in [0..Entries -> Nat] BY <1>2 DEF Sums
  <2>2. \A k \in 0..Entries : f[k] = IF k = 0 THEN 0 ELSE f[k - 1] + g[k]
    <3> SUFFICES ASSUME NEW k \in 0..Entries PROVE f[k] = IF k = 0 THEN 0 ELSE f[k - 1] + g[k]
      OBVIOUS
    <3>1. k # 0 => k \in 1..Entries BY <1>1
    <3> QED BY <1>2, <3>1 DEF Sums
  <2> QED BY <2>1, <2>2
<1> DEFINE u == CHOOSE v : Def(v)
<1>4. Total(g) = u[Entries] BY DEF Total
<1>5. Def(u) BY <1>3, Zenon
<1> HIDE DEF u
<1>6. \A k \in 0..Entries : u[k] = IF k = 0 THEN 0 ELSE u[k - 1] + g[k] BY <1>5
<1> DEFINE T == {k \in 0..Entries : u[k] # f[k]}
<1>7. ASSUME T # {} PROVE FALSE
  <2>1. T \in SUBSET Nat BY <1>1
  <2>2. PICK n \in T : \A m \in T : n <= m
    <3> HIDE DEF T
    <3> QED BY <1>7, <2>1, SmallestExists, Zenon
  <2>3. n \in 0..Entries /\ u[n] # f[n] OBVIOUS
  <2>4. n # 0
    <3>1. 0 \in 0..Entries BY <1>1
    <3>2. u[0] = 0 /\ f[0] = 0 BY <1>2, <1>6, <3>1 DEF Sums
    <3> QED BY <2>3, <3>2
  <2>5. n \in 1..Entries /\ n - 1 \in 0..Entries /\ ~(n <= n - 1) BY <1>1, <2>3, <2>4
  <2>6. u[n - 1] = f[n - 1] BY <2>2, <2>5
  <2>7. u[n] = u[n - 1] + g[n] BY <1>6, <2>3, <2>4
  <2>8. f[n] = f[n - 1] + g[n] BY <1>2, <2>5 DEF Sums
  <2> QED BY <2>3, <2>6, <2>7, <2>8
<1>8. u[Entries] = f[Entries]
  <2>1. Entries \in 0..Entries BY <1>1
  <2> QED BY <1>7, <2>1
<1> QED BY <1>2, <1>4, <1>8

(* Where one entry changes, the sum changes by as much. *)
LEMMA TotalChange ==
  ASSUME NEW g \in [Id -> Nat], NEW h \in [Id -> Nat], NEW i \in Id,
         \A j \in Id : j # i => h[j] = g[j]
  PROVE  Total(g) \in Nat /\ Total(h) \in Nat /\ Total(h) + g[i] = Total(g) + h[i]
<1>1. Entries \in Nat /\ Entries > 0 /\ i \in 1..Entries BY EntriesAssumption DEF Id
<1>2. PICK a : Sums(g, a, Entries) /\ Total(g) = a[Entries] BY TotalFacts
<1>3. PICK b : Sums(h, b, Entries) /\ Total(h) = b[Entries] BY TotalFacts
<1>4. \A k \in 0..Entries : a[k] \in Nat /\ b[k] \in Nat BY <1>2, <1>3 DEF Sums
<1>5. g[i] \in Nat /\ h[i] \in Nat OBVIOUS
<1> DEFINE Right(k) == IF k < i THEN b[k] = a[k] ELSE b[k] + g[i] = a[k] + h[i]
           T == {k \in 0..Entries : ~Right(k)}
<1>6. ASSUME T # {} PROVE FALSE
  <2>1. T \in SUBSET Nat BY <1>1
  <2>2. PICK n \in T : \A m \in T : n <= m
    <3> HIDE DEF T
    <3> QED BY <1>6, <2>1, SmallestExists, Zenon
  <2>3. n \in 0..Entries /\ ~Right(n) OBVIOUS
  <2>4. n # 0
    <3>1. a[0] = 0 /\ b[0] = 0 /\ 0 < i BY <1>1, <1>2, <1>3 DEF Sums
    <3> QED BY <2>3, <3>1
  <2>5. n \in 1..Entries /\ n - 1 \in 0..Entries /\ ~(n <= n - 1) BY <1>1, <2>3, <2>4
  <2>6. Right(n - 1) BY <2>2, <2>5
  <2>7. a[n] = a[n - 1] + g[n] /\ b[n] = b[n - 1] + h[n] BY <1>2, <1>3, <2>5 DEF Sums
  <2>8. n \in Id /\ n \in Int /\ i \in Int BY <1>1, <2>5 DEF Id
  <2>9. g[n] \in Nat /\ h[n] \in Nat /\ (n # i => h[n] = g[n]) BY <2>8
  <2>10. a[n - 1] \in Nat /\ b[n - 1] \in Nat BY <1>4, <2>5
  <2>11. CASE n < i
    <3>1. n - 1 < i BY <2>8, <2>11
    <3>2. b[n - 1] = a[n - 1] BY <2>6, <3>1
    <3> QED BY <2>3, <2>7, <2>8, <2>9, <2>11, <3>2
  <2>12. CASE n = i
    <3>1. n - 1 < i BY <2>8, <2>12
    <3>2. b[n - 1] = a[n - 1] BY <2>6, <3>1
    <3>3. ~(b[n] + g[n] = a[n] + h[n]) BY <2>3, <2>8, <2>12
    <3> QED BY <2>7, <2>9, <2>10, <3>2, <3>3
  <2>13. CASE n > i
    <3>1. ~(n - 1 < i) /\ ~(n < i) /\ n # i BY <2>8, <2>13
    <3>2. b[n - 1] + g[i] = a[n - 1] + h[i] BY <2>6, <3>1
    <3>3. ~(b[n] + g[i] = a[n] + h[i]) BY <2>3, <3>1
    <3> QED BY <1>5, <2>7, <2>9, <2>10, <3>1, <3>2, <3>3
  <2> QED BY <2>8, <2>11, <2>12, <2>13
<1>7. Entries \in 0..Entries /\ ~(Entries < i) BY <1>1
<1>8. b[Entries] + g[i] = a[Entries] + h[i] BY <1>6, <1>7
<1> QED BY <1>2, <1>3, <1>4, <1>7, <1>8

(* The sum is no less than any of its parts. *)
LEMMA TotalAtLeast ==
  ASSUME NEW g \in [Id -> Nat], NEW i \in Id
  PROVE  Total(g) \in Nat /\ g[i] <= Total(g)
<1> DEFINE h == [j \in Id |-> IF j = i THEN 0 ELSE g[j]]
<1>1. h \in [Id -> Nat] /\ h[i] = 0 /\ \A j \in Id : j # i => h[j] = g[j] OBVIOUS
<1> HIDE DEF h
<1>2. Total(g) \in Nat /\ Total(h) \in Nat /\ Total(h) + g[i] = Total(g) + h[i]
  BY <1>1, TotalChange
<1>3. g[i] \in Nat OBVIOUS
<1> QED BY <1>1, <1>2, <1>3

LEMMA TotalZero ==
  ASSUME NEW g \in [Id -> Nat], \A j \in Id : g[j] = 0
  PROVE  Total(g) = 0
<1>1. Entries \in Nat /\ Entries > 0 BY EntriesAssumption
<1>2. PICK a : Sums(g, a, Entries) /\ Total(g) = a[Entries] BY TotalFacts
<1> DEFINE T == {k \in 0..Entries : a[k] # 0}
<1>3. ASSUME T # {} PROVE FALSE
  <2>1. T \in SUBSET Nat BY <1>1
  <2>2. PICK n \in T : \A m \in T : n <= m
    <3> HIDE DEF T
    <3> QED BY <1>3, <2>1, SmallestExists, Zenon
  <2>3. n \in 0..Entries /\ a[n] # 0 OBVIOUS
  <2>4. n # 0 BY <1>2, <2>3 DEF Sums
  <2>5. n \in 1..Entries /\ n - 1 \in 0..Entries /\ ~(n <= n - 1) BY <1>1, <2>3, <2>4
  <2>6. a[n - 1] = 0 BY <2>2, <2>5
  <2>7. a[n] = a[n - 1] + g[n] BY <1>2, <2>5 DEF Sums
  <2>8. g[n] = 0 BY <2>5 DEF Id
  <2> QED BY <2>3, <2>6, <2>7, <2>8
<1>4. Entries \in 0..Entries BY <1>1
<1> QED BY <1>2, <1>3, <1>4

-----------------------------------------------------------------------------
(* A step on one entry.  What an operator of the code does to the entry i  *)
(* of a client is followed by To(s, t, i, d): from s to t, with the entry  *)
(* as d, only that entry and the sums change, and these as its share does. *)

SendShare(d) == IF d.stat = "ACTIVE" /\ d.type = "SEND" THEN d.cps ELSE 0
GetShare(d) == IF d.stat = "ACTIVE" /\ d.type # "SEND" THEN d.cps ELSE 0

(* The share of the entry is in the sums. *)
Funded(s, d) == s.sendsum >= SendShare(d) /\ s.getsum >= GetShare(d)

(* What no operator changes in an entry. *)
Kin(d, e) == /\ e \in Entry
             /\ e.type = d.type /\ e.nick = d.nick /\ e.passive = d.passive /\ e.serv = d.serv

To(s, t, i, d) ==
    /\ IsClient(s) /\ IsClient(t)
    /\ i \in DOMAIN s.dcc
    /\ DOMAIN t.dcc = DOMAIN s.dcc
    /\ \A j \in DOMAIN s.dcc : j # i => t.dcc[j] = s.dcc[j]
    /\ t.dcc[i] = d /\ Kin(s.dcc[i], d) /\ Funded(t, d)
    /\ t.list = s.list /\ t.made = s.made /\ t.timer = s.timer /\ t.servs = s.servs
    /\ t.sendsum + SendShare(s.dcc[i]) = s.sendsum + SendShare(d)
    /\ t.getsum + GetShare(s.dcc[i]) >= s.getsum + GetShare(d)
    /\ d.type \notin Chats => t.getsum + GetShare(s.dcc[i]) = s.getsum + GetShare(d)

LEMMA EntryAt ==
  ASSUME NEW s, IsClient(s), NEW i \in DOMAIN s.dcc
  PROVE  /\ s.dcc[i] \in Entry /\ i \in Id
         /\ SendShare(s.dcc[i]) \in Nat /\ GetShare(s.dcc[i]) \in Nat
<1>1. s.dcc[i] \in Entry /\ i \in Id BY DEF IsClient
<1> DEFINE d == s.dcc[i]
<1>2. d.cps \in Nat
  <2>1. d.cps \in 0..MaxCps BY <1>1 DEF Entry
  <2> QED BY <2>1, LimitAssumption
<1> QED BY <1>1, <1>2 DEF SendShare, GetShare

(* Nothing done. *)
LEMMA ToStart ==
  ASSUME NEW s, IsClient(s), NEW i \in DOMAIN s.dcc, Funded(s, s.dcc[i])
  PROVE  To(s, s, i, s.dcc[i])
<1>1. s.dcc[i] \in Entry /\ SendShare(s.dcc[i]) \in Nat /\ GetShare(s.dcc[i]) \in Nat BY EntryAt
<1>2. s.sendsum \in Nat /\ s.getsum \in Nat BY DEF IsClient
<1>3. Kin(s.dcc[i], s.dcc[i]) BY <1>1 DEF Kin
<1> HIDE DEF Kin
<1>4. /\ s.sendsum + SendShare(s.dcc[i]) = s.sendsum + SendShare(s.dcc[i])
      /\ s.getsum + GetShare(s.dcc[i]) >= s.getsum + GetShare(s.dcc[i])
  BY <1>1, <1>2
<1> QED BY <1>3, <1>4 DEF To

(* The fields of a client whose entry is replaced. *)
LEMMA WithFacts ==
  ASSUME NEW t, IsClient(t), NEW i \in DOMAIN t.dcc, NEW e \in Entry, NEW u, u = With(t, i, e)
  PROVE  /\ IsClient(u) /\ DOMAIN u.dcc = DOMAIN t.dcc /\ u.dcc[i] = e
         /\ \A j \in DOMAIN t.dcc : j # i => u.dcc[j] = t.dcc[j]
         /\ u.list = t.list /\ u.made = t.made /\ u.timer = t.timer /\ u.servs = t.servs
         /\ u.sendsum = t.sendsum /\ u.getsum = t.getsum
<1> DEFINE f == [t.dcc EXCEPT ![i] = e]
<1>1. t = [dcc |-> t.dcc, list |-> t.list, made |-> t.made, sendsum |-> t.sendsum,
           getsum |-> t.getsum, timer |-> t.timer, servs |-> t.servs]
  BY DEF IsClient
<1>2. u = [t EXCEPT !.dcc = f] BY DEF With
<1>3. t.dcc \in [DOMAIN t.dcc -> Entry] BY DEF IsClient
<1>4. /\ f \in [DOMAIN t.dcc -> Entry] /\ DOMAIN f = DOMAIN t.dcc /\ f[i] = e
      /\ \A j \in DOMAIN t.dcc : j # i => f[j] = t.dcc[j]
  BY <1>3
<1> HIDE DEF f
<1>5. u = [dcc |-> f, list |-> t.list, made |-> t.made, sendsum |-> t.sendsum,
           getsum |-> t.getsum, timer |-> t.timer, servs |-> t.servs]
  BY <1>1, <1>2
<1>6. /\ u.dcc = f /\ u.list = t.list /\ u.made = t.made /\ u.timer = t.timer /\ u.servs = t.servs
      /\ u.sendsum = t.sendsum /\ u.getsum = t.getsum
  BY <1>5
<1>7. u = [dcc |-> u.dcc, list |-> u.list, made |-> u.made, sendsum |-> u.sendsum,
           getsum |-> u.getsum, timer |-> u.timer, servs |-> u.servs]
  BY <1>5, <1>6
<1>8. IsClient(u)
  <2>1. /\ DOMAIN t.dcc \subseteq Id /\ t.list \in Seq(Id) /\ t.made \in 0..Entries
        /\ t.sendsum \in Nat /\ t.getsum \in Nat /\ t.timer \in BOOLEAN /\ t.servs \subseteq Server
    BY DEF IsClient
  <2>2. DOMAIN u.dcc \subseteq Id /\ u.dcc \in [DOMAIN u.dcc -> Entry] BY <1>4, <1>6, <2>1
  <2>3. /\ u.list \in Seq(Id) /\ u.made \in 0..Entries
        /\ u.sendsum \in Nat /\ u.getsum \in Nat /\ u.timer \in BOOLEAN /\ u.servs \subseteq Server
    BY <1>6, <2>1
  <2> QED BY <1>7, <2>2, <2>3 DEF IsClient
<1> QED BY <1>4, <1>6, <1>8

(* The entry is replaced by one with the same share. *)
LEMMA ToWith ==
  ASSUME NEW s, NEW t, NEW i, NEW d, To(s, t, i, d), NEW e, Kin(d, e),
         SendShare(e) = SendShare(d), GetShare(e) = GetShare(d), NEW u, u = With(t, i, e)
  PROVE  To(s, u, i, e)
<1>1. /\ IsClient(s) /\ IsClient(t) /\ i \in DOMAIN s.dcc /\ i \in DOMAIN t.dcc
      /\ DOMAIN t.dcc = DOMAIN s.dcc /\ t.dcc[i] = d
      /\ \A j \in DOMAIN s.dcc : j # i => t.dcc[j] = s.dcc[j]
      /\ Kin(s.dcc[i], d) /\ Funded(t, d)
      /\ t.list = s.list /\ t.made = s.made /\ t.timer = s.timer /\ t.servs = s.servs
  BY DEF To
<1>2. e \in Entry /\ Kin(s.dcc[i], e) /\ e.type = d.type BY <1>1 DEF Kin
<1>3. /\ IsClient(u) /\ DOMAIN u.dcc = DOMAIN t.dcc /\ u.dcc[i] = e
      /\ \A j \in DOMAIN t.dcc : j # i => u.dcc[j] = t.dcc[j]
      /\ u.list = t.list /\ u.made = t.made /\ u.timer = t.timer /\ u.servs = t.servs
      /\ u.sendsum = t.sendsum /\ u.getsum = t.getsum
  BY <1>1, <1>2, WithFacts
<1>4. Funded(u, e) BY <1>1, <1>3 DEF Funded
<1>5. /\ u.sendsum + SendShare(s.dcc[i]) = s.sendsum + SendShare(e)
      /\ u.getsum + GetShare(s.dcc[i]) >= s.getsum + GetShare(e)
      /\ e.type \notin Chats => u.getsum + GetShare(s.dcc[i]) = s.getsum + GetShare(e)
  BY <1>2, <1>3 DEF To
<1> HIDE DEF Kin, Funded
<1> QED BY <1>1, <1>2, <1>3, <1>4, <1>5 DEF To

(* The entry after each of the small operators. *)
StatOf(d, v) == [d EXCEPT !.stat = v]
PhaseOf(d, p) == [d EXCEPT !.phase = p]
SokOf(d) == [d EXCEPT !.sok = TRUE]
Watched(d, cb) == [d EXCEPT !.stray = @ \/ d.iotag # "none", !.iotag = cb]
Wwatched(d, cb) == [d EXCEPT !.stray = @ \/ d.wiotag # "none", !.wiotag = cb]
Unwatched(d) == [d EXCEPT !.iotag = "none"]
Unwwatched(d) == [d EXCEPT !.wiotag = "none"]
MovedOf(d) == [d EXCEPT !.moved = TRUE]
OpenedOf(d) == [d EXCEPT !.fp = TRUE]
BufferOf(d) == [d EXCEPT !.dccchat = TRUE]
Closed(d, stat) == [d EXCEPT !.wiotag = "none", !.iotag = "none", !.sok = FALSE, !.fp = FALSE,
                             !.dccchat = FALSE, !.stat = stat]
SpeedOf(d, cps) == [d EXCEPT !.cps = cps, !.moved = FALSE]
ThrottledBy(d, S) == [d EXCEPT !.throttled = S]

(* The fields of an entry that Sound looks at. *)
Fields(e, type, passive, stat, iotag, wiotag, stray, dccchat, throttled, cps, phase) ==
    /\ e.type = type /\ e.passive = passive /\ e.stat = stat /\ e.iotag = iotag
    /\ e.wiotag = wiotag /\ e.stray = stray /\ e.dccchat = dccchat /\ e.throttled = throttled
    /\ e.cps = cps /\ e.phase = phase

LEMMA StatFacts ==
  ASSUME NEW d \in Entry, NEW v \in Stat, NEW e, e = StatOf(d, v)
  PROVE  /\ Kin(d, e)
         /\ Fields(e, d.type, d.passive, v, d.iotag, d.wiotag, d.stray, d.dccchat, d.throttled,
                   d.cps, d.phase)
BY DEF StatOf, Kin, Fields, Entry

LEMMA PhaseFacts ==
  ASSUME NEW d \in Entry, NEW p \in 0..8, NEW e, e = PhaseOf(d, p)
  PROVE  /\ Kin(d, e)
         /\ Fields(e, d.type, d.passive, d.stat, d.iotag, d.wiotag, d.stray, d.dccchat, d.throttled,
                   d.cps, p)
BY DEF PhaseOf, Kin, Fields, Entry

LEMMA SokFacts ==
  ASSUME NEW d \in Entry, NEW e, e = SokOf(d)
  PROVE  /\ Kin(d, e)
         /\ Fields(e, d.type, d.passive, d.stat, d.iotag, d.wiotag, d.stray, d.dccchat, d.throttled,
                   d.cps, d.phase)
<1> DEFINE b == TRUE
<1>1. e = [d EXCEPT !.sok = b] /\ b \in BOOLEAN BY DEF SokOf
<1> HIDE DEF b
<1> QED BY <1>1 DEF Kin, Fields, Entry

LEMMA WatchedFacts ==
  ASSUME NEW d \in Entry, NEW cb \in Callback, d.iotag = "none", NEW e, e = Watched(d, cb)
  PROVE  /\ Kin(d, e)
         /\ Fields(e, d.type, d.passive, d.stat, cb, d.wiotag, d.stray, d.dccchat, d.throttled,
                   d.cps, d.phase)
<1>1. d.stray \in BOOLEAN BY DEF Entry
<1> DEFINE b == d.stray \/ d.iotag # "none"
<1>2. e = [d EXCEPT !.stray = b, !.iotag = cb] BY DEF Watched
<1>3. b = d.stray BY <1>1
<1>4. b \in BOOLEAN BY <1>1
<1> HIDE DEF b
<1>5. e \in Entry BY <1>2, <1>4, ZenonT(60) DEF Entry
<1>6. /\ Fields(e, d.type, d.passive, d.stat, cb, d.wiotag, b, d.dccchat, d.throttled,
                   d.cps, d.phase)
      /\ e.nick = d.nick /\ e.serv = d.serv
  BY <1>2 DEF Fields, Entry
<1> QED BY <1>3, <1>5, <1>6 DEF Kin, Fields

LEMMA WwatchedFacts ==
  ASSUME NEW d \in Entry, NEW cb \in Callback, d.wiotag = "none", NEW e, e = Wwatched(d, cb)
  PROVE  /\ Kin(d, e)
         /\ Fields(e, d.type, d.passive, d.stat, d.iotag, cb, d.stray, d.dccchat, d.throttled,
                   d.cps, d.phase)
<1>1. d.stray \in BOOLEAN BY DEF Entry
<1> DEFINE b == d.stray \/ d.wiotag # "none"
<1>2. e = [d EXCEPT !.stray = b, !.wiotag = cb] BY DEF Wwatched
<1>3. b = d.stray BY <1>1
<1>4. b \in BOOLEAN BY <1>1
<1> HIDE DEF b
<1>5. e \in Entry BY <1>2, <1>4, ZenonT(60) DEF Entry
<1>6. /\ Fields(e, d.type, d.passive, d.stat, d.iotag, cb, b, d.dccchat, d.throttled,
                   d.cps, d.phase)
      /\ e.nick = d.nick /\ e.serv = d.serv
  BY <1>2 DEF Fields, Entry
<1> QED BY <1>3, <1>5, <1>6 DEF Kin, Fields

LEMMA UnwatchedFacts ==
  ASSUME NEW d \in Entry, NEW e, e = Unwatched(d)
  PROVE  /\ Kin(d, e)
         /\ Fields(e, d.type, d.passive, d.stat, "none", d.wiotag, d.stray, d.dccchat, d.throttled,
                   d.cps, d.phase)
BY DEF Unwatched, Kin, Fields, Entry, Callback

LEMMA UnwwatchedFacts ==
  ASSUME NEW d \in Entry, NEW e, e = Unwwatched(d)
  PROVE  /\ Kin(d, e)
         /\ Fields(e, d.type, d.passive, d.stat, d.iotag, "none", d.stray, d.dccchat, d.throttled,
                   d.cps, d.phase)
BY DEF Unwwatched, Kin, Fields, Entry, Callback

LEMMA MovedFacts ==
  ASSUME NEW d \in Entry, NEW e, e = MovedOf(d)
  PROVE  /\ Kin(d, e)
         /\ Fields(e, d.type, d.passive, d.stat, d.iotag, d.wiotag, d.stray, d.dccchat, d.throttled,
                   d.cps, d.phase)
<1> DEFINE b == TRUE
<1>1. e = [d EXCEPT !.moved = b] /\ b \in BOOLEAN BY DEF MovedOf
<1> HIDE DEF b
<1> QED BY <1>1 DEF Kin, Fields, Entry

LEMMA OpenedFacts ==
  ASSUME NEW d \in Entry, NEW e, e = OpenedOf(d)
  PROVE  /\ Kin(d, e)
         /\ Fields(e, d.type, d.passive, d.stat, d.iotag, d.wiotag, d.stray, d.dccchat, d.throttled,
                   d.cps, d.phase)
<1> DEFINE b == TRUE
<1>1. e = [d EXCEPT !.fp = b] /\ b \in BOOLEAN BY DEF OpenedOf
<1> HIDE DEF b
<1> QED BY <1>1 DEF Kin, Fields, Entry

LEMMA BufferFacts ==
  ASSUME NEW d \in Entry, NEW e, e = BufferOf(d)
  PROVE  /\ Kin(d, e)
         /\ Fields(e, d.type, d.passive, d.stat, d.iotag, d.wiotag, d.stray, TRUE, d.throttled,
                   d.cps, d.phase)
<1> DEFINE b == TRUE
<1>1. e = [d EXCEPT !.dccchat = b] /\ b \in BOOLEAN BY DEF BufferOf
<1>2. b = TRUE OBVIOUS
<1> HIDE DEF b
<1>3. e \in Entry BY <1>1 DEF Entry
<1>4. /\ Fields(e, d.type, d.passive, d.stat, d.iotag, d.wiotag, d.stray, b, d.throttled,
                   d.cps, d.phase)
      /\ e.nick = d.nick /\ e.serv = d.serv
  BY <1>1 DEF Fields, Entry
<1> QED BY <1>2, <1>3, <1>4 DEF Kin, Fields

LEMMA ClosedFacts ==
  ASSUME NEW d \in Entry, NEW v \in Stat, NEW e, e = Closed(d, v)
  PROVE  /\ Kin(d, e)
         /\ Fields(e, d.type, d.passive, v, "none", "none", d.stray, FALSE, d.throttled,
                   d.cps, d.phase)
<1> DEFINE b == FALSE
<1>1. e = [d EXCEPT !.wiotag = "none", !.iotag = "none", !.sok = b, !.fp = b, !.dccchat = b,
                    !.stat = v] /\ b \in BOOLEAN
  BY DEF Closed
<1>2. b = FALSE OBVIOUS
<1> HIDE DEF b
<1>3. e \in Entry BY <1>1, ZenonT(60) DEF Entry, Callback
<1>4. /\ Fields(e, d.type, d.passive, v, "none", "none", d.stray, b, d.throttled,
                   d.cps, d.phase)
      /\ e.nick = d.nick /\ e.serv = d.serv
  BY <1>1 DEF Fields, Entry
<1> QED BY <1>2, <1>3, <1>4 DEF Kin, Fields

LEMMA SpeedFacts ==
  ASSUME NEW d \in Entry, NEW v \in 0..MaxCps, NEW e, e = SpeedOf(d, v)
  PROVE  /\ Kin(d, e)
         /\ Fields(e, d.type, d.passive, d.stat, d.iotag, d.wiotag, d.stray, d.dccchat, d.throttled,
                   v, d.phase)
<1> DEFINE b == FALSE
<1>1. e = [d EXCEPT !.cps = v, !.moved = b] /\ b \in BOOLEAN BY DEF SpeedOf
<1> HIDE DEF b
<1> QED BY <1>1 DEF Kin, Fields, Entry

LEMMA ThrottledFacts ==
  ASSUME NEW d \in Entry, NEW S \in SUBSET {"own", "global"}, NEW e, e = ThrottledBy(d, S)
  PROVE  /\ Kin(d, e)
         /\ Fields(e, d.type, d.passive, d.stat, d.iotag, d.wiotag, d.stray, d.dccchat, S,
                   d.cps, d.phase)
BY DEF ThrottledBy, Kin, Fields, Entry

(* The small operators do to the client what the above does to its entry. *)
LEMMA ToFacts ==
  ASSUME NEW s, NEW t, NEW i, NEW d, To(s, t, i, d)
  PROVE  /\ d \in Entry /\ t.dcc[i] = d /\ IsClient(s) /\ IsClient(t)
         /\ i \in DOMAIN s.dcc /\ i \in DOMAIN t.dcc /\ Kin(s.dcc[i], d)
BY DEF To, Kin

(* Equal status, type and speed are an equal share. *)
LEMMA SameShare ==
  ASSUME NEW d, NEW e, e.stat = d.stat, e.type = d.type, e.cps = d.cps
  PROVE  SendShare(e) = SendShare(d) /\ GetShare(e) = GetShare(d)
BY DEF SendShare, GetShare

LEMMA ToStat ==
  ASSUME NEW s, NEW t, NEW i, NEW d, To(s, t, i, d), NEW v \in Stat,
         d.cps = 0 \/ (d.stat # "ACTIVE" /\ v # "ACTIVE")
  PROVE  To(s, WithStat(t, i, v), i, StatOf(d, v))
<1>1. d \in Entry /\ t.dcc[i] = d BY ToFacts
<1> DEFINE e == StatOf(d, v)
           u == WithStat(t, i, v)
<1>2. u = With(t, i, e) BY <1>1 DEF WithStat, StatOf
<1>3. /\ Kin(d, e)
      /\ Fields(e, d.type, d.passive, v, d.iotag, d.wiotag, d.stray, d.dccchat, d.throttled,
                 d.cps, d.phase)
  BY <1>1, StatFacts
<1> HIDE DEF e, u
<1>4. SendShare(e) = SendShare(d) /\ GetShare(e) = GetShare(d)
  BY <1>3 DEF Fields, SendShare, GetShare
<1>5. To(s, u, i, e) BY <1>2, <1>3, <1>4, ToWith
<1> QED BY <1>5 DEF e, u

LEMMA ToPhase ==
  ASSUME NEW s, NEW t, NEW i, NEW d, To(s, t, i, d), NEW p \in 0..8
  PROVE  To(s, WithPhase(t, i, p), i, PhaseOf(d, p))
<1>1. d \in Entry /\ t.dcc[i] = d BY ToFacts
<1> DEFINE e == PhaseOf(d, p)
           u == WithPhase(t, i, p)
<1>2. u = With(t, i, e) BY <1>1 DEF WithPhase, PhaseOf
<1>3. Kin(d, e) /\ e.stat = d.stat /\ e.type = d.type /\ e.cps = d.cps
  BY <1>1, PhaseFacts DEF Fields
<1> HIDE DEF e, u
<1>4. SendShare(e) = SendShare(d) /\ GetShare(e) = GetShare(d) BY <1>3, SameShare
<1>5. To(s, u, i, e) BY <1>2, <1>3, <1>4, ToWith
<1> QED BY <1>5 DEF e, u

LEMMA ToSok ==
  ASSUME NEW s, NEW t, NEW i, NEW d, To(s, t, i, d)
  PROVE  To(s, WithSok(t, i), i, SokOf(d))
<1>1. d \in Entry /\ t.dcc[i] = d BY ToFacts
<1> DEFINE e == SokOf(d)
           u == WithSok(t, i)
<1>2. u = With(t, i, e) BY <1>1 DEF WithSok, SokOf
<1>3. Kin(d, e) /\ e.stat = d.stat /\ e.type = d.type /\ e.cps = d.cps
  BY <1>1, SokFacts DEF Fields
<1> HIDE DEF e, u
<1>4. SendShare(e) = SendShare(d) /\ GetShare(e) = GetShare(d) BY <1>3, SameShare
<1>5. To(s, u, i, e) BY <1>2, <1>3, <1>4, ToWith
<1> QED BY <1>5 DEF e, u

LEMMA ToWatched ==
  ASSUME NEW s, NEW t, NEW i, NEW d, To(s, t, i, d), NEW cb \in Callback, d.iotag = "none"
  PROVE  To(s, add_iotag(t, i, cb), i, Watched(d, cb))
<1>1. d \in Entry /\ t.dcc[i] = d BY ToFacts
<1> DEFINE e == Watched(d, cb)
           u == add_iotag(t, i, cb)
<1>2. u = With(t, i, e) BY <1>1 DEF add_iotag, Watched
<1>3. Kin(d, e) /\ e.stat = d.stat /\ e.type = d.type /\ e.cps = d.cps
  BY <1>1, WatchedFacts DEF Fields
<1> HIDE DEF e, u
<1>4. SendShare(e) = SendShare(d) /\ GetShare(e) = GetShare(d) BY <1>3, SameShare
<1>5. To(s, u, i, e) BY <1>2, <1>3, <1>4, ToWith
<1> QED BY <1>5 DEF e, u

LEMMA ToWwatched ==
  ASSUME NEW s, NEW t, NEW i, NEW d, To(s, t, i, d), NEW cb \in Callback, d.wiotag = "none"
  PROVE  To(s, add_wiotag(t, i, cb), i, Wwatched(d, cb))
<1>1. d \in Entry /\ t.dcc[i] = d BY ToFacts
<1> DEFINE e == Wwatched(d, cb)
           u == add_wiotag(t, i, cb)
<1>2. u = With(t, i, e) BY <1>1 DEF add_wiotag, Wwatched
<1>3. Kin(d, e) /\ e.stat = d.stat /\ e.type = d.type /\ e.cps = d.cps
  BY <1>1, WwatchedFacts DEF Fields
<1> HIDE DEF e, u
<1>4. SendShare(e) = SendShare(d) /\ GetShare(e) = GetShare(d) BY <1>3, SameShare
<1>5. To(s, u, i, e) BY <1>2, <1>3, <1>4, ToWith
<1> QED BY <1>5 DEF e, u

LEMMA ToUnwatched ==
  ASSUME NEW s, NEW t, NEW i, NEW d, To(s, t, i, d)
  PROVE  To(s, remove_iotag(t, i), i, Unwatched(d))
<1>1. d \in Entry /\ t.dcc[i] = d BY ToFacts
<1> DEFINE e == Unwatched(d)
           u == remove_iotag(t, i)
<1>2. u = With(t, i, e) BY <1>1 DEF remove_iotag, Unwatched
<1>3. Kin(d, e) /\ e.stat = d.stat /\ e.type = d.type /\ e.cps = d.cps
  BY <1>1, UnwatchedFacts DEF Fields
<1> HIDE DEF e, u
<1>4. SendShare(e) = SendShare(d) /\ GetShare(e) = GetShare(d) BY <1>3, SameShare
<1>5. To(s, u, i, e) BY <1>2, <1>3, <1>4, ToWith
<1> QED BY <1>5 DEF e, u

LEMMA ToUnwwatched ==
  ASSUME NEW s, NEW t, NEW i, NEW d, To(s, t, i, d)
  PROVE  To(s, remove_wiotag(t, i), i, Unwwatched(d))
<1>1. d \in Entry /\ t.dcc[i] = d BY ToFacts
<1> DEFINE e == Unwwatched(d)
           u == remove_wiotag(t, i)
<1>2. u = With(t, i, e) BY <1>1 DEF remove_wiotag, Unwwatched
<1>3. Kin(d, e) /\ e.stat = d.stat /\ e.type = d.type /\ e.cps = d.cps
  BY <1>1, UnwwatchedFacts DEF Fields
<1> HIDE DEF e, u
<1>4. SendShare(e) = SendShare(d) /\ GetShare(e) = GetShare(d) BY <1>3, SameShare
<1>5. To(s, u, i, e) BY <1>2, <1>3, <1>4, ToWith
<1> QED BY <1>5 DEF e, u

LEMMA ToMoved ==
  ASSUME NEW s, NEW t, NEW i, NEW d, To(s, t, i, d)
  PROVE  To(s, Moved(t, i), i, MovedOf(d))
<1>1. d \in Entry /\ t.dcc[i] = d BY ToFacts
<1> DEFINE e == MovedOf(d)
           u == Moved(t, i)
<1>2. u = With(t, i, e) BY <1>1 DEF Moved, MovedOf
<1>3. Kin(d, e) /\ e.stat = d.stat /\ e.type = d.type /\ e.cps = d.cps
  BY <1>1, MovedFacts DEF Fields
<1> HIDE DEF e, u
<1>4. SendShare(e) = SendShare(d) /\ GetShare(e) = GetShare(d) BY <1>3, SameShare
<1>5. To(s, u, i, e) BY <1>2, <1>3, <1>4, ToWith
<1> QED BY <1>5 DEF e, u

LEMMA ToOpened ==
  ASSUME NEW s, NEW t, NEW i, NEW d, To(s, t, i, d)
  PROVE  To(s, Opened(t, i), i, OpenedOf(d))
<1>1. d \in Entry /\ t.dcc[i] = d BY ToFacts
<1> DEFINE e == OpenedOf(d)
           u == Opened(t, i)
<1>2. u = With(t, i, e) BY <1>1 DEF Opened, OpenedOf
<1>3. Kin(d, e) /\ e.stat = d.stat /\ e.type = d.type /\ e.cps = d.cps
  BY <1>1, OpenedFacts DEF Fields
<1> HIDE DEF e, u
<1>4. SendShare(e) = SendShare(d) /\ GetShare(e) = GetShare(d) BY <1>3, SameShare
<1>5. To(s, u, i, e) BY <1>2, <1>3, <1>4, ToWith
<1> QED BY <1>5 DEF e, u

LEMMA ToBuffer ==
  ASSUME NEW s, NEW t, NEW i, NEW d, To(s, t, i, d)
  PROVE  To(s, WithBuffer(t, i), i, BufferOf(d))
<1>1. d \in Entry /\ t.dcc[i] = d BY ToFacts
<1> DEFINE e == BufferOf(d)
           u == WithBuffer(t, i)
<1>2. u = With(t, i, e) BY <1>1 DEF WithBuffer, BufferOf
<1>3. Kin(d, e) /\ e.stat = d.stat /\ e.type = d.type /\ e.cps = d.cps
  BY <1>1, BufferFacts DEF Fields
<1> HIDE DEF e, u
<1>4. SendShare(e) = SendShare(d) /\ GetShare(e) = GetShare(d) BY <1>3, SameShare
<1>5. To(s, u, i, e) BY <1>2, <1>3, <1>4, ToWith
<1> QED BY <1>5 DEF e, u

(* The fields of a client whose sums change. *)
WithSums(t, m, n) == [t EXCEPT !.sendsum = m, !.getsum = n]

LEMMA SumsFacts ==
  ASSUME NEW t, IsClient(t), NEW m \in Nat, NEW n \in Nat, NEW u,
         u = WithSums(t, m, n)
  PROVE  /\ IsClient(u) /\ u.dcc = t.dcc
         /\ u.list = t.list /\ u.made = t.made /\ u.timer = t.timer /\ u.servs = t.servs
         /\ u.sendsum = m /\ u.getsum = n
<1>1. t = [dcc |-> t.dcc, list |-> t.list, made |-> t.made, sendsum |-> t.sendsum,
           getsum |-> t.getsum, timer |-> t.timer, servs |-> t.servs]
  BY DEF IsClient
<1>2. u = [dcc |-> t.dcc, list |-> t.list, made |-> t.made, sendsum |-> m,
           getsum |-> n, timer |-> t.timer, servs |-> t.servs]
  BY <1>1 DEF WithSums
<1>3. /\ u.dcc = t.dcc /\ u.list = t.list /\ u.made = t.made /\ u.timer = t.timer
      /\ u.servs = t.servs /\ u.sendsum = m /\ u.getsum = n
  BY <1>2
<1>4. u = [dcc |-> u.dcc, list |-> u.list, made |-> u.made, sendsum |-> u.sendsum,
           getsum |-> u.getsum, timer |-> u.timer, servs |-> u.servs]
  BY <1>2, <1>3
<1>5. IsClient(u) BY <1>3, <1>4 DEF IsClient
<1> QED BY <1>3, <1>5

(* An entry replaced together with sums that follow its share. *)
LEMMA ToSums ==
  ASSUME NEW s, NEW t, NEW i, NEW d, To(s, t, i, d), NEW e, Kin(d, e),
         NEW m \in Nat, NEW n \in Nat,
         m + SendShare(d) = t.sendsum + SendShare(e),
         n + GetShare(d) >= t.getsum + GetShare(e),
         d.type \notin Chats => n + GetShare(d) = t.getsum + GetShare(e),
         NEW u, IsClient(u), u.dcc[i] = e, DOMAIN u.dcc = DOMAIN t.dcc,
         \A j \in DOMAIN t.dcc : j # i => u.dcc[j] = t.dcc[j],
         u.list = t.list, u.made = t.made, u.timer = t.timer, u.servs = t.servs,
         u.sendsum = m, u.getsum = n
  PROVE  To(s, u, i, e)
<1>1. /\ IsClient(s) /\ IsClient(t) /\ i \in DOMAIN s.dcc /\ i \in DOMAIN t.dcc
      /\ DOMAIN t.dcc = DOMAIN s.dcc /\ t.dcc[i] = d
      /\ \A j \in DOMAIN s.dcc : j # i => t.dcc[j] = s.dcc[j]
      /\ Kin(s.dcc[i], d) /\ Funded(t, d)
      /\ t.list = s.list /\ t.made = s.made /\ t.timer = s.timer /\ t.servs = s.servs
  BY DEF To
<1>2. Kin(s.dcc[i], e) /\ e.type = d.type BY <1>1 DEF Kin
<1>3. /\ SendShare(s.dcc[i]) \in Nat /\ GetShare(s.dcc[i]) \in Nat
      /\ SendShare(d) \in Nat /\ GetShare(d) \in Nat
  BY <1>1, EntryAt
<1>4. SendShare(e) \in Nat /\ GetShare(e) \in Nat
  <2>1. i \in DOMAIN u.dcc BY <1>1
  <2> QED BY <2>1, EntryAt
<1>5. t.sendsum \in Nat /\ t.getsum \in Nat /\ s.sendsum \in Nat /\ s.getsum \in Nat
  BY <1>1 DEF IsClient
<1>6. /\ t.sendsum + SendShare(s.dcc[i]) = s.sendsum + SendShare(d)
      /\ t.getsum + GetShare(s.dcc[i]) >= s.getsum + GetShare(d)
      /\ d.type \notin Chats => t.getsum + GetShare(s.dcc[i]) = s.getsum + GetShare(d)
      /\ t.sendsum >= SendShare(d) /\ t.getsum >= GetShare(d)
  BY <1>1 DEF To, Funded
<1> HIDE DEF SendShare, GetShare, Kin, Funded
<1>7. /\ m + SendShare(s.dcc[i]) = s.sendsum + SendShare(e) /\ m >= SendShare(e)
      /\ n + GetShare(s.dcc[i]) >= s.getsum + GetShare(e) /\ n >= GetShare(e)
      /\ e.type \notin Chats => n + GetShare(s.dcc[i]) = s.getsum + GetShare(e)
  BY <1>2, <1>3, <1>4, <1>5, <1>6
<1>8. Funded(u, e) BY <1>7 DEF Funded
<1> QED BY <1>1, <1>2, <1>7, <1>8 DEF To

(* A closed entry has no share; that of a transfer was taken from the sum. *)
LEMMA ToClosed ==
  ASSUME NEW s, NEW t, NEW i, NEW d, To(s, t, i, d), NEW v \in Stat, v # "ACTIVE"
  PROVE  To(s, dcc_close(t, i, v), i, Closed(d, v))
<1>1. d \in Entry /\ t.dcc[i] = d /\ IsClient(t) /\ i \in DOMAIN t.dcc BY ToFacts
<1> DEFINE e == Closed(d, v)
           r == dcc_remove_from_sum(t, i)
           m == t.sendsum - SendShare(d)
           n == IF d.type = "RECV" THEN t.getsum - GetShare(d) ELSE t.getsum
           q == WithSums(t, m, n)
           u == With(r, i, e)
<1>2. dcc_close(t, i, v) = u BY <1>1 DEF dcc_close, Closed
<1>3. /\ Kin(d, e)
      /\ Fields(e, d.type, d.passive, v, "none", "none", d.stray, FALSE, d.throttled,
                 d.cps, d.phase)
  BY <1>1, ClosedFacts
<1>4. SendShare(e) = 0 /\ GetShare(e) = 0
  <2> HIDE DEF e
  <2> QED BY <1>3 DEF Fields, SendShare, GetShare
<1>5. /\ t.sendsum \in Nat /\ t.getsum \in Nat
      /\ t.sendsum >= SendShare(d) /\ t.getsum >= GetShare(d)
      /\ SendShare(d) \in Nat /\ GetShare(d) \in Nat
  BY <1>1, EntryAt DEF To, Funded, IsClient
<1>6. m \in Nat /\ n \in Nat BY <1>5
<1>7. t = [dcc |-> t.dcc, list |-> t.list, made |-> t.made, sendsum |-> t.sendsum,
           getsum |-> t.getsum, timer |-> t.timer, servs |-> t.servs]
  BY <1>1 DEF IsClient
<1>8. r = q
  <2>1. d.cps \in Nat
    <3>1. d.cps \in 0..MaxCps BY <1>1 DEF Entry
    <3> QED BY <3>1, LimitAssumption
  <2>2. CASE d.stat # "ACTIVE"
    <3>1. r = t BY <1>1, <2>2 DEF dcc_remove_from_sum
    <3>2. m = t.sendsum /\ n = t.getsum BY <1>5, <2>2 DEF SendShare, GetShare
    <3> HIDE DEF m, n
    <3> QED BY <1>7, <3>1, <3>2 DEF WithSums
  <2>3. CASE d.stat = "ACTIVE" /\ d.type = "SEND"
    <3>1. r = [t EXCEPT !.sendsum = t.sendsum - d.cps] BY <1>1, <2>3 DEF dcc_remove_from_sum
    <3>2. m = t.sendsum - d.cps /\ n = t.getsum BY <1>5, <2>3 DEF SendShare, GetShare
    <3> HIDE DEF m, n
    <3> QED BY <1>7, <3>1, <3>2 DEF WithSums
  <2>4. CASE d.stat = "ACTIVE" /\ d.type = "RECV"
    <3>1. r = [t EXCEPT !.getsum = t.getsum - d.cps] BY <1>1, <2>4 DEF dcc_remove_from_sum
    <3>2. m = t.sendsum /\ n = t.getsum - d.cps BY <1>5, <2>4 DEF SendShare, GetShare
    <3> HIDE DEF m, n
    <3> QED BY <1>7, <3>1, <3>2 DEF WithSums
  <2>5. CASE d.stat = "ACTIVE" /\ d.type \notin {"SEND", "RECV"}
    <3>1. r = t BY <1>1, <2>5 DEF dcc_remove_from_sum
    <3>2. m = t.sendsum /\ n = t.getsum BY <1>5, <2>5 DEF SendShare, GetShare
    <3> HIDE DEF m, n
    <3> QED BY <1>7, <3>1, <3>2 DEF WithSums
  <2> QED BY <2>2, <2>3, <2>4, <2>5
<1>9. /\ m + SendShare(d) = t.sendsum + SendShare(e)
      /\ n + GetShare(d) >= t.getsum + GetShare(e)
      /\ d.type \notin Chats => n + GetShare(d) = t.getsum + GetShare(e)
  <2>1. d.type \in Type BY <1>1 DEF Entry
  <2>2. d.type = "SEND" => GetShare(d) = 0 BY DEF GetShare
  <2>3. d.type \notin Chats => d.type = "RECV" \/ d.type = "SEND" BY <2>1 DEF Type, Chats
  <2> HIDE DEF e
  <2> QED BY <1>4, <1>5, <2>2, <2>3
<1> HIDE DEF m, n
<1>10. /\ IsClient(q) /\ q.dcc = t.dcc
       /\ q.list = t.list /\ q.made = t.made /\ q.timer = t.timer /\ q.servs = t.servs
       /\ q.sendsum = m /\ q.getsum = n
  BY <1>1, <1>6, SumsFacts
<1> HIDE DEF e, r, q
<1>11. e \in Entry BY <1>3 DEF Kin
<1>12. IsClient(r) /\ i \in DOMAIN r.dcc BY <1>1, <1>8, <1>10
<1>13. /\ IsClient(u) /\ DOMAIN u.dcc = DOMAIN r.dcc /\ u.dcc[i] = e
       /\ \A j \in DOMAIN r.dcc : j # i => u.dcc[j] = r.dcc[j]
       /\ u.list = r.list /\ u.made = r.made /\ u.timer = r.timer /\ u.servs = r.servs
       /\ u.sendsum = r.sendsum /\ u.getsum = r.getsum
  BY <1>11, <1>12, WithFacts
<1> HIDE DEF u
<1>14. /\ IsClient(u) /\ DOMAIN u.dcc = DOMAIN t.dcc /\ u.dcc[i] = e
       /\ \A j \in DOMAIN t.dcc : j # i => u.dcc[j] = t.dcc[j]
       /\ u.list = t.list /\ u.made = t.made /\ u.timer = t.timer /\ u.servs = t.servs
       /\ u.sendsum = m /\ u.getsum = n
  BY <1>8, <1>10, <1>13
<1>15. To(s, u, i, e) BY <1>3, <1>6, <1>9, <1>14, ToSums
<1> QED BY <1>2, <1>15 DEF e

-----------------------------------------------------------------------------
(* What holds of every entry between two steps. *)

(* The phases in which the proxy is written to, and those in which it is   *)
(* read from.                                                              *)
Writes(p) == p = 1 \/ (p \in {3, 6} /\ May("socks5") /\ Never({"wingate", "socks"}))
Reads(p) ==
    /\ Never({"wingate"})
    /\ p \in IF May("socks") THEN {2} ELSE IF May("socks5") THEN {2, 4, 7, 8} ELSE {2, 3}

(* Who listens: for a direct offer of ours, and for a passive one of theirs *)
(* that we accept.                                                          *)
Offers(d) == d.type \in {"SEND", "CHATSEND"} /\ ~d.passive
Answers(d) == d.type \in {"RECV", "CHATRECV"} /\ d.passive

(* The one watch of an entry that is connecting. *)
Waiting(d) ==
    \/ d.iotag \in {"dcc_connect_finished", "dcc_proxy_connect"} /\ d.wiotag = "none"
    \/ d.iotag = "dcc_accept" /\ d.wiotag = "none" /\ Answers(d)
    \/ d.iotag = "none" /\ d.wiotag = "traverse" /\ Writes(d.phase)
    \/ d.iotag = "traverse" /\ d.wiotag = "none" /\ Reads(d.phase)

(* The watches of one that runs. *)
Running(d) ==
    /\ d.type = "RECV" => /\ d.wiotag = "none"
                          /\ d.iotag = "dcc_read" \/ (d.iotag = "none" /\ d.throttled # {})
    /\ d.type = "SEND" => d.iotag = "dcc_read_ack" /\ d.wiotag \in {"none", "dcc_send_data"}
    /\ d.type \in Chats => /\ d.wiotag = "none"
                           /\ d.iotag = "dcc_read_chat" \/ (d.iotag = "none" /\ May("limit"))

(* The watches by the status, where a Wingate proxy may leave one. *)
Watching(d) ==
    /\ d.stat = "QUEUED" => d.wiotag = "none" /\ d.iotag = IF Offers(d) THEN "dcc_accept" ELSE "none"
    /\ d.stat = "CONNECTING" => Waiting(d)
    /\ d.stat = "ACTIVE" => Running(d)
    /\ Finished(d) => /\ d.iotag = "none"
                      /\ \/ d.wiotag = "none"
                         \/ d.wiotag = "traverse" /\ d.stat = "FAILED" /\ May("wingate")

Sound(d) ==
    /\ ~d.stray
    /\ d.dccchat <=> d.stat = "ACTIVE" /\ d.type \in Chats
    /\ d.throttled # {} => May("limit")
    /\ d.type \in Chats => May("chats") /\ d.stat # "DONE"
    /\ d.stat \in {"QUEUED", "CONNECTING"} => d.cps = 0 /\ d.throttled = {}
    /\ Watching(d)

(* An entry whose connection has just come about. *)
Fresh(d) ==
    /\ d.stat \in {"QUEUED", "CONNECTING"} /\ d.iotag = "none" /\ d.wiotag = "none"
    /\ ~d.stray /\ ~d.dccchat /\ d.throttled = {} /\ d.cps = 0
    /\ d.type \in Chats => May("chats")

(* u is s after something was done to the entry i, which is sound again. *)
Done(s, u, i) == \E e : To(s, u, i, e) /\ Sound(e)

(* A closed entry is sound; a chat is never DONE. *)
LEMMA ClosedSound ==
  ASSUME NEW s, NEW t, NEW i, NEW d, To(s, t, i, d), ~d.stray,
         d.throttled # {} => May("limit"), d.type \in Chats => May("chats"),
         NEW v \in {"DONE", "FAILED", "ABORTED"}, d.type \in Chats => v # "DONE"
  PROVE  Done(s, dcc_close(t, i, v), i)
<1>1. d \in Entry BY ToFacts
<1>2. v \in Stat /\ v # "ACTIVE" BY DEF Stat
<1> DEFINE e == Closed(d, v)
<1>3. To(s, dcc_close(t, i, v), i, e) BY <1>2, ToClosed
<1>4. Fields(e, d.type, d.passive, v, "none", "none", d.stray, FALSE, d.throttled, d.cps, d.phase)
  BY <1>1, <1>2, ClosedFacts
<1> HIDE DEF e
<1>5. Sound(e) BY <1>2, <1>4 DEF Fields, Sound, Watching, Finished
<1> QED BY <1>3, <1>5 DEF Done

(* dcc_send_data leaves a running entry sound, or closes it. *)
LEMMA SendDataFacts ==
  ASSUME NEW s, NEW t, NEW i, NEW d, To(s, t, i, d), Sound(d), d.stat = "ACTIVE",
         d.type # "RECV", d.type \in Chats => d.throttled = {},
         NEW u \in dcc_send_data(t, i)
  PROVE  Done(s, u, i)
<1>1. d \in Entry /\ t.dcc[i] = d BY ToFacts
<1>2. d.type \in Type BY <1>1 DEF Entry
<1>3. Done(s, dcc_close(t, i, "FAILED"), i)
  <2>1. "FAILED" \in {"DONE", "FAILED", "ABORTED"} OBVIOUS
  <2> QED BY <2>1, ClosedSound DEF Sound
<1>4. CASE d.throttled # {}
  <2>1. u = remove_wiotag(t, i) BY <1>1, <1>4 DEF dcc_send_data
  <2> DEFINE e == Unwwatched(d)
  <2>2. To(s, u, i, e) BY <2>1, ToUnwwatched
  <2>3. Fields(e, d.type, d.passive, d.stat, d.iotag, "none", d.stray, d.dccchat, d.throttled,
               d.cps, d.phase)
    BY <1>1, UnwwatchedFacts
  <2> HIDE DEF e
  <2>4. Sound(e) BY <1>2, <1>4, <2>3 DEF Fields, Sound, Watching, Running, Finished, Type, Chats
  <2> QED BY <2>2, <2>4 DEF Done
<1>5. CASE d.throttled = {} /\ d.type # "SEND"
  <2>1. u \in {dcc_close(t, i, "FAILED"), t} BY <1>1, <1>5 DEF dcc_send_data
  <2> QED BY <1>3, <2>1 DEF Done
<1>6. CASE d.throttled = {} /\ d.type = "SEND"
  <2> DEFINE more == fast /\ d.wiotag = "none"
             w == IF more THEN add_wiotag(t, i, "dcc_send_data") ELSE t
             e == IF more THEN Wwatched(d, "dcc_send_data") ELSE d
  <2>1. u \in {dcc_close(t, i, "FAILED"), Moved(w, i), remove_wiotag(Moved(w, i), i), t}
    BY <1>1, <1>6 DEF dcc_send_data
  <2>2. "dcc_send_data" \in Callback BY DEF Callback
  <2>3. To(s, w, i, e)
    <3>1. CASE more BY <2>2, <3>1, ToWwatched
    <3>2. CASE ~more BY <3>2
    <3> QED BY <3>1, <3>2
  <2>4. /\ e.type = d.type /\ e.stat = d.stat /\ e.iotag = d.iotag /\ e.stray = d.stray
        /\ e.dccchat = d.dccchat /\ e.throttled = d.throttled /\ e.cps = d.cps
        /\ e.wiotag \in {d.wiotag, "dcc_send_data"} /\ e \in Entry
    <3>1. CASE more BY <1>1, <2>2, <3>1, WwatchedFacts DEF Fields, Kin
    <3>2. CASE ~more BY <1>1, <3>2
    <3> QED BY <3>1, <3>2
  <2> HIDE DEF e, w
  <2> DEFINE f == MovedOf(e)
  <2>5. To(s, Moved(w, i), i, f) BY <2>3, ToMoved
  <2>6. /\ f \in Entry
        /\ Fields(f, e.type, e.passive, e.stat, e.iotag, e.wiotag, e.stray, e.dccchat, e.throttled,
                  e.cps, e.phase)
    BY <2>4, MovedFacts DEF Kin
  <2> HIDE DEF f
  <2>7. Sound(f)
    BY <1>6, <2>4, <2>6 DEF Fields, Sound, Watching, Running, Finished, Chats
  <2> DEFINE g == Unwwatched(f)
  <2>8. To(s, remove_wiotag(Moved(w, i), i), i, g) BY <2>5, ToUnwwatched
  <2>9. Fields(g, f.type, f.passive, f.stat, f.iotag, "none", f.stray, f.dccchat, f.throttled,
               f.cps, f.phase)
    BY <2>6, UnwwatchedFacts
  <2> HIDE DEF g
  <2>10. Sound(g)
    BY <1>6, <2>4, <2>6, <2>9 DEF Fields, Sound, Watching, Running, Finished, Chats
  <2> QED BY <1>3, <2>1, <2>5, <2>7, <2>8, <2>10 DEF Done
<1> QED BY <1>4, <1>5, <1>6

(* So does dcc_read, which installs the watch again that a limit removed. *)
LEMMA ReadFacts ==
  ASSUME NEW s, NEW t, NEW i, NEW d, To(s, t, i, d), d.stat = "ACTIVE", d.type = "RECV",
         ~d.stray, ~d.dccchat, d.wiotag = "none", d.iotag \in {"none", "dcc_read"},
         d.throttled # {} => May("limit"), NEW u \in dcc_read(t, i)
  PROVE  Done(s, u, i)
<1>1. d \in Entry /\ t.dcc[i] = d BY ToFacts
<1>2. d.type \notin Chats BY DEF Chats
<1>3. "FAILED" \in {"DONE", "FAILED", "ABORTED"} /\ "DONE" \in {"DONE", "FAILED", "ABORTED"} OBVIOUS
<1>4. Done(s, dcc_close(t, i, "FAILED"), i) BY <1>2, <1>3, ClosedSound
<1> DEFINE o == Opened(t, i)
           d1 == OpenedOf(d)
<1>5. To(s, o, i, d1) BY ToOpened
<1>6. /\ d1 \in Entry
      /\ Fields(d1, d.type, d.passive, d.stat, d.iotag, d.wiotag, d.stray, d.dccchat, d.throttled,
                d.cps, d.phase)
  BY <1>1, OpenedFacts DEF Kin
<1> DEFINE w == IF d.iotag = "none" THEN add_iotag(o, i, "dcc_read") ELSE o
           d2 == IF d.iotag = "none" THEN Watched(d1, "dcc_read") ELSE d1
<1>7. \/ u = dcc_close(t, i, "FAILED")
      \/ d.throttled # {} /\ u = remove_iotag(o, i)
      \/ u \in {w, Moved(w, i), dcc_close(w, i, "DONE"), dcc_close(w, i, "FAILED")}
  BY <1>1 DEF dcc_read
<1>8. "dcc_read" \in Callback BY DEF Callback
<1> HIDE DEF d1, o
<1>9. To(s, w, i, d2)
  <2>1. CASE d.iotag = "none" BY <1>5, <1>6, <1>8, <2>1, ToWatched DEF Fields
  <2>2. CASE d.iotag # "none" BY <1>5, <2>2
  <2> QED BY <2>1, <2>2
<1>10. /\ d2 \in Entry
       /\ Fields(d2, d.type, d.passive, d.stat, "dcc_read", d.wiotag, d.stray, d.dccchat, d.throttled,
                 d.cps, d.phase)
  <2>1. CASE d.iotag = "none"
    <3>1. d1.iotag = "none" BY <1>6, <2>1 DEF Fields
    <3>2. d2 = Watched(d1, "dcc_read") BY <2>1
    <3> HIDE DEF d2
    <3>3. /\ d2 \in Entry
          /\ Fields(d2, d1.type, d1.passive, d1.stat, "dcc_read", d1.wiotag, d1.stray, d1.dccchat,
                    d1.throttled, d1.cps, d1.phase)
      BY <1>6, <1>8, <3>1, <3>2, WatchedFacts DEF Kin
    <3> QED BY <1>6, <3>3 DEF Fields
  <2>2. CASE d.iotag # "none" BY <1>6, <2>2 DEF Fields
  <2> QED BY <2>1, <2>2
<1> HIDE DEF d2, w
<1>11. Sound(d2)
  BY <1>2, <1>10 DEF Fields, Sound, Watching, Running, Finished, Chats
<1>12. Done(s, Moved(w, i), i)
  <2> DEFINE e == MovedOf(d2)
  <2>1. To(s, Moved(w, i), i, e) BY <1>9, ToMoved
  <2>2. Fields(e, d2.type, d2.passive, d2.stat, d2.iotag, d2.wiotag, d2.stray, d2.dccchat,
               d2.throttled, d2.cps, d2.phase)
    BY <1>10, MovedFacts
  <2> HIDE DEF e
  <2>3. Sound(e)
    BY <1>2, <1>10, <2>2 DEF Fields, Sound, Watching, Running, Finished, Chats
  <2> QED BY <2>1, <2>3 DEF Done
<1>13. Done(s, dcc_close(w, i, "DONE"), i) /\ Done(s, dcc_close(w, i, "FAILED"), i)
  <2>1. /\ ~d2.stray /\ (d2.throttled # {} => May("limit")) /\ d2.type \notin Chats
    BY <1>2, <1>10 DEF Fields
  <2> QED BY <1>3, <1>9, <2>1, ClosedSound
<1>14. ASSUME d.throttled # {} PROVE Done(s, remove_iotag(o, i), i)
  <2> DEFINE e == Unwatched(d1)
  <2>1. To(s, remove_iotag(o, i), i, e) BY <1>5, ToUnwatched
  <2>2. Fields(e, d1.type, d1.passive, d1.stat, "none", d1.wiotag, d1.stray, d1.dccchat,
               d1.throttled, d1.cps, d1.phase)
    BY <1>6, UnwatchedFacts
  <2> HIDE DEF e
  <2>3. Sound(e)
    BY <1>2, <1>6, <1>14, <2>2 DEF Fields, Sound, Watching, Running, Finished, Chats
  <2> QED BY <2>1, <2>3 DEF Done
<1> QED BY <1>4, <1>7, <1>9, <1>11, <1>12, <1>13, <1>14 DEF Done

LEMMA ReadAckFacts ==
  ASSUME NEW s, NEW t, NEW i, NEW d, To(s, t, i, d), Sound(d), d.stat = "ACTIVE",
         d.type = "SEND", NEW u \in dcc_read_ack(t, i)
  PROVE  Done(s, u, i)
<1>1. d.type \notin Chats BY DEF Chats
<1>2. "FAILED" \in {"DONE", "FAILED", "ABORTED"} /\ "DONE" \in {"DONE", "FAILED", "ABORTED"} OBVIOUS
<1>3. Done(s, dcc_close(t, i, "FAILED"), i) /\ Done(s, dcc_close(t, i, "DONE"), i)
  BY <1>1, <1>2, ClosedSound DEF Sound
<1>4. Done(s, t, i) BY DEF Done
<1>5. \/ u \in {t, dcc_close(t, i, "DONE"), dcc_close(t, i, "FAILED")}
      \/ u \in dcc_send_data(t, i)
  BY DEF dcc_read_ack
<1>6. u \in dcc_send_data(t, i) => Done(s, u, i) BY <1>1, SendDataFacts
<1> QED BY <1>3, <1>4, <1>5, <1>6

(* The entry was freed after a step on it. *)
Gone(s, u, i) == \E w, e : To(s, w, i, e) /\ u = dcc_destroy(w, i)

(* A line of a chat whose hook may close it, and close it again. *)
LEMMA ReadChatFacts ==
  ASSUME NEW s, NEW t, NEW i, NEW d, To(s, t, i, d), Sound(d), d.stat = "ACTIVE",
         d.type \in Chats, NEW u \in dcc_read_chat(t, i)
  PROVE  Done(s, u, i) \/ (May("hook") /\ Gone(s, u, i))
<1>1. d \in Entry /\ t.dcc[i] = d BY ToFacts
<1>2. "FAILED" \in {"DONE", "FAILED", "ABORTED"} /\ "ABORTED" \in {"DONE", "FAILED", "ABORTED"}
  OBVIOUS
<1> DEFINE w == IF d.iotag = "none" THEN add_iotag(t, i, "dcc_read_chat") ELSE t
           e == IF d.iotag = "none" THEN Watched(d, "dcc_read_chat") ELSE d
<1>3. "dcc_read_chat" \in Callback BY DEF Callback
<1>4. To(s, w, i, e)
  <2>1. CASE d.iotag = "none" BY <1>3, <2>1, ToWatched
  <2>2. CASE d.iotag # "none" BY <2>2
  <2> QED BY <2>1, <2>2
<1>5. /\ e \in Entry
      /\ Fields(e, d.type, d.passive, d.stat, "dcc_read_chat", d.wiotag, d.stray, d.dccchat,
                d.throttled, d.cps, d.phase)
  <2>1. CASE d.iotag = "none"
    <3>1. e = Watched(d, "dcc_read_chat") BY <2>1
    <3> HIDE DEF e
    <3> QED BY <1>1, <1>3, <2>1, <3>1, WatchedFacts DEF Kin
  <2>2. CASE d.iotag # "none"
    <3>1. e = d BY <2>2
    <3>2. d.iotag = "dcc_read_chat" BY <2>2 DEF Sound, Watching, Running
    <3> QED BY <1>1, <3>1, <3>2 DEF Fields
  <2> QED BY <2>1, <2>2
<1>6. \/ d.throttled # {} /\ u = remove_iotag(t, i)
      \/ u \in {w, Moved(w, i), dcc_close(w, i, "FAILED")}
      \/ May("hook") /\ u \in {dcc_abort(w, i), dcc_abort(dcc_abort(w, i), i)}
  BY <1>1 DEF dcc_read_chat
<1> HIDE DEF e, w
<1>7. d.type \notin {"SEND", "RECV"} BY DEF Chats
<1>8. Sound(e)
  BY <1>5, <1>7 DEF Fields, Sound, Watching, Running, Finished
<1>9. Done(s, Moved(w, i), i)
  <2> DEFINE f == MovedOf(e)
  <2>1. To(s, Moved(w, i), i, f) BY <1>4, ToMoved
  <2>2. Fields(f, e.type, e.passive, e.stat, e.iotag, e.wiotag, e.stray, e.dccchat,
               e.throttled, e.cps, e.phase)
    BY <1>5, MovedFacts
  <2> HIDE DEF f
  <2>3. Sound(f)
    BY <1>5, <1>7, <1>8, <2>2 DEF Fields, Sound, Watching, Running, Finished
  <2> QED BY <2>1, <2>3 DEF Done
<1>10. ASSUME d.throttled # {} PROVE Done(s, remove_iotag(t, i), i)
  <2> DEFINE f == Unwatched(d)
  <2>1. To(s, remove_iotag(t, i), i, f) BY ToUnwatched
  <2>2. Fields(f, d.type, d.passive, d.stat, "none", d.wiotag, d.stray, d.dccchat,
               d.throttled, d.cps, d.phase)
    BY <1>1, UnwatchedFacts
  <2> HIDE DEF f
  <2>3. Sound(f)
    BY <1>7, <1>10, <2>2 DEF Fields, Sound, Watching, Running, Finished
  <2> QED BY <2>1, <2>3 DEF Done
<1>11. /\ Done(s, dcc_close(w, i, "FAILED"), i) /\ Done(s, dcc_close(w, i, "ABORTED"), i)
  BY <1>2, <1>4, <1>8, ClosedSound DEF Sound
<1>12. w.dcc[i] = e /\ e.stat = "ACTIVE" BY <1>4, <1>5, ToFacts DEF Fields
<1>13. dcc_abort(w, i) = dcc_close(w, i, "ABORTED") BY <1>12 DEF dcc_abort, Finished
<1>14. Gone(s, dcc_abort(dcc_abort(w, i), i), i)
  <2> DEFINE v == dcc_close(w, i, "ABORTED")
             f == Closed(e, "ABORTED")
  <2>1. "ABORTED" \in Stat BY DEF Stat
  <2>2. To(s, v, i, f) BY <1>4, <2>1, ToClosed
  <2>3. f.stat = "ABORTED"
    <3>1. Fields(f, e.type, e.passive, "ABORTED", "none", "none", e.stray, FALSE, e.throttled,
                 e.cps, e.phase)
      BY <1>5, <2>1, ClosedFacts
    <3> QED BY <3>1 DEF Fields
  <2> HIDE DEF v, f
  <2>4. v.dcc[i] = f BY <2>2, ToFacts
  <2>5. dcc_abort(v, i) = dcc_destroy(v, i) BY <2>3, <2>4 DEF dcc_abort, Finished
  <2>6. Gone(s, dcc_abort(v, i), i) BY <2>2, <2>5 DEF Gone
  <2> QED BY <1>13, <2>6 DEF v
<1> QED BY <1>4, <1>6, <1>8, <1>9, <1>10, <1>11, <1>13, <1>14 DEF Done

-----------------------------------------------------------------------------
(* Connecting. *)

(* The transfer or the chat begins. *)
LEMMA StartedFacts ==
  ASSUME NEW s, NEW t, NEW i, NEW d, To(s, t, i, d), Fresh(d), NEW u \in Started(t, i)
  PROVE  Done(s, u, i)
<1>1. d \in Entry /\ t.dcc[i] = d BY ToFacts
<1>2. d.type \in Type BY <1>1 DEF Entry
<1>3. "ACTIVE" \in Stat BY DEF Stat
<1>4. {"dcc_read", "dcc_read_ack", "dcc_send_data", "dcc_read_chat"} \subseteq Callback BY DEF Callback
<1> DEFINE a == WithStat(t, i, "ACTIVE")
           d1 == StatOf(d, "ACTIVE")
<1>5. To(s, a, i, d1) BY <1>3, ToStat DEF Fresh
<1>6. /\ d1 \in Entry
      /\ Fields(d1, d.type, d.passive, "ACTIVE", "none", "none", d.stray, d.dccchat, {}, 0, d.phase)
  BY <1>1, <1>3, StatFacts DEF Fields, Kin, Fresh
<1> HIDE DEF d1
<1>7. CASE d.type = "RECV"
  <2>1. u = add_iotag(a, i, "dcc_read") BY <1>1, <1>7 DEF Started
  <2> DEFINE e == Watched(d1, "dcc_read")
  <2>2. d1.iotag = "none" BY <1>6 DEF Fields
  <2>3. To(s, u, i, e) BY <1>4, <1>5, <2>1, <2>2, ToWatched
  <2>4. Fields(e, d1.type, d1.passive, d1.stat, "dcc_read", d1.wiotag, d1.stray, d1.dccchat,
               d1.throttled, d1.cps, d1.phase)
    BY <1>4, <1>6, <2>2, WatchedFacts
  <2> HIDE DEF e
  <2>5. Sound(e)
    BY <1>6, <1>7, <2>4 DEF Fields, Sound, Watching, Running, Finished, Chats, Fresh
  <2> QED BY <2>3, <2>5 DEF Done
<1>8. CASE d.type = "SEND"
  <2> DEFINE b == IF fast THEN add_wiotag(a, i, "dcc_send_data") ELSE a
             d2 == IF fast THEN Wwatched(d1, "dcc_send_data") ELSE d1
             w == add_iotag(b, i, "dcc_read_ack")
             d3 == Watched(d2, "dcc_read_ack")
  <2>1. u \in dcc_send_data(w, i) BY <1>1, <1>8 DEF Started
  <2>2. d1.wiotag = "none" BY <1>6 DEF Fields
  <2> HIDE DEF a
  <2>3. To(s, b, i, d2)
    <3>1. CASE fast BY <1>4, <1>5, <2>2, <3>1, ToWwatched
    <3>2. CASE ~fast BY <1>5, <3>2
    <3> QED BY <3>1, <3>2
  <2>4. /\ d2 \in Entry /\ d2.wiotag \in {"none", "dcc_send_data"}
        /\ Fields(d2, d1.type, d1.passive, d1.stat, d1.iotag, d2.wiotag, d1.stray, d1.dccchat,
                  d1.throttled, d1.cps, d1.phase)
    <3>1. CASE fast
      <4>1. d2 = Wwatched(d1, "dcc_send_data") BY <3>1
      <4> HIDE DEF d2
      <4>2. /\ d2 \in Entry
            /\ Fields(d2, d1.type, d1.passive, d1.stat, d1.iotag, "dcc_send_data", d1.stray, d1.dccchat,
                      d1.throttled, d1.cps, d1.phase)
        BY <1>4, <1>6, <2>2, <4>1, WwatchedFacts DEF Kin
      <4> QED BY <4>2 DEF Fields
    <3>2. CASE ~fast
      <4>1. d2 = d1 BY <3>2
      <4> QED BY <1>6, <2>2, <4>1 DEF Fields
    <3> QED BY <3>1, <3>2
  <2> HIDE DEF d2, b
  <2>5. d2.iotag = "none" BY <1>6, <2>4 DEF Fields
  <2>6. To(s, w, i, d3) BY <1>4, <2>3, <2>5, ToWatched
  <2>7. Fields(d3, d2.type, d2.passive, d2.stat, "dcc_read_ack", d2.wiotag, d2.stray, d2.dccchat,
               d2.throttled, d2.cps, d2.phase)
    BY <1>4, <2>4, <2>5, WatchedFacts
  <2> HIDE DEF d3, w
  <2>8. Sound(d3) /\ d3.stat = "ACTIVE" /\ d3.type = "SEND"
    BY <1>6, <1>8, <2>4, <2>7 DEF Fields, Sound, Watching, Running, Finished, Chats, Fresh
  <2>9. d3.type # "RECV" /\ d3.type \notin Chats BY <2>8 DEF Chats
  <2> QED BY <2>1, <2>6, <2>8, <2>9, SendDataFacts
<1>9. CASE d.type \in Chats
  <2> DEFINE b == add_iotag(a, i, "dcc_read_chat")
             d2 == Watched(d1, "dcc_read_chat")
             d3 == BufferOf(d2)
  <2>1. u = WithBuffer(b, i) BY <1>1, <1>9 DEF Started, Chats
  <2>2. d1.iotag = "none" BY <1>6 DEF Fields
  <2>3. To(s, b, i, d2) BY <1>4, <1>5, <2>2, ToWatched
  <2>4. /\ d2 \in Entry
        /\ Fields(d2, d1.type, d1.passive, d1.stat, "dcc_read_chat", d1.wiotag, d1.stray, d1.dccchat,
                  d1.throttled, d1.cps, d1.phase)
    BY <1>4, <1>6, <2>2, WatchedFacts DEF Kin
  <2> HIDE DEF d2, b
  <2>5. To(s, u, i, d3) BY <2>1, <2>3, ToBuffer
  <2>6. Fields(d3, d2.type, d2.passive, d2.stat, d2.iotag, d2.wiotag, d2.stray, TRUE,
               d2.throttled, d2.cps, d2.phase)
    BY <2>4, BufferFacts
  <2> HIDE DEF d3
  <2>7. Sound(d3)
    BY <1>6, <1>9, <2>4, <2>6 DEF Fields, Sound, Watching, Running, Finished, Chats, Fresh
  <2> QED BY <2>5, <2>7 DEF Done
<1> QED BY <1>2, <1>7, <1>8, <1>9 DEF Type, Chats

(* The connection failed or has come about. *)
LEMMA ConnectFinishedFacts ==
  ASSUME NEW s, NEW t, NEW i, NEW d, To(s, t, i, d), Fresh(Unwatched(d)),
         NEW u \in dcc_connect_finished(t, i)
  PROVE  Done(s, u, i)
<1>1. d \in Entry BY ToFacts
<1> DEFINE a == remove_iotag(t, i)
           d1 == Unwatched(d)
<1>2. u = WithStat(a, i, "FAILED") \/ u \in Started(a, i) BY DEF dcc_connect_finished
<1>3. To(s, a, i, d1) BY ToUnwatched
<1>4. d1 \in Entry BY <1>1, UnwatchedFacts DEF Kin
<1>5. Fresh(d1) OBVIOUS
<1> HIDE DEF a, d1
<1>6. u \in Started(a, i) => Done(s, u, i) BY <1>3, <1>5, StartedFacts
<1>7. ASSUME u = WithStat(a, i, "FAILED") PROVE Done(s, u, i)
  <2> DEFINE e == StatOf(d1, "FAILED")
  <2>1. "FAILED" \in Stat /\ d1.cps = 0 BY <1>5 DEF Stat, Fresh
  <2>2. To(s, u, i, e) BY <1>3, <1>7, <2>1, ToStat
  <2>3. Fields(e, d1.type, d1.passive, "FAILED", d1.iotag, d1.wiotag, d1.stray, d1.dccchat,
               d1.throttled, d1.cps, d1.phase)
    BY <1>4, <2>1, StatFacts
  <2> HIDE DEF e
  <2>4. Sound(e) BY <1>5, <2>3 DEF Fields, Sound, Watching, Finished, Fresh
  <2> QED BY <2>2, <2>4 DEF Done
<1> QED BY <1>2, <1>6, <1>7

(* What is fresh once it is not watched for reading. *)
LEMMA FreshFacts ==
  ASSUME NEW d \in Entry, Sound(d), d.stat \in {"QUEUED", "CONNECTING"}, d.wiotag = "none"
  PROVE  Fresh(Unwatched(d)) /\ Fresh(Unwatched(Unwatched(d)))
<1> DEFINE e == Unwatched(d)
<1>1. /\ e \in Entry
      /\ Fields(e, d.type, d.passive, d.stat, "none", d.wiotag, d.stray, d.dccchat, d.throttled,
                d.cps, d.phase)
  BY UnwatchedFacts DEF Kin
<1> HIDE DEF e
<1>2. Fresh(e) BY <1>1 DEF Fields, Fresh, Sound
<1> DEFINE f == Unwatched(e)
<1>3. Fields(f, e.type, e.passive, e.stat, "none", e.wiotag, e.stray, e.dccchat, e.throttled,
             e.cps, e.phase)
  BY <1>1, UnwatchedFacts
<1> HIDE DEF f
<1>4. Fresh(f) BY <1>2, <1>3 DEF Fields, Fresh
<1> QED BY <1>2, <1>4 DEF e, f

LEMMA AcceptFacts ==
  ASSUME NEW s, NEW i, NEW d, To(s, s, i, d), Sound(d), d.iotag = "dcc_accept",
         NEW u \in dcc_accept(s, i)
  PROVE  Done(s, u, i)
<1>1. d \in Entry /\ s.dcc[i] = d BY ToFacts
<1>2. d.stat \in {"QUEUED", "CONNECTING"} /\ d.wiotag = "none"
  <2>1. d.stat \in Stat /\ d.type \in Type BY <1>1 DEF Entry
  <2>2. d.stat # "ACTIVE"
    BY <2>1 DEF Sound, Watching, Running, Type, Chats
  <2> QED BY <2>1, <2>2 DEF Sound, Watching, Waiting, Finished, Stat
<1> DEFINE t == remove_iotag(s, i)
           e == Unwatched(d)
<1>3. To(s, t, i, e) BY ToUnwatched
<1>4. Fresh(e) /\ Fresh(Unwatched(e)) BY <1>1, <1>2, FreshFacts
<1>5. u \in {dcc_close(t, i, "FAILED")} \cup Started(t, i) \cup dcc_connect_finished(t, i)
  BY DEF dcc_accept
<1> HIDE DEF t, e
<1>6. u \in Started(t, i) => Done(s, u, i) BY <1>3, <1>4, StartedFacts
<1>7. u \in dcc_connect_finished(t, i) => Done(s, u, i) BY <1>3, <1>4, ConnectFinishedFacts
<1>8. Done(s, dcc_close(t, i, "FAILED"), i)
  <2>1. "FAILED" \in {"DONE", "FAILED", "ABORTED"} OBVIOUS
  <2> QED BY <1>3, <1>4, <2>1, ClosedSound DEF Fresh
<1> QED BY <1>5, <1>6, <1>7, <1>8

(* An offer we made and one we accept: see dcc_connect.                    *)
LEMMA ConnectFacts ==
  ASSUME NEW s, NEW i, NEW d, To(s, s, i, d), Sound(d), d.stat = "QUEUED", ~Offers(d),
         NEW u \in dcc_connect(s, i)
  PROVE  Done(s, u, i)
<1>1. d \in Entry /\ s.dcc[i] = d BY ToFacts
<1>2. {"CONNECTING", "FAILED"} \subseteq Stat BY DEF Stat
<1>3. d.cps = 0 /\ d.iotag = "none" /\ d.wiotag = "none" /\ d.throttled = {}
  BY DEF Sound, Watching
<1> DEFINE t == WithStat(s, i, "CONNECTING")
           d1 == StatOf(d, "CONNECTING")
<1>4. To(s, t, i, d1) BY <1>2, <1>3, ToStat
<1>5. /\ d1 \in Entry
      /\ Fields(d1, d.type, d.passive, "CONNECTING", "none", "none", d.stray, d.dccchat, {}, 0, d.phase)
  BY <1>1, <1>2, <1>3, StatFacts DEF Fields, Kin
<1> HIDE DEF d1
<1> DEFINE v == WithSok(t, i)
           d2 == SokOf(d1)
<1>6. To(s, v, i, d2) BY <1>4, ToSok
<1>7. /\ d2 \in Entry
      /\ Fields(d2, d.type, d.passive, "CONNECTING", "none", "none", d.stray, d.dccchat, {}, 0, d.phase)
  <2>1. /\ d2 \in Entry
        /\ Fields(d2, d1.type, d1.passive, d1.stat, d1.iotag, d1.wiotag, d1.stray, d1.dccchat,
                  d1.throttled, d1.cps, d1.phase)
    BY <1>5, SokFacts DEF Kin
  <2> HIDE DEF d2
  <2> QED BY <1>5, <2>1 DEF Fields
<1> DEFINE cb == IF Never(Proxies) THEN "dcc_connect_finished" ELSE "dcc_proxy_connect"
<1>8. \/ d.passive /\ d.type \in {"RECV", "CHATRECV"}
         /\ u \in {add_iotag(v, i, "dcc_accept"), dcc_close(v, i, "FAILED")}
      \/ u \in {WithStat(t, i, "FAILED"), add_iotag(v, i, cb)}
  <2>1. dcc_listen_init(t, i) = add_iotag(v, i, "dcc_accept") BY DEF dcc_listen_init
  <2>2. d.stat # "CONNECTING" OBVIOUS
  <2>3. s.dcc[i].stat # "CONNECTING" BY <1>1, <2>2
  <2> HIDE DEF cb
  <2>4. dcc_connect(s, i) = IF d.passive /\ d.type \in {"RECV", "CHATRECV"}
                            THEN {dcc_listen_init(t, i), dcc_close(v, i, "FAILED")}
                            ELSE {WithStat(t, i, "FAILED"), add_iotag(v, i, cb)}
    BY <1>1, <2>3 DEF dcc_connect, cb
  <2> HIDE DEF t, v
  <2> QED BY <2>1, <2>4
<1>9. cb \in {"dcc_connect_finished", "dcc_proxy_connect"} OBVIOUS
<1> HIDE DEF t, v, d2, cb
<1>10. \A x \in {"dcc_accept", cb} : x \in Callback BY <1>9 DEF Callback
<1>11. ASSUME NEW x \in {"dcc_accept", cb}, x = "dcc_accept" => Answers(d)
       PROVE  Done(s, add_iotag(v, i, x), i)
  <2> DEFINE e == Watched(d2, x)
  <2>1. d2.iotag = "none" /\ x \in Callback BY <1>7, <1>10 DEF Fields
  <2>2. To(s, add_iotag(v, i, x), i, e) BY <1>6, <2>1, ToWatched
  <2>3. Fields(e, d2.type, d2.passive, d2.stat, x, d2.wiotag, d2.stray, d2.dccchat, d2.throttled,
               d2.cps, d2.phase)
    BY <1>7, <2>1, WatchedFacts
  <2> HIDE DEF e
  <2>4. Sound(e)
    BY <1>7, <1>9, <1>11, <2>3 DEF Fields, Sound, Watching, Waiting, Answers, Finished
  <2> QED BY <2>2, <2>4 DEF Done
<1>12. Done(s, dcc_close(v, i, "FAILED"), i)
  <2>1. "FAILED" \in {"DONE", "FAILED", "ABORTED"} OBVIOUS
  <2>2. ~d2.stray /\ d2.throttled = {} /\ d2.type = d.type BY <1>7 DEF Fields, Sound
  <2> QED BY <1>6, <2>1, <2>2, ClosedSound DEF Sound
<1>13. Done(s, WithStat(t, i, "FAILED"), i)
  <2> DEFINE e == StatOf(d1, "FAILED")
  <2>1. "FAILED" \in Stat /\ d1.cps = 0 BY <1>2, <1>5 DEF Fields
  <2>2. To(s, WithStat(t, i, "FAILED"), i, e) BY <1>4, <2>1, ToStat
  <2>3. Fields(e, d1.type, d1.passive, "FAILED", d1.iotag, d1.wiotag, d1.stray, d1.dccchat,
               d1.throttled, d1.cps, d1.phase)
    BY <1>5, <2>1, StatFacts
  <2> HIDE DEF e
  <2>4. Sound(e) BY <1>5, <2>3 DEF Fields, Sound, Watching, Finished
  <2> QED BY <2>2, <2>4 DEF Done
<1>14. d.passive /\ d.type \in {"RECV", "CHATRECV"} => Answers(d) BY DEF Answers
<1>15. cb # "dcc_accept" BY <1>9
<1>16. Done(s, add_iotag(v, i, cb), i) BY <1>11, <1>15
<1>17. Answers(d) => Done(s, add_iotag(v, i, "dcc_accept"), i) BY <1>11
<1> QED BY <1>8, <1>12, <1>13, <1>14, <1>16, <1>17

-----------------------------------------------------------------------------
(* Through a proxy. *)

(* An entry that is connecting, whatever watches it.                       *)
Proxied(d) ==
    /\ ~d.stray /\ ~d.dccchat /\ d.throttled = {} /\ d.cps = 0
    /\ d.type \in Chats => May("chats")
    /\ d.stat = "CONNECTING"

(* What fails without being closed is sound when nothing watches it.       *)
LEMMA FailedSound ==
  ASSUME NEW s, NEW t, NEW i, NEW d, To(s, t, i, d), Sound(d),
         d.stat = "CONNECTING" \/ d.stat = "FAILED", NEW u,
         \/ u = FailedRead(t, i) /\ (d.wiotag = "none" \/ (May("wingate") /\ d.wiotag = "traverse"))
         \/ u = FailedWrite(t, i) /\ d.iotag = "none"
  PROVE  Done(s, u, i)
<1>1. d \in Entry BY ToFacts
<1>2. "FAILED" \in Stat BY DEF Stat
<1>3. d.cps = 0 \/ (d.stat # "ACTIVE" /\ "FAILED" # "ACTIVE") OBVIOUS
<1> DEFINE w == WithStat(t, i, "FAILED")
           d1 == StatOf(d, "FAILED")
<1>4. To(s, w, i, d1) BY <1>2, <1>3, ToStat
<1>5. /\ d1 \in Entry
      /\ Fields(d1, d.type, d.passive, "FAILED", d.iotag, d.wiotag, d.stray, d.dccchat, d.throttled,
                d.cps, d.phase)
  BY <1>1, <1>2, StatFacts DEF Kin
<1>6. FailedRead(t, i) = remove_iotag(w, i) /\ FailedWrite(t, i) = remove_wiotag(w, i)
  BY DEF FailedRead, FailedWrite
<1> HIDE DEF d1, w
<1>7. CASE u = FailedRead(t, i) /\ (d.wiotag = "none" \/ (May("wingate") /\ d.wiotag = "traverse"))
  <2> DEFINE e == Unwatched(d1)
  <2>1. To(s, u, i, e) BY <1>4, <1>6, <1>7, ToUnwatched
  <2>2. Fields(e, d1.type, d1.passive, d1.stat, "none", d1.wiotag, d1.stray, d1.dccchat,
               d1.throttled, d1.cps, d1.phase)
    BY <1>5, UnwatchedFacts
  <2> HIDE DEF e
  <2>3. Sound(e) BY <1>5, <1>7, <2>2 DEF Fields, Sound, Watching, Finished
  <2> QED BY <2>1, <2>3 DEF Done
<1>8. CASE u = FailedWrite(t, i) /\ d.iotag = "none"
  <2> DEFINE e == Unwwatched(d1)
  <2>1. To(s, u, i, e) BY <1>4, <1>6, <1>8, ToUnwwatched
  <2>2. Fields(e, d1.type, d1.passive, d1.stat, d1.iotag, "none", d1.stray, d1.dccchat,
               d1.throttled, d1.cps, d1.phase)
    BY <1>5, UnwwatchedFacts
  <2> HIDE DEF e
  <2>3. Sound(e) BY <1>5, <1>8, <2>2 DEF Fields, Sound, Watching, Finished
  <2> QED BY <2>1, <2>3 DEF Done
<1> QED BY <1>7, <1>8

(* Everything is written: the answer is read in the next phase.            *)
LEMMA SendingFacts ==
  ASSUME NEW s, NEW i, NEW d, To(s, s, i, d), Sound(d), d.stat = "CONNECTING",
         d.iotag = "none", d.phase \in 0..7, Reads(d.phase + 1), NEW u \in Sending(s, i)
  PROVE  Done(s, u, i)
<1>1. d \in Entry /\ s.dcc[i] = d BY ToFacts
<1>2. Done(s, s, i) BY DEF Done
<1>3. Done(s, FailedWrite(s, i), i) BY FailedSound
<1> DEFINE a == remove_wiotag(s, i)
           d1 == Unwwatched(d)
           b == add_iotag(a, i, "traverse")
           d2 == Watched(d1, "traverse")
           p == d.phase + 1
           d3 == PhaseOf(d2, p)
<1>4. u \in {s, FailedWrite(s, i), WithPhase(b, i, p)} BY <1>1 DEF Sending
<1>5. p \in 0..8 /\ Reads(p) OBVIOUS
<1>6. "traverse" \in Callback BY DEF Callback
<1> HIDE DEF p
<1>7. To(s, a, i, d1) BY ToUnwwatched
<1>8. /\ d1 \in Entry
      /\ Fields(d1, d.type, d.passive, d.stat, d.iotag, "none", d.stray, d.dccchat, d.throttled,
                d.cps, d.phase)
  BY <1>1, UnwwatchedFacts DEF Kin
<1> HIDE DEF d1, a
<1>9. d1.iotag = "none" BY <1>8 DEF Fields
<1>10. To(s, b, i, d2) BY <1>6, <1>7, <1>9, ToWatched
<1>11. /\ d2 \in Entry
       /\ Fields(d2, d1.type, d1.passive, d1.stat, "traverse", d1.wiotag, d1.stray, d1.dccchat,
                 d1.throttled, d1.cps, d1.phase)
  BY <1>6, <1>8, <1>9, WatchedFacts DEF Kin
<1> HIDE DEF d2, b
<1>12. To(s, WithPhase(b, i, p), i, d3) BY <1>5, <1>10, ToPhase
<1>13. Fields(d3, d2.type, d2.passive, d2.stat, d2.iotag, d2.wiotag, d2.stray, d2.dccchat,
              d2.throttled, d2.cps, p)
  BY <1>5, <1>11, PhaseFacts
<1> HIDE DEF d3
<1>14. Sound(d3)
  BY <1>5, <1>8, <1>11, <1>13 DEF Fields, Sound, Watching, Waiting, Finished
<1> QED BY <1>2, <1>3, <1>4, <1>12, <1>14 DEF Done

(* On to writing in phase p.                                               *)
LEMMA ToSendFacts ==
  ASSUME NEW s, NEW t, NEW i, NEW d, To(s, t, i, d), Proxied(d), d.wiotag = "none",
         NEW p \in 0..8, Writes(p)
  PROVE  Done(s, ToSend(t, i, p), i)
<1>1. d \in Entry /\ t.dcc[i] = d BY ToFacts
<1> DEFINE a == remove_iotag(t, i)
           d1 == Unwatched(d)
           b == add_wiotag(a, i, "traverse")
           d2 == Wwatched(d1, "traverse")
           d3 == PhaseOf(d2, p)
<1>2. ToSend(t, i, p) = WithPhase(b, i, p) BY DEF ToSend
<1>3. "traverse" \in Callback BY DEF Callback
<1>4. To(s, a, i, d1) BY ToUnwatched
<1>5. /\ d1 \in Entry
      /\ Fields(d1, d.type, d.passive, d.stat, "none", d.wiotag, d.stray, d.dccchat, d.throttled,
                d.cps, d.phase)
  BY <1>1, UnwatchedFacts DEF Kin
<1> HIDE DEF d1, a
<1>6. d1.wiotag = "none" BY <1>5 DEF Fields
<1>7. To(s, b, i, d2) BY <1>3, <1>4, <1>6, ToWwatched
<1>8. /\ d2 \in Entry
      /\ Fields(d2, d1.type, d1.passive, d1.stat, d1.iotag, "traverse", d1.stray, d1.dccchat,
                d1.throttled, d1.cps, d1.phase)
  BY <1>3, <1>5, <1>6, WwatchedFacts DEF Kin
<1> HIDE DEF d2, b
<1>9. To(s, WithPhase(b, i, p), i, d3) BY <1>7, ToPhase
<1>10. Fields(d3, d2.type, d2.passive, d2.stat, d2.iotag, d2.wiotag, d2.stray, d2.dccchat,
              d2.throttled, d2.cps, p)
  BY <1>8, PhaseFacts
<1> HIDE DEF d3
<1>11. Sound(d3)
  BY <1>5, <1>8, <1>10 DEF Fields, Sound, Watching, Waiting, Finished, Proxied
<1> QED BY <1>2, <1>9, <1>11 DEF Done

(* Reading goes on in the next phase.                                      *)
LEMMA ToReadFacts ==
  ASSUME NEW s, NEW i, NEW d, To(s, s, i, d), Sound(d), d.stat = "CONNECTING",
         d.iotag = "traverse", d.phase \in 0..7, Reads(d.phase + 1)
  PROVE  Done(s, ToRead(s, i), i)
<1>1. d \in Entry /\ s.dcc[i] = d BY ToFacts
<1>2. d.wiotag = "none" BY DEF Sound, Watching, Waiting
<1> DEFINE p == d.phase + 1
           e == PhaseOf(d, p)
<1>3. ToRead(s, i) = WithPhase(s, i, p) BY <1>1 DEF ToRead
<1>4. p \in 0..8 /\ Reads(p) OBVIOUS
<1> HIDE DEF p
<1>5. To(s, WithPhase(s, i, p), i, e) BY <1>4, ToPhase
<1>6. Fields(e, d.type, d.passive, d.stat, d.iotag, d.wiotag, d.stray, d.dccchat, d.throttled,
             d.cps, p)
  BY <1>1, <1>4, PhaseFacts
<1> HIDE DEF e
<1>7. Sound(e) BY <1>2, <1>4, <1>6 DEF Fields, Sound, Watching, Waiting, Finished
<1> QED BY <1>3, <1>5, <1>7 DEF Done

(* The proxy has let us through.                                           *)
LEMMA ThroughFacts ==
  ASSUME NEW s, NEW i, NEW d, To(s, s, i, d), Sound(d), d.stat = "CONNECTING",
         d.wiotag = "none", NEW u \in Through(s, i)
  PROVE  Done(s, u, i)
<1>1. d \in Entry BY ToFacts
<1>2. To(s, remove_iotag(s, i), i, Unwatched(d)) BY ToUnwatched
<1>3. Fresh(Unwatched(Unwatched(d))) BY <1>1, FreshFacts
<1>4. u \in dcc_connect_finished(remove_iotag(s, i), i) BY DEF Through
<1> QED BY <1>2, <1>3, <1>4, ConnectFinishedFacts

LEMMA ProxyConnectFacts ==
  ASSUME NEW s, NEW i, NEW d, To(s, s, i, d), Sound(d), d.iotag = "dcc_proxy_connect",
         NEW u \in dcc_proxy_connect(s, i)
  PROVE  Done(s, u, i)
<1>1. d \in Entry /\ s.dcc[i] = d BY ToFacts
<1>2. d.stat = "CONNECTING" /\ d.wiotag = "none"
  <2>1. d.stat \in Stat /\ d.type \in Type BY <1>1 DEF Entry
  <2>2. d.stat # "ACTIVE" BY <2>1 DEF Sound, Watching, Running, Type, Chats
  <2> QED BY <2>1, <2>2 DEF Sound, Watching, Waiting, Finished, Stat
<1> DEFINE t == remove_iotag(s, i)
           e == Unwatched(d)
<1>3. To(s, t, i, e) BY ToUnwatched
<1>4. /\ e \in Entry
      /\ Fields(e, d.type, d.passive, d.stat, "none", d.wiotag, d.stray, d.dccchat, d.throttled,
                d.cps, d.phase)
  BY <1>1, UnwatchedFacts DEF Kin
<1>5. u \in {WithStat(t, i, "FAILED"), ToSend(t, i, 1)} BY DEF dcc_proxy_connect
<1> HIDE DEF t, e
<1>6. Proxied(e) /\ e.wiotag = "none" BY <1>2, <1>4 DEF Fields, Proxied, Sound
<1>7. Done(s, ToSend(t, i, 1), i)
  <2>1. 1 \in 0..8 /\ Writes(1) BY DEF Writes
  <2> QED BY <1>3, <1>6, <2>1, ToSendFacts
<1>8. Done(s, WithStat(t, i, "FAILED"), i)
  <2> DEFINE f == StatOf(e, "FAILED")
  <2>1. "FAILED" \in Stat /\ e.cps = 0 BY <1>6 DEF Stat, Proxied
  <2>2. To(s, WithStat(t, i, "FAILED"), i, f) BY <1>3, <2>1, ToStat
  <2>3. Fields(f, e.type, e.passive, "FAILED", e.iotag, e.wiotag, e.stray, e.dccchat, e.throttled,
               e.cps, e.phase)
    BY <1>4, <2>1, StatFacts
  <2> HIDE DEF f
  <2>4. Sound(f) BY <1>4, <1>6, <2>3 DEF Fields, Proxied, Sound, Watching, Finished
  <2> QED BY <2>2, <2>4 DEF Done
<1> QED BY <1>5, <1>7, <1>8

LEMMA TraverseFacts ==
  ASSUME NEW s, NEW i, NEW d, To(s, s, i, d), Sound(d), "traverse" \in {d.iotag, d.wiotag},
         NEW u \in traverse(s, i)
  PROVE  Done(s, u, i)
<1>1. d \in Entry /\ s.dcc[i] = d BY ToFacts
<1>2. d.phase \in 0..8 /\ d.stat \in Stat /\ d.type \in Type BY <1>1 DEF Entry
<1>3. Done(s, s, i) BY DEF Done
<1>4. \/ d.stat = "CONNECTING"
      \/ d.stat = "FAILED" /\ May("wingate") /\ d.iotag = "none" /\ d.wiotag = "traverse"
  <2>1. d.stat # "ACTIVE" BY <1>2 DEF Sound, Watching, Running, Type, Chats
  <2>2. d.stat # "QUEUED" BY DEF Sound, Watching
  <2> QED BY <1>2, <2>1, <2>2 DEF Sound, Watching, Finished, Stat
<1>5. d.stat = "CONNECTING" =>
        \/ d.iotag = "none" /\ d.wiotag = "traverse" /\ Writes(d.phase)
        \/ d.iotag = "traverse" /\ d.wiotag = "none" /\ Reads(d.phase)
  BY DEF Sound, Watching, Waiting
<1>6. d.stat = "CONNECTING" => Proxied(d) BY DEF Sound, Proxied
<1>7. May("wingate") <=> ~Never({"wingate"}) BY DEF May, Never
<1>8. CASE May("wingate")
  <2>1. d.iotag = "none" /\ d.wiotag = "traverse" BY <1>4, <1>5, <1>7, <1>8 DEF Reads
  <2> DEFINE t == remove_wiotag(s, i)
             e == Unwwatched(d)
  <2>2. \/ u = s \/ u = FailedRead(s, i)
        \/ d.stat = "CONNECTING" /\ u \in dcc_connect_finished(t, i)
    BY <1>1, <1>4, <1>8 DEF traverse, dcc_wingate_proxy_traverse, Reading
  <2>3. Done(s, FailedRead(s, i), i) BY <1>4, <1>8, <2>1, FailedSound
  <2>4. ASSUME d.stat = "CONNECTING", u \in dcc_connect_finished(t, i) PROVE Done(s, u, i)
    <3>1. To(s, t, i, e) BY ToUnwwatched
    <3>2. /\ e \in Entry
          /\ Fields(e, d.type, d.passive, d.stat, d.iotag, "none", d.stray, d.dccchat, d.throttled,
                    d.cps, d.phase)
      BY <1>1, UnwwatchedFacts DEF Kin
    <3> HIDE DEF e, t
    <3> DEFINE f == Unwatched(e)
    <3>3. Fields(f, e.type, e.passive, e.stat, "none", e.wiotag, e.stray, e.dccchat, e.throttled,
                 e.cps, e.phase)
      BY <3>2, UnwatchedFacts
    <3> HIDE DEF f
    <3>4. Fresh(f) BY <1>6, <2>4, <3>2, <3>3 DEF Fields, Fresh, Proxied
    <3> QED BY <2>4, <3>1, <3>4, ConnectFinishedFacts DEF f
  <2> QED BY <1>3, <2>2, <2>3, <2>4
<1>9. CASE ~May("wingate")
  <2>1. d.stat = "CONNECTING" BY <1>4, <1>9
  <2>2. ASSUME d.wiotag = "none" PROVE Done(s, FailedRead(s, i), i)
    <3> DEFINE x == FailedRead(s, i)
    <3>1. x = FailedRead(s, i) OBVIOUS
    <3> HIDE DEF x
    <3>2. \/ x = FailedRead(s, i) /\ (d.wiotag = "none" \/ (May("wingate") /\ d.wiotag = "traverse"))
          \/ x = FailedWrite(s, i) /\ d.iotag = "none"
      BY <2>2, <3>1
    <3>3. d.stat = "CONNECTING" \/ d.stat = "FAILED" BY <2>1
    <3>4. Done(s, x, i) BY <3>2, <3>3, FailedSound
    <3> QED BY <3>4 DEF x
  <2>3. \A p \in {3, 6} : d.wiotag = "none" /\ Writes(p) => Done(s, ToSend(s, i, p), i)
    <3> SUFFICES ASSUME NEW p \in {3, 6}, d.wiotag = "none", Writes(p) PROVE Done(s, ToSend(s, i, p), i)
      OBVIOUS
    <3>1. p \in 0..8 OBVIOUS
    <3> QED BY <1>6, <2>1, <3>1, ToSendFacts
  <2>4. CASE May("socks")
    <3>1. CASE d.phase = 1
      <4>1. u \in Sending(s, i) BY <1>1, <1>9, <2>4, <3>1 DEF traverse, dcc_socks_proxy_traverse
      <4>2. Reads(d.phase + 1) /\ d.phase \in 0..7 /\ d.iotag = "none"
        BY <1>5, <1>7, <1>9, <2>1, <2>4, <3>1 DEF Reads
      <4> QED BY <2>1, <4>1, <4>2, SendingFacts
    <3>2. CASE d.phase # 1
      <4>1. d.wiotag = "none"
        <5>1. ~Never({"wingate", "socks"}) BY <2>4 DEF May, Never
        <5> QED BY <1>5, <2>1, <3>2, <5>1 DEF Writes
      <4>2. u \in {s, FailedRead(s, i)} \cup Through(s, i)
        BY <1>1, <1>9, <2>4, <3>2 DEF traverse, dcc_socks_proxy_traverse, Reading, Refused
      <4> QED BY <1>3, <2>1, <2>2, <4>1, <4>2, ThroughFacts
    <3> QED BY <3>1, <3>2
  <2>5. CASE ~May("socks") /\ May("socks5")
    <3>1. Never({"wingate", "socks"}) BY <1>9, <2>5 DEF May, Never
    <3>2. u \in dcc_socks5_proxy_traverse(s, i) BY <1>9, <2>5 DEF traverse
    <3>3. \A p \in {1, 3, 6} : Writes(p) BY <2>5, <3>1 DEF Writes
    <3>4. \A p : Reads(p) <=> p \in {2, 4, 7, 8} BY <1>7, <1>9, <2>5 DEF Reads
    <3>5. CASE d.phase \in {1, 3, 6}
      <4>1. u \in Sending(s, i) BY <1>1, <3>2, <3>5 DEF dcc_socks5_proxy_traverse
      <4>2. Reads(d.phase + 1) /\ d.phase \in 0..7 /\ d.iotag = "none"
        BY <1>5, <2>1, <3>4, <3>5
      <4> QED BY <2>1, <4>1, <4>2, SendingFacts
    <3>6. CASE d.phase \notin {1, 3, 6}
      <4>1. d.iotag = "traverse" /\ d.wiotag = "none" /\ d.phase \in {2, 4, 7, 8}
        BY <1>5, <2>1, <3>4, <3>6 DEF Writes
      <4>2. \/ u \in {s, FailedRead(s, i), ToSend(s, i, 3), ToSend(s, i, 6)}
            \/ d.phase = 7 /\ u = ToRead(s, i)
            \/ u \in Through(s, i)
        BY <1>1, <3>2, <4>1 DEF dcc_socks5_proxy_traverse, Reading, Refused
      <4>3. d.phase = 7 => d.phase \in 0..7 /\ Reads(d.phase + 1) BY <3>4
      <4>4. d.phase = 7 => Done(s, ToRead(s, i), i) BY <2>1, <4>1, <4>3, ToReadFacts
      <4>5. u \in Through(s, i) => Done(s, u, i) BY <2>1, <4>1, ThroughFacts
      <4>6. Done(s, ToSend(s, i, 3), i) /\ Done(s, ToSend(s, i, 6), i) BY <2>3, <3>3, <4>1
      <4> QED BY <1>3, <2>2, <4>1, <4>2, <4>4, <4>5, <4>6
    <3> QED BY <3>5, <3>6
  <2>6. CASE ~May("socks") /\ ~May("socks5")
    <3>1. u \in dcc_http_proxy_traverse(s, i) BY <1>9, <2>6 DEF traverse
    <3>2. \A p : Reads(p) <=> p \in {2, 3} BY <1>7, <1>9, <2>6 DEF Reads
    <3>3. \A p : Writes(p) <=> p = 1 BY <2>6 DEF Writes
    <3>4. CASE d.phase = 1
      <4>1. u \in Sending(s, i) BY <1>1, <3>1, <3>4 DEF dcc_http_proxy_traverse
      <4>2. Reads(d.phase + 1) /\ d.phase \in 0..7 /\ d.iotag = "none"
        BY <1>5, <2>1, <3>2, <3>4
      <4> QED BY <2>1, <4>1, <4>2, SendingFacts
    <3>5. CASE d.phase # 1
      <4>1. d.iotag = "traverse" /\ d.wiotag = "none" /\ d.phase \in {2, 3}
        BY <1>5, <2>1, <3>2, <3>3, <3>5
      <4>2. \/ u \in {s, FailedRead(s, i)}
            \/ d.phase = 2 /\ u = ToRead(s, i)
            \/ u \in Through(s, i)
        BY <1>1, <3>1, <4>1 DEF dcc_http_proxy_traverse, Reading, Refused
      <4>3. d.phase = 2 => d.phase \in 0..7 /\ Reads(d.phase + 1) BY <3>2
      <4>4. d.phase = 2 => Done(s, ToRead(s, i), i) BY <2>1, <4>1, <4>3, ToReadFacts
      <4>5. u \in Through(s, i) => Done(s, u, i) BY <2>1, <4>1, ThroughFacts
      <4> QED BY <1>3, <2>2, <4>1, <4>2, <4>4, <4>5
    <3> QED BY <3>4, <3>5
  <2> QED BY <2>4, <2>5, <2>6
<1> QED BY <1>8, <1>9

(* Whatever watch fires, its entry is sound afterwards or freed.           *)
LEMMA RunFacts ==
  ASSUME NEW s, NEW i, NEW d, To(s, s, i, d), Sound(d), NEW cb \in {d.iotag, d.wiotag},
         NEW u \in Run(s, i, cb)
  PROVE  Done(s, u, i) \/ (May("hook") /\ Gone(s, u, i))
<1>1. d \in Entry /\ s.dcc[i] = d BY ToFacts
<1>2. d.stat \in Stat /\ d.type \in Type /\ cb \in Callback BY <1>1 DEF Entry
<1>3. cb = "dcc_accept" => d.iotag = "dcc_accept"
  BY <1>2 DEF Sound, Watching, Waiting, Running, Finished, Stat, Type, Chats
<1>4. CASE cb = "dcc_accept"
  <2>1. u \in dcc_accept(s, i) BY <1>4 DEF Run
  <2> QED BY <1>3, <1>4, <2>1, AcceptFacts
<1>5. CASE cb = "dcc_connect_finished"
  <2>1. u \in dcc_connect_finished(s, i) BY <1>5 DEF Run
  <2>2. d.stat = "CONNECTING" /\ d.wiotag = "none"
    BY <1>2, <1>5 DEF Sound, Watching, Waiting, Running, Finished, Stat, Type, Chats
  <2>3. Fresh(Unwatched(d)) BY <1>1, <2>2, FreshFacts
  <2> QED BY <2>1, <2>3, ConnectFinishedFacts
<1>6. CASE cb = "dcc_proxy_connect"
  <2>1. u \in dcc_proxy_connect(s, i) BY <1>6 DEF Run
  <2>2. d.iotag = "dcc_proxy_connect"
    BY <1>2, <1>6 DEF Sound, Watching, Waiting, Running, Finished, Stat, Type, Chats
  <2> QED BY <2>1, <2>2, ProxyConnectFacts
<1>7. CASE cb = "traverse"
  <2>1. u \in traverse(s, i) BY <1>7 DEF Run
  <2>2. "traverse" \in {d.iotag, d.wiotag} BY <1>7
  <2> QED BY <2>1, <2>2, TraverseFacts
<1>8. CASE cb = "dcc_read"
  <2>1. u \in dcc_read(s, i) BY <1>8 DEF Run
  <2>2. /\ d.stat = "ACTIVE" /\ d.type = "RECV" /\ ~d.dccchat
        /\ d.wiotag = "none" /\ d.iotag \in {"none", "dcc_read"}
    BY <1>2, <1>8 DEF Sound, Watching, Waiting, Running, Finished, Stat, Type, Chats
  <2> QED BY <2>1, <2>2, ReadFacts DEF Sound
<1>9. CASE cb = "dcc_send_data"
  <2>1. u \in dcc_send_data(s, i) BY <1>9 DEF Run
  <2>2. d.stat = "ACTIVE" /\ d.type = "SEND"
    BY <1>2, <1>9 DEF Sound, Watching, Waiting, Running, Finished, Stat, Type, Chats
  <2>3. d.type \notin Chats /\ d.type # "RECV" BY <2>2 DEF Chats
  <2> QED BY <2>1, <2>2, <2>3, SendDataFacts
<1>10. CASE cb = "dcc_read_ack"
  <2>1. u \in dcc_read_ack(s, i) BY <1>10 DEF Run
  <2>2. d.stat = "ACTIVE" /\ d.type = "SEND"
    BY <1>2, <1>10 DEF Sound, Watching, Waiting, Running, Finished, Stat, Type, Chats
  <2> QED BY <2>1, <2>2, ReadAckFacts
<1>11. CASE cb = "dcc_read_chat"
  <2>1. u \in dcc_read_chat(s, i) BY <1>11 DEF Run
  <2>2. d.stat = "ACTIVE" /\ d.type \in Chats
    BY <1>2, <1>11 DEF Sound, Watching, Waiting, Running, Finished, Stat, Type, Chats
  <2> QED BY <2>1, <2>2, ReadChatFacts
<1>12. CASE cb = "none" BY <1>12 DEF Run
<1> QED BY <1>2, <1>4, <1>5, <1>6, <1>7, <1>8, <1>9, <1>10, <1>11, <1>12 DEF Callback

-----------------------------------------------------------------------------
(* The timer's work on one entry. *)

LEMMA CalcFacts ==
  ASSUME NEW s, NEW i, NEW d, To(s, s, i, d), Sound(d), d.stat = "ACTIVE",
         NEW u \in dcc_calc_cps(s, i)
  PROVE  Done(s, u, i)
<1>1. /\ d \in Entry /\ s.dcc[i] = d /\ IsClient(s) /\ i \in DOMAIN s.dcc BY ToFacts
<1>2. d.type \in Type /\ d.cps \in 0..MaxCps BY <1>1 DEF Entry
<1>3. MaxCps \in Nat BY LimitAssumption
<1> DEFINE M(cps) == IF d.type = "SEND" THEN s.sendsum + cps - d.cps ELSE s.sendsum
           N(cps) == IF d.type = "SEND" THEN s.getsum ELSE s.getsum + cps - d.cps
           T(cps) == WithSums(With(s, i, SpeedOf(d, cps)), M(cps), N(cps))
           U(cps) == With(T(cps), i, [T(cps).dcc[i] EXCEPT !.throttled = Limits(T(cps), i)])
<1>4. /\ s.sendsum \in Nat /\ s.getsum \in Nat
      /\ s.sendsum >= SendShare(d) /\ s.getsum >= GetShare(d)
  BY <1>1 DEF IsClient, To, Funded
<1>5. PICK cps \in Speeds(d) :
        u \in IF d.throttled # {} /\ U(cps).dcc[i].throttled = {} THEN dcc_unthrottle(U(cps), i)
              ELSE {U(cps)}
  <2>1. PICK x \in Speeds(d) :
          u \in IF d.throttled # {} /\ Calculated(s, i, x).dcc[i].throttled = {}
                THEN dcc_unthrottle(Calculated(s, i, x), i) ELSE {Calculated(s, i, x)}
    BY <1>1 DEF dcc_calc_cps
  <2>2. Calculated(s, i, x) = U(x)
    <3>1. SpeedOf(d, x) = [d EXCEPT !.cps = x, !.moved = FALSE] BY DEF SpeedOf
    <3>2. s.dcc[i] = d BY <1>1
    <3> QED BY <3>1, <3>2, Zenon DEF Calculated, WithSums
  <2> HIDE DEF U
  <2> QED BY <2>1, <2>2
<1>6. cps \in 0..MaxCps BY <1>2, <1>3 DEF Speeds
<1> DEFINE e == SpeedOf(d, cps)
           m == M(cps)
           n == N(cps)
           w == With(s, i, e)
           t == T(cps)
<1>7. /\ Kin(d, e)
      /\ Fields(e, d.type, d.passive, d.stat, d.iotag, d.wiotag, d.stray, d.dccchat, d.throttled,
                cps, d.phase)
  BY <1>1, <1>6, SpeedFacts
<1>8. /\ m \in Nat /\ n \in Nat
      /\ m + SendShare(d) = s.sendsum + SendShare(e)
      /\ n + GetShare(d) = s.getsum + GetShare(e)
  <2>1. /\ d.type = "SEND" => SendShare(d) = d.cps /\ SendShare(e) = cps /\ GetShare(d) = 0 /\ GetShare(e) = 0
        /\ d.type # "SEND" => SendShare(d) = 0 /\ SendShare(e) = 0 /\ GetShare(d) = d.cps /\ GetShare(e) = cps
    <3> HIDE DEF e
    <3> QED BY <1>7 DEF Fields, SendShare, GetShare
  <2>2. d.cps \in Nat /\ cps \in Nat BY <1>2, <1>3, <1>6
  <2> HIDE DEF e
  <2> QED BY <1>4, <2>1, <2>2
<1> HIDE DEF e, m, n
<1>9. e \in Entry BY <1>7 DEF Kin
<1>10. /\ IsClient(w) /\ DOMAIN w.dcc = DOMAIN s.dcc /\ w.dcc[i] = e
       /\ \A j \in DOMAIN s.dcc : j # i => w.dcc[j] = s.dcc[j]
       /\ w.list = s.list /\ w.made = s.made /\ w.timer = s.timer /\ w.servs = s.servs
  BY <1>1, <1>9, WithFacts
<1>11. t = WithSums(w, m, n) BY DEF t, w, e, m, n
<1> HIDE DEF w, T
<1>12. /\ IsClient(t) /\ t.dcc = w.dcc
       /\ t.list = w.list /\ t.made = w.made /\ t.timer = w.timer /\ t.servs = w.servs
       /\ t.sendsum = m /\ t.getsum = n
  <2> HIDE DEF t
  <2> QED BY <1>8, <1>10, <1>11, SumsFacts
<1>13. To(s, t, i, e)
  <2> HIDE DEF t
  <2>1. GetShare(e) \in Nat /\ GetShare(d) \in Nat
    <3>1. i \in DOMAIN w.dcc BY <1>1, <1>10
    <3> QED BY <1>1, <1>10, <3>1, EntryAt
  <2>2. n + GetShare(d) >= s.getsum + GetShare(e)
    BY <1>4, <1>8, <2>1
  <2>3. /\ t.dcc[i] = e /\ DOMAIN t.dcc = DOMAIN s.dcc
        /\ \A j \in DOMAIN s.dcc : j # i => t.dcc[j] = s.dcc[j]
        /\ t.list = s.list /\ t.made = s.made /\ t.timer = s.timer /\ t.servs = s.servs
    BY <1>10, <1>12
  <2> QED BY <1>7, <1>8, <1>12, <2>2, <2>3, ToSums
<1> DEFINE L == Limits(t, i)
           f == ThrottledBy(e, L)
           v == With(t, i, f)
<1>14. L \in SUBSET {"own", "global"} /\ (L # {} => May("limit")) BY DEF Limits
<1>15. t.dcc[i] = e BY <1>10, <1>12
<1>16. U(cps) = v
  <2> HIDE DEF L
  <2>1. U(cps) = With(t, i, [t.dcc[i] EXCEPT !.throttled = L]) BY DEF L
  <2> HIDE DEF t, U
  <2> QED BY <1>15, <2>1 DEF ThrottledBy
<1> HIDE DEF L, t, U
<1>17. /\ Kin(e, f)
       /\ Fields(f, e.type, e.passive, e.stat, e.iotag, e.wiotag, e.stray, e.dccchat, L,
                 e.cps, e.phase)
  BY <1>9, <1>14, ThrottledFacts
<1> HIDE DEF f
<1>18. To(s, v, i, f)
  <2>1. SendShare(f) = SendShare(e) /\ GetShare(f) = GetShare(e) BY <1>17, SameShare DEF Fields
  <2> QED BY <1>13, <1>17, <2>1, ToWith
<1> HIDE DEF v
<1>19. v.dcc[i] = f /\ f.throttled = L BY <1>17, <1>18, ToFacts DEF Fields
<1>20. CASE d.throttled # {} /\ L = {} /\ d.type = "RECV"
  <2>1. u \in dcc_read(v, i)
    <3>1. v.dcc[i].type = "RECV" BY <1>7, <1>17, <1>19, <1>20 DEF Fields
    <3> QED BY <1>5, <1>16, <1>19, <1>20, <3>1 DEF dcc_unthrottle
  <2>2. /\ f.stat = "ACTIVE" /\ f.type = "RECV" /\ ~f.stray /\ ~f.dccchat /\ f.wiotag = "none"
        /\ f.iotag \in {"none", "dcc_read"} /\ f.throttled = {}
    BY <1>7, <1>17, <1>20 DEF Fields, Sound, Watching, Running, Chats
  <2> QED BY <1>18, <2>1, <2>2, ReadFacts
<1>21. (L = {} /\ d.type = "RECV" /\ d.throttled # {}) \/ Sound(f)
  BY <1>2, <1>7, <1>14, <1>17 DEF Fields, Sound, Watching, Running, Finished, Type, Chats
<1>22. CASE d.throttled # {} /\ L = {} /\ d.type # "RECV"
  <2>1. u \in dcc_send_data(v, i)
    <3>1. v.dcc[i].type # "RECV" BY <1>7, <1>17, <1>19, <1>22 DEF Fields
    <3> QED BY <1>5, <1>16, <1>19, <1>22, <3>1 DEF dcc_unthrottle
  <2>2. f.stat = "ACTIVE" /\ f.type # "RECV" /\ f.throttled = {} BY <1>7, <1>17, <1>22 DEF Fields
  <2> QED BY <1>18, <1>21, <1>22, <2>1, <2>2, SendDataFacts
<1>23. CASE ~(d.throttled # {} /\ L = {})
  <2>1. u = v BY <1>5, <1>16, <1>19, <1>23
  <2> QED BY <1>18, <1>21, <1>23, <2>1 DEF Done
<1> QED BY <1>20, <1>22, <1>23

-----------------------------------------------------------------------------
(* The list. *)

(* RemoveAt shifts the elements behind k forward.                          *)
LEMMA RemoveAtFacts ==
  ASSUME NEW S, NEW q \in Seq(S), NEW k \in 1..Len(q)
  PROVE  /\ RemoveAt(q, k) \in Seq(S)
         /\ Len(RemoveAt(q, k)) = Len(q) - 1
         /\ \A j \in 1..(Len(q) - 1) : RemoveAt(q, k)[j] = IF j < k THEN q[j] ELSE q[j + 1]
<1> DEFINE a == SubSeq(q, 1, k - 1)
           b == SubSeq(q, k + 1, Len(q))
<1>1. a \in Seq(S) /\ Len(a) = k - 1 /\ \A j \in 1..(k - 1) : a[j] = q[j]
  OBVIOUS
<1>2. b \in Seq(S) /\ Len(b) = Len(q) - k /\ \A j \in 1..(Len(q) - k) : b[j] = q[k + j]
  OBVIOUS
<1> HIDE DEF a, b
<1>3. a \o b \in Seq(S) /\ Len(a \o b) = Len(q) - 1
  <2>1. a \o b \in Seq(S) /\ Len(a \o b) = Len(a) + Len(b)
    BY <1>1, <1>2, ConcatProperties
  <2>2. Len(q) \in Nat OBVIOUS
  <2> QED BY <2>1, <2>2, <1>1, <1>2
<1>4. \A j \in 1..(Len(q) - 1) : (a \o b)[j] = IF j < k THEN q[j] ELSE q[j + 1]
  BY <1>1, <1>2
<1> QED BY <1>3, <1>4 DEF RemoveAt, a, b

LEMMA MinFacts ==
  ASSUME NEW T \in SUBSET Nat, T # {}
  PROVE  Min(T) \in T /\ \A y \in T : Min(T) <= y
BY SmallestExists DEF Min

(* g_slist_remove of an entry that is in the list, once.                   *)
LEMMA RemoveFacts ==
  ASSUME NEW q \in Seq(Id), IsInjective(q), NEW i \in ToSet(q), NEW r, r = RemoveFirst(q, i)
  PROVE  r \in Seq(Id) /\ IsInjective(r) /\ ToSet(r) = ToSet(q) \ {i}
<1> DEFINE n == Len(q)
<1>1. n \in Nat /\ DOMAIN q = 1..n OBVIOUS
<1> DEFINE I == {k \in 1..n : q[k] = i}
           k == Min(I)
<1>2. PICK m \in 1..n : q[m] = i BY <1>1 DEF ToSet
<1>3. r = RemoveAt(q, k)
  <2>1. \E j \in 1..Len(q) : q[j] = i BY <1>2
  <2>2. SelectInSeq(q, LAMBDA v : v = i) = IF I # {} THEN Min(I) ELSE 0 BY DEF SelectInSeq
  <2>3. I # {} BY <1>2
  <2> QED BY <2>1, <2>2, <2>3 DEF RemoveFirst
<1>4. k \in I
  <2>1. I \in SUBSET Nat /\ I # {} BY <1>1, <1>2
  <2> HIDE DEF I
  <2> QED BY <2>1, MinFacts
<1>5. k \in 1..n /\ q[k] = i BY <1>4
<1> HIDE DEF k, I
<1>6. /\ r \in Seq(Id) /\ Len(r) = n - 1
      /\ \A j \in 1..(n - 1) : r[j] = IF j < k THEN q[j] ELSE q[j + 1]
  BY <1>3, <1>5, RemoveAtFacts
<1>7. DOMAIN r = 1..(n - 1)
  <2>1. DOMAIN r = 1..Len(r) BY <1>6
  <2> QED BY <1>6, <2>1
<1> HIDE DEF n
<1> DEFINE back(j) == IF j < k THEN j ELSE j + 1
<1>8. \A j \in 1..(n - 1) : back(j) \in 1..n /\ back(j) # k /\ r[j] = q[back(j)]
  <2> SUFFICES ASSUME NEW j \in 1..(n - 1)
               PROVE  back(j) \in 1..n /\ back(j) # k /\ r[j] = q[back(j)]
    OBVIOUS
  <2>1. back(j) \in 1..n /\ back(j) # k BY <1>1, <1>5
  <2>2. r[j] = q[back(j)] BY <1>6
  <2> QED BY <2>1, <2>2
<1>9. \A j \in 1..n : j # k => \E x \in 1..(n - 1) : back(x) = j
  <2> SUFFICES ASSUME NEW j \in 1..n, j # k PROVE \E x \in 1..(n - 1) : back(x) = j
    OBVIOUS
  <2>1. CASE j < k
    <3>1. j \in 1..(n - 1) /\ back(j) = j BY <1>1, <1>5, <2>1
    <3> QED BY <3>1
  <2>2. CASE ~(j < k)
    <3>1. j - 1 \in 1..(n - 1) /\ back(j - 1) = j BY <1>1, <1>5, <2>2
    <3> QED BY <3>1
  <2> QED BY <2>1, <2>2
<1>10. \A x, y \in 1..(n - 1) : back(x) = back(y) => x = y BY <1>1, <1>5
<1> HIDE DEF back
<1>11. IsInjective(r)
  <2>1. \A a, b \in 1..n : q[a] = q[b] => a = b BY <1>1 DEF IsInjective
  <2>2. \A x, y \in 1..(n - 1) : r[x] = r[y] => x = y BY <1>8, <1>10, <2>1
  <2> QED BY <1>7, <2>2 DEF IsInjective
<1>12. \A x : x \in ToSet(r) => x \in ToSet(q) \ {i}
  <2> SUFFICES ASSUME NEW j \in 1..(n - 1) PROVE r[j] \in ToSet(q) \ {i} BY <1>7 DEF ToSet
  <2>1. back(j) \in 1..n /\ back(j) # k /\ r[j] = q[back(j)] BY <1>8
  <2>2. q[back(j)] # i BY <1>1, <1>5, <2>1 DEF IsInjective
  <2> QED BY <1>1, <2>1, <2>2 DEF ToSet
<1>13. \A x : x \in ToSet(q) \ {i} => x \in ToSet(r)
  <2> SUFFICES ASSUME NEW j \in 1..n, q[j] # i PROVE q[j] \in ToSet(r) BY <1>1 DEF ToSet
  <2>1. PICK x \in 1..(n - 1) : back(x) = j BY <1>5, <1>9
  <2>2. r[x] = q[j] BY <1>8, <2>1
  <2> QED BY <1>7, <2>2 DEF ToSet
<1> QED BY <1>6, <1>11, <1>12, <1>13

(* g_slist_prepend.                                                        *)
LEMMA PrependFacts ==
  ASSUME NEW q \in Seq(Id), IsInjective(q), NEW i \in Id, i \notin ToSet(q),
         NEW r, r = <<i>> \o q
  PROVE  r \in Seq(Id) /\ IsInjective(r) /\ ToSet(r) = ToSet(q) \cup {i}
<1> DEFINE n == Len(q)
<1>1. n \in Nat /\ DOMAIN q = 1..n OBVIOUS
<1>2. <<i>> \in Seq(Id) /\ Len(<<i>>) = 1 /\ <<i>>[1] = i OBVIOUS
<1>3. r \in Seq(Id) /\ Len(r) = n + 1 BY <1>2, ConcatProperties
<1>4. r[1] = i /\ \A j \in 1..n : r[j + 1] = q[j]
  BY <1>1, <1>2
<1>5. DOMAIN r = 1..(n + 1)
  <2>1. DOMAIN r = 1..Len(r) BY <1>3
  <2> QED BY <1>3, <2>1
<1> HIDE DEF n
<1>6. \A j \in 1..(n + 1) : j = 1 \/ (j - 1 \in 1..n /\ r[j] = q[j - 1])
  <2> SUFFICES ASSUME NEW j \in 1..(n + 1), j # 1 PROVE j - 1 \in 1..n /\ r[j] = q[j - 1]
    OBVIOUS
  <2>1. j - 1 \in 1..n /\ (j - 1) + 1 = j BY <1>1
  <2> QED BY <1>4, <2>1
<1>7. \A j \in 1..n : q[j] # i BY <1>1 DEF ToSet
<1>8. IsInjective(r)
  <2> SUFFICES ASSUME NEW a \in 1..(n + 1), NEW b \in 1..(n + 1), r[a] = r[b] PROVE a = b
    BY <1>5 DEF IsInjective
  <2>1. a \in Int /\ b \in Int BY <1>1
  <2>2. CASE a = 1 BY <1>4, <1>6, <1>7, <2>2
  <2>3. CASE b = 1 BY <1>4, <1>6, <1>7, <2>3
  <2>4. CASE a # 1 /\ b # 1
    <3>1. a - 1 \in 1..n /\ b - 1 \in 1..n /\ q[a - 1] = q[b - 1] BY <1>6, <2>4
    <3>2. a - 1 = b - 1 BY <1>1, <3>1 DEF IsInjective
    <3> QED BY <2>1, <3>2
  <2> QED BY <2>2, <2>3, <2>4
<1>9. ToSet(r) = ToSet(q) \cup {i}
  <2>1. \A x \in ToSet(r) : x \in ToSet(q) \cup {i}
    BY <1>1, <1>4, <1>5, <1>6 DEF ToSet
  <2>2. \A x \in ToSet(q) : x \in ToSet(r)
    <3> SUFFICES ASSUME NEW j \in 1..n PROVE q[j] \in ToSet(r) BY <1>1 DEF ToSet
    <3>1. j + 1 \in 1..(n + 1) BY <1>1
    <3> QED BY <1>4, <1>5, <3>1 DEF ToSet
  <2>3. i \in ToSet(r)
    <3>1. 1 \in 1..(n + 1) BY <1>1
    <3> QED BY <1>4, <1>5, <3>1 DEF ToSet
  <2> QED BY <2>1, <2>2, <2>3
<1> QED BY <1>3, <1>8, <1>9

-----------------------------------------------------------------------------
(* The invariant of the client. *)

Listed(s) == IsInjective(s.list) /\ ToSet(s.list) = DOMAIN s.dcc
Timed(s) == s.timer <=> DOMAIN s.dcc # {}
Served(s) == s.servs # {} /\ \A i \in DOMAIN s.dcc : s.dcc[i].serv \in s.servs
Summed(s) ==
    /\ s.sendsum = Speed(s, {"SEND"})
    /\ s.getsum >= Speed(s, Type \ {"SEND"})
    /\ Never({"chats"}) => s.getsum = Speed(s, Type \ {"SEND"})
Paired(s) ==
    Never({"nick"}) =>
      \A i, j \in DOMAIN s.dcc :
        {s.dcc[i].type, s.dcc[j].type} \subseteq Chats /\ s.dcc[i].nick = s.dcc[j].nick => i = j
Known(s) == \A i \in DOMAIN s.dcc : i <= s.made
AllSound(s) == \A i \in DOMAIN s.dcc : Sound(s.dcc[i])

Good(s) ==
    /\ IsClient(s) /\ Listed(s) /\ Timed(s) /\ Served(s) /\ Summed(s) /\ Paired(s) /\ Known(s)
    /\ AllSound(s)

SendShares(s) == [i \in Id |-> Share(s, {"SEND"}, i)]
GetShares(s) == [i \in Id |-> Share(s, Type \ {"SEND"}, i)]

LEMMA ShareFacts ==
  ASSUME NEW s, IsClient(s)
  PROVE  /\ SendShares(s) \in [Id -> Nat] /\ GetShares(s) \in [Id -> Nat]
         /\ \A i \in Id :
              /\ i \notin DOMAIN s.dcc => SendShares(s)[i] = 0 /\ GetShares(s)[i] = 0
              /\ i \in DOMAIN s.dcc => /\ SendShares(s)[i] = SendShare(s.dcc[i])
                                       /\ GetShares(s)[i] = GetShare(s.dcc[i])
         /\ Speed(s, {"SEND"}) = Total(SendShares(s))
         /\ Speed(s, Type \ {"SEND"}) = Total(GetShares(s))
<1>1. \A i \in Id :
        /\ i \notin DOMAIN s.dcc => Share(s, {"SEND"}, i) = 0 /\ Share(s, Type \ {"SEND"}, i) = 0
        /\ i \in DOMAIN s.dcc => /\ Share(s, {"SEND"}, i) = SendShare(s.dcc[i])
                                 /\ Share(s, Type \ {"SEND"}, i) = GetShare(s.dcc[i])
                                 /\ SendShare(s.dcc[i]) \in Nat /\ GetShare(s.dcc[i]) \in Nat
  <2> SUFFICES ASSUME NEW i \in Id
               PROVE  /\ i \notin DOMAIN s.dcc => Share(s, {"SEND"}, i) = 0 /\ Share(s, Type \ {"SEND"}, i) = 0
                      /\ i \in DOMAIN s.dcc => /\ Share(s, {"SEND"}, i) = SendShare(s.dcc[i])
                                               /\ Share(s, Type \ {"SEND"}, i) = GetShare(s.dcc[i])
                                               /\ SendShare(s.dcc[i]) \in Nat /\ GetShare(s.dcc[i]) \in Nat
    OBVIOUS
  <2>1. CASE i \notin DOMAIN s.dcc BY <2>1 DEF Share
  <2>2. CASE i \in DOMAIN s.dcc
    <3>1. SendShare(s.dcc[i]) \in Nat /\ GetShare(s.dcc[i]) \in Nat /\ s.dcc[i] \in Entry
      BY <2>2, EntryAt
    <3>2. s.dcc[i].type \in Type BY <3>1 DEF Entry
    <3> QED BY <2>2, <3>1, <3>2 DEF Share, SendShare, GetShare
  <2> QED BY <2>1, <2>2
<1>2. \A i \in Id : SendShares(s)[i] = Share(s, {"SEND"}, i) /\ GetShares(s)[i] = Share(s, Type \ {"SEND"}, i)
  BY DEF SendShares, GetShares
<1>3. SendShares(s) \in [Id -> Nat] /\ GetShares(s) \in [Id -> Nat]
  <2>1. \A i \in Id : Share(s, {"SEND"}, i) \in Nat /\ Share(s, Type \ {"SEND"}, i) \in Nat BY <1>1
  <2> QED BY <2>1 DEF SendShares, GetShares
<1>4. Speed(s, {"SEND"}) = Total(SendShares(s)) /\ Speed(s, Type \ {"SEND"}) = Total(GetShares(s))
  BY DEF Speed, SendShares, GetShares
<1> QED BY <1>1, <1>2, <1>3, <1>4

(* Any entry can be worked on. *)
LEMMA GoodTo ==
  ASSUME NEW s, Good(s), NEW i \in DOMAIN s.dcc
  PROVE  To(s, s, i, s.dcc[i]) /\ Sound(s.dcc[i])
<1>1. IsClient(s) /\ Summed(s) /\ Sound(s.dcc[i]) BY DEF Good, AllSound
<1>2. i \in Id /\ s.dcc[i] \in Entry BY <1>1, EntryAt
<1>3. /\ SendShares(s) \in [Id -> Nat] /\ GetShares(s) \in [Id -> Nat]
      /\ SendShares(s)[i] = SendShare(s.dcc[i]) /\ GetShares(s)[i] = GetShare(s.dcc[i])
      /\ Speed(s, {"SEND"}) = Total(SendShares(s))
      /\ Speed(s, Type \ {"SEND"}) = Total(GetShares(s))
  BY <1>1, <1>2, ShareFacts
<1>4. /\ Total(SendShares(s)) \in Nat /\ SendShares(s)[i] <= Total(SendShares(s))
      /\ Total(GetShares(s)) \in Nat /\ GetShares(s)[i] <= Total(GetShares(s))
  BY <1>2, <1>3, TotalAtLeast
<1>5. SendShare(s.dcc[i]) \in Nat /\ GetShare(s.dcc[i]) \in Nat BY <1>1, EntryAt
<1>6. s.sendsum \in Nat /\ s.getsum \in Nat BY <1>1 DEF IsClient
<1>7. Funded(s, s.dcc[i]) BY <1>1, <1>3, <1>4, <1>5, <1>6 DEF Summed, Funded
<1> QED BY <1>1, <1>7, ToStart

(* The same, but for the entry i itself.                                   *)
Near(s, i) ==
    /\ IsClient(s) /\ Listed(s) /\ Timed(s) /\ Served(s) /\ Summed(s) /\ Paired(s) /\ Known(s)
    /\ \A j \in DOMAIN s.dcc : j # i => Sound(s.dcc[j])
    /\ i \in DOMAIN s.dcc /\ (s.dcc[i].type \in Chats => May("chats"))

LEMMA GoodNear ==
  ASSUME NEW s, Good(s), NEW i \in DOMAIN s.dcc
  PROVE  Near(s, i)
BY DEF Good, Near, AllSound, Sound

(* It is kept whatever is done to the entry.                               *)
LEMMA ToKeeps ==
  ASSUME NEW s, NEW u, NEW i, NEW e, Near(s, i), To(s, u, i, e)
  PROVE  Near(u, i)
<1> DEFINE d == s.dcc[i]
<1>1. /\ IsClient(s) /\ IsClient(u) /\ i \in DOMAIN s.dcc /\ DOMAIN u.dcc = DOMAIN s.dcc
      /\ \A j \in DOMAIN s.dcc : j # i => u.dcc[j] = s.dcc[j]
      /\ u.dcc[i] = e /\ Kin(d, e)
      /\ u.list = s.list /\ u.made = s.made /\ u.timer = s.timer /\ u.servs = s.servs
  BY DEF To
<1>2. /\ u.sendsum + SendShare(d) = s.sendsum + SendShare(e)
      /\ u.getsum + GetShare(d) >= s.getsum + GetShare(e)
      /\ e.type \notin Chats => u.getsum + GetShare(d) = s.getsum + GetShare(e)
  BY DEF To
<1>3. \A j \in DOMAIN s.dcc : /\ u.dcc[j].type = s.dcc[j].type /\ u.dcc[j].nick = s.dcc[j].nick
                              /\ u.dcc[j].serv = s.dcc[j].serv
  <2> SUFFICES ASSUME NEW j \in DOMAIN s.dcc
               PROVE  /\ u.dcc[j].type = s.dcc[j].type /\ u.dcc[j].nick = s.dcc[j].nick
                      /\ u.dcc[j].serv = s.dcc[j].serv
    OBVIOUS
  <2>1. CASE j = i BY <1>1, <2>1 DEF Kin
  <2>2. CASE j # i BY <1>1, <2>2
  <2> QED BY <2>1, <2>2
<1>4. /\ Listed(s) /\ Timed(s) /\ Served(s) /\ Summed(s) /\ Paired(s) /\ Known(s)
      /\ \A j \in DOMAIN s.dcc : j # i => Sound(s.dcc[j])
      /\ d.type \in Chats => May("chats")
  BY DEF Near
<1>5. Listed(u) BY <1>1, <1>4 DEF Listed
<1>6. Timed(u) BY <1>1, <1>4 DEF Timed
<1>7. Served(u) BY <1>1, <1>3, <1>4 DEF Served
<1>8. Paired(u) BY <1>1, <1>3, <1>4 DEF Paired
<1>9. Known(u) BY <1>1, <1>4 DEF Known
<1>10. \A j \in DOMAIN u.dcc : j # i => Sound(u.dcc[j]) BY <1>1, <1>4
<1>12. i \in DOMAIN u.dcc /\ (u.dcc[i].type \in Chats => May("chats")) BY <1>1, <1>4 DEF Kin
<1>11. Summed(u)
  <2>1. /\ SendShares(s) \in [Id -> Nat] /\ GetShares(s) \in [Id -> Nat]
        /\ SendShares(u) \in [Id -> Nat] /\ GetShares(u) \in [Id -> Nat]
        /\ Speed(s, {"SEND"}) = Total(SendShares(s))
        /\ Speed(s, Type \ {"SEND"}) = Total(GetShares(s))
        /\ Speed(u, {"SEND"}) = Total(SendShares(u))
        /\ Speed(u, Type \ {"SEND"}) = Total(GetShares(u))
    BY <1>1, ShareFacts
  <2>2. \A j \in Id : j # i => /\ SendShares(u)[j] = SendShares(s)[j]
                               /\ GetShares(u)[j] = GetShares(s)[j]
    <3> SUFFICES ASSUME NEW j \in Id, j # i
                 PROVE  SendShares(u)[j] = SendShares(s)[j] /\ GetShares(u)[j] = GetShares(s)[j]
      OBVIOUS
    <3>1. CASE j \in DOMAIN s.dcc
      <4>1. u.dcc[j] = s.dcc[j] /\ j \in DOMAIN u.dcc BY <1>1, <3>1
      <4>2. /\ SendShares(s)[j] = SendShare(s.dcc[j]) /\ GetShares(s)[j] = GetShare(s.dcc[j])
            /\ SendShares(u)[j] = SendShare(u.dcc[j]) /\ GetShares(u)[j] = GetShare(u.dcc[j])
        BY <1>1, <3>1, <4>1, ShareFacts
      <4> QED BY <4>1, <4>2
    <3>2. CASE j \notin DOMAIN s.dcc
      <4>1. j \notin DOMAIN u.dcc BY <1>1, <3>2
      <4>2. /\ SendShares(s)[j] = 0 /\ GetShares(s)[j] = 0
            /\ SendShares(u)[j] = 0 /\ GetShares(u)[j] = 0
        BY <1>1, <3>2, <4>1, ShareFacts
      <4> QED BY <4>2
    <3> QED BY <3>1, <3>2
  <2>3. /\ i \in Id /\ SendShare(d) \in Nat /\ GetShare(d) \in Nat
        /\ SendShare(e) \in Nat /\ GetShare(e) \in Nat
    BY <1>1, EntryAt
  <2>4. /\ SendShares(s)[i] = SendShare(d) /\ GetShares(s)[i] = GetShare(d)
        /\ SendShares(u)[i] = SendShare(e) /\ GetShares(u)[i] = GetShare(e)
    BY <1>1, <2>3, ShareFacts
  <2> DEFINE gs == SendShares(s)
             hs == SendShares(u)
             gg == GetShares(s)
             hg == GetShares(u)
  <2>5. /\ Total(gs) \in Nat /\ Total(hs) \in Nat /\ Total(hs) + gs[i] = Total(gs) + hs[i]
    <3>1. gs \in [Id -> Nat] /\ hs \in [Id -> Nat] /\ i \in Id BY <2>1, <2>3
    <3>2. \A j \in Id : j # i => hs[j] = gs[j] BY <2>2
    <3> HIDE DEF gs, hs
    <3> QED BY <3>1, <3>2, TotalChange
  <2>6. /\ Total(gg) \in Nat /\ Total(hg) \in Nat /\ Total(hg) + gg[i] = Total(gg) + hg[i]
    <3>1. gg \in [Id -> Nat] /\ hg \in [Id -> Nat] /\ i \in Id BY <2>1, <2>3
    <3>2. \A j \in Id : j # i => hg[j] = gg[j] BY <2>2
    <3> HIDE DEF gg, hg
    <3> QED BY <3>1, <3>2, TotalChange
  <2>7. s.sendsum \in Nat /\ s.getsum \in Nat /\ u.sendsum \in Nat /\ u.getsum \in Nat
    BY <1>1 DEF IsClient
  <2>8. /\ s.sendsum = Total(gs) /\ s.getsum >= Total(gg)
        /\ Never({"chats"}) => s.getsum = Total(gg)
    BY <1>4, <2>1 DEF Summed
  <2>9. Never({"chats"}) => e.type \notin Chats
    BY <1>1, <1>4 DEF Kin, Never, May
  <2>10. /\ Total(hs) + SendShare(d) = Total(gs) + SendShare(e)
         /\ Total(hg) + GetShare(d) = Total(gg) + GetShare(e)
    BY <2>4, <2>5, <2>6
  <2> HIDE DEF gs, hs, gg, hg, d
  <2>11. u.sendsum = Total(hs) BY <1>2, <2>3, <2>5, <2>7, <2>8, <2>10
  <2>12. u.getsum >= Total(hg) BY <1>2, <2>3, <2>6, <2>7, <2>8, <2>10
  <2>13. Never({"chats"}) => u.getsum = Total(hg) BY <1>2, <2>3, <2>6, <2>7, <2>8, <2>9, <2>10
  <2>14. Speed(u, {"SEND"}) = Total(hs) /\ Speed(u, Type \ {"SEND"}) = Total(hg)
    BY <2>1 DEF hs, hg
  <2> QED BY <2>11, <2>12, <2>13, <2>14 DEF Summed
<1> QED BY <1>1, <1>5, <1>6, <1>7, <1>8, <1>9, <1>10, <1>11, <1>12 DEF Near

(* What was done leaves the entry sound, and so the client.                *)
LEMMA DoneGood ==
  ASSUME NEW s, Good(s), NEW u, NEW i, Done(s, u, i)
  PROVE  /\ Good(u) /\ DOMAIN u.dcc = DOMAIN s.dcc /\ u.list = s.list
         /\ \A j \in DOMAIN s.dcc : j # i => u.dcc[j] = s.dcc[j]
<1>1. PICK e : To(s, u, i, e) /\ Sound(e) BY DEF Done
<1>2. Near(u, i)
  <2>1. Near(s, i) BY <1>1, GoodNear DEF To
  <2> QED BY <1>1, <2>1, ToKeeps
<1>3. /\ u.dcc[i] = e /\ DOMAIN u.dcc = DOMAIN s.dcc /\ u.list = s.list
      /\ \A j \in DOMAIN s.dcc : j # i => u.dcc[j] = s.dcc[j]
  BY <1>1 DEF To
<1>4. AllSound(u) BY <1>1, <1>2, <1>3 DEF AllSound, Near
<1> QED BY <1>2, <1>3, <1>4 DEF Good, Near

(* Taking an entry out.                                                    *)
Without(t, i, q, D) ==
    [t EXCEPT !.dcc = [j \in DOMAIN t.dcc \ {i} |-> t.dcc[j]], !.list = q,
              !.timer = @ /\ D # {i}]

Lacks(u, t, i, q, D) ==
    /\ IsClient(u) /\ DOMAIN u.dcc = DOMAIN t.dcc \ {i}
    /\ \A j \in DOMAIN u.dcc : u.dcc[j] = t.dcc[j]
    /\ u.list = q /\ u.made = t.made /\ u.servs = t.servs
    /\ u.timer <=> (t.timer /\ D # {i})
    /\ u.sendsum = t.sendsum /\ u.getsum = t.getsum

LEMMA WithoutFacts ==
  ASSUME NEW t, IsClient(t), NEW i, NEW q \in Seq(Id), NEW D, NEW u,
         u = Without(t, i, q, D)
  PROVE  Lacks(u, t, i, q, D)
<1> DEFINE f == [j \in DOMAIN t.dcc \ {i} |-> t.dcc[j]]
<1>1. DOMAIN f = DOMAIN t.dcc \ {i} /\ \A j \in DOMAIN f : f[j] = t.dcc[j] OBVIOUS
<1>2. f \in [DOMAIN f -> Entry]
  <2>1. \A j \in DOMAIN t.dcc : t.dcc[j] \in Entry BY DEF IsClient
  <2> QED BY <2>1
<1>0. PICK b \in BOOLEAN : b = (t.timer /\ D # {i}) OBVIOUS
<1>3. u = [t EXCEPT !.dcc = f, !.list = q, !.timer = b] BY <1>0 DEF Without
<1>9. b <=> (t.timer /\ D # {i}) BY <1>0
<1> HIDE DEF f
<1>4. /\ t = [dcc |-> t.dcc, list |-> t.list, made |-> t.made, sendsum |-> t.sendsum,
              getsum |-> t.getsum, timer |-> t.timer, servs |-> t.servs]
  BY DEF IsClient
<1>5. u = [dcc |-> f, list |-> q, made |-> t.made, sendsum |-> t.sendsum,
           getsum |-> t.getsum, timer |-> b, servs |-> t.servs]
  BY <1>3, <1>4
<1>6. /\ u.dcc = f /\ u.list = q /\ u.timer = b /\ u.made = t.made /\ u.servs = t.servs
      /\ u.sendsum = t.sendsum /\ u.getsum = t.getsum
  BY <1>5
<1>7. /\ DOMAIN t.dcc \subseteq Id /\ t.made \in 0..Entries /\ t.sendsum \in Nat /\ t.getsum \in Nat
      /\ t.servs \subseteq Server
  BY DEF IsClient
<1>8. IsClient(u)
  <2>1. u = [dcc |-> u.dcc, list |-> u.list, made |-> u.made, sendsum |-> u.sendsum,
             getsum |-> u.getsum, timer |-> u.timer, servs |-> u.servs]
    BY <1>5, <1>6
  <2>2. DOMAIN u.dcc \subseteq Id /\ u.dcc \in [DOMAIN u.dcc -> Entry] BY <1>1, <1>2, <1>6, <1>7
  <2> QED BY <1>6, <1>7, <2>1, <2>2 DEF IsClient
<1> QED BY <1>1, <1>6, <1>8, <1>9 DEF Lacks

(* The client without an entry that has no share.                          *)
LEMMA TakenOut ==
  ASSUME NEW t, IsClient(t), Listed(t), Timed(t), Served(t), Summed(t), Paired(t), Known(t),
         NEW i \in DOMAIN t.dcc, \A j \in DOMAIN t.dcc : j # i => Sound(t.dcc[j]),
         SendShare(t.dcc[i]) = 0, GetShare(t.dcc[i]) = 0,
         NEW q, q = RemoveFirst(t.list, i), NEW D, D = DOMAIN t.dcc,
         NEW u, u = Without(t, i, q, D)
  PROVE  /\ Good(u) /\ DOMAIN u.dcc = DOMAIN t.dcc \ {i}
         /\ \A j \in DOMAIN u.dcc : u.dcc[j] = t.dcc[j]
         /\ u.servs = t.servs /\ u.made = t.made
<1>1. q \in Seq(Id) /\ IsInjective(q) /\ ToSet(q) = ToSet(t.list) \ {i}
  <2>1. t.list \in Seq(Id) BY DEF IsClient
  <2>2. IsInjective(t.list) /\ i \in ToSet(t.list) BY DEF Listed
  <2> QED BY <2>1, <2>2, RemoveFacts
<1>2. /\ IsClient(u) /\ DOMAIN u.dcc = DOMAIN t.dcc \ {i}
      /\ \A j \in DOMAIN u.dcc : u.dcc[j] = t.dcc[j]
      /\ u.list = q /\ u.made = t.made /\ u.servs = t.servs
      /\ u.timer <=> (t.timer /\ D # {i})
      /\ u.sendsum = t.sendsum /\ u.getsum = t.getsum
  <2>1. Lacks(u, t, i, q, D) BY <1>1, WithoutFacts
  <2> QED BY <2>1 DEF Lacks
<1>3. Listed(u) BY <1>1, <1>2 DEF Listed
<1>4. Timed(u)
  <2>1. t.timer BY DEF Timed
  <2>2. DOMAIN u.dcc # {} <=> D # {i} BY <1>2
  <2> QED BY <1>2, <2>1, <2>2 DEF Timed
<1>5. Served(u) BY <1>2 DEF Served
<1>6. Paired(u) BY <1>2 DEF Paired
<1>7. Known(u) BY <1>2 DEF Known
<1>8. AllSound(u) BY <1>2 DEF AllSound
<1>9. Summed(u)
  <2>1. SendShares(u) = SendShares(t) /\ GetShares(u) = GetShares(t)
    <3>1. \A j \in Id : SendShares(u)[j] = SendShares(t)[j] /\ GetShares(u)[j] = GetShares(t)[j]
      <4> SUFFICES ASSUME NEW j \in Id
                   PROVE  SendShares(u)[j] = SendShares(t)[j] /\ GetShares(u)[j] = GetShares(t)[j]
        OBVIOUS
      <4>1. CASE j \in DOMAIN u.dcc
        <5>1. u.dcc[j] = t.dcc[j] /\ j \in DOMAIN t.dcc BY <1>2, <4>1
        <5>2. /\ SendShares(t)[j] = SendShare(t.dcc[j]) /\ GetShares(t)[j] = GetShare(t.dcc[j])
              /\ SendShares(u)[j] = SendShare(u.dcc[j]) /\ GetShares(u)[j] = GetShare(u.dcc[j])
          BY <1>2, <4>1, <5>1, ShareFacts
        <5> QED BY <5>1, <5>2
      <4>2. CASE j \notin DOMAIN u.dcc
        <5>1. SendShares(u)[j] = 0 /\ GetShares(u)[j] = 0 BY <1>2, <4>2, ShareFacts
        <5>2. j = i \/ j \notin DOMAIN t.dcc BY <1>2, <4>2
        <5>3. CASE j = i
          <6>1. SendShares(t)[j] = SendShare(t.dcc[j]) /\ GetShares(t)[j] = GetShare(t.dcc[j])
            BY <5>3, ShareFacts
          <6> QED BY <5>1, <5>3, <6>1
        <5>4. CASE j \notin DOMAIN t.dcc
          <6>1. SendShares(t)[j] = 0 /\ GetShares(t)[j] = 0 BY <5>4, ShareFacts
          <6> QED BY <5>1, <6>1
        <5> QED BY <5>2, <5>3, <5>4
      <4> QED BY <4>1, <4>2
    <3>2. /\ SendShares(u) \in [Id -> Nat] /\ GetShares(u) \in [Id -> Nat]
          /\ SendShares(t) \in [Id -> Nat] /\ GetShares(t) \in [Id -> Nat]
      BY <1>2, ShareFacts
    <3> QED BY <3>1, <3>2
  <2>2. /\ Speed(u, {"SEND"}) = Total(SendShares(u))
        /\ Speed(u, Type \ {"SEND"}) = Total(GetShares(u))
        /\ Speed(t, {"SEND"}) = Total(SendShares(t))
        /\ Speed(t, Type \ {"SEND"}) = Total(GetShares(t))
    BY <1>2, ShareFacts
  <2> QED BY <1>2, <2>1, <2>2 DEF Summed
<1> QED BY <1>2, <1>3, <1>4, <1>5, <1>6, <1>7, <1>8, <1>9 DEF Good

(* The entry is closed, taken off the list and freed; the timer ends with  *)
(* the last one.                                                           *)
LEMMA DestroyGood ==
  ASSUME NEW s, Good(s), NEW w, NEW i, NEW e, To(s, w, i, e), NEW u, u = dcc_destroy(w, i)
  PROVE  /\ Good(u) /\ DOMAIN u.dcc = DOMAIN s.dcc \ {i}
         /\ \A j \in DOMAIN u.dcc : u.dcc[j] = s.dcc[j]
         /\ u.servs = s.servs /\ u.made = s.made
<1>1. PICK t : t = dcc_close(w, i, "QUEUED") OBVIOUS
<1>2. PICK x : x = Closed(e, "QUEUED") OBVIOUS
<1>3. PICK q : q = RemoveFirst(t.list, i) OBVIOUS
<1>4. u = Without(t, i, q, DOMAIN w.dcc) BY <1>1, <1>3 DEF dcc_destroy, Without
<1>5. To(s, t, i, x) BY <1>1, <1>2, ToClosed DEF Stat
<1>6. SendShare(x) = 0 /\ GetShare(x) = 0
  <2>1. e \in Entry BY ToFacts
  <2>2. Fields(x, e.type, e.passive, "QUEUED", "none", "none", e.stray, FALSE, e.throttled,
               e.cps, e.phase)
    BY <1>2, <2>1, ClosedFacts DEF Stat
  <2> QED BY <2>2 DEF Fields, SendShare, GetShare
<1>7. /\ IsClient(t) /\ Listed(t) /\ Timed(t) /\ Served(t) /\ Summed(t) /\ Paired(t) /\ Known(t)
      /\ \A j \in DOMAIN t.dcc : j # i => Sound(t.dcc[j])
  <2>1. Near(s, i) BY GoodNear DEF To
  <2>2. Near(t, i) BY <1>5, <2>1, ToKeeps
  <2> QED BY <2>2 DEF Near
<1>8. /\ i \in DOMAIN t.dcc /\ DOMAIN t.dcc = DOMAIN s.dcc /\ t.dcc[i] = x
      /\ t.servs = s.servs /\ t.made = s.made /\ DOMAIN w.dcc = DOMAIN s.dcc
      /\ \A j \in DOMAIN s.dcc : j # i => t.dcc[j] = s.dcc[j]
  BY <1>5 DEF To
<1>9. IsClient(t) /\ Listed(t) /\ Timed(t) /\ Served(t) /\ Summed(t) /\ Paired(t) /\ Known(t)
  BY <1>7
<1>10. /\ i \in DOMAIN t.dcc /\ \A j \in DOMAIN t.dcc : j # i => Sound(t.dcc[j])
  BY <1>7, <1>8
<1>11. SendShare(t.dcc[i]) = 0 /\ GetShare(t.dcc[i]) = 0 BY <1>6, <1>8
<1>12. DOMAIN w.dcc = DOMAIN t.dcc BY <1>8
<1>13. /\ Good(u) /\ DOMAIN u.dcc = DOMAIN t.dcc \ {i}
       /\ \A j \in DOMAIN u.dcc : u.dcc[j] = t.dcc[j]
       /\ u.servs = t.servs /\ u.made = t.made
  BY <1>3, <1>4, <1>9, <1>10, <1>11, <1>12, TakenOut
<1> QED BY <1>8, <1>13

(* The same for what is Gone.                                              *)
LEMMA GoneGood ==
  ASSUME NEW s, Good(s), NEW u, NEW i, Gone(s, u, i)
  PROVE  Good(u) /\ DOMAIN u.dcc = DOMAIN s.dcc \ {i}
<1>1. PICK w, e : To(s, w, i, e) /\ u = dcc_destroy(w, i) BY DEF Gone
<1> QED BY <1>1, DestroyGood

LEMMA DestroyedGood ==
  ASSUME NEW s, Good(s), NEW i \in DOMAIN s.dcc, NEW u, u = dcc_destroy(s, i)
  PROVE  /\ Good(u) /\ DOMAIN u.dcc = DOMAIN s.dcc \ {i}
         /\ \A j \in DOMAIN u.dcc : u.dcc[j] = s.dcc[j]
         /\ u.servs = s.servs /\ u.made = s.made
<1>1. To(s, s, i, s.dcc[i]) BY GoodTo
<1> QED BY <1>1, DestroyGood

(* One of the servers that are left.                                       *)
LEMMA MaxServer ==
  ASSUME NEW T \in SUBSET Server, T # {}
  PROVE  Max(T) \in T
<1>1. \E x \in T : \A y \in T : x >= y
  <2>1. CASE 2 \in T BY <2>1 DEF Server
  <2>2. CASE 2 \notin T
    <3>1. \A x \in T : x = 1 BY <2>2 DEF Server
    <3> QED BY <3>1
  <2> QED BY <2>1, <2>2
<1> QED BY <1>1 DEF Max

-----------------------------------------------------------------------------
(* New entries.                                                            *)

NewEntry(type, nick, passive, serv) ==
    [type |-> type, nick |-> nick, passive |-> passive, stat |-> "QUEUED",
     iotag |-> "none", wiotag |-> "none", stray |-> FALSE, sok |-> FALSE,
     fp |-> type = "SEND", dccchat |-> FALSE, throttled |-> {}, cps |-> 0,
     moved |-> FALSE, phase |-> 0, serv |-> serv]

IsNew(d, type, nick, passive, serv) ==
    /\ d \in Entry /\ d.nick = nick /\ d.serv = serv
    /\ Fields(d, type, passive, "QUEUED", "none", "none", FALSE, FALSE, {}, 0, 0)

LEMMA NewEntryFacts ==
  ASSUME NEW type \in Type, NEW nick \in Nick, NEW passive \in BOOLEAN, NEW serv \in Server
  PROVE  IsNew(NewEntry(type, nick, passive, serv), type, nick, passive, serv)
<1> DEFINE d == NewEntry(type, nick, passive, serv)
<1>1. PICK b \in BOOLEAN : b = (type = "SEND") OBVIOUS
<1> DEFINE no == FALSE
           z == 0
           nothing == {}
           none == "none"
           queued == "QUEUED"
<1>2. /\ no \in BOOLEAN /\ z \in 0..MaxCps /\ z \in 0..8 /\ nothing \in SUBSET {"own", "global"}
      /\ none \in Callback /\ queued \in Stat /\ serv \in 0..2
  BY LimitAssumption DEF Callback, Stat, Server
<1>3. no = FALSE /\ z = 0 /\ nothing = {} /\ none = "none" /\ queued = "QUEUED" OBVIOUS
<1>4. d = [type |-> type, nick |-> nick, passive |-> passive, stat |-> queued,
           iotag |-> none, wiotag |-> none, stray |-> no, sok |-> no,
           fp |-> b, dccchat |-> no, throttled |-> nothing, cps |-> z,
           moved |-> no, phase |-> z, serv |-> serv]
  BY <1>1 DEF NewEntry
<1> HIDE DEF no, z, nothing, none, queued, d
<1>5. d \in Entry BY <1>1, <1>2, <1>4 DEF Entry
<1>6. d.nick = nick /\ d.serv = serv BY <1>4
<1>7. Fields(d, type, passive, queued, none, none, no, no, nothing, z, z) BY <1>4 DEF Fields
<1>8. Fields(d, type, passive, "QUEUED", "none", "none", FALSE, FALSE, {}, 0, 0) BY <1>3, <1>7
<1>9. IsNew(d, type, nick, passive, serv) BY <1>5, <1>6, <1>8 DEF IsNew
<1> QED BY <1>9 DEF d

(* The client with the entry d at the head of the list.                    *)
Grown(s, d) ==
    [Put(s, s.made + 1, d) EXCEPT !.list = <<s.made + 1>> \o @, !.made = @ + 1, !.timer = TRUE]

Grows(u, s, i, d) ==
    /\ IsClient(u) /\ DOMAIN u.dcc = DOMAIN s.dcc \cup {i} /\ u.dcc[i] = d
    /\ \A j \in DOMAIN s.dcc : u.dcc[j] = s.dcc[j]
    /\ u.list = <<i>> \o s.list /\ u.made = i /\ u.timer /\ u.servs = s.servs
    /\ u.sendsum = s.sendsum /\ u.getsum = s.getsum

LEMMA GrownFacts ==
  ASSUME NEW s, IsClient(s), NEW d \in Entry, NEW i, i = s.made + 1, s.made < Entries,
         i \notin DOMAIN s.dcc, NEW u, u = Grown(s, d)
  PROVE  Grows(u, s, i, d) /\ i \in Id
<1>1. s.made \in 0..Entries /\ i \in Id BY EntriesAssumption DEF IsClient, Id
<1> DEFINE f == [j \in DOMAIN s.dcc \cup {i} |-> IF j = i THEN d ELSE s.dcc[j]]
           q == <<i>> \o s.list
           yes == TRUE
<1>2. u = [s EXCEPT !.dcc = f, !.list = q, !.made = i, !.timer = yes]
  <2>1. s = [dcc |-> s.dcc, list |-> s.list, made |-> s.made, sendsum |-> s.sendsum,
             getsum |-> s.getsum, timer |-> s.timer, servs |-> s.servs]
    BY DEF IsClient
  <2>2. Put(s, i, d) = [s EXCEPT !.dcc = f] BY DEF Put
  <2>3. u = [Put(s, i, d) EXCEPT !.list = <<i>> \o @, !.made = @ + 1, !.timer = TRUE] BY DEF Grown
  <2> HIDE DEF f
  <2>4. u = [[s EXCEPT !.dcc = f] EXCEPT !.list = <<i>> \o s.list, !.made = s.made + 1, !.timer = TRUE]
    BY <2>1, <2>2, <2>3
  <2> QED BY <2>1, <2>4
<1>3. DOMAIN f = DOMAIN s.dcc \cup {i} /\ f[i] = d /\ \A j \in DOMAIN s.dcc : f[j] = s.dcc[j]
  OBVIOUS
<1>4. f \in [DOMAIN f -> Entry]
  <2>1. \A j \in DOMAIN s.dcc : s.dcc[j] \in Entry BY DEF IsClient
  <2> QED BY <2>1
<1>5. q \in Seq(Id)
  <2>1. s.list \in Seq(Id) /\ <<i>> \in Seq(Id) BY <1>1 DEF IsClient
  <2> QED BY <2>1
<1>6. yes \in BOOLEAN /\ yes OBVIOUS
<1> HIDE DEF f, q, yes
<1>7. s = [dcc |-> s.dcc, list |-> s.list, made |-> s.made, sendsum |-> s.sendsum,
           getsum |-> s.getsum, timer |-> s.timer, servs |-> s.servs]
  BY DEF IsClient
<1>8. u = [dcc |-> f, list |-> q, made |-> i, sendsum |-> s.sendsum,
           getsum |-> s.getsum, timer |-> yes, servs |-> s.servs]
  BY <1>2, <1>7
<1>9. /\ u.dcc = f /\ u.list = q /\ u.timer = yes /\ u.made = i /\ u.servs = s.servs
      /\ u.sendsum = s.sendsum /\ u.getsum = s.getsum
  BY <1>8
<1>10. /\ DOMAIN s.dcc \subseteq Id /\ s.sendsum \in Nat /\ s.getsum \in Nat
       /\ s.servs \subseteq Server /\ i \in 0..Entries
  BY <1>1 DEF IsClient, Id
<1>11. IsClient(u)
  <2>1. u = [dcc |-> u.dcc, list |-> u.list, made |-> u.made, sendsum |-> u.sendsum,
             getsum |-> u.getsum, timer |-> u.timer, servs |-> u.servs]
    BY <1>8, <1>9
  <2>2. DOMAIN u.dcc \subseteq Id /\ u.dcc \in [DOMAIN u.dcc -> Entry]
    BY <1>1, <1>3, <1>4, <1>9, <1>10
  <2> QED BY <1>5, <1>6, <1>9, <1>10, <2>1, <2>2 DEF IsClient
<1>12. u.list = <<i>> \o s.list BY <1>9 DEF q
<1> QED BY <1>1, <1>3, <1>6, <1>9, <1>11, <1>12 DEF Grows

(* There is no chat with that peer yet.                                    *)
Alone(s, type, nick) ==
    Never({"nick"}) /\ type \in Chats =>
      \A j \in DOMAIN s.dcc : s.dcc[j].type \in Chats => s.dcc[j].nick # nick

(* A new entry keeps the invariant, but for itself: it has no share, its   *)
(* number is new and it has a server.                                      *)
LEMMA MadeNear ==
  ASSUME NEW s, Good(s), s.made < Entries, NEW type \in Type, NEW nick \in Nick,
         NEW passive \in BOOLEAN, type \in Chats => May("chats"), Alone(s, type, nick),
         NEW i, i = s.made + 1, NEW u, u = Made(s, type, nick, passive)
  PROVE  /\ Near(u, i)
         /\ \E d : /\ To(u, u, i, d)
                   /\ Fields(d, type, passive, "QUEUED", "none", "none", FALSE, FALSE, {}, 0, 0)
<1>1. /\ IsClient(s) /\ Listed(s) /\ Timed(s) /\ Served(s) /\ Summed(s) /\ Paired(s) /\ Known(s)
      /\ AllSound(s)
  BY DEF Good
<1>2. PICK d : d = NewEntry(type, nick, passive, Max(s.servs)) OBVIOUS
<1>3. Max(s.servs) \in s.servs /\ s.servs \in SUBSET Server BY <1>1, MaxServer DEF IsClient, Served
<1>4. /\ d \in Entry /\ d.nick = nick /\ d.serv \in s.servs
      /\ Fields(d, type, passive, "QUEUED", "none", "none", FALSE, FALSE, {}, 0, 0)
  <2>1. PICK v : v = Max(s.servs) OBVIOUS
  <2>2. v \in Server /\ d = NewEntry(type, nick, passive, v) BY <1>2, <1>3, <2>1
  <2>3. /\ d \in Entry /\ d.nick = nick /\ d.serv = v
        /\ Fields(d, type, passive, "QUEUED", "none", "none", FALSE, FALSE, {}, 0, 0)
    <3>1. v \in Server BY <2>2
    <3>2. IsNew(NewEntry(type, nick, passive, v), type, nick, passive, v) BY <3>1, NewEntryFacts
    <3>3. IsNew(d, type, nick, passive, v) BY <2>2, <3>2
    <3> QED BY <3>3 DEF IsNew
  <2> QED BY <1>3, <2>1, <2>3
<1>5. i \notin DOMAIN s.dcc
  <2>1. s.made \in Nat BY <1>1 DEF IsClient
  <2> QED BY <1>1, <2>1 DEF Known
<1>6. Grows(u, s, i, d) /\ i \in Id
  <2>1. u = Grown(s, d) BY <1>2 DEF Made, Grown, NewEntry
  <2> QED BY <1>1, <1>4, <1>5, <2>1, GrownFacts
<1>7. /\ IsClient(u) /\ DOMAIN u.dcc = DOMAIN s.dcc \cup {i} /\ u.dcc[i] = d
      /\ \A j \in DOMAIN s.dcc : u.dcc[j] = s.dcc[j]
      /\ u.list = <<i>> \o s.list /\ u.made = i /\ u.timer /\ u.servs = s.servs
      /\ u.sendsum = s.sendsum /\ u.getsum = s.getsum
  BY <1>6 DEF Grows
<1>8. SendShare(d) = 0 /\ GetShare(d) = 0 BY <1>4 DEF Fields, SendShare, GetShare
<1>9. To(u, u, i, d)
  <2>1. Funded(u, u.dcc[i]) BY <1>7, <1>8 DEF Funded, IsClient
  <2>2. i \in DOMAIN u.dcc BY <1>7
  <2>3. To(u, u, i, u.dcc[i]) BY <1>7, <2>1, <2>2, ToStart
  <2> QED BY <1>7, <2>3
<1>10. Listed(u)
  <2>1. s.list \in Seq(Id) /\ IsInjective(s.list) /\ i \notin ToSet(s.list)
    BY <1>1, <1>5 DEF IsClient, Listed
  <2>2. PICK r : r = <<i>> \o s.list OBVIOUS
  <2>3. IsInjective(r) /\ ToSet(r) = ToSet(s.list) \cup {i} BY <1>6, <2>1, <2>2, PrependFacts
  <2> QED BY <1>1, <1>7, <2>2, <2>3 DEF Listed
<1>11. Timed(u) BY <1>7 DEF Timed
<1>12. Served(u) BY <1>1, <1>4, <1>7 DEF Served
<1>13. Known(u)
  <2>1. s.made \in Nat /\ \A j \in DOMAIN s.dcc : j \in Nat BY <1>1 DEF IsClient, Id
  <2> QED BY <1>1, <1>7, <2>1 DEF Known
<1>14. Paired(u)
  <2> SUFFICES ASSUME Never({"nick"}), NEW j \in DOMAIN u.dcc, NEW k \in DOMAIN u.dcc,
                      {u.dcc[j].type, u.dcc[k].type} \subseteq Chats,
                      u.dcc[j].nick = u.dcc[k].nick
               PROVE  j = k
    BY DEF Paired
  <2>1. d.type = type BY <1>4 DEF Fields
  <2>2. CASE j = i /\ k \in DOMAIN s.dcc BY <1>4, <1>7, <2>1, <2>2 DEF Alone
  <2>3. CASE k = i /\ j \in DOMAIN s.dcc BY <1>4, <1>7, <2>1, <2>3 DEF Alone
  <2>4. CASE j \in DOMAIN s.dcc /\ k \in DOMAIN s.dcc BY <1>1, <1>7, <2>4 DEF Paired
  <2> QED BY <1>7, <2>2, <2>3, <2>4
<1>15. Summed(u)
  <2>1. \A j \in Id : SendShares(u)[j] = SendShares(s)[j] /\ GetShares(u)[j] = GetShares(s)[j]
    <3> SUFFICES ASSUME NEW j \in Id
                 PROVE  SendShares(u)[j] = SendShares(s)[j] /\ GetShares(u)[j] = GetShares(s)[j]
      OBVIOUS
    <3>1. CASE j \in DOMAIN s.dcc
      <4>1. u.dcc[j] = s.dcc[j] /\ j \in DOMAIN u.dcc BY <1>7, <3>1
      <4>2. /\ SendShares(s)[j] = SendShare(s.dcc[j]) /\ GetShares(s)[j] = GetShare(s.dcc[j])
            /\ SendShares(u)[j] = SendShare(u.dcc[j]) /\ GetShares(u)[j] = GetShare(u.dcc[j])
        BY <1>1, <1>7, <3>1, <4>1, ShareFacts
      <4> QED BY <4>1, <4>2
    <3>2. CASE j \notin DOMAIN s.dcc
      <4>1. SendShares(s)[j] = 0 /\ GetShares(s)[j] = 0 BY <1>1, <3>2, ShareFacts
      <4>2. CASE j = i
        <5>1. SendShares(u)[j] = SendShare(u.dcc[j]) /\ GetShares(u)[j] = GetShare(u.dcc[j])
          BY <1>7, <4>2, ShareFacts
        <5> QED BY <1>7, <1>8, <4>1, <4>2, <5>1
      <4>3. CASE j # i
        <5>1. j \notin DOMAIN u.dcc BY <1>7, <3>2, <4>3
        <5>2. SendShares(u)[j] = 0 /\ GetShares(u)[j] = 0 BY <1>7, <5>1, ShareFacts
        <5> QED BY <4>1, <5>2
      <4> QED BY <4>2, <4>3
    <3> QED BY <3>1, <3>2
  <2>2. /\ SendShares(u) \in [Id -> Nat] /\ GetShares(u) \in [Id -> Nat]
        /\ SendShares(s) \in [Id -> Nat] /\ GetShares(s) \in [Id -> Nat]
    BY <1>1, <1>7, ShareFacts
  <2>3. SendShares(u) = SendShares(s) /\ GetShares(u) = GetShares(s) BY <2>1, <2>2
  <2>4. /\ Speed(u, {"SEND"}) = Total(SendShares(u))
        /\ Speed(u, Type \ {"SEND"}) = Total(GetShares(u))
        /\ Speed(s, {"SEND"}) = Total(SendShares(s))
        /\ Speed(s, Type \ {"SEND"}) = Total(GetShares(s))
    BY <1>1, <1>7, ShareFacts
  <2> QED BY <1>1, <1>7, <2>3, <2>4 DEF Summed
<1>16. \A j \in DOMAIN u.dcc : j # i => Sound(u.dcc[j]) BY <1>1, <1>7 DEF AllSound
<1>17. i \in DOMAIN u.dcc /\ (u.dcc[i].type \in Chats => May("chats")) BY <1>4, <1>7 DEF Fields
<1>18. Near(u, i)
  BY <1>7, <1>10, <1>11, <1>12, <1>13, <1>14, <1>15, <1>16, <1>17 DEF Near
<1> QED BY <1>4, <1>9, <1>18

LEMMA NearDone ==
  ASSUME NEW s, NEW u, NEW i, NEW e, Near(s, i), To(s, u, i, e), Sound(e)
  PROVE  Good(u)
<1>1. Near(u, i) BY ToKeeps
<1>2. u.dcc[i] = e BY DEF To
<1> QED BY <1>1, <1>2 DEF Near, Good, AllSound

(* An offer received, or a passive one of ours, has no watch.              *)
LEMMA MadeGood ==
  ASSUME NEW s, Good(s), s.made < Entries, NEW type \in Type, NEW nick \in Nick,
         NEW passive \in BOOLEAN, type \in Chats => May("chats"), Alone(s, type, nick),
         type \in {"RECV", "CHATRECV"} \/ passive
  PROVE  Good(Made(s, type, nick, passive))
<1>1. PICK u : u = Made(s, type, nick, passive) OBVIOUS
<1>2. PICK i : i = s.made + 1 OBVIOUS
<1>3. Near(u, i) /\ \E d : /\ To(u, u, i, d)
                           /\ Fields(d, type, passive, "QUEUED", "none", "none", FALSE, FALSE, {}, 0, 0)
  BY <1>1, <1>2, MadeNear
<1>4. PICK d : /\ To(u, u, i, d)
               /\ Fields(d, type, passive, "QUEUED", "none", "none", FALSE, FALSE, {}, 0, 0)
  BY <1>3
<1>5. Sound(d)
  BY <1>4 DEF Fields, Sound, Watching, Offers, Finished
<1>6. Good(u) BY <1>3, <1>4, <1>5, NearDone
<1> QED BY <1>1, <1>6

(* Our offers: a direct one listens at once.                               *)
LEMMA OfferGood ==
  ASSUME NEW s, Good(s), s.made < Entries, NEW type \in {"SEND", "CHATSEND"}, NEW nick \in Nick,
         NEW passive \in BOOLEAN, type \in Chats => May("chats"), Alone(s, type, nick)
  PROVE  Good(Offer(s, type, nick, passive))
<1>0. type \in Type BY DEF Type
<1>1. CASE passive
  <2>1. Good(Made(s, type, nick, passive)) BY <1>0, <1>1, MadeGood
  <2> QED BY <1>1, <2>1 DEF Offer
<1>2. CASE ~passive
  <2>1. PICK u : u = Made(s, type, nick, passive) OBVIOUS
  <2>2. PICK i : i = s.made + 1 OBVIOUS
  <2>3. Near(u, i) /\ \E d : /\ To(u, u, i, d)
                             /\ Fields(d, type, passive, "QUEUED", "none", "none", FALSE, FALSE, {}, 0, 0)
    BY <1>0, <2>1, <2>2, MadeNear
  <2>4. PICK d : /\ To(u, u, i, d)
                 /\ Fields(d, type, passive, "QUEUED", "none", "none", FALSE, FALSE, {}, 0, 0)
    BY <2>3
  <2>5. PICK e : e = SokOf(d) OBVIOUS
  <2>6. PICK x : x = Watched(e, "dcc_accept") OBVIOUS
  <2>7. PICK t : t = WithSok(u, i) OBVIOUS
  <2>8. PICK v : v = add_iotag(t, i, "dcc_accept") OBVIOUS
  <2>9. d \in Entry BY <2>4, ToFacts
  <2>10. To(u, t, i, e) BY <2>4, <2>5, <2>7, ToSok
  <2>11. /\ e \in Entry
         /\ Fields(e, type, passive, "QUEUED", "none", "none", FALSE, FALSE, {}, 0, 0)
    <3>1. Fields(e, d.type, d.passive, d.stat, d.iotag, d.wiotag, d.stray, d.dccchat, d.throttled,
                 d.cps, d.phase) /\ e \in Entry
      BY <2>5, <2>9, SokFacts DEF Kin
    <3> QED BY <2>4, <3>1 DEF Fields
  <2>12. e.iotag = "none" /\ "dcc_accept" \in Callback BY <2>11 DEF Fields, Callback
  <2>13. To(u, v, i, x) BY <2>6, <2>8, <2>10, <2>12, ToWatched
  <2>14. Fields(x, type, passive, "QUEUED", "dcc_accept", "none", FALSE, FALSE, {}, 0, 0)
    <3>1. Fields(x, e.type, e.passive, e.stat, "dcc_accept", e.wiotag, e.stray, e.dccchat, e.throttled,
                 e.cps, e.phase)
      BY <2>6, <2>11, <2>12, WatchedFacts
    <3> QED BY <2>11, <3>1 DEF Fields
  <2>15. Sound(x)
    BY <1>2, <2>14 DEF Fields, Sound, Watching, Offers, Finished
  <2>16. Good(v) BY <2>3, <2>13, <2>15, NearDone
  <2>17. Offer(s, type, nick, passive) = v
    BY <1>2, <2>1, <2>2, <2>7, <2>8 DEF Offer, dcc_listen_init
  <2> QED BY <2>16, <2>17
<1> QED BY <1>1, <1>2

-----------------------------------------------------------------------------
(* Looking a chat up, and removing it.                                     *)

LEMMA FindFacts ==
  ASSUME NEW s, IsClient(s), Listed(s), NEW nick, NEW type, NEW f, f = find_dcc(s, nick, type)
  PROVE  \/ f = 0 /\ \A j \in DOMAIN s.dcc : ~(s.dcc[j].type = type /\ s.dcc[j].nick = nick)
         \/ f # 0 /\ f \in DOMAIN s.dcc /\ s.dcc[f].type = type /\ s.dcc[f].nick = nick
<1> DEFINE n == Len(s.list)
           F == {k \in 1..n : s.dcc[s.list[k]].type = type /\ s.dcc[s.list[k]].nick = nick}
<1>1. s.list \in Seq(Id) /\ DOMAIN s.list = 1..n /\ n \in Nat /\ DOMAIN s.dcc \subseteq Id
  BY DEF IsClient
<1>2. f = IF F = {} THEN 0 ELSE s.list[Min(F)] BY DEF find_dcc
<1>3. F \in SUBSET Nat /\ F \subseteq 1..n BY <1>1
<1>4. \A k \in F : s.dcc[s.list[k]].type = type /\ s.dcc[s.list[k]].nick = nick OBVIOUS
<1>5. \A k \in 1..n : s.dcc[s.list[k]].type = type /\ s.dcc[s.list[k]].nick = nick => k \in F OBVIOUS
<1> HIDE DEF n, F
<1>6. CASE F = {}
  <2>1. \A j \in DOMAIN s.dcc : ~(s.dcc[j].type = type /\ s.dcc[j].nick = nick)
    <3> SUFFICES ASSUME NEW j \in DOMAIN s.dcc, s.dcc[j].type = type, s.dcc[j].nick = nick
                 PROVE  FALSE
      OBVIOUS
    <3>1. PICK k \in 1..n : s.list[k] = j BY <1>1 DEF Listed, ToSet
    <3> QED BY <1>5, <1>6, <3>1
  <2> QED BY <1>2, <1>6, <2>1
<1>7. CASE F # {}
  <2>1. Min(F) \in F BY <1>3, <1>7, MinFacts
  <2>2. f = s.list[Min(F)] BY <1>2, <1>7
  <2>3. f \in DOMAIN s.dcc BY <1>1, <1>3, <2>1, <2>2 DEF Listed, ToSet
  <2>4. f # 0 BY <1>1, <2>3 DEF Id
  <2> QED BY <1>4, <2>1, <2>2, <2>3, <2>4
<1> QED BY <1>6, <1>7

Cleared(t, s, nick, type) ==
    /\ Good(t) /\ DOMAIN t.dcc \subseteq DOMAIN s.dcc /\ t.made = s.made
    /\ \A j \in DOMAIN t.dcc : t.dcc[j] = s.dcc[j]
    /\ Never({"nick"}) => \A j \in DOMAIN t.dcc : ~(t.dcc[j].type = type /\ t.dcc[j].nick = nick)

(* Where nobody changes nick the chat found is the only one.               *)
LEMMA ClearedFacts ==
  ASSUME NEW s, Good(s), NEW nick, NEW type \in Chats, NEW f, f = find_dcc(s, nick, type),
         NEW t, t = IF f = 0 THEN s ELSE dcc_destroy(s, f)
  PROVE  Cleared(t, s, nick, type)
<1>1. IsClient(s) /\ Listed(s) /\ Paired(s) BY DEF Good
<1>2. \/ f = 0 /\ \A j \in DOMAIN s.dcc : ~(s.dcc[j].type = type /\ s.dcc[j].nick = nick)
      \/ f # 0 /\ f \in DOMAIN s.dcc /\ s.dcc[f].type = type /\ s.dcc[f].nick = nick
  BY <1>1, FindFacts
<1>3. CASE f = 0 BY <1>2, <1>3 DEF Cleared
<1>4. CASE f # 0
  <2>1. f \in DOMAIN s.dcc /\ s.dcc[f].type = type /\ s.dcc[f].nick = nick BY <1>2, <1>4
  <2>2. /\ Good(t) /\ DOMAIN t.dcc = DOMAIN s.dcc \ {f} /\ t.made = s.made
        /\ \A j \in DOMAIN t.dcc : t.dcc[j] = s.dcc[j]
    <3>1. t = dcc_destroy(s, f) BY <1>4
    <3> QED BY <2>1, <3>1, DestroyedGood
  <2>3. ASSUME Never({"nick"}), NEW j \in DOMAIN t.dcc, t.dcc[j].type = type, t.dcc[j].nick = nick
        PROVE  FALSE
    <3>1. j \in DOMAIN s.dcc /\ j # f /\ s.dcc[j].type = type /\ s.dcc[j].nick = nick
      BY <2>2, <2>3
    <3> QED BY <1>1, <2>1, <2>3, <3>1 DEF Paired
  <2> QED BY <2>2, <2>3 DEF Cleared
<1> QED BY <1>3, <1>4

-----------------------------------------------------------------------------
(* What changes all entries at once.                                       *)

LEMMA SameSound ==
  ASSUME NEW d, NEW e, Sound(d),
         Fields(e, d.type, d.passive, d.stat, d.iotag, d.wiotag, d.stray, d.dccchat, d.throttled,
                d.cps, d.phase)
  PROVE  Sound(e) /\ SendShare(e) = SendShare(d) /\ GetShare(e) = GetShare(d)
<1>1. /\ e.type = d.type /\ e.passive = d.passive /\ e.stat = d.stat /\ e.iotag = d.iotag
      /\ e.wiotag = d.wiotag /\ e.stray = d.stray /\ e.dccchat = d.dccchat
      /\ e.throttled = d.throttled /\ e.cps = d.cps /\ e.phase = d.phase
  BY DEF Fields
<1>2. Offers(e) <=> Offers(d) BY <1>1 DEF Offers
<1>3. Waiting(e) <=> Waiting(d) BY <1>1 DEF Waiting, Answers
<1>4. Running(e) <=> Running(d) BY <1>1 DEF Running
<1>5. Watching(e) <=> Watching(d) BY <1>1, <1>2, <1>3, <1>4 DEF Watching, Finished
<1>6. Sound(e) BY <1>1, <1>5 DEF Sound
<1> QED BY <1>1, <1>6, SameShare

Reset(s, f, T) == [s EXCEPT !.dcc = f, !.servs = T]

(* Every entry stays as it is, but for the nick or the server.             *)
Alike(s, f) ==
    /\ f \in [DOMAIN s.dcc -> Entry]
    /\ \A j \in DOMAIN s.dcc :
         LET d == s.dcc[j] IN
         Fields(f[j], d.type, d.passive, d.stat, d.iotag, d.wiotag, d.stray, d.dccchat, d.throttled,
                d.cps, d.phase)

LEMMA ResetGood ==
  ASSUME NEW s, Good(s), NEW f, Alike(s, f), NEW T \in SUBSET Server,
         NEW u, u = Reset(s, f, T), Served(u), Paired(u)
  PROVE  Good(u) /\ DOMAIN u.dcc = DOMAIN s.dcc
<1>1. IsClient(s) /\ Listed(s) /\ Timed(s) /\ Summed(s) /\ Known(s) /\ AllSound(s) BY DEF Good
<1>2. s = [dcc |-> s.dcc, list |-> s.list, made |-> s.made, sendsum |-> s.sendsum,
           getsum |-> s.getsum, timer |-> s.timer, servs |-> s.servs]
  BY <1>1 DEF IsClient
<1>3. u = [dcc |-> f, list |-> s.list, made |-> s.made, sendsum |-> s.sendsum,
           getsum |-> s.getsum, timer |-> s.timer, servs |-> T]
  BY <1>2 DEF Reset
<1>4. /\ u.dcc = f /\ u.list = s.list /\ u.made = s.made /\ u.timer = s.timer /\ u.servs = T
      /\ u.sendsum = s.sendsum /\ u.getsum = s.getsum
  BY <1>3
<1>5. DOMAIN u.dcc = DOMAIN s.dcc /\ u.dcc \in [DOMAIN u.dcc -> Entry] BY <1>4 DEF Alike
<1>6. IsClient(u)
  <2>1. u = [dcc |-> u.dcc, list |-> u.list, made |-> u.made, sendsum |-> u.sendsum,
             getsum |-> u.getsum, timer |-> u.timer, servs |-> u.servs]
    BY <1>3, <1>4
  <2>2. /\ DOMAIN s.dcc \subseteq Id /\ s.list \in Seq(Id) /\ s.made \in 0..Entries
        /\ s.sendsum \in Nat /\ s.getsum \in Nat /\ s.timer \in BOOLEAN
    BY <1>1 DEF IsClient
  <2> QED BY <1>4, <1>5, <2>1, <2>2 DEF IsClient
<1>7. \A j \in DOMAIN s.dcc : /\ Sound(u.dcc[j])
                              /\ SendShare(u.dcc[j]) = SendShare(s.dcc[j])
                              /\ GetShare(u.dcc[j]) = GetShare(s.dcc[j])
  <2> SUFFICES ASSUME NEW j \in DOMAIN s.dcc
               PROVE  /\ Sound(u.dcc[j])
                      /\ SendShare(u.dcc[j]) = SendShare(s.dcc[j])
                      /\ GetShare(u.dcc[j]) = GetShare(s.dcc[j])
    OBVIOUS
  <2>1. PICK d : d = s.dcc[j] OBVIOUS
  <2>2. PICK e : e = u.dcc[j] OBVIOUS
  <2>3. Sound(d) BY <1>1, <2>1 DEF AllSound
  <2>4. Fields(e, d.type, d.passive, d.stat, d.iotag, d.wiotag, d.stray, d.dccchat, d.throttled,
               d.cps, d.phase)
    BY <1>4, <2>1, <2>2 DEF Alike
  <2>5. Sound(e) /\ SendShare(e) = SendShare(d) /\ GetShare(e) = GetShare(d)
    BY <2>3, <2>4, SameSound
  <2> QED BY <2>1, <2>2, <2>5
<1>8. AllSound(u) BY <1>5, <1>7 DEF AllSound
<1>9. Listed(u) /\ Timed(u) /\ Known(u) BY <1>1, <1>4, <1>5 DEF Listed, Timed, Known
<1>10. Summed(u)
  <2>1. \A j \in Id : SendShares(u)[j] = SendShares(s)[j] /\ GetShares(u)[j] = GetShares(s)[j]
    <3> SUFFICES ASSUME NEW j \in Id
                 PROVE  SendShares(u)[j] = SendShares(s)[j] /\ GetShares(u)[j] = GetShares(s)[j]
      OBVIOUS
    <3>1. CASE j \in DOMAIN s.dcc
      <4>1. j \in DOMAIN u.dcc BY <1>5, <3>1
      <4>2. /\ SendShares(s)[j] = SendShare(s.dcc[j]) /\ GetShares(s)[j] = GetShare(s.dcc[j])
            /\ SendShares(u)[j] = SendShare(u.dcc[j]) /\ GetShares(u)[j] = GetShare(u.dcc[j])
        BY <1>1, <1>6, <3>1, <4>1, ShareFacts
      <4> QED BY <1>7, <3>1, <4>2
    <3>2. CASE j \notin DOMAIN s.dcc
      <4>1. j \notin DOMAIN u.dcc BY <1>5, <3>2
      <4>2. /\ SendShares(s)[j] = 0 /\ GetShares(s)[j] = 0
            /\ SendShares(u)[j] = 0 /\ GetShares(u)[j] = 0
        BY <1>1, <1>6, <3>2, <4>1, ShareFacts
      <4> QED BY <4>2
    <3> QED BY <3>1, <3>2
  <2>2. /\ SendShares(u) \in [Id -> Nat] /\ GetShares(u) \in [Id -> Nat]
        /\ SendShares(s) \in [Id -> Nat] /\ GetShares(s) \in [Id -> Nat]
    BY <1>1, <1>6, ShareFacts
  <2>3. SendShares(u) = SendShares(s) /\ GetShares(u) = GetShares(s) BY <2>1, <2>2
  <2>4. /\ Speed(u, {"SEND"}) = Total(SendShares(u))
        /\ Speed(u, Type \ {"SEND"}) = Total(GetShares(u))
        /\ Speed(s, {"SEND"}) = Total(SendShares(s))
        /\ Speed(s, Type \ {"SEND"}) = Total(GetShares(s))
    BY <1>1, <1>6, ShareFacts
  <2> QED BY <1>1, <1>4, <2>3, <2>4 DEF Summed
<1> QED BY <1>5, <1>6, <1>8, <1>9, <1>10 DEF Good

NickOf(d, nick) == [d EXCEPT !.nick = nick]
ServOf(d, v) == [d EXCEPT !.serv = v]

LEMMA NickFacts ==
  ASSUME NEW d \in Entry, NEW nick \in Nick, NEW e, e = NickOf(d, nick)
  PROVE  /\ e \in Entry /\ e.serv = d.serv
         /\ Fields(e, d.type, d.passive, d.stat, d.iotag, d.wiotag, d.stray, d.dccchat, d.throttled,
                   d.cps, d.phase)
BY DEF Entry, NickOf, Fields

LEMMA ServFacts ==
  ASSUME NEW d \in Entry, NEW v \in Server, NEW e, e = ServOf(d, v)
  PROVE  /\ e \in Entry /\ e.serv = v /\ e.nick = d.nick
         /\ Fields(e, d.type, d.passive, d.stat, d.iotag, d.wiotag, d.stray, d.dccchat, d.throttled,
                   d.cps, d.phase)
<1>1. v \in 0..2 BY DEF Server
<1> QED BY <1>1 DEF Entry, ServOf, Fields

LEMMA SameFields ==
  ASSUME NEW d
  PROVE  Fields(d, d.type, d.passive, d.stat, d.iotag, d.wiotag, d.stray, d.dccchat, d.throttled,
                d.cps, d.phase)
BY DEF Fields

LEMMA TwoUpdates ==
  ASSUME NEW s, IsClient(s), NEW f, NEW T
  PROVE  [[s EXCEPT !.servs = T] EXCEPT !.dcc = f] = Reset(s, f, T)
<1>1. s = [dcc |-> s.dcc, list |-> s.list, made |-> s.made, sendsum |-> s.sendsum,
           getsum |-> s.getsum, timer |-> s.timer, servs |-> s.servs]
  BY DEF IsClient
<1>2. PICK r : r = Reset(s, f, T) OBVIOUS
<1>3. r = [dcc |-> f, list |-> s.list, made |-> s.made, sendsum |-> s.sendsum,
           getsum |-> s.getsum, timer |-> s.timer, servs |-> T]
  BY <1>1, <1>2 DEF Reset
<1>4. PICK p : p = [s EXCEPT !.servs = T] OBVIOUS
<1>5. p = [dcc |-> s.dcc, list |-> s.list, made |-> s.made, sendsum |-> s.sendsum,
           getsum |-> s.getsum, timer |-> s.timer, servs |-> T]
  BY <1>1, <1>4
<1>6. PICK q : q = [p EXCEPT !.dcc = f] OBVIOUS
<1>7. q = [dcc |-> f, list |-> s.list, made |-> s.made, sendsum |-> s.sendsum,
           getsum |-> s.getsum, timer |-> s.timer, servs |-> T]
  BY <1>5, <1>6
<1>8. q = r BY <1>3, <1>7
<1> QED BY <1>2, <1>4, <1>6, <1>8

(* A server goes: its entries get one that is left.                        *)
LEMMA KillGood ==
  ASSUME NEW s, Good(s), s.servs = Server, NEW gone \in Server, NEW t,
         t = [s EXCEPT !.servs = @ \ {gone}], NEW u, u = dcc_notify_kill(t, gone)
  PROVE  Good(u) /\ DOMAIN u.dcc = DOMAIN s.dcc
<1> DEFINE T == Server \ {gone}
           left == Max(T)
           g(d) == IF d.serv = gone THEN ServOf(d, left) ELSE d
           f == [j \in DOMAIN s.dcc |-> g(s.dcc[j])]
<1>1. IsClient(s) /\ Served(s) /\ Paired(s) BY DEF Good
<1>2. T \in SUBSET Server /\ T # {} BY DEF Server
<1>3. left \in T
  <2> HIDE DEF T
  <2> QED BY <1>2, MaxServer
<1>4. s = [dcc |-> s.dcc, list |-> s.list, made |-> s.made, sendsum |-> s.sendsum,
           getsum |-> s.getsum, timer |-> s.timer, servs |-> s.servs]
  BY <1>1 DEF IsClient
<1>5. u = Reset(s, f, T)
  <2> HIDE DEF T
  <2>1. t = [dcc |-> s.dcc, list |-> s.list, made |-> s.made, sendsum |-> s.sendsum,
             getsum |-> s.getsum, timer |-> s.timer, servs |-> T]
    BY <1>4 DEF T
  <2>2. t.servs = T /\ t.dcc = s.dcc BY <2>1
  <2>3. f = [j \in DOMAIN t.dcc |->
               IF t.dcc[j].serv = gone THEN [t.dcc[j] EXCEPT !.serv = left] ELSE t.dcc[j]]
    BY <2>2 DEF ServOf
  <2>4. u = [t EXCEPT !.dcc = f]
    <3>1. (IF t.servs = {} THEN 0 ELSE Max(t.servs)) = left BY <1>2, <2>2
    <3> HIDE DEF left
    <3>2. PICK v : v = IF t.servs = {} THEN 0 ELSE Max(t.servs) OBVIOUS
    <3>3. u = [t EXCEPT !.dcc =
                 [j \in DOMAIN t.dcc |->
                    IF t.dcc[j].serv = gone THEN [t.dcc[j] EXCEPT !.serv = v] ELSE t.dcc[j]]]
      BY <3>2 DEF dcc_notify_kill
    <3>4. v = left BY <3>1, <3>2
    <3>5. u = [t EXCEPT !.dcc =
                 [j \in DOMAIN t.dcc |->
                    IF t.dcc[j].serv = gone THEN [t.dcc[j] EXCEPT !.serv = left] ELSE t.dcc[j]]]
      BY <3>3, <3>4
    <3> HIDE DEF f
    <3> QED BY <2>3, <3>5
  <2> HIDE DEF f
  <2>5. t = [s EXCEPT !.servs = T] BY DEF T
  <2>6. u = [[s EXCEPT !.servs = T] EXCEPT !.dcc = f] BY <2>4, <2>5
  <2> QED BY <1>1, <2>6, TwoUpdates
<1>6. \A j \in DOMAIN s.dcc : s.dcc[j] \in Entry /\ s.dcc[j].serv \in Server
  BY <1>1 DEF IsClient, Served
<1>7. \A d \in Entry : d.serv \in Server =>
        /\ g(d) \in Entry /\ g(d).serv \in T /\ g(d).nick = d.nick
        /\ Fields(g(d), d.type, d.passive, d.stat, d.iotag, d.wiotag, d.stray, d.dccchat, d.throttled,
                  d.cps, d.phase)
  <2> HIDE DEF left
  <2> SUFFICES ASSUME NEW d \in Entry, d.serv \in Server
               PROVE  /\ g(d) \in Entry /\ g(d).serv \in T /\ g(d).nick = d.nick
                      /\ Fields(g(d), d.type, d.passive, d.stat, d.iotag, d.wiotag, d.stray, d.dccchat,
                                d.throttled, d.cps, d.phase)
    OBVIOUS
  <2>1. CASE d.serv = gone
    <3>1. PICK e : e = ServOf(d, left) OBVIOUS
    <3>2. left \in Server BY <1>3
    <3>3. /\ e \in Entry /\ e.serv = left /\ e.nick = d.nick
          /\ Fields(e, d.type, d.passive, d.stat, d.iotag, d.wiotag, d.stray, d.dccchat, d.throttled,
                    d.cps, d.phase)
      BY <3>1, <3>2, ServFacts, SMTT(30)
    <3>4. g(d) = e BY <2>1, <3>1
    <3> QED BY <1>3, <3>3, <3>4
  <2>2. CASE d.serv # gone
    <3>1. g(d) = d BY <2>2
    <3> HIDE DEF g
    <3> QED BY <2>2, <3>1, SameFields
  <2> QED BY <2>1, <2>2
<1> HIDE DEF g, left, T
<1>8. Alike(s, f)
  <2>1. f \in [DOMAIN s.dcc -> Entry] BY <1>6, <1>7
  <2>2. \A j \in DOMAIN s.dcc : f[j] = g(s.dcc[j]) OBVIOUS
  <2> HIDE DEF f
  <2> QED BY <1>6, <1>7, <2>1, <2>2 DEF Alike
<1>9. u.dcc = f /\ u.servs = T BY <1>4, <1>5 DEF Reset
<1>10. Served(u)
  <2>1. \A j \in DOMAIN u.dcc : u.dcc[j].serv \in T BY <1>6, <1>7, <1>9
  <2> QED BY <1>2, <1>9, <2>1 DEF Served
<1>11. Paired(u)
  <2>1. DOMAIN u.dcc = DOMAIN s.dcc BY <1>9
  <2>2. \A j \in DOMAIN s.dcc : u.dcc[j].type = s.dcc[j].type /\ u.dcc[j].nick = s.dcc[j].nick
    BY <1>6, <1>7, <1>9 DEF Fields
  <2> HIDE DEF f
  <2> SUFFICES ASSUME Never({"nick"}), NEW j \in DOMAIN u.dcc, NEW k \in DOMAIN u.dcc,
                      {u.dcc[j].type, u.dcc[k].type} \subseteq Chats,
                      u.dcc[j].nick = u.dcc[k].nick
               PROVE  j = k
    BY DEF Paired
  <2>3. /\ {s.dcc[j].type, s.dcc[k].type} \subseteq Chats /\ s.dcc[j].nick = s.dcc[k].nick
        /\ j \in DOMAIN s.dcc /\ k \in DOMAIN s.dcc
    BY <2>1, <2>2
  <2> QED BY <1>1, <2>3 DEF Paired
<1> HIDE DEF f
<1> QED BY <1>2, <1>5, <1>8, <1>10, <1>11, ResetGood

(* A peer changes its nick, and entries with it.                           *)
LEMMA RenameGood ==
  ASSUME NEW s, Good(s), May("nick"), NEW from \in Nick, NEW to \in Nick, NEW u,
         u = [s EXCEPT !.dcc = [j \in DOMAIN s.dcc |-> Renamed(s.dcc[j], from, to)]]
  PROVE  Good(u) /\ DOMAIN u.dcc = DOMAIN s.dcc
<1> DEFINE f == [j \in DOMAIN s.dcc |-> Renamed(s.dcc[j], from, to)]
<1>1. IsClient(s) /\ Served(s) BY DEF Good
<1>2. s = [dcc |-> s.dcc, list |-> s.list, made |-> s.made, sendsum |-> s.sendsum,
           getsum |-> s.getsum, timer |-> s.timer, servs |-> s.servs]
  BY <1>1 DEF IsClient
<1>3. u = Reset(s, f, s.servs)
  <2> HIDE DEF f
  <2>1. u = [s EXCEPT !.dcc = f] BY DEF f
  <2> QED BY <1>2, <2>1 DEF Reset
<1>4. \A d \in Entry :
        /\ Renamed(d, from, to) \in Entry /\ Renamed(d, from, to).serv = d.serv
        /\ Fields(Renamed(d, from, to), d.type, d.passive, d.stat, d.iotag, d.wiotag, d.stray,
                  d.dccchat, d.throttled, d.cps, d.phase)
  <2> SUFFICES ASSUME NEW d \in Entry
               PROVE  /\ Renamed(d, from, to) \in Entry /\ Renamed(d, from, to).serv = d.serv
                      /\ Fields(Renamed(d, from, to), d.type, d.passive, d.stat, d.iotag, d.wiotag,
                                d.stray, d.dccchat, d.throttled, d.cps, d.phase)
    OBVIOUS
  <2>1. CASE d.nick = from
    <3>1. PICK e : e = NickOf(d, to) OBVIOUS
    <3>2. /\ e \in Entry /\ e.serv = d.serv
          /\ Fields(e, d.type, d.passive, d.stat, d.iotag, d.wiotag, d.stray, d.dccchat, d.throttled,
                    d.cps, d.phase)
      BY <3>1, NickFacts
    <3>3. Renamed(d, from, to) = e BY <2>1, <3>1 DEF Renamed, NickOf
    <3> QED BY <3>2, <3>3
  <2>2. CASE d.nick # from
    <3>1. Renamed(d, from, to) = d BY <2>2 DEF Renamed
    <3> QED BY <3>1, SameFields
  <2> QED BY <2>1, <2>2
<1>5. \A j \in DOMAIN s.dcc : s.dcc[j] \in Entry BY <1>1 DEF IsClient
<1>6. Alike(s, f)
  <2>1. f \in [DOMAIN s.dcc -> Entry] BY <1>4, <1>5
  <2>2. \A j \in DOMAIN s.dcc : f[j] = Renamed(s.dcc[j], from, to) OBVIOUS
  <2> HIDE DEF f
  <2> QED BY <1>4, <1>5, <2>1, <2>2 DEF Alike
<1>7. u.dcc = f /\ u.servs = s.servs BY <1>2, <1>3 DEF Reset
<1>8. Served(u) BY <1>1, <1>4, <1>5, <1>7 DEF Served
<1>9. Paired(u) BY DEF Paired, Never, May
<1>10. s.servs \in SUBSET Server BY <1>1 DEF IsClient
<1> HIDE DEF f
<1> QED BY <1>3, <1>6, <1>8, <1>9, <1>10, ResetGood

-----------------------------------------------------------------------------
(* dcc_check_timeouts.                                                     *)

(* Closing the entry of the walk after a text event whose hooks may have   *)
(* removed another one.                                                    *)
LEMMA StalledFacts ==
  ASSUME NEW s, Good(s), NEW i \in DOMAIN s.dcc, NEW u \in Stalled(s, i)
  PROVE  /\ Good(u)
         /\ DOMAIN s.dcc \ {i} \subseteq DOMAIN u.dcc \/ May("hook")
<1>1. PICK t \in Emitted(s, i) : u = dcc_close(t, i, "ABORTED") BY DEF Stalled
<1>2. /\ Good(t) /\ i \in DOMAIN t.dcc
      /\ DOMAIN s.dcc \ {i} \subseteq DOMAIN t.dcc \/ May("hook")
  <2>1. CASE t = s BY <2>1
  <2>2. CASE t # s
    <3>1. PICK j \in DOMAIN s.dcc \ {i} : May("hook") /\ t = dcc_destroy(s, j) BY <1>1, <2>2 DEF Emitted
    <3>2. Good(t) /\ DOMAIN t.dcc = DOMAIN s.dcc \ {j} BY <3>1, DestroyedGood
    <3> QED BY <3>1, <3>2
  <2> QED BY <2>1, <2>2
<1>3. PICK d : d = t.dcc[i] OBVIOUS
<1>4. To(t, t, i, d) /\ Sound(d) BY <1>2, <1>3, GoodTo
<1>5. ~d.stray /\ (d.throttled # {} => May("limit")) /\ (d.type \in Chats => May("chats"))
  BY <1>4 DEF Sound
<1>6. Done(t, u, i)
  <2>1. d.type \in Chats => "ABORTED" # "DONE" OBVIOUS
  <2>2. Done(t, dcc_close(t, i, "ABORTED"), i) BY <1>4, <1>5, <2>1, ClosedSound
  <2> QED BY <1>1, <2>2
<1>7. Good(u) /\ DOMAIN u.dcc = DOMAIN t.dcc BY <1>2, <1>6, DoneGood
<1> QED BY <1>2, <1>7

(* One entry of the walk: no other one goes, unless a hook removes it.     *)
LEMMA VisitedFacts ==
  ASSUME NEW s, Good(s), NEW i \in DOMAIN s.dcc, NEW u \in Visited(s, i)
  PROVE  /\ Good(u)
         /\ DOMAIN s.dcc \ {i} \subseteq DOMAIN u.dcc \/ May("hook")
<1>1. PICK d : d = s.dcc[i] OBVIOUS
<1>2. To(s, s, i, d) /\ Sound(d) BY <1>1, GoodTo
<1>3. CASE d.stat = "ACTIVE"
  <2>1. \E t \in dcc_calc_cps(s, i) : u = t \/ u \in Stalled(t, i)
    BY <1>1, <1>3 DEF Visited, Finished
  <2>2. PICK t \in dcc_calc_cps(s, i) : u = t \/ u \in Stalled(t, i) BY <2>1
  <2>3. Done(s, t, i) BY <1>2, <1>3, CalcFacts
  <2>4. Good(t) /\ DOMAIN t.dcc = DOMAIN s.dcc BY <2>3, DoneGood
  <2>5. CASE u = t BY <2>4, <2>5
  <2>6. CASE u \in Stalled(t, i)
    <3>1. i \in DOMAIN t.dcc BY <2>4
    <3>2. Good(u) /\ (DOMAIN t.dcc \ {i} \subseteq DOMAIN u.dcc \/ May("hook"))
      BY <2>4, <2>6, <3>1, StalledFacts
    <3> QED BY <2>4, <3>2
  <2> QED BY <2>2, <2>5, <2>6
<1>4. CASE d.stat = "QUEUED" /\ d.type \in {"SEND", "CHATSEND"}
  <2>1. u = s \/ u \in Stalled(s, i) BY <1>1, <1>4 DEF Visited, Finished
  <2> QED BY <2>1, StalledFacts
<1>5. CASE Finished(d)
  <2>1. u = s \/ u = dcc_destroy(s, i) BY <1>1, <1>5 DEF Visited, Finished
  <2>2. CASE u = s BY <2>2
  <2>3. CASE u = dcc_destroy(s, i)
    <3>1. Good(u) /\ DOMAIN u.dcc = DOMAIN s.dcc \ {i} BY <2>3, DestroyedGood
    <3> QED BY <3>1
  <2> QED BY <2>1, <2>2, <2>3
<1>6. CASE /\ d.stat # "ACTIVE" /\ ~(d.stat = "QUEUED" /\ d.type \in {"SEND", "CHATSEND"})
           /\ ~Finished(d)
  <2>1. u = s BY <1>1, <1>6 DEF Visited
  <2> QED BY <2>1
<1> QED BY <1>3, <1>4, <1>5, <1>6

(* The walk goes on to another entry of the list, or ends.                 *)
LEMMA AfterFacts ==
  ASSUME NEW q \in Seq(Id), IsInjective(q), NEW i \in ToSet(q), NEW w, w = After(q, i)
  PROVE  w = 0 \/ w \in ToSet(q) \ {i}
<1> DEFINE n == Len(q)
           k == CHOOSE k \in 1..n : q[k] = i
<1>1. n \in Nat /\ DOMAIN q = 1..n OBVIOUS
<1>2. k \in 1..n /\ q[k] = i
  <2>1. \E k1 \in 1..n : q[k1] = i BY <1>1 DEF ToSet
  <2> QED BY <2>1
<1>3. w = IF k = n THEN 0 ELSE q[k + 1] BY DEF After
<1> HIDE DEF k, n
<1>4. CASE k = n BY <1>3, <1>4
<1>5. CASE k # n
  <2>1. k + 1 \in 1..n /\ k + 1 # k BY <1>1, <1>2, <1>5
  <2>2. q[k + 1] # i BY <1>1, <1>2, <2>1 DEF IsInjective
  <2> QED BY <1>1, <1>3, <1>5, <2>1, <2>2 DEF ToSet
<1> QED BY <1>4, <1>5

-----------------------------------------------------------------------------
(* The invariant of the system.                                            *)

IInv == /\ Good(c) /\ walk \in 0..Entries /\ features \in Scenarios
        /\ Never({"hook"}) => (walk # 0 => walk \in DOMAIN c.dcc)

LEMMA Initially == Init => IInv
<1> SUFFICES ASSUME Init PROVE IInv OBVIOUS
<1> DEFINE none == [i \in {} |-> 0]
           nothing == <<>>
           no == FALSE
           z == 0
<1>1. c = [dcc |-> none, list |-> nothing, made |-> z, sendsum |-> z, getsum |-> z,
           timer |-> no, servs |-> Server]
  BY DEF Init
<1>2. DOMAIN none = {} /\ none \in [{} -> Entry] OBVIOUS
<1>3. nothing \in Seq(Id) /\ IsInjective(nothing) /\ ToSet(nothing) = {} BY DEF IsInjective, ToSet
<1>4. ~no /\ no \in BOOLEAN /\ z = 0 OBVIOUS
<1> HIDE DEF none, nothing, no, z
<1>5. /\ c.dcc = none /\ c.list = nothing /\ c.made = z /\ c.sendsum = z /\ c.getsum = z
      /\ c.timer = no /\ c.servs = Server
  BY <1>1
<1>6. IsClient(c)
  <2>1. c = [dcc |-> c.dcc, list |-> c.list, made |-> c.made, sendsum |-> c.sendsum,
             getsum |-> c.getsum, timer |-> c.timer, servs |-> c.servs]
    BY <1>1, <1>5
  <2>2. /\ DOMAIN c.dcc \subseteq Id /\ c.dcc \in [DOMAIN c.dcc -> Entry] /\ c.list \in Seq(Id)
    BY <1>2, <1>3, <1>5
  <2>3. /\ c.made \in 0..Entries /\ c.sendsum \in Nat /\ c.getsum \in Nat /\ c.timer \in BOOLEAN
        /\ c.servs \subseteq Server
    BY <1>4, <1>5, EntriesAssumption
  <2> QED BY <2>1, <2>2, <2>3 DEF IsClient
<1>7. DOMAIN c.dcc = {} BY <1>2, <1>5
<1>8. Listed(c) BY <1>3, <1>5, <1>7 DEF Listed
<1>9. Timed(c) BY <1>4, <1>5, <1>7 DEF Timed
<1>10. Served(c) BY <1>5, <1>7 DEF Served, Server
<1>11. Paired(c) BY <1>7 DEF Paired
<1>12. Known(c) /\ AllSound(c) BY <1>7 DEF Known, AllSound
<1>13. Summed(c)
  <2>1. /\ SendShares(c) \in [Id -> Nat] /\ GetShares(c) \in [Id -> Nat]
        /\ \A i \in Id : SendShares(c)[i] = 0 /\ GetShares(c)[i] = 0
        /\ Speed(c, {"SEND"}) = Total(SendShares(c))
        /\ Speed(c, Type \ {"SEND"}) = Total(GetShares(c))
    BY <1>6, <1>7, ShareFacts
  <2>2. Total(SendShares(c)) = 0 /\ Total(GetShares(c)) = 0 BY <2>1, TotalZero
  <2> QED BY <1>4, <1>5, <2>1, <2>2 DEF Summed
<1>14. Good(c) BY <1>6, <1>8, <1>9, <1>10, <1>11, <1>12, <1>13 DEF Good
<1>15. walk = 0 /\ walk \in 0..Entries /\ features \in Scenarios BY EntriesAssumption DEF Init
<1> QED BY <1>14, <1>15 DEF IInv

(* What happens in a behaviour is chosen at its start: what the invariant  *)
(* says of the next client it says in the next state.                      *)
LEMMA NextGood ==
  ASSUME features' = features, Good(c')
  PROVE  Good(c)'
<1>1. /\ IsClient(c') /\ Listed(c') /\ Timed(c') /\ Served(c') /\ Summed(c') /\ Paired(c')
      /\ Known(c') /\ AllSound(c')
  BY DEF Good
<1>2. IsClient(c)' BY <1>1 DEF IsClient
<1>3. Listed(c)' BY <1>1 DEF Listed
<1>4. Timed(c)' BY <1>1 DEF Timed
<1>5. Served(c)' BY <1>1 DEF Served
<1>6. Summed(c)' BY <1>1 DEF Summed, Never
<1>7. Paired(c)' BY <1>1 DEF Paired, Never
<1>8. Known(c)' BY <1>1 DEF Known
<1>9. AllSound(c)'
  <2>1. \A i \in DOMAIN c'.dcc : Sound(c'.dcc[i]) BY <1>1 DEF AllSound
  <2>2. ASSUME NEW i \in DOMAIN c'.dcc PROVE Sound(c.dcc[i])'
    <3>1. Sound(c'.dcc[i]) BY <2>1, <2>2
    <3>2. Waiting(c'.dcc[i]) => Waiting(c.dcc[i])'
      BY DEF Waiting, Answers, Writes, Reads, May, Never
    <3>3. Running(c'.dcc[i]) => Running(c.dcc[i])' BY DEF Running, May
    <3>4. Watching(c'.dcc[i]) => Watching(c.dcc[i])'
      BY <3>2, <3>3 DEF Watching, Offers, Finished, May
    <3> QED BY <3>1, <3>4 DEF Sound, May
  <2> QED BY <2>2 DEF AllSound
<1> QED BY <1>2, <1>3, <1>4, <1>5, <1>6, <1>7, <1>8, <1>9 DEF Good

LEMMA AtRest ==
  ASSUME IInv, walk = 0, UNCHANGED <<walk, features>>, Good(c')
  PROVE  IInv'
<1>1. Good(c)' BY NextGood
<1>2. walk' = 0 /\ walk' \in 0..Entries /\ features' \in Scenarios BY EntriesAssumption DEF IInv
<1> QED BY <1>1, <1>2 DEF IInv

LEMMA Step_Fire == ASSUME IInv, Fire PROVE IInv'
<1>1. Good(c) BY DEF IInv
<1>2. PICK i \in DOMAIN c.dcc : \E cb \in {c.dcc[i].iotag, c.dcc[i].wiotag} : c' \in Run(c, i, cb)
  BY DEF Fire
<1>3. PICK cb \in {c.dcc[i].iotag, c.dcc[i].wiotag} : c' \in Run(c, i, cb) BY <1>2
<1>4. To(c, c, i, c.dcc[i]) /\ Sound(c.dcc[i]) BY <1>1, GoodTo
<1>5. Done(c, c', i) \/ (May("hook") /\ Gone(c, c', i)) BY <1>3, <1>4, RunFacts
<1>6. Good(c') BY <1>1, <1>5, DoneGood, GoneGood
<1> QED BY <1>6, AtRest DEF Fire

LEMMA Step_Tick == ASSUME IInv, Tick PROVE IInv'
<1>1. Good(c) /\ Good(c') BY DEF IInv, Tick
<1>2. Good(c)' BY <1>1, NextGood DEF Tick
<1>3. walk' \in DOMAIN c.dcc /\ walk' \in 0..Entries
  <2>1. c.list \in Seq(Id) /\ Listed(c) /\ DOMAIN c.dcc \subseteq Id BY <1>1 DEF Good, IsClient
  <2>2. c.list # <<>> /\ walk' = Head(c.list) BY DEF Tick
  <2>3. walk' = c.list[1] /\ 1 \in DOMAIN c.list BY <2>1, <2>2
  <2>4. walk' \in DOMAIN c.dcc BY <2>1, <2>3 DEF Listed, ToSet
  <2> QED BY <2>1, <2>4 DEF Id
<1>4. c' = c /\ features' \in Scenarios BY DEF IInv, Tick
<1>5. walk' \in DOMAIN c'.dcc BY <1>3, <1>4
<1> QED BY <1>2, <1>3, <1>4, <1>5 DEF IInv

LEMMA Step_Visit == ASSUME IInv, Visit PROVE IInv'
<1>1. Good(c) /\ walk \in DOMAIN c.dcc /\ c' \in Visited(c, walk) /\ walk' = After(c.list, walk)
      /\ features' = features
  BY DEF IInv, Visit
<1>2. /\ Good(c')
      /\ DOMAIN c.dcc \ {walk} \subseteq DOMAIN c'.dcc \/ May("hook")
  BY <1>1, VisitedFacts
<1>3. walk' = 0 \/ walk' \in DOMAIN c.dcc \ {walk}
  <2>1. c.list \in Seq(Id) /\ IsInjective(c.list) /\ ToSet(c.list) = DOMAIN c.dcc
    BY <1>1 DEF Good, IsClient, Listed
  <2> QED BY <1>1, <2>1, AfterFacts
<1>4. DOMAIN c.dcc \subseteq Id BY <1>1 DEF Good, IsClient
<1>5. walk' \in 0..Entries BY <1>3, <1>4, EntriesAssumption DEF Id
<1>6. ~May("hook") => (walk' # 0 => walk' \in DOMAIN c'.dcc) BY <1>2, <1>3
<1>7. Good(c)' BY <1>1, <1>2, NextGood
<1>8. features' \in Scenarios BY <1>1 DEF IInv
<1>9. (Never({"hook"}) => (walk # 0 => walk \in DOMAIN c.dcc))' BY <1>1, <1>6 DEF Never, May
<1> QED BY <1>5, <1>7, <1>8, <1>9 DEF IInv

LEMMA Step_dcc_send == ASSUME IInv, dcc_send PROVE IInv'
<1>1. Good(c) /\ c.made < Entries BY DEF IInv, dcc_send, CanMake
<1>2. PICK passive \in BOOLEAN : c' = Offer(c, "SEND", Peer, passive)
  <2>1. May("passive") \in BOOLEAN BY DEF May
  <2> QED BY <2>1 DEF dcc_send
<1>3. "SEND" \in {"SEND", "CHATSEND"} /\ "SEND" \notin Chats /\ Peer \in Nick BY DEF Chats, Peer, Nick
<1>4. Alone(c, "SEND", Peer) BY <1>3 DEF Alone
<1>5. Good(Offer(c, "SEND", Peer, passive)) BY <1>1, <1>3, <1>4, OfferGood
<1> QED BY <1>2, <1>5, AtRest DEF dcc_send, CanMake

LEMMA Step_handle_dcc_send == ASSUME IInv, handle_dcc_send PROVE IInv'
<1>1. Good(c) /\ c.made < Entries BY DEF IInv, handle_dcc_send, CanMake
<1>2. PICK passive \in BOOLEAN : c' = Made(c, "RECV", Peer, passive)
  <2>1. May("passive") \in BOOLEAN BY DEF May
  <2> QED BY <2>1 DEF handle_dcc_send
<1>3. "RECV" \in Type /\ "RECV" \notin Chats /\ Peer \in Nick BY DEF Chats, Peer, Nick, Type
<1>4. Alone(c, "RECV", Peer) BY <1>3 DEF Alone
<1>5. Good(Made(c, "RECV", Peer, passive)) BY <1>1, <1>3, <1>4, MadeGood
<1> QED BY <1>2, <1>5, AtRest DEF handle_dcc_send, CanMake

(* An offer that has no watch is gone on with.                             *)
LEMMA ConnectGood ==
  ASSUME NEW s, Good(s), NEW i \in DOMAIN s.dcc, s.dcc[i].stat = "QUEUED", ~Offers(s.dcc[i]),
         NEW u \in dcc_connect(s, i)
  PROVE  Good(u)
<1>1. PICK d : d = s.dcc[i] OBVIOUS
<1>2. To(s, s, i, d) /\ Sound(d) /\ d.stat = "QUEUED" /\ ~Offers(d) BY <1>1, GoodTo
<1>3. Done(s, u, i) BY <1>2, ConnectFacts
<1> QED BY <1>3, DoneGood

LEMMA AbortGood ==
  ASSUME NEW s, Good(s), NEW i \in DOMAIN s.dcc, NEW u, u = dcc_abort(s, i)
  PROVE  Good(u)
<1>1. PICK d : d = s.dcc[i] OBVIOUS
<1>2. To(s, s, i, d) /\ Sound(d) BY <1>1, GoodTo
<1>3. CASE Finished(d)
  <2>1. u = dcc_destroy(s, i) BY <1>1, <1>3 DEF dcc_abort
  <2> QED BY <2>1, DestroyedGood
<1>4. CASE ~Finished(d)
  <2>1. u = dcc_close(s, i, "ABORTED") BY <1>1, <1>4 DEF dcc_abort
  <2>2. ~d.stray /\ (d.throttled # {} => May("limit")) /\ (d.type \in Chats => May("chats"))
    BY <1>2 DEF Sound
  <2>3. d.type \in Chats => "ABORTED" # "DONE" OBVIOUS
  <2>4. Done(s, dcc_close(s, i, "ABORTED"), i) BY <1>2, <2>2, <2>3, ClosedSound
  <2> QED BY <2>1, <2>4, DoneGood
<1> QED BY <1>3, <1>4

LEMMA Step_handle_dcc_psend == ASSUME IInv, handle_dcc_psend PROVE IInv'
<1>1. Good(c) BY DEF IInv
<1>2. PICK i \in DOMAIN c.dcc :
        /\ c.dcc[i].stat = "QUEUED" /\ c.dcc[i].passive /\ c.dcc[i].type \in {"SEND", "CHATSEND"}
        /\ c' \in dcc_connect(c, i)
  BY DEF handle_dcc_psend
<1>3. ~Offers(c.dcc[i]) BY <1>2 DEF Offers
<1>4. Good(c') BY <1>1, <1>2, <1>3, ConnectGood
<1> QED BY <1>4, AtRest DEF handle_dcc_psend

LEMMA Step_dcc_get == ASSUME IInv, dcc_get PROVE IInv'
<1>1. Good(c) BY DEF IInv
<1>2. PICK i \in DOMAIN c.dcc :
        \/ c.dcc[i].stat = "QUEUED" /\ c.dcc[i].type \in {"RECV", "CHATRECV"} /\ c' \in dcc_connect(c, i)
        \/ Finished(c.dcc[i]) /\ c' = dcc_destroy(c, i)
  BY DEF dcc_get
<1>3. CASE /\ c.dcc[i].stat = "QUEUED" /\ c.dcc[i].type \in {"RECV", "CHATRECV"}
           /\ c' \in dcc_connect(c, i)
  <2>1. ~Offers(c.dcc[i]) BY <1>3 DEF Offers
  <2>2. Good(c') BY <1>1, <1>3, <2>1, ConnectGood
  <2> QED BY <2>2, AtRest DEF dcc_get
<1>4. CASE c' = dcc_destroy(c, i)
  <2>1. Good(c') BY <1>1, <1>4, DestroyedGood
  <2> QED BY <2>1, AtRest DEF dcc_get
<1> QED BY <1>2, <1>3, <1>4

LEMMA Step_Close == ASSUME IInv, Close PROVE IInv'
<1>1. Good(c) BY DEF IInv
<1>2. PICK i \in DOMAIN c.dcc : c' = dcc_abort(c, i) BY DEF Close
<1>3. Good(c') BY <1>1, <1>2, AbortGood
<1> QED BY <1>3, AtRest DEF Close

LEMMA Step_dcc_change_nick == ASSUME IInv, dcc_change_nick PROVE IInv'
<1>1. Good(c) /\ May("nick") BY DEF IInv, dcc_change_nick
<1>2. PICK from \in Nick, to \in Nick :
        c' = [c EXCEPT !.dcc = [i \in DOMAIN c.dcc |-> Renamed(c.dcc[i], from, to)]]
  BY DEF dcc_change_nick
<1>3. Good(c') BY <1>1, <1>2, RenameGood
<1> QED BY <1>3, AtRest DEF dcc_change_nick

LEMMA Step_server_free == ASSUME IInv, server_free PROVE IInv'
<1>1. Good(c) /\ c.servs = Server BY DEF IInv, server_free
<1>2. PICK gone \in Server : c' = dcc_notify_kill([c EXCEPT !.servs = @ \ {gone}], gone)
  BY DEF server_free
<1>3. PICK t : t = [c EXCEPT !.servs = @ \ {gone}] OBVIOUS
<1>4. c' = dcc_notify_kill(t, gone) BY <1>2, <1>3
<1>5. Good(c') BY <1>1, <1>3, <1>4, KillGood
<1> QED BY <1>5, AtRest DEF server_free

(* A chat is offered where, of those with that peer, none is left.         *)
LEMMA Step_handle_dcc_chat == ASSUME IInv, handle_dcc_chat PROVE IInv'
<1>1. Good(c) /\ c.made < Entries /\ May("chats") BY DEF IInv, handle_dcc_chat, CanMake
<1>2. May("passive") \in BOOLEAN BY DEF May
<1>3. PICK nick, passive, sent, got, s, t :
        /\ nick \in Nick /\ passive \in BOOLEAN
        /\ sent = find_dcc(c, nick, "CHATSEND")
        /\ s = IF sent = 0 THEN c ELSE dcc_destroy(c, sent)
        /\ got = find_dcc(s, nick, "CHATRECV")
        /\ t = IF got = 0 THEN s ELSE dcc_destroy(s, got)
        /\ c' = Made(t, "CHATRECV", nick, passive)
  BY <1>2 DEF handle_dcc_chat
<1>4. Cleared(s, c, nick, "CHATSEND") BY <1>1, <1>3, ClearedFacts DEF Chats
<1>5. Good(s) BY <1>4 DEF Cleared
<1>6. Cleared(t, s, nick, "CHATRECV") BY <1>3, <1>5, ClearedFacts DEF Chats
<1>7. Good(t) /\ t.made < Entries BY <1>1, <1>4, <1>6 DEF Cleared
<1>8. Alone(t, "CHATRECV", nick) BY <1>4, <1>6 DEF Alone, Cleared, Chats
<1>9. "CHATRECV" \in Type BY DEF Type
<1>10. Good(Made(t, "CHATRECV", nick, passive)) BY <1>1, <1>3, <1>7, <1>8, <1>9, MadeGood
<1> QED BY <1>3, <1>10, AtRest DEF handle_dcc_chat, CanMake

LEMMA Step_dcc_chat == ASSUME IInv, dcc_chat PROVE IInv'
<1>1. Good(c) /\ c.made < Entries /\ May("chats") BY DEF IInv, dcc_chat, CanMake
<1>2. May("passive") \in BOOLEAN BY DEF May
<1>3. PICK nick, passive, sent, got, s :
        /\ nick \in Nick /\ passive \in BOOLEAN
        /\ sent = find_dcc(c, nick, "CHATSEND")
        /\ s = IF sent # 0 /\ c.dcc[sent].stat \in {"ABORTED", "FAILED"} THEN dcc_destroy(c, sent) ELSE c
        /\ got = find_dcc(s, nick, "CHATRECV")
        /\ ~(sent # 0 /\ ~Finished(c.dcc[sent]))
        /\ c' \in IF got = 0 THEN {Offer(s, "CHATSEND", nick, passive)}
                  ELSE IF s.dcc[got].stat = "QUEUED" THEN dcc_connect(s, got)
                  ELSE IF s.dcc[got].stat \in {"ABORTED", "FAILED"} THEN {dcc_destroy(s, got)}
                  ELSE {s}
  <2>1. PICK nick \in Nick, passive \in {FALSE, May("passive")} :
          LET sent == find_dcc(c, nick, "CHATSEND")
              again == sent # 0 /\ ~Finished(c.dcc[sent])
              s == IF sent # 0 /\ c.dcc[sent].stat \in {"ABORTED", "FAILED"} THEN dcc_destroy(c, sent) ELSE c
              got == find_dcc(s, nick, "CHATRECV")
          IN  /\ ~again
              /\ c' \in IF got = 0 THEN {Offer(s, "CHATSEND", nick, passive)}
                        ELSE IF s.dcc[got].stat = "QUEUED" THEN dcc_connect(s, got)
                        ELSE IF s.dcc[got].stat \in {"ABORTED", "FAILED"} THEN {dcc_destroy(s, got)}
                        ELSE {s}
    BY DEF dcc_chat
  <2>2. PICK sent : sent = find_dcc(c, nick, "CHATSEND") OBVIOUS
  <2>3. PICK s : s = IF sent # 0 /\ c.dcc[sent].stat \in {"ABORTED", "FAILED"}
                     THEN dcc_destroy(c, sent) ELSE c
    OBVIOUS
  <2>4. PICK got : got = find_dcc(s, nick, "CHATRECV") OBVIOUS
  <2>5. /\ ~(sent # 0 /\ ~Finished(c.dcc[sent]))
        /\ c' \in IF got = 0 THEN {Offer(s, "CHATSEND", nick, passive)}
                  ELSE IF s.dcc[got].stat = "QUEUED" THEN dcc_connect(s, got)
                  ELSE IF s.dcc[got].stat \in {"ABORTED", "FAILED"} THEN {dcc_destroy(s, got)}
                  ELSE {s}
    BY <2>1, <2>2, <2>3, <2>4
  <2>6. passive \in BOOLEAN BY <1>2
  <2> QED BY <2>2, <2>3, <2>4, <2>5, <2>6, SMTT(30)
<1>4. IsClient(c) /\ Listed(c) BY <1>1 DEF Good
<1>5. s = IF sent = 0 THEN c ELSE dcc_destroy(c, sent)
  <2>1. CASE sent = 0 BY <1>3, <2>1
  <2>2. CASE sent # 0
    <3>1. sent \in DOMAIN c.dcc /\ c.dcc[sent].type = "CHATSEND" BY <1>3, <1>4, <2>2, FindFacts
    <3>2. c.dcc[sent].stat # "DONE" BY <1>1, <3>1 DEF Good, AllSound, Sound, Chats
    <3>3. c.dcc[sent].stat \in {"ABORTED", "FAILED"} BY <1>3, <2>2, <3>2 DEF Finished
    <3> QED BY <1>3, <2>2, <3>3
  <2> QED BY <2>1, <2>2
<1>6. Cleared(s, c, nick, "CHATSEND") BY <1>1, <1>3, <1>5, ClearedFacts DEF Chats
<1>7. Good(s) /\ s.made < Entries BY <1>1, <1>6, SMTT(30) DEF Cleared
<1>8. \/ got = 0 /\ \A j \in DOMAIN s.dcc : ~(s.dcc[j].type = "CHATRECV" /\ s.dcc[j].nick = nick)
      \/ got # 0 /\ got \in DOMAIN s.dcc /\ s.dcc[got].type = "CHATRECV" /\ s.dcc[got].nick = nick
  BY <1>3, <1>7, FindFacts DEF Good
<1>9. Good(c')
  <2>1. CASE got = 0
    <3>1. Alone(s, "CHATSEND", nick) BY <1>6, <1>8, <2>1 DEF Alone, Cleared, Chats
    <3>2. "CHATSEND" \in {"SEND", "CHATSEND"} OBVIOUS
    <3>3. Good(Offer(s, "CHATSEND", nick, passive)) BY <1>1, <1>3, <1>7, <3>1, <3>2, OfferGood
    <3> QED BY <1>3, <2>1, <3>3
  <2>2. CASE got # 0
    <3>1. got \in DOMAIN s.dcc /\ ~Offers(s.dcc[got]) BY <1>8, <2>2 DEF Offers
    <3>2. CASE s.dcc[got].stat = "QUEUED"
      <4>1. c' \in dcc_connect(s, got) BY <1>3, <2>2, <3>2
      <4> QED BY <1>7, <3>1, <3>2, <4>1, ConnectGood
    <3>3. CASE s.dcc[got].stat # "QUEUED"
      <4>1. c' = dcc_destroy(s, got) \/ c' = s BY <1>3, <2>2, <3>3
      <4> QED BY <1>7, <3>1, <4>1, DestroyedGood
    <3> QED BY <3>2, <3>3
  <2> QED BY <2>1, <2>2
<1> QED BY <1>9, AtRest DEF dcc_chat, CanMake

LEMMA Inductive == IInv /\ [Next]_vars => IInv'
<1> SUFFICES ASSUME IInv, [Next]_vars PROVE IInv' OBVIOUS
<1>1. CASE Next
  BY <1>1, Step_Fire, Step_Tick, Step_Visit, Step_dcc_send, Step_dcc_chat, Step_handle_dcc_send,
     Step_handle_dcc_chat, Step_handle_dcc_psend, Step_dcc_get, Step_Close, Step_dcc_change_nick,
     Step_server_free DEF Next
<1>2. CASE UNCHANGED vars
  <2>1. c' = c /\ walk' = walk /\ features' = features BY <1>2 DEF vars
  <2>2. Good(c)' BY <2>1, NextGood DEF IInv
  <2> QED BY <2>1, <2>2 DEF IInv, Never
<1> QED BY <1>1, <1>2

-----------------------------------------------------------------------------
(* What follows from the invariant.                                        *)

LEMMA Waits == ASSUME IInv PROVE WaitsAreWatched
<1> SUFFICES ASSUME NEW i \in DOMAIN c.dcc
             PROVE  LET d == c.dcc[i] IN
                    /\ d.stat = "CONNECTING" => d.iotag # "none" \/ d.wiotag # "none"
                    /\ d.stat = "ACTIVE" /\ d.throttled = {} /\ (d.type \in Chats => Never({"limit"}))
                       => d.iotag = CASE d.type = "RECV" -> "dcc_read"
                                      [] d.type = "SEND" -> "dcc_read_ack"
                                      [] OTHER -> "dcc_read_chat"
  BY DEF WaitsAreWatched
<1>1. PICK d : d = c.dcc[i] OBVIOUS
<1>2. Sound(d) /\ d.type \in Type
  <2>1. IsClient(c) /\ AllSound(c) BY DEF IInv, Good
  <2>2. d \in Entry BY <1>1, <2>1 DEF IsClient
  <2> QED BY <1>1, <2>1, <2>2 DEF AllSound, Entry
<1>3. d.stat = "CONNECTING" => d.iotag # "none" \/ d.wiotag # "none"
  BY <1>2 DEF Sound, Watching, Waiting
<1>4. ASSUME d.stat = "ACTIVE", d.throttled = {}, d.type \in Chats => Never({"limit"})
      PROVE  d.iotag = CASE d.type = "RECV" -> "dcc_read"
                         [] d.type = "SEND" -> "dcc_read_ack"
                         [] OTHER -> "dcc_read_chat"
  <2>1. Running(d) BY <1>2, <1>4 DEF Sound, Watching
  <2>2. CASE d.type = "RECV" BY <1>4, <2>1, <2>2 DEF Running
  <2>3. CASE d.type = "SEND" BY <1>4, <2>1, <2>3 DEF Running
  <2>4. CASE d.type \in Chats
    <3>1. d.iotag = "dcc_read_chat" BY <1>4, <2>1, <2>4 DEF Running, Never, May
    <3> QED BY <2>4, <3>1 DEF Chats
  <2> QED BY <1>2, <2>2, <2>3, <2>4 DEF Type, Chats
<1> QED BY <1>1, <1>3, <1>4

LEMMA Silent == ASSUME IInv PROVE FinishedIsSilent
<1>1. \A i \in DOMAIN c.dcc : Sound(c.dcc[i]) BY DEF IInv, Good, AllSound
<1> QED BY <1>1 DEF FinishedIsSilent, Sound, Watching, Never, May

LEMMA Ticking == ASSUME IInv PROVE TimerRuns
<1>1. Timed(c) /\ Listed(c) /\ c.list \in Seq(Id) BY DEF IInv, Good, IsClient
<1>2. DOMAIN c.dcc = {} <=> c.list = <<>>
  <2>1. DOMAIN c.list = 1..Len(c.list) /\ Len(c.list) \in Nat BY <1>1
  <2>2. c.list = <<>> => ToSet(c.list) = {} BY DEF ToSet
  <2>3. c.list # <<>> => c.list[1] \in ToSet(c.list)
    <3>1. c.list # <<>> => 1 \in DOMAIN c.list BY <1>1, <2>1
    <3> QED BY <3>1 DEF ToSet
  <2> QED BY <1>1, <2>2, <2>3 DEF Listed
<1> QED BY <1>1, <1>2 DEF Timed, TimerRuns

(* Without chats what is not sent is received.                             *)
LEMMA Exact == ASSUME IInv PROVE SumsAreExact
<1> SUFFICES ASSUME Never({"chats"})
             PROVE  c.sendsum = Speed(c, {"SEND"}) /\ c.getsum = Speed(c, {"RECV"})
  BY DEF SumsAreExact
<1>1. IsClient(c) /\ Summed(c) /\ AllSound(c) BY DEF IInv, Good
<1>2. c.sendsum = Speed(c, {"SEND"}) /\ c.getsum = Speed(c, Type \ {"SEND"}) BY <1>1 DEF Summed
<1>3. \A i \in DOMAIN c.dcc : c.dcc[i].type \in {"RECV"} <=> c.dcc[i].type \in Type \ {"SEND"}
  <2> SUFFICES ASSUME NEW i \in DOMAIN c.dcc
               PROVE  c.dcc[i].type \in {"RECV"} <=> c.dcc[i].type \in Type \ {"SEND"}
    OBVIOUS
  <2>1. c.dcc[i] \in Entry BY <1>1 DEF IsClient
  <2>2. c.dcc[i].type \in Type BY <2>1 DEF Entry
  <2>3. c.dcc[i].type \notin Chats BY <1>1 DEF AllSound, Sound, May, Never
  <2> QED BY <2>2, <2>3 DEF Type, Chats
<1>4. \A i \in Id : Share(c, {"RECV"}, i) = Share(c, Type \ {"SEND"}, i) BY <1>3 DEF Share
<1>5. [i \in Id |-> Share(c, {"RECV"}, i)] = [i \in Id |-> Share(c, Type \ {"SEND"}, i)] BY <1>4
<1>6. Speed(c, {"RECV"}) = Speed(c, Type \ {"SEND"}) BY <1>5 DEF Speed
<1> QED BY <1>2, <1>6

(* Everything an entry is, is a value it can have, the list names each     *)
(* entry once, and the walk is at one of the numbers (new_dcc, dcc_close,  *)
(* dcc_check_timeouts).                                                    *)
THEOREM TypeCorrect == Spec => []TypeOK
<1>1. IInv => TypeOK BY DEF IInv, TypeOK, Good, Listed
<1> QED BY <1>1, Initially, Inductive, PTL DEF Spec

(* For any number of entries and whatever peers, proxies and users do: an  *)
(* entry that waits is watched, a finished one is not, the timer runs as   *)
(* long as there are entries, and the sums the global limits are compared  *)
(* with are the speeds of the transfers that run (dcc_calc_cps,            *)
(* dcc_remove_from_sum, dcc_close, read_proxy, write_proxy).               *)
THEOREM AlwaysListIsTended == Spec => []ListIsTended
<1>1. IInv => ListIsTended BY Waits, Silent, Ticking, Exact DEF ListIsTended
<1> QED BY <1>1, Initially, Inductive, PTL DEF Spec

(* For any number of entries: the walk of dcc_check_timeouts is at an      *)
(* entry there is unless a hook removes one, no entry keeps a server that  *)
(* was freed, a chat has its line buffer exactly as long as it runs, and   *)
(* where nobody changes nick there is one chat with a peer at most         *)
(* (dcc_notify_kill, dcc_close, dcc_chat, handle_dcc).                     *)
THEOREM AlwaysRightEntry == Spec => []RightEntry
<1>1. IInv => RightEntry
  <2> SUFFICES ASSUME IInv PROVE RightEntry OBVIOUS
  <2>1. Served(c) /\ Paired(c) /\ AllSound(c) BY DEF IInv, Good
  <2>2. WalkIsLive BY DEF IInv, WalkIsLive
  <2>3. ServerIsLive BY <2>1 DEF Served, ServerIsLive
  <2>4. ChatHasBuffer BY <2>1 DEF AllSound, Sound, ChatHasBuffer
  <2>5. OneChat BY <2>1 DEF Paired, OneChat
  <2> QED BY <2>2, <2>3, <2>4, <2>5 DEF RightEntry
<1> QED BY <1>1, Initially, Inductive, PTL DEF Spec
=============================================================================
