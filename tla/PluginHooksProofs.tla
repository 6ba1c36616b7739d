------------------------- MODULE PluginHooksProofs -------------------------
(***************************************************************************)
(* Proofs about PluginHooks for every bound and every set of features.     *)
(***************************************************************************)
EXTENDS PluginHooks, FiniteSetTheorems, SequenceTheorems, WellFoundedInduction, TLAPS

(* A set of numbers has a smallest one: < is well-founded on Nat. *)
LEMMA SmallestExists == ASSUME NEW T \in SUBSET Nat, T # {} PROVE \E x \in T : \A y \in T : x <= y
<1> DEFINE R == {ss \in Nat \X Nat : ss[1] < ss[2]}
<1>1. OpToRel(<, Nat) = R
  BY Zenon DEF OpToRel
<1>2. IsWellFoundedOn(R, Nat)
  BY <1>1, NatLessThanWellFounded, Zenon
<1>3. \A a, b \in Nat : a < b => <<a, b>> \in R
  <2> SUFFICES ASSUME NEW a \in Nat, NEW b \in Nat, a < b PROVE <<a, b>> \in R
    OBVIOUS
  <2>1. <<a, b>>[1] = a /\ <<a, b>>[2] = b OBVIOUS
  <2>2. <<a, b>> \in Nat \X Nat OBVIOUS
  <2> QED BY <2>1, <2>2
<1> HIDE DEF R
<1>4. PICK x \in T : \A y \in T : ~ (<<y, x>> \in R)
  BY <1>2, WFMin, Zenon
<1>5. ASSUME NEW y \in T, ~(x <= y) PROVE FALSE
  <2>1. x \in Nat /\ y \in Nat /\ y < x BY <1>5
  <2>2. <<y, x>> \in R BY <2>1, <1>3, Zenon
  <2> QED BY <1>4, <2>2, Zenon
<1> QED BY <1>5

(* Min is what its name says. *)
LEMMA MinFacts ==
  ASSUME NEW T \in SUBSET Nat, T # {}
  PROVE  Min(T) \in T /\ \A y \in T : Min(T) <= y
BY SmallestExists DEF Min

(* l is what is left of q when only elements of S are kept: e says where   *)
(* they come from.                                                         *)
Subsequence(q, l, S) ==
    \E e \in [1..Len(l) -> 1..Len(q)] :
      /\ \A i \in 1..Len(l) : l[i] = q[e[i]] /\ q[e[i]] \in S
      /\ \A i, j \in 1..Len(l) : i < j => e[i] < e[j]
      /\ \A k \in 1..Len(q) : q[k] \in S => \E i \in 1..Len(l) : e[i] = k

(* That is what Kept returns. *)
LEMMA KeptFacts ==
  ASSUME NEW T, NEW q \in Seq(T), NEW S
  PROVE  Kept(q, S) \in Seq(T) /\ Subsequence(q, Kept(q, S), S)
<1> DEFINE at == {k \in 1..Len(q) : q[k] \in S}
           Below(k) == {j \in at : j < k}
           n == Cardinality(at)
           c == [k \in at |-> Cardinality(Below(k))]
           e == [i \in 1..n |-> CHOOSE k \in at : Cardinality(Below(k)) = i - 1]
<1>1. IsFiniteSet(at) /\ n \in Nat
  <2>1. Len(q) \in Nat /\ at \subseteq 1..Len(q) OBVIOUS
  <2>2. IsFiniteSet(1..Len(q)) BY <2>1, FS_Interval
  <2>3. IsFiniteSet(at) BY <2>1, <2>2, FS_Subset
  <2> QED BY <2>3, FS_CardinalityType
<1>2. \A k : IsFiniteSet(Below(k)) /\ Cardinality(Below(k)) \in Nat
  <2> SUFFICES ASSUME NEW k PROVE IsFiniteSet(Below(k)) /\ Cardinality(Below(k)) \in Nat
    OBVIOUS
  <2>1. Below(k) \in SUBSET at OBVIOUS
  <2> HIDE DEF at, Below
  <2>2. IsFiniteSet(Below(k)) BY <2>1, <1>1, FS_Subset
  <2> QED BY <2>2, FS_CardinalityType
<1>3. \A k \in at : c[k] \in 0..(n - 1)
  <2> SUFFICES ASSUME NEW k \in at PROVE c[k] \in 0..(n - 1)
    OBVIOUS
  <2>1. Below(k) \in SUBSET at /\ k \notin Below(k) OBVIOUS
  <2>2. c[k] = Cardinality(Below(k)) OBVIOUS
  <2> HIDE DEF at, Below, c
  <2>3. Cardinality(Below(k)) <= n /\ (n = Cardinality(Below(k)) => at = Below(k))
    BY <2>1, <1>1, FS_Subset
  <2> QED BY <2>1, <2>2, <2>3, <1>1, <1>2 DEF n
<1>4. \A j, k \in at : j < k => c[j] < c[k]
  <2> SUFFICES ASSUME NEW j \in at, NEW k \in at, j < k PROVE c[j] < c[k]
    OBVIOUS
  <2>1. Below(j) \in SUBSET Below(k) /\ j \notin Below(j) /\ j \in Below(k) OBVIOUS
  <2>2. c[j] = Cardinality(Below(j)) /\ c[k] = Cardinality(Below(k)) OBVIOUS
  <2> HIDE DEF at, Below, c
  <2>3. /\ Cardinality(Below(j)) <= Cardinality(Below(k))
        /\ Cardinality(Below(k)) = Cardinality(Below(j)) => Below(k) = Below(j)
    BY <2>1, <1>2, FS_Subset
  <2> QED BY <2>1, <2>2, <2>3, <1>2
<1>5. c \in Surjection(at, 0..(n - 1))
  <2>1. c \in [at -> 0..(n - 1)] BY <1>3
  <2>2. \A j, k \in at : c[j] = c[k] => j = k
    <3> SUFFICES ASSUME NEW j \in at, NEW k \in at, c[j] = c[k], j # k PROVE FALSE
      OBVIOUS
    <3>1. j \in Nat /\ k \in Nat OBVIOUS
    <3> HIDE DEF at, c, n
    <3>2. c[j] \in Nat /\ c[k] \in Nat BY <1>3, <1>1
    <3>3. ~(j < k) /\ ~(k < j) BY <1>4, <3>2
    <3> QED BY <3>1, <3>3
  <2>3. c \in Injection(at, 0..(n - 1)) BY <2>1, <2>2 DEF Injection, IsInjective
  <2>4. IsFiniteSet(0..(n - 1)) /\ Cardinality(0..(n - 1)) = n
    <3> HIDE DEF n
    <3> QED BY <1>1, FS_Interval
  <2> HIDE DEF c, at
  <2> QED BY <2>3, <2>4, <1>1, FS_Injection DEF n
<1>6. \A i \in 1..n : e[i] \in at /\ c[e[i]] = i - 1
  <2> SUFFICES ASSUME NEW i \in 1..n PROVE e[i] \in at /\ c[e[i]] = i - 1
    OBVIOUS
  <2>1. i - 1 \in 0..(n - 1) BY <1>1
  <2>2. \E k \in at : c[k] = i - 1 BY <1>5, <2>1 DEF Surjection
  <2>3. \A k \in at : c[k] = Cardinality(Below(k)) OBVIOUS
  <2> HIDE DEF c, at, n, Below
  <2> QED BY <2>2, <2>3 DEF e
<1>7. Kept(q, S) = [i \in 1..n |-> q[e[i]]]
  <2>1. Kept(q, S) = [i \in 1..n |-> q[CHOOSE k \in at : Cardinality(Below(k)) = i - 1]]
    BY Zenon DEF Kept
  <2> HIDE DEF n, at, Below
  <2> QED BY <2>1
<1> HIDE DEF e, c, n
<1>8. Kept(q, S) \in Seq(T) /\ Len(Kept(q, S)) = n
  <2>1. \A i \in 1..n : q[e[i]] \in T BY <1>6
  <2> QED BY <2>1, <1>1, <1>7
<1>9. e \in [1..n -> 1..Len(q)]
  BY <1>6 DEF e
<1>10. \A i \in 1..n : Kept(q, S)[i] = q[e[i]] /\ q[e[i]] \in S
  BY <1>6, <1>7
<1>11. \A i, j \in 1..n : i < j => e[i] < e[j]
  <2> SUFFICES ASSUME NEW i \in 1..n, NEW j \in 1..n, i < j, ~(e[i] < e[j]) PROVE FALSE
    OBVIOUS
  <2>1. e[i] \in Nat /\ e[j] \in Nat BY <1>6
  <2>2. e[j] < e[i] \/ e[j] = e[i] BY <2>1
  <2>3. e[i] \in at /\ e[j] \in at /\ c[e[i]] = i - 1 /\ c[e[j]] = j - 1 BY <1>6
  <2> HIDE DEF at
  <2>4. e[j] < e[i] => c[e[j]] < c[e[i]] BY <2>3, <1>4
  <2>5. i \in Int /\ j \in Int BY <1>1
  <2> QED BY <2>2, <2>3, <2>4, <2>5
<1>12. \A k \in 1..Len(q) : q[k] \in S => \E i \in 1..n : e[i] = k
  <2> SUFFICES ASSUME NEW k \in 1..Len(q), q[k] \in S PROVE \E i \in 1..n : e[i] = k
    OBVIOUS
  <2>1. k \in at OBVIOUS
  <2>2. c[k] + 1 \in 1..n BY <2>1, <1>3, <1>1
  <2>3. e[c[k] + 1] \in at /\ c[e[c[k] + 1]] = c[k] BY <2>2, <1>6, <1>3, <2>1, <1>1
  <2>4. e[c[k] + 1] = k
    <3>1. e[c[k] + 1] \in Nat /\ k \in Nat BY <2>3
    <3>2. c[k] \in Nat BY <1>3, <2>1, <1>1
    <3>3. ~(e[c[k] + 1] < k) /\ ~(k < e[c[k] + 1]) BY <1>4, <2>1, <2>3, <3>2
    <3> QED BY <3>1, <3>3
  <2> QED BY <2>2, <2>4
<1> QED BY <1>8, <1>9, <1>10, <1>11, <1>12 DEF Subsequence

-----------------------------------------------------------------------------
(* The inductive invariant, of a program s.  The list holds every hook     *)
(* once, and no number is used for a second hook.                          *)
Listed(s) ==
    /\ s \in State
    /\ IsInjective(s.list) /\ ToSet(s.list) = DOMAIN s.hooks
    /\ DOMAIN s.hooks \subseteq 1..s.made

(* The main loop holds the timers that are hooked, timer_list those of     *)
(* /TIMER, and what is hooked belongs to a plugin that is loaded.          *)
Timely(s) ==
    /\ s.sources = {h \in DOMAIN s.hooks : s.hooks[h].type = "TIMER"}
    /\ s.timers = {h \in s.sources : s.hooks[h].pl = "Timer"}
    /\ "Timer" \in s.plugins
    /\ \A h \in DOMAIN s.hooks :
         /\ s.hooks[h].type = "TIMER" => s.hooks[h].tag
         /\ s.hooks[h].type # "DELETED" => s.hooks[h].pl \in s.plugins /\ s.hooks[h].type \in features
         /\ s.hooks[h].pl = "Timer" => s.hooks[h].type \in {"TIMER", "DELETED"}

(* What a frame says of hooks that may be freed meanwhile. *)
FrameFits(s, f) ==
    /\ f.hook \in 1..s.made /\ f.found \subseteq 1..s.made /\ f.ran \subseteq 1..s.made
    /\ f.ev = "timer" => /\ f.next = 0 /\ f.found = {} /\ f.ran = {}
                         /\ f.hook \in DOMAIN s.hooks => s.hooks[f.hook].pl = f.pl
    /\ f.pl = "Timer" => f.ev = "timer"
    /\ \A h \in f.found \cap DOMAIN s.hooks : s.hooks[h].type \in RunBy(f.ev) \cup {"DELETED"}

(* Timers are fired by the main loop only. *)
Framed(s) ==
    \A k \in 1..Len(s.stack) :
      FrameFits(s, s.stack[k]) /\ (s.stack[k].ev = "timer" => k = Len(s.stack))

(* Why FlatRemovals is enough: either only a timer is ever interrupted by  *)
(* an event, or no hook is ever marked.                                    *)
Flat(s) ==
    /\ Never({"nest"}) => \A k \in 2..Len(s.stack) : s.stack[k].ev = "timer"
    /\ Never(Removals) => /\ \A h \in DOMAIN s.hooks : s.hooks[h].type # "DELETED"
                          /\ \A k \in 1..Len(s.stack) : s.stack[k].ev # "timer"

(* h is not before from in the list. *)
NotBefore(s, from, h) == /\ from \in DOMAIN s.hooks /\ h \in DOMAIN s.hooks
                         /\ Place(s, from) <= Place(s, h)

FrameAhead(s, f) ==
    /\ f.next \in {0} \cup DOMAIN s.hooks
    /\ \A h \in f.found \ f.ran : Live(s, h) => NotBefore(s, f.next, h)
    /\ \A h \in f.ran : ~NotBefore(s, f.next, h)

Ahead(s) == FlatRemovals => \A k \in 1..Len(s.stack) : FrameAhead(s, s.stack[k])

(* What callbacks do not do in the behaviours that NothingFreedIsUsed is   *)
(* about.                                                                  *)
Careful(s) ==
    /\ Never({"selfunload"}) => Running(s) \subseteq s.plugins
    /\ Never({"close"}) => \A k \in 1..Len(s.stack) : s.stack[k].sess
    /\ Never({"selfdelete"}) =>
         \A k \in 1..Len(s.stack) : s.stack[k].ev = "timer" /\ s.stack[k].pl = "Timer"
                                    => s.stack[k].hook \in s.timers
    /\ FlatRemovals /\ Never({"selfunload", "selfdelete", "close"}) => s.used = {}

(* The order of the list, as ByPriority states it. *)
Sorted(s) ==
    \A ev \in Event :
      (ev = "server" => Never({"SERVER_ATTRS", "PRINT_ATTRS"})) =>
        \A g, h \in DOMAIN s.hooks :
          /\ Place(s, g) < Place(s, h)
          /\ s.hooks[g].type \in RunBy(ev) /\ s.hooks[h].type \in RunBy(ev)
          => s.hooks[g].pri >= s.hooks[h].pri

Good(s) == Listed(s) /\ Timely(s) /\ Framed(s) /\ Flat(s) /\ Ahead(s) /\ Careful(s) /\ Sorted(s)

IInv == Good(p) /\ Len(p.stack) <= MaxDepth /\ features \in Scenarios
-----------------------------------------------------------------------------
(* The fields of a program. *)
LEMMA StateFields ==
  ASSUME NEW s \in State
  PROVE  /\ DOMAIN s.hooks \in SUBSET Hook /\ s.hooks \in [DOMAIN s.hooks -> HookData]
         /\ s.list \in Seq(Hook) /\ s.made \in 0..MaxHooks /\ s.plugins \in SUBSET Plugin
         /\ s.sources \in SUBSET Hook /\ s.timers \in SUBSET Hook /\ s.stack \in Seq(Frame)
         /\ s.used \in SUBSET {"node", "sess", "timer", "code"}
<1>1. s.hooks \in UNION {[S -> HookData] : S \in SUBSET Hook}
  BY DEF State
<1>2. PICK S \in SUBSET Hook : s.hooks \in [S -> HookData]
  BY <1>1
<1> QED BY <1>2 DEF State

(* Every hook in the list has one place there. *)
LEMMA PlaceFacts ==
  ASSUME NEW s, Listed(s)
  PROVE  /\ \A h \in DOMAIN s.hooks : Place(s, h) \in 1..Len(s.list) /\ s.list[Place(s, h)] = h
         /\ \A k \in 1..Len(s.list) : s.list[k] \in DOMAIN s.hooks /\ Place(s, s.list[k]) = k
<1>1. s.list \in Seq(Hook) /\ Len(s.list) \in Nat /\ DOMAIN s.list = 1..Len(s.list)
  BY StateFields DEF Listed
<1>2. \A h \in DOMAIN s.hooks : \E k \in 1..Len(s.list) : s.list[k] = h
  BY <1>1 DEF Listed, ToSet
<1>3. \A h \in DOMAIN s.hooks : Place(s, h) \in 1..Len(s.list) /\ s.list[Place(s, h)] = h
  BY <1>2 DEF Place
<1>4. \A k \in 1..Len(s.list) : s.list[k] \in DOMAIN s.hooks
  BY <1>1 DEF Listed, ToSet
<1>5. \A k \in 1..Len(s.list) : Place(s, s.list[k]) = k
  BY <1>1, <1>3, <1>4 DEF Listed, IsInjective
<1> QED BY <1>3, <1>4, <1>5

(* From is what is not before a hook. *)
LEMMA FromFacts ==
  ASSUME NEW s, Listed(s), NEW h, NEW g
  PROVE  g \in ToSet(From(s, h)) <=> NotBefore(s, h, g)
<1>1. CASE h \notin DOMAIN s.hooks
  BY <1>1 DEF From, NotBefore, ToSet
<1>2. CASE h \in DOMAIN s.hooks
  <2>1. s.list \in Seq(Hook) /\ Len(s.list) \in Nat
    BY StateFields DEF Listed
  <2> DEFINE a == Place(s, h)
             q == SubSeq(s.list, a, Len(s.list))
  <2>2. a \in 1..Len(s.list) BY <1>2, PlaceFacts
  <2> HIDE DEF a
  <2>3. DOMAIN q = 1..(Len(s.list) - a + 1) /\ \A i \in 1..(Len(s.list) - a + 1) : q[i] = s.list[a + i - 1]
    BY <2>1, <2>2
  <2>4. From(s, h) = q BY <1>2 DEF From, a
  <2> HIDE DEF q
  <2>5. ASSUME g \in ToSet(From(s, h)) PROVE NotBefore(s, h, g)
    <3>1. PICK i \in 1..(Len(s.list) - a + 1) : g = s.list[a + i - 1]
      BY <2>3, <2>4, <2>5 DEF ToSet
    <3>2. a + i - 1 \in 1..Len(s.list) /\ a <= a + i - 1 BY <2>1, <2>2
    <3>3. g \in DOMAIN s.hooks /\ Place(s, g) = a + i - 1 BY <3>1, <3>2, PlaceFacts
    <3> QED BY <1>2, <3>2, <3>3 DEF NotBefore, a
  <2>6. ASSUME NotBefore(s, h, g) PROVE g \in ToSet(From(s, h))
    <3>1. Place(s, g) \in 1..Len(s.list) /\ s.list[Place(s, g)] = g /\ a <= Place(s, g)
      BY <2>6, PlaceFacts DEF NotBefore, a
    <3> DEFINE i == Place(s, g) - a + 1
    <3>2. i \in 1..(Len(s.list) - a + 1) /\ a + i - 1 = Place(s, g) BY <3>1, <2>1, <2>2
    <3>3. q[i] = g BY <3>1, <3>2, <2>3
    <3> QED BY <3>2, <3>3, <2>3, <2>4 DEF ToSet
  <2> QED BY <2>5, <2>6
<1> QED BY <1>1, <1>2

(* The invariant gives the properties that the runs check. *)
LEMMA InvImplies ==
  IInv => TypeOK /\ NothingFreedIsUsed /\ RunsInOrder /\ CallsAreDue
<1> SUFFICES ASSUME IInv PROVE TypeOK /\ NothingFreedIsUsed /\ RunsInOrder /\ CallsAreDue
  OBVIOUS
<1> USE DEF IInv, Good
<1>1. TypeOK BY DEF TypeOK, Listed
<1>2. NothingFreedIsUsed BY DEF NothingFreedIsUsed, Ahead, FrameAhead, Careful
<1>3. EachHookOnce
  <2> SUFFICES ASSUME FlatRemovals, NEW k \in 1..Len(p.stack)
               PROVE  /\ {h \in p.stack[k].found \ p.stack[k].ran : Live(p, h)} \subseteq ToSet(From(p, p.stack[k].next))
                      /\ p.stack[k].ran \cap ToSet(From(p, p.stack[k].next)) = {}
    BY DEF EachHookOnce
  <2>1. FrameAhead(p, p.stack[k]) BY DEF Ahead
  <2> QED BY <2>1, FromFacts DEF FrameAhead
<1>4. ByPriority
  <2> SUFFICES ASSUME NEW ev \in Event, ev = "server" => Never({"SERVER_ATTRS", "PRINT_ATTRS"}),
                      NEW i \in 1..Len(p.list), NEW j \in 1..Len(p.list), i < j,
                      p.hooks[p.list[i]].type \in RunBy(ev), p.hooks[p.list[j]].type \in RunBy(ev)
               PROVE  p.hooks[p.list[i]].pri >= p.hooks[p.list[j]].pri
    BY DEF ByPriority
  <2>1. /\ p.list[i] \in DOMAIN p.hooks /\ Place(p, p.list[i]) = i
        /\ p.list[j] \in DOMAIN p.hooks /\ Place(p, p.list[j]) = j
    BY PlaceFacts
  <2> QED BY <2>1 DEF Sorted
<1>5. NoLateCall BY DEF NoLateCall, Timely, Live
<1>6. TimersAreHooked BY DEF TimersAreHooked, Timely
<1> QED BY <1>1, <1>2, <1>3, <1>4, <1>5, <1>6 DEF RunsInOrder, CallsAreDue

-----------------------------------------------------------------------------
(* What marking hooks keeps. *)
LEMMA MarkKeeps ==
  ASSUME NEW s, NEW r \in State, Listed(s), r.list = s.list, r.made = s.made, r.stack = s.stack,
         DOMAIN r.hooks = DOMAIN s.hooks,
         \A g \in DOMAIN s.hooks :
            \/ r.hooks[g] = s.hooks[g]
            \/ /\ r.hooks[g].type = "DELETED" /\ r.hooks[g].pl = s.hooks[g].pl
               /\ r.hooks[g].pri = s.hooks[g].pri
  PROVE  /\ Listed(r)
         /\ Framed(s) => Framed(r)
         /\ Flat(s) /\ ~Never(Removals) => Flat(r)
         /\ Ahead(s) => Ahead(r)
         /\ Sorted(s) => Sorted(r)
<1>1. Listed(r) BY DEF Listed
<1>2. ASSUME Framed(s) PROVE Framed(r)
  <2> SUFFICES ASSUME NEW k \in 1..Len(s.stack)
               PROVE  FrameFits(r, s.stack[k]) /\ (s.stack[k].ev = "timer" => k = Len(s.stack))
    BY DEF Framed
  <2>1. FrameFits(s, s.stack[k]) /\ (s.stack[k].ev = "timer" => k = Len(s.stack))
    BY <1>2 DEF Framed
  <2> QED BY <2>1 DEF FrameFits
<1>3. ASSUME Flat(s), ~Never(Removals) PROVE Flat(r) BY <1>3 DEF Flat
<1>4. \A h : Place(r, h) = Place(s, h) BY DEF Place
<1>5. \A g, h : NotBefore(r, g, h) <=> NotBefore(s, g, h) BY <1>4 DEF NotBefore
<1>6. \A h : Live(r, h) => Live(s, h) BY DEF Live
<1>7. ASSUME Ahead(s) PROVE Ahead(r)
  BY <1>5, <1>6, <1>7 DEF Ahead, FrameAhead
<1>8. ASSUME Sorted(s) PROVE Sorted(r)
  <2>1. \A g \in DOMAIN s.hooks, ev \in Event : r.hooks[g].type \in RunBy(ev) => r.hooks[g] = s.hooks[g]
    BY DEF RunBy, Event
  <2> QED BY <1>4, <1>8, <2>1 DEF Sorted
<1> QED BY <1>1, <1>2, <1>3, <1>7, <1>8

(* r is s with hook h marked, perhaps taken from the main loop and from    *)
(* timer_list.                                                             *)
Marks(s, r, h) ==
    /\ r \in State /\ h \in DOMAIN s.hooks
    /\ r.list = s.list /\ r.made = s.made /\ r.stack = s.stack /\ r.plugins = s.plugins /\ r.used = s.used
    /\ DOMAIN r.hooks = DOMAIN s.hooks
    /\ \A g \in DOMAIN s.hooks : g # h => r.hooks[g] = s.hooks[g]
    /\ r.hooks[h].type = "DELETED" /\ r.hooks[h].pl = s.hooks[h].pl /\ r.hooks[h].pri = s.hooks[h].pri

(* It disturbs only the timers. *)
LEMMA MarksKeeps ==
  ASSUME NEW s, NEW h, NEW r, Marks(s, r, h), Good(s), ~Never(Removals)
  PROVE  Listed(r) /\ Framed(r) /\ Flat(r) /\ Ahead(r) /\ Sorted(r)
BY MarkKeeps DEF Marks, Good

(* Taking it from both lists keeps them right. *)
LEMMA MarksTimely ==
  ASSUME NEW s, NEW r, NEW h, Timely(s), Marks(s, r, h),
         r.sources = s.sources \ {h}, r.timers = s.timers \ {h}
  PROVE  Timely(r)
<1>1. r.sources = {g \in DOMAIN r.hooks : r.hooks[g].type = "TIMER"}
  BY DEF Timely, Marks
<1>2. r.timers = {g \in r.sources : r.hooks[g].pl = "Timer"}
  BY DEF Timely, Marks
<1> QED BY <1>1, <1>2 DEF Timely, Marks

(* hexchat_unhook of a hook that is alive. *)
LEMMA UnhookMarks ==
  ASSUME NEW s \in State, NEW h, Live(s, h)
  PROVE  /\ Marks(s, hexchat_unhook(s, h), h)
         /\ hexchat_unhook(s, h).timers = s.timers
         /\ s.hooks[h].type = "TIMER" /\ s.hooks[h].tag => hexchat_unhook(s, h).sources = s.sources \ {h}
         /\ s.hooks[h].type # "TIMER" \/ ~s.hooks[h].tag => hexchat_unhook(s, h).sources = s.sources
<1> DEFINE hk == [s.hooks EXCEPT ![h].type = "DELETED"]
           so == IF s.hooks[h].type = "TIMER" /\ s.hooks[h].tag THEN s.sources \ {h} ELSE s.sources
           r == hexchat_unhook(s, h)
<1>1. r = [s EXCEPT !.hooks = hk, !.sources = so]
  BY DEF hexchat_unhook
<1>2. h \in DOMAIN s.hooks /\ s.hooks[h] \in HookData BY StateFields DEF Live
<1>3. /\ hk \in [DOMAIN s.hooks -> HookData] /\ \A g \in DOMAIN s.hooks : g # h => hk[g] = s.hooks[g]
      /\ hk[h].type = "DELETED" /\ hk[h].pl = s.hooks[h].pl /\ hk[h].pri = s.hooks[h].pri
  BY <1>2, StateFields DEF HookData
<1>4. so \in SUBSET Hook BY StateFields
<1> HIDE DEF hk, so, r
<1>5. r = [hooks |-> hk, list |-> s.list, made |-> s.made, plugins |-> s.plugins, sources |-> so,
           timers |-> s.timers, stack |-> s.stack, used |-> s.used]
  BY <1>1 DEF State
<1>6. r \in State
  <2>1. DOMAIN s.hooks \in SUBSET Hook BY StateFields
  <2>2. hk \in UNION {[T -> HookData] : T \in SUBSET Hook} BY <1>3, <2>1
  <2> QED BY <1>4, <1>5, <2>2 DEF State
<1>7. /\ r.hooks = hk /\ r.sources = so
      /\ r.list = s.list /\ r.made = s.made /\ r.stack = s.stack /\ r.plugins = s.plugins
      /\ r.timers = s.timers /\ r.used = s.used
  BY <1>5
<1>8. DOMAIN r.hooks = DOMAIN s.hooks BY <1>3, <1>7
<1>9. Marks(s, r, h) BY <1>2, <1>3, <1>6, <1>7, <1>8, Zenon DEF Marks
<1> QED BY <1>7, <1>9, Zenon DEF so, r

(* A callback of a plugin removes one of its own hooks. *)
LEMMA UnhookGood ==
  ASSUME NEW s, Good(s), NEW h \in DOMAIN s.hooks, s.hooks[h].pl # "Timer", ~Never(Removals)
  PROVE  Good(hexchat_unhook(s, h)) /\ hexchat_unhook(s, h).stack = s.stack
<1> DEFINE r == hexchat_unhook(s, h)
<1>1. CASE ~Live(s, h) BY <1>1 DEF hexchat_unhook
<1>2. CASE Live(s, h)
  <2>1. s \in State /\ Timely(s) BY DEF Good, Listed
  <2>2. /\ Marks(s, r, h) /\ r.timers = s.timers
        /\ s.hooks[h].type = "TIMER" /\ s.hooks[h].tag => r.sources = s.sources \ {h}
        /\ s.hooks[h].type # "TIMER" \/ ~s.hooks[h].tag => r.sources = s.sources
    BY <1>2, <2>1, UnhookMarks
  <2> HIDE DEF r
  <2>3. r.sources = s.sources \ {h} /\ r.timers = s.timers \ {h} BY <2>1, <2>2 DEF Timely
  <2>4. Timely(r) BY <2>1, <2>2, <2>3, MarksTimely
  <2>5. Listed(r) /\ Framed(r) /\ Flat(r) /\ Ahead(r) /\ Sorted(r) BY <2>2, MarksKeeps
  <2>6. Careful(r) BY <2>2 DEF Good, Careful, Running, Marks
  <2>7. Good(r) /\ r.stack = s.stack BY <2>2, <2>4, <2>5, <2>6 DEF Good, Marks
  <2> QED BY <2>7 DEF r
<1> QED BY <1>1, <1>2

(* timer_del of a timer of /TIMER. *)
LEMMA TimerDelMarks ==
  ASSUME NEW s, Good(s), NEW h \in s.timers
  PROVE  /\ Marks(s, timer_del(s, h), h) /\ Timely(timer_del(s, h))
         /\ timer_del(s, h).timers = s.timers \ {h} /\ timer_del(s, h).sources = s.sources \ {h}
         /\ ~Never(Removals)
<1> DEFINE t == [s EXCEPT !.timers = @ \ {h}]
           r == hexchat_unhook(t, h)
<1>1. s \in State /\ Timely(s) BY DEF Good, Listed
<1>2. h \in DOMAIN s.hooks /\ s.hooks[h].type = "TIMER" /\ s.hooks[h].tag /\ s.hooks[h].type \in features
  BY <1>1 DEF Timely
<1>3. /\ t \in State /\ t.hooks = s.hooks /\ t.list = s.list /\ t.made = s.made /\ t.stack = s.stack
      /\ t.plugins = s.plugins /\ t.used = s.used /\ t.sources = s.sources /\ t.timers = s.timers \ {h}
  BY <1>1 DEF State
<1>4. r = timer_del(s, h) BY DEF timer_del
<1> HIDE DEF t
<1>5. Live(t, h) BY <1>2, <1>3 DEF Live
<1>6. ~Never(Removals) BY <1>2 DEF Never, Removals
<1>7. Marks(t, r, h) /\ r.timers = t.timers /\ r.sources = t.sources \ {h}
  <2>1. t.hooks[h].type = "TIMER" /\ t.hooks[h].tag BY <1>2, <1>3
  <2> QED BY <1>3, <1>5, <2>1, UnhookMarks
<1> HIDE DEF r
<1>8. Marks(s, r, h) BY <1>3, <1>7 DEF Marks
<1>9. r.timers = s.timers \ {h} /\ r.sources = s.sources \ {h} BY <1>3, <1>7
<1>10. Timely(r) BY <1>1, <1>8, <1>9, MarksTimely
<1> QED BY <1>4, <1>6, <1>8, <1>9, <1>10

(* So it keeps the invariant. *)
LEMMA TimerDelGood ==
  ASSUME NEW s, Good(s), NEW h \in s.timers,
         Never({"selfdelete"}) => \A k \in 1..Len(s.stack) : s.stack[k].hook # h
  PROVE  Good(timer_del(s, h)) /\ timer_del(s, h).stack = s.stack
<1> DEFINE r == timer_del(s, h)
<1>1. /\ Marks(s, r, h) /\ Timely(r) /\ r.timers = s.timers \ {h} /\ ~Never(Removals)
  BY TimerDelMarks
<1> HIDE DEF r
<1>2. Listed(r) /\ Framed(r) /\ Flat(r) /\ Ahead(r) /\ Sorted(r) BY <1>1, MarksKeeps
<1>3. Careful(r) BY <1>1 DEF Good, Careful, Running, Marks
<1>4. Good(r) /\ r.stack = s.stack BY <1>1, <1>2, <1>3 DEF Good, Marks
<1> QED BY <1>4 DEF r

-----------------------------------------------------------------------------
(* Timers. *)
Unused(s) == FlatRemovals /\ Never({"selfunload", "selfdelete", "close"}) => s.used = {}

(* Back in the main loop only the hooks count. *)
LEMMA IdleGood ==
  ASSUME NEW s, Listed(s), Timely(s), Sorted(s), Unused(s), s.stack = <<>>,
         Never(Removals) => \A h \in DOMAIN s.hooks : s.hooks[h].type # "DELETED"
  PROVE  Good(s)
<1>1. Len(s.stack) = 0 BY EmptySeq
<1>2. Framed(s) /\ Flat(s) /\ Ahead(s) BY <1>1 DEF Framed, Flat, Ahead
<1>3. Careful(s) BY <1>1 DEF Careful, Unused, Running
<1> QED BY <1>2, <1>3 DEF Good

(* Sorted and Listed are about the hooks and the list alone. *)
LEMMA SameList ==
  ASSUME NEW s, NEW r \in State, r.hooks = s.hooks, r.list = s.list, r.made = s.made
  PROVE  /\ Listed(s) => Listed(r)
         /\ Sorted(s) => Sorted(r)
         /\ Timely(s) /\ r.sources = s.sources /\ r.timers = s.timers /\ r.plugins = s.plugins => Timely(r)
<1>1. \A h : Place(r, h) = Place(s, h) BY DEF Place
<1> QED BY <1>1 DEF Listed, Sorted, Timely

(* What is left when the innermost callback has returned. *)
LEMMA PopFields ==
  ASSUME NEW s \in State, s.stack # <<>>
  PROVE  /\ Pop(s) \in State /\ Pop(s).stack = Tail(s.stack) /\ Len(Pop(s).stack) = Len(s.stack) - 1
         /\ \A k \in 1..Len(Pop(s).stack) : Pop(s).stack[k] = s.stack[k + 1]
         /\ Head(s.stack) = s.stack[1] /\ Head(s.stack) \in Frame /\ Len(s.stack) \in Nat \ {0}
         /\ Pop(s).hooks = s.hooks /\ Pop(s).list = s.list /\ Pop(s).made = s.made
         /\ Pop(s).plugins = s.plugins /\ Pop(s).sources = s.sources /\ Pop(s).timers = s.timers
         /\ Pop(s).used = s.used
<1>1. s.stack \in Seq(Frame) BY StateFields
<1>2. /\ Tail(s.stack) \in Seq(Frame) /\ Len(Tail(s.stack)) = Len(s.stack) - 1
      /\ Len(s.stack) \in Nat \ {0}
      /\ \A k \in 1..(Len(s.stack) - 1) : Tail(s.stack)[k] = s.stack[k + 1]
      /\ Head(s.stack) = s.stack[1] /\ Head(s.stack) \in Frame
  BY <1>1
<1> QED BY <1>2 DEF Pop, State

(* What a timer's callback leaves, for hooks of plugins, and for those of  *)
(* /TIMER that are removed already or go on.                               *)
LEMMA TimerReturnsGood ==
  ASSUME NEW s, Listed(s), Timely(s), Sorted(s), Unused(s), Len(s.stack) = 1, ~Never(Removals),
         NEW again \in BOOLEAN,
         Live(s, Head(s.stack).hook) => again \/ s.hooks[Head(s.stack).hook].pl # "Timer"
  PROVE  Good(TimerReturns(s, again)) /\ TimerReturns(s, again).stack = <<>>
<1> DEFINE h == Head(s.stack).hook
           d == [s EXCEPT !.sources = @ \ {h}]
<1>1. s \in State /\ s.stack # <<>> BY StateFields DEF Listed
<1>2. /\ d \in State /\ d.hooks = s.hooks /\ d.list = s.list /\ d.made = s.made /\ d.stack = s.stack
      /\ d.plugins = s.plugins /\ d.used = s.used /\ d.timers = s.timers /\ d.sources = s.sources \ {h}
  BY <1>1 DEF State
<1> HIDE DEF h, d
<1>3. ASSUME NEW t \in State, Listed(t), Timely(t), Sorted(t), t.used = s.used, t.stack = s.stack
      PROVE  Good(Pop(t)) /\ Pop(t).stack = <<>>
  <2>1. t.stack # <<>> /\ Len(Pop(t).stack) = 0 /\ Pop(t) \in State
    BY <1>1, <1>3, PopFields
  <2>2. Pop(t).stack = <<>> BY <2>1, StateFields, EmptySeq
  <2>3. Listed(Pop(t)) /\ Sorted(Pop(t)) /\ Timely(Pop(t)) /\ Pop(t).used = s.used
    BY <1>3, <2>1, PopFields, SameList
  <2>4. Unused(Pop(t)) BY <2>3 DEF Unused
  <2> QED BY <2>2, <2>3, <2>4, IdleGood
<1>4. CASE ~Live(s, h)
  <2>1. d.sources = s.sources BY <1>2, <1>4 DEF Timely, Live
  <2>2. Listed(d) /\ Timely(d) /\ Sorted(d) BY <1>2, <2>1, SameList
  <2>3. TimerReturns(s, again) = Pop(d) BY <1>4 DEF TimerReturns, h, d
  <2> QED BY <1>2, <1>3, <2>2, <2>3
<1>5. CASE Live(s, h) /\ again
  <2>1. TimerReturns(s, again) = Pop(s) BY <1>5 DEF TimerReturns, h, d
  <2> QED BY <1>1, <1>3, <2>1
<1>6. CASE Live(s, h) /\ ~again
  <2> DEFINE e == [d EXCEPT !.hooks[h].tag = FALSE]
             r == hexchat_unhook(e, h)
  <2>1. h \in DOMAIN s.hooks /\ s.hooks[h] \in HookData /\ s.hooks[h].type # "DELETED"
    BY <1>1, <1>6, StateFields DEF Live
  <2>2. /\ e \in State /\ DOMAIN e.hooks = DOMAIN s.hooks
        /\ \A g \in DOMAIN s.hooks : g # h => e.hooks[g] = s.hooks[g]
        /\ e.hooks[h].type = s.hooks[h].type /\ e.hooks[h].pl = s.hooks[h].pl
        /\ e.hooks[h].pri = s.hooks[h].pri /\ ~e.hooks[h].tag
        /\ e.list = s.list /\ e.made = s.made /\ e.stack = s.stack
        /\ e.plugins = s.plugins /\ e.used = s.used /\ e.timers = s.timers /\ e.sources = s.sources \ {h}
    <3> DEFINE hk == [s.hooks EXCEPT ![h].tag = FALSE]
    <3>1. hk \in [DOMAIN s.hooks -> HookData] /\ DOMAIN s.hooks \in SUBSET Hook
      BY <1>1, <2>1, StateFields DEF HookData
    <3>2. /\ DOMAIN hk = DOMAIN s.hooks /\ \A g \in DOMAIN s.hooks : g # h => hk[g] = s.hooks[g]
          /\ hk[h].type = s.hooks[h].type /\ hk[h].pl = s.hooks[h].pl
          /\ hk[h].pri = s.hooks[h].pri /\ ~hk[h].tag
      BY <1>1, <2>1, StateFields DEF HookData
    <3>3. e = [d EXCEPT !.hooks = hk] BY <1>2
    <3> HIDE DEF hk, e
    <3>4. hk \in UNION {[T -> HookData] : T \in SUBSET Hook} BY <3>1
    <3>5. e \in State BY <1>2, <3>3, <3>4 DEF State
    <3>6. /\ e.hooks = hk /\ e.list = d.list /\ e.made = d.made /\ e.stack = d.stack
          /\ e.plugins = d.plugins /\ e.used = d.used /\ e.timers = d.timers /\ e.sources = d.sources
      BY <1>2, <3>3 DEF State
    <3>7. DOMAIN e.hooks = DOMAIN s.hooks BY <3>2, <3>6
    <3> QED BY <1>2, <3>2, <3>5, <3>6, <3>7, Zenon
  <2>3. TimerReturns(s, again) = Pop(r) BY <1>6 DEF TimerReturns, h, d
  <2> HIDE DEF e
  <2>4. Live(e, h) BY <2>1, <2>2 DEF Live
  <2>5. Marks(e, r, h) /\ r.timers = e.timers /\ r.sources = e.sources BY <2>2, <2>4, UnhookMarks
  <2> HIDE DEF r
  <2>6. Marks(s, r, h) BY <2>1, <2>2, <2>5 DEF Marks
  <2>7. r.sources = s.sources \ {h} /\ r.timers = s.timers \ {h}
    <3>1. s.hooks[h].pl # "Timer" BY <1>6 DEF h
    <3>2. h \notin s.timers BY <2>1, <3>1 DEF Timely
    <3> QED BY <2>2, <2>5, <3>2
  <2>8. Timely(r) BY <2>6, <2>7, MarksTimely
  <2>9. Listed(r) /\ Sorted(r) BY <2>6, MarkKeeps DEF Marks
  <2>10. r \in State /\ r.used = s.used /\ r.stack = s.stack BY <2>6 DEF Marks
  <2> QED BY <1>3, <2>3, <2>8, <2>9, <2>10
<1> QED BY <1>4, <1>5, <1>6

(* A program in the callback of a timer is in nothing else. *)
LEMMA TimerFrame ==
  ASSUME NEW s, Good(s), s.stack # <<>>, Head(s.stack).ev = "timer"
  PROVE  /\ Len(s.stack) = 1 /\ ~Never(Removals)
         /\ Head(s.stack).hook \in DOMAIN s.hooks => s.hooks[Head(s.stack).hook].pl = Head(s.stack).pl
<1>1. Head(s.stack) = s.stack[1] /\ Len(s.stack) \in Nat \ {0}
  BY PopFields DEF Good, Listed
<1>2. 1 \in 1..Len(s.stack) BY <1>1
<1>3. FrameFits(s, s.stack[1]) /\ (s.stack[1].ev = "timer" => 1 = Len(s.stack))
  BY <1>2 DEF Good, Framed
<1> QED BY <1>1, <1>2, <1>3 DEF Good, Flat, FrameFits

(* The command of a /TIMER returns. *)
LEMMA TimeoutGood ==
  ASSUME NEW s, Good(s), s.stack # <<>>, Head(s.stack).ev = "timer", Head(s.stack).pl = "Timer",
         NEW again \in BOOLEAN
  PROVE  Good(timeout_cb(s, again)) /\ timeout_cb(s, again).stack = <<>>
<1> DEFINE h == Head(s.stack).hook
<1>1. /\ Len(s.stack) = 1 /\ ~Never(Removals)
      /\ h \in DOMAIN s.hooks => s.hooks[h].pl = "Timer"
  BY TimerFrame
<1>2. s \in State /\ Listed(s) /\ Timely(s) /\ Sorted(s) /\ Unused(s) BY DEF Good, Listed, Careful, Unused
<1>3. Never({"selfdelete"}) => h \in s.timers
  <2>1. 1 \in 1..Len(s.stack) /\ Head(s.stack) = s.stack[1] BY <1>1, <1>2, PopFields
  <2> QED BY <2>1 DEF Good, Careful
<1>4. CASE h \notin s.timers
  <2> DEFINE t == [s EXCEPT !.used = @ \cup {"timer"}]
  <2>1. /\ t \in State /\ t.hooks = s.hooks /\ t.list = s.list /\ t.made = s.made /\ t.stack = s.stack
        /\ t.plugins = s.plugins /\ t.timers = s.timers /\ t.sources = s.sources
    BY <1>2 DEF State
  <2>2. timeout_cb(s, again) = TimerReturns(t, again) BY <1>4 DEF timeout_cb
  <2> HIDE DEF t
  <2>3. Listed(t) /\ Timely(t) /\ Sorted(t) BY <1>2, <2>1, SameList
  <2>4. Unused(t) BY <1>3, <1>4 DEF Unused, Never
  <2>5. Live(t, h) => FALSE BY <1>1, <1>2, <1>4, <2>1 DEF Live, Timely
  <2>6. Len(t.stack) = 1 /\ Head(t.stack).hook = h BY <1>1, <2>1
  <2> QED BY <1>1, <2>2, <2>3, <2>4, <2>5, <2>6, TimerReturnsGood
<1>5. CASE h \in s.timers /\ again
  <2>1. timeout_cb(s, again) = TimerReturns(s, TRUE) BY <1>5 DEF timeout_cb
  <2> QED BY <1>1, <1>2, <2>1, TimerReturnsGood
<1>6. CASE h \in s.timers /\ ~again
  <2> DEFINE t == timer_del(s, h)
  <2>1. timeout_cb(s, again) = TimerReturns(t, FALSE) BY <1>6 DEF timeout_cb
  <2>2. Marks(s, t, h) /\ Timely(t) BY <1>6, TimerDelMarks
  <2> HIDE DEF t, h
  <2>3. Listed(t) /\ Sorted(t) BY <1>1, <2>2, MarksKeeps
  <2>4. Unused(t) /\ t.stack = s.stack /\ ~Live(t, h) BY <1>2, <2>2 DEF Unused, Marks, Live
  <2>5. Len(t.stack) = 1 /\ Head(t.stack).hook = h BY <1>1, <2>4 DEF h
  <2> QED BY <1>1, <2>1, <2>2, <2>3, <2>4, <2>5, TimerReturnsGood
<1> QED BY <1>4, <1>5, <1>6

(* A timer fires. *)
LEMMA FiresGood ==
  ASSUME NEW s, Good(s), s.stack = <<>>, NEW h \in s.sources \cap DOMAIN s.hooks
  PROVE  Good(plugin_timeout_cb(s, h)) /\ Len(plugin_timeout_cb(s, h).stack) = 1
<1> DEFINE f == [ev |-> "timer", hook |-> h, pl |-> s.hooks[h].pl, next |-> 0, eat |-> FALSE, sess |-> TRUE,
                 found |-> {}, ran |-> {}]
           r == plugin_timeout_cb(s, h)
<1>1. s \in State /\ s.hooks[h] \in HookData /\ h \in Hook /\ MaxHooks \in Nat
  BY StateFields, BoundsAssumption DEF Good, Listed
<1>2. f \in Frame BY <1>1 DEF Frame, HookData, Event
<1>3. r = [s EXCEPT !.stack = <<f>>] BY DEF plugin_timeout_cb
<1> HIDE DEF f, r
<1>4. /\ r \in State /\ r.hooks = s.hooks /\ r.list = s.list /\ r.made = s.made /\ r.stack = <<f>>
      /\ r.plugins = s.plugins /\ r.timers = s.timers /\ r.sources = s.sources /\ r.used = s.used
  <2>1. <<f>> \in Seq(Frame) BY <1>2
  <2> DEFINE st == <<f>>
  <2>2. r = [s EXCEPT !.stack = st] /\ st \in Seq(Frame) BY <1>3, <2>1
  <2> HIDE DEF st
  <2>3. /\ r \in State /\ r.hooks = s.hooks /\ r.list = s.list /\ r.made = s.made /\ r.stack = st
        /\ r.plugins = s.plugins /\ r.timers = s.timers /\ r.sources = s.sources /\ r.used = s.used
    BY <1>1, <2>2 DEF State
  <2> QED BY <2>3 DEF st
<1>5. Len(r.stack) = 1 /\ r.stack[1] = f BY <1>4
<1>6. Listed(r) /\ Timely(r) /\ Sorted(r) BY <1>4, SameList DEF Good
<1>7. s.hooks[h].type = "TIMER" /\ s.hooks[h].pl \in s.plugins /\ "TIMER" \in features
  BY DEF Good, Timely
<1>8. Framed(r)
  <2>1. h \in 1..s.made BY DEF Good, Listed
  <2> QED BY <1>4, <1>5, <2>1 DEF Framed, FrameFits, f
<1>9. Flat(r) BY <1>5, <1>7 DEF Flat, Never, Removals
<1>10. Ahead(r) BY <1>4, <1>5 DEF Ahead, FrameAhead, f
<1>11. Careful(r)
  <2>1. Running(r) = {s.hooks[h].pl} BY <1>5 DEF Running, f
  <2>2. s.hooks[h].pl = "Timer" => h \in s.timers BY DEF Good, Timely
  <2>3. r.used = {} \/ ~(FlatRemovals /\ Never({"selfunload", "selfdelete", "close"}))
    BY <1>4 DEF Good, Careful
  <2> QED BY <1>4, <1>5, <1>7, <2>1, <2>2, <2>3 DEF Careful, f
<1>12. Good(r) /\ Len(r.stack) = 1 BY <1>5, <1>6, <1>8, <1>9, <1>10, <1>11 DEF Good
<1> QED BY <1>12 DEF r

-----------------------------------------------------------------------------
(* Plugins. *)

(* Unloading, of a plugin that runs in no frame unless that is allowed. *)
LEMMA FreeGood ==
  ASSUME NEW s, Good(s), NEW pl \in Unloadable, ~Never(Removals),
         pl \in Running(s) => ~Never({"selfunload"})
  PROVE  Good(plugin_free(s, pl)) /\ plugin_free(s, pl).stack = s.stack
<1> DEFINE hk == [h \in DOMAIN s.hooks |->
                    IF s.hooks[h].pl = pl THEN [s.hooks[h] EXCEPT !.type = "DELETED"] ELSE s.hooks[h]]
           so == {h \in s.sources : s.hooks[h].pl # pl}
           r == plugin_free(s, pl)
<1>1. s \in State /\ Listed(s) /\ Timely(s) BY DEF Good, Listed
<1>2. /\ DOMAIN hk = DOMAIN s.hooks /\ hk \in [DOMAIN s.hooks -> HookData]
      /\ \A g \in DOMAIN s.hooks : s.hooks[g].pl # pl => hk[g] = s.hooks[g]
      /\ \A g \in DOMAIN s.hooks : s.hooks[g].pl = pl => /\ hk[g].type = "DELETED" /\ hk[g].pl = pl
                                                          /\ hk[g].pri = s.hooks[g].pri
  BY <1>1, StateFields DEF HookData
<1>3. r = [s EXCEPT !.hooks = hk, !.sources = so, !.plugins = s.plugins \ {pl}]
  BY <1>1 DEF plugin_free, Unhooked, State
<1>4. so \in SUBSET Hook BY <1>1, StateFields
<1>5. DOMAIN s.hooks \in SUBSET Hook BY <1>1, StateFields
<1>6. \A h \in so : h \in s.sources /\ s.hooks[h].pl # pl OBVIOUS
<1>7. \A h \in s.sources : s.hooks[h].pl # pl => h \in so OBVIOUS
<1> HIDE DEF hk, so, r
<1>8. /\ r \in State /\ r.hooks = hk /\ r.list = s.list /\ r.made = s.made /\ r.stack = s.stack
      /\ r.plugins = s.plugins \ {pl} /\ r.timers = s.timers /\ r.sources = so /\ r.used = s.used
  <2>1. hk \in UNION {[T -> HookData] : T \in SUBSET Hook} BY <1>2, <1>5
  <2> QED BY <1>1, <1>3, <1>4, <2>1 DEF State
<1>9. Listed(r) /\ Framed(r) /\ Flat(r) /\ Ahead(r) /\ Sorted(r)
  <2>1. DOMAIN r.hooks = DOMAIN s.hooks BY <1>2, <1>8
  <2>2. \A g \in DOMAIN s.hooks :
            \/ r.hooks[g] = s.hooks[g]
            \/ /\ r.hooks[g].type = "DELETED" /\ r.hooks[g].pl = s.hooks[g].pl
               /\ r.hooks[g].pri = s.hooks[g].pri
    BY <1>2, <1>8
  <2> QED BY <1>1, <1>8, <2>1, <2>2, MarkKeeps DEF Good
<1>10. Timely(r)
  <2>1. r.sources = {g \in DOMAIN r.hooks : r.hooks[g].type = "TIMER"}
    BY <1>1, <1>2, <1>6, <1>7, <1>8 DEF Timely
  <2>2. pl # "Timer" BY DEF Unloadable
  <2>3. r.timers = {g \in r.sources : r.hooks[g].pl = "Timer"}
    BY <1>1, <1>2, <1>6, <1>7, <1>8, <2>2 DEF Timely
  <2> QED BY <1>1, <1>2, <1>8, <2>1, <2>2, <2>3 DEF Timely
<1>11. Careful(r)
  <2>1. Running(r) = Running(s) BY <1>8 DEF Running
  <2> QED BY <1>8, <2>1 DEF Good, Careful
<1>12. Good(r) BY <1>9, <1>10, <1>11 DEF Good
<1> QED BY <1>8, <1>12 DEF r

(* Loading. *)
LEMMA LoadGood ==
  ASSUME NEW s, Good(s), NEW pl \in Plugin
  PROVE  Good([s EXCEPT !.plugins = @ \cup {pl}])
<1> DEFINE r == [s EXCEPT !.plugins = @ \cup {pl}]
<1>1. s \in State BY DEF Good, Listed
<1>2. /\ r \in State /\ r.hooks = s.hooks /\ r.list = s.list /\ r.made = s.made /\ r.stack = s.stack
      /\ r.plugins = s.plugins \cup {pl} /\ r.timers = s.timers /\ r.sources = s.sources /\ r.used = s.used
  BY <1>1 DEF State
<1> HIDE DEF r
<1>3. \A h : Place(r, h) = Place(s, h) BY <1>2 DEF Place
<1>4. Listed(r) /\ Timely(r) /\ Framed(r) /\ Flat(r) /\ Sorted(r)
  BY <1>2, <1>3 DEF Good, Listed, Timely, Framed, FrameFits, Flat, Sorted
<1>5. Ahead(r) BY <1>2, <1>3 DEF Good, Ahead, FrameAhead, NotBefore, Live
<1>6. Careful(r) BY <1>2 DEF Good, Careful, Running
<1>7. Good(r) BY <1>4, <1>5, <1>6 DEF Good
<1> QED BY <1>7 DEF r

(* A callback closes the tab. *)
LEMMA CloseGood ==
  ASSUME NEW s, Good(s), ~Never({"close"})
  PROVE  LET r == [s EXCEPT !.stack = [k \in DOMAIN @ |-> [@[k] EXCEPT !.sess = FALSE]]]
         IN  Good(r) /\ Len(r.stack) = Len(s.stack)
<1> DEFINE st == [k \in DOMAIN s.stack |-> [s.stack[k] EXCEPT !.sess = FALSE]]
           r == [s EXCEPT !.stack = st]
<1>1. s \in State /\ s.stack \in Seq(Frame) /\ Len(s.stack) \in Nat /\ DOMAIN s.stack = 1..Len(s.stack)
  BY StateFields DEF Good, Listed
<1>2. /\ st \in Seq(Frame) /\ Len(st) = Len(s.stack)
      /\ \A k \in 1..Len(s.stack) :
           /\ st[k].ev = s.stack[k].ev /\ st[k].hook = s.stack[k].hook /\ st[k].pl = s.stack[k].pl
           /\ st[k].next = s.stack[k].next /\ st[k].found = s.stack[k].found /\ st[k].ran = s.stack[k].ran
  <2>1. \A k \in 1..Len(s.stack) : st[k] = [s.stack[k] EXCEPT !.sess = FALSE] /\ s.stack[k] \in Frame
    BY <1>1
  <2>2. \A k \in 1..Len(s.stack) : st[k] \in Frame
    <3> SUFFICES ASSUME NEW k \in 1..Len(s.stack) PROVE [s.stack[k] EXCEPT !.sess = FALSE] \in Frame
      BY <2>1, Zenon
    <3> DEFINE f == s.stack[k]
    <3>1. f \in Frame BY <2>1
    <3> HIDE DEF f
    <3>2. [f EXCEPT !.sess = FALSE] \in Frame BY <3>1 DEF Frame
    <3> QED BY <3>2 DEF f
  <2>3. st \in [1..Len(s.stack) -> Frame] BY <1>1, <2>2
  <2> HIDE DEF st
  <2>4. st \in Seq(Frame) /\ Len(st) = Len(s.stack) BY <1>1, <2>3
  <2> QED BY <2>1, <2>4, ZenonT(60) DEF Frame
<1> HIDE DEF st
<1>3. /\ r \in State /\ r.hooks = s.hooks /\ r.list = s.list /\ r.made = s.made /\ r.stack = st
      /\ r.plugins = s.plugins /\ r.timers = s.timers /\ r.sources = s.sources /\ r.used = s.used
  BY <1>1, <1>2 DEF State
<1> HIDE DEF r
<1>4. \A h : Place(r, h) = Place(s, h) BY <1>3 DEF Place
<1>5. Listed(r) /\ Timely(r) /\ Sorted(r) BY <1>3, SameList DEF Good
<1>6. Framed(r) BY <1>2, <1>3 DEF Good, Framed, FrameFits
<1>7. Flat(r)
  <2>1. \A k \in 2..Len(s.stack) : k \in 1..Len(s.stack) BY <1>1
  <2> QED BY <1>2, <1>3, <2>1 DEF Good, Flat
<1>8. Ahead(r) BY <1>2, <1>3, <1>4 DEF Good, Ahead, FrameAhead, NotBefore, Live
<1>9. Careful(r)
  <2>1. Running(r) = Running(s) BY <1>2, <1>3 DEF Running
  <2>2. ~Never({"selfunload", "selfdelete", "close"}) BY DEF Never
  <2> QED BY <1>2, <1>3, <2>1, <2>2 DEF Good, Careful
<1>10. Good(r) /\ Len(r.stack) = Len(s.stack) BY <1>2, <1>3, <1>5, <1>6, <1>7, <1>8, <1>9 DEF Good
<1> QED BY <1>10, Zenon DEF r, st

-----------------------------------------------------------------------------
(* Making a hook.  i is q with e at place c. *)
Inserted(q, i, c, e) ==
    /\ Len(i) = Len(q) + 1
    /\ \A k \in 1..(c - 1) : i[k] = q[k]
    /\ i[c] = e
    /\ \A k \in c..Len(q) : i[k + 1] = q[k]

(* InsertAt makes the others move up. *)
LEMMA InsertAtFacts ==
  ASSUME NEW S, NEW q \in Seq(S), NEW c \in 1..Len(q), NEW e \in S
  PROVE  InsertAt(q, c, e) \in Seq(S) /\ Inserted(q, InsertAt(q, c, e), c, e)
<1> DEFINE a == SubSeq(q, 1, c - 1)
           b == SubSeq(q, c, Len(q))
           m == a \o <<e>>
<1>1. a \in Seq(S) /\ Len(a) = c - 1 /\ \A k \in 1..(c - 1) : a[k] = q[k]
  OBVIOUS
<1>2. b \in Seq(S) /\ Len(b) = Len(q) - c + 1 /\ \A k \in 1..(Len(q) - c + 1) : b[k] = q[c + k - 1]
  OBVIOUS
<1>3. InsertAt(q, c, e) = m \o b BY DEF InsertAt
<1>0. Len(q) \in Nat OBVIOUS
<1> HIDE DEF a, b
<1>4. m \in Seq(S) /\ Len(m) = c /\ m[c] = e /\ \A k \in 1..(c - 1) : m[k] = q[k]
  BY <1>1
<1> HIDE DEF m
<1>5. m \o b \in Seq(S) /\ Len(m \o b) = Len(q) + 1 /\ \A k \in 1..c : (m \o b)[k] = m[k]
  <2>1. m \o b \in Seq(S) /\ Len(m \o b) = Len(m) + Len(b) BY <1>2, <1>4, ConcatProperties
  <2>2. \A k \in 1..c : (m \o b)[k] = m[k] BY <1>0, <1>2, <1>4
  <2> QED BY <1>0, <1>2, <1>4, <2>1, <2>2
<1>7. \A k \in c..Len(q) : (m \o b)[k + 1] = q[k]
  <2> SUFFICES ASSUME NEW k \in c..Len(q) PROVE (m \o b)[k + 1] = q[k] OBVIOUS
  <2>1. k + 1 - c \in 1..Len(b) /\ c + (k + 1 - c) - 1 = k BY <1>0, <1>2
  <2>2. (m \o b)[k + 1] = b[k + 1 - c] BY <1>0, <1>2, <1>4, <2>1
  <2> QED BY <1>2, <2>1, <2>2
<1> QED BY <1>0, <1>3, <1>4, <1>5, <1>7 DEF Inserted

(* r is s with a hook h of data d, put at place c of the list: before the  *)
(* first one of its family that has no higher priority.                    *)
Added(s, r, h, d, c) ==
    /\ r \in State /\ h = s.made + 1 /\ r.made = h /\ c \in 1..(Len(s.list) + 1)
    /\ r.stack = s.stack /\ r.plugins = s.plugins /\ r.used = s.used
    /\ r.sources = s.sources \cup (IF d.type = "TIMER" THEN {h} ELSE {})
    /\ DOMAIN r.hooks = DOMAIN s.hooks \cup {h}
    /\ r.hooks[h] = d /\ \A g \in DOMAIN s.hooks : r.hooks[g] = s.hooks[g]
    /\ Len(r.list) = Len(s.list) + 1 /\ r.list[c] = h
    /\ \A k \in 1..(c - 1) : r.list[k] = s.list[k]
    /\ \A k \in c..Len(s.list) : r.list[k + 1] = s.list[k]
    /\ \A k \in 1..(c - 1) : \/ s.hooks[s.list[k]].type \notin Family(d.type)
                             \/ s.hooks[s.list[k]].pri > d.pri
    /\ c <= Len(s.list) => /\ s.hooks[s.list[c]].type \in Family(d.type)
                           /\ s.hooks[s.list[c]].pri <= d.pri

(* That is what plugin_add_hook does. *)
LEMMA AddMakes ==
  ASSUME NEW s, Listed(s), s.made < MaxHooks, NEW pl \in Plugin, NEW type \in Type, NEW pri \in Pri
  PROVE  /\ plugin_add_hook(s, pl, type, pri).timers = s.timers
         /\ \E c : Added(s, plugin_add_hook(s, pl, type, pri), s.made + 1,
                         [pl |-> pl, type |-> type, pri |-> pri, tag |-> type = "TIMER"], c)
<1> DEFINE h == s.made + 1
           d == [pl |-> pl, type |-> type, pri |-> pri, tag |-> type = "TIMER"]
           hk == [g \in DOMAIN s.hooks \cup {h} |-> IF g = h THEN d ELSE s.hooks[g]]
           t == [s EXCEPT !.hooks = hk, !.made = h]
           at == {k \in 1..Len(t.list) : /\ t.hooks[t.list[k]].type \in Family(t.hooks[h].type)
                                         /\ t.hooks[t.list[k]].pri <= t.hooks[h].pri}
           q == IF at = {} THEN Append(t.list, h) ELSE InsertAt(t.list, Min(at), h)
           c == IF at = {} THEN Len(s.list) + 1 ELSE Min(at)
           so == s.sources \cup (IF type = "TIMER" THEN {h} ELSE {})
           r == plugin_add_hook(s, pl, type, pri)
<1>1. s \in State /\ s.list \in Seq(Hook) /\ Len(s.list) \in Nat /\ DOMAIN s.hooks \in SUBSET Hook
      /\ s.hooks \in [DOMAIN s.hooks -> HookData] /\ s.made \in 0..MaxHooks
  BY StateFields DEF Listed
<1>2. h \in Hook /\ h \notin DOMAIN s.hooks /\ h \in 0..MaxHooks
  BY <1>1, BoundsAssumption DEF Hook, Listed
<1>3. d \in HookData BY DEF HookData
<1>4. /\ hk \in [DOMAIN s.hooks \cup {h} -> HookData] /\ DOMAIN hk = DOMAIN s.hooks \cup {h}
      /\ hk[h] = d /\ \A g \in DOMAIN s.hooks : hk[g] = s.hooks[g]
  BY <1>1, <1>2, <1>3
<1>5. \A k \in 1..Len(s.list) : s.list[k] \in DOMAIN s.hooks
  BY <1>1, PlaceFacts
<1>6. r = [s EXCEPT !.hooks = hk, !.made = h, !.list = q, !.sources = so]
  <2>1. t \in [hooks: {hk}, list: {s.list}, made: {h}, plugins: {s.plugins}, sources: {s.sources},
               timers: {s.timers}, stack: {s.stack}, used: {s.used}]
    BY <1>1 DEF State
  <2> HIDE DEF hk, d
  <2>2. plugin_insert_hook(t, h) = [t EXCEPT !.list = q]
    BY DEF plugin_insert_hook
  <2>3. r = IF type = "TIMER" THEN [plugin_insert_hook(t, h) EXCEPT !.sources = @ \cup {h}]
            ELSE plugin_insert_hook(t, h)
    BY Zenon DEF plugin_add_hook, hk, d
  <2> HIDE DEF q, h
  <2> QED BY <1>1, <2>2, <2>3, ZenonT(60) DEF State
<1> HIDE DEF hk
<1>7. t.list = s.list /\ t.hooks = hk BY <1>1, SMTT(30) DEF State
<1> HIDE DEF t, d
<1>8. /\ q \in Seq(Hook) /\ c \in 1..(Len(s.list) + 1)
      /\ Len(q) = Len(s.list) + 1 /\ q[c] = h
      /\ \A k \in 1..(c - 1) : q[k] = s.list[k]
      /\ \A k \in c..Len(s.list) : q[k + 1] = s.list[k]
  <2>1. CASE at = {}
    <3>1. q = Append(s.list, h) /\ c = Len(s.list) + 1 BY <2>1, <1>7
    <3> HIDE DEF q, c, h
    <3>2. /\ q \in Seq(Hook) /\ Len(q) = Len(s.list) + 1 /\ q[Len(s.list) + 1] = h
          /\ \A k \in 1..Len(s.list) : q[k] = s.list[k]
      BY <3>1, <1>1, <1>2, AppendProperties
    <3> QED BY <3>1, <3>2, <1>1
  <2>2. CASE at # {}
    <3>1. q = InsertAt(s.list, c, h) BY <2>2, <1>7
    <3>2. at \in SUBSET Nat /\ at \in SUBSET (1..Len(s.list)) BY <1>1, <1>7, SMTT(30)
    <3>3. c \in at BY <2>2, <3>2, MinFacts, ZenonT(60)
    <3>4. c \in 1..Len(s.list) BY <3>2, <3>3
    <3> HIDE DEF c, q, h, at
    <3>5. /\ q \in Seq(Hook) /\ Len(q) = Len(s.list) + 1 /\ q[c] = h
          /\ \A k \in 1..(c - 1) : q[k] = s.list[k]
          /\ \A k \in c..Len(s.list) : q[k + 1] = s.list[k]
      <4> DEFINE i == InsertAt(s.list, c, h)
      <4>1. s.list \in Seq(Hook) /\ h \in Hook BY <1>1, <1>2
      <4>2. /\ i \in Seq(Hook) /\ Len(i) = Len(s.list) + 1
            /\ \A k \in 1..(c - 1) : i[k] = s.list[k]
            /\ i[c] = h
            /\ \A k \in c..Len(s.list) : i[k + 1] = s.list[k]
        <5>1. i \in Seq(Hook) /\ Inserted(s.list, i, c, h) BY <3>4, <4>1, InsertAtFacts
        <5> QED BY <5>1, Zenon DEF Inserted
      <4> HIDE DEF i
      <4>3. q = i BY <3>1 DEF i
      <4> QED BY <4>2, <4>3
    <3>6. c \in 1..(Len(s.list) + 1) BY <3>4, <1>1
    <3> QED BY <3>5, <3>6, Zenon
  <2> QED BY <2>1, <2>2
<1>9. /\ \A k \in 1..(c - 1) : \/ s.hooks[s.list[k]].type \notin Family(d.type)
                               \/ s.hooks[s.list[k]].pri > d.pri
      /\ c <= Len(s.list) => /\ s.hooks[s.list[c]].type \in Family(d.type)
                             /\ s.hooks[s.list[c]].pri <= d.pri
  <2>1. at = {k \in 1..Len(s.list) : /\ s.hooks[s.list[k]].type \in Family(d.type)
                                     /\ s.hooks[s.list[k]].pri <= d.pri}
    BY <1>4, <1>5, <1>7
  <2> HIDE DEF at
  <2>2. \A k \in 1..Len(s.list) : k \notin at => \/ s.hooks[s.list[k]].type \notin Family(d.type)
                                                \/ s.hooks[s.list[k]].pri > d.pri
    <3>1. \A k \in 1..Len(s.list) : s.hooks[s.list[k]].pri \in Int /\ d.pri \in Int
      BY <1>1, <1>3, <1>5 DEF HookData, Pri
    <3> QED BY <2>1, <3>1
  <2>3. CASE at = {} BY <1>1, <2>2, <2>3
  <2>4. CASE at # {}
    <3>1. at \in SUBSET Nat BY <1>1, <2>1
    <3>2. c \in at /\ \A k \in at : c <= k BY <2>4, <3>1, MinFacts
    <3> HIDE DEF c
    <3>3. \A k \in 1..(c - 1) : k \in 1..Len(s.list) /\ k \notin at BY <1>1, <2>1, <3>2
    <3> QED BY <2>1, <2>2, <3>2, <3>3
  <2> QED BY <2>3, <2>4
<1> HIDE DEF q, c, r, at, h, so
<1>10. hk \in UNION {[T -> HookData] : T \in SUBSET Hook} BY <1>1, <1>2, <1>4
<1>11. so \in SUBSET Hook BY <1>1, <1>2, StateFields DEF so
<1>12. /\ r \in State /\ r.hooks = hk /\ r.list = q /\ r.made = h /\ r.sources = so
       /\ r.stack = s.stack /\ r.plugins = s.plugins /\ r.used = s.used /\ r.timers = s.timers
  BY <1>1, <1>2, <1>6, <1>8, <1>10, <1>11 DEF State
<1>13. so = s.sources \cup (IF d.type = "TIMER" THEN {h} ELSE {}) BY DEF so, d
<1>14. Added(s, r, h, d, c) BY <1>4, <1>8, <1>9, <1>12, <1>13 DEF Added, h
<1> QED BY <1>12, <1>14, Zenon DEF r, h, d

(* A new hook moves the ones behind it, and changes no order. *)
LEMMA AddedOrder ==
  ASSUME NEW s, Listed(s), NEW r, NEW h, NEW d, NEW c, Added(s, r, h, d, c)
  PROVE  /\ Listed(r) /\ h \notin DOMAIN s.hooks /\ Place(r, h) = c
         /\ \A g \in DOMAIN s.hooks :
              Place(r, g) = IF Place(s, g) < c THEN Place(s, g) ELSE Place(s, g) + 1
<1>1. /\ s \in State /\ r \in State /\ s.list \in Seq(Hook) /\ r.list \in Seq(Hook)
      /\ Len(s.list) \in Nat /\ Len(r.list) \in Nat /\ s.made \in Nat
      /\ DOMAIN s.list = 1..Len(s.list) /\ DOMAIN r.list = 1..Len(r.list)
  BY StateFields, BoundsAssumption DEF Listed, Added
<1>2. h = s.made + 1 /\ c \in 1..(Len(s.list) + 1) /\ Len(r.list) = Len(s.list) + 1
  BY DEF Added
<1>3. h \notin DOMAIN s.hooks BY <1>1, <1>2 DEF Listed
<1>4. \A k \in 1..Len(r.list) :
        \/ k < c /\ k \in 1..Len(s.list) /\ r.list[k] = s.list[k]
        \/ k = c /\ r.list[k] = h
        \/ k > c /\ k - 1 \in 1..Len(s.list) /\ r.list[k] = s.list[k - 1]
  <2> SUFFICES ASSUME NEW k \in 1..Len(r.list)
               PROVE  \/ k < c /\ k \in 1..Len(s.list) /\ r.list[k] = s.list[k]
                      \/ k = c /\ r.list[k] = h
                      \/ k > c /\ k - 1 \in 1..Len(s.list) /\ r.list[k] = s.list[k - 1]
    OBVIOUS
  <2>1. CASE k < c
    <3>1. k \in 1..(c - 1) /\ k \in 1..Len(s.list) BY <1>1, <1>2, <2>1
    <3> QED BY <2>1, <3>1 DEF Added
  <2>2. CASE k = c BY <2>2 DEF Added
  <2>3. CASE k > c
    <3> DEFINE i == k - 1
    <3>1. i \in c..Len(s.list) /\ i \in 1..Len(s.list) /\ k = i + 1 BY <1>1, <1>2, <2>3
    <3> HIDE DEF i
    <3>2. r.list[i + 1] = s.list[i] BY <3>1 DEF Added
    <3> QED BY <2>3, <3>1, <3>2 DEF i
  <2> QED BY <1>1, <1>2, <2>1, <2>2, <2>3
<1>5. \A k \in 1..Len(s.list) : s.list[k] \in DOMAIN s.hooks /\ Place(s, s.list[k]) = k
  BY PlaceFacts
<1>6. IsInjective(r.list)
  <2> SUFFICES ASSUME NEW i \in 1..Len(r.list), NEW j \in 1..Len(r.list), r.list[i] = r.list[j]
               PROVE  i = j
    BY <1>1 DEF IsInjective
  <2>1. CASE i = c BY <1>3, <1>4, <1>5, <2>1
  <2>2. CASE j = c BY <1>3, <1>4, <1>5, <2>2
  <2>3. CASE i # c /\ j # c
    <3>1. \A k \in 1..Len(r.list) : k # c =>
            \/ k < c /\ Place(s, r.list[k]) = k
            \/ k > c /\ Place(s, r.list[k]) = k - 1
      BY <1>4, <1>5
    <3> QED BY <1>1, <1>2, <2>3, <3>1
  <2> QED BY <2>1, <2>2, <2>3
<1>7. \A g \in DOMAIN s.hooks : LET k == IF Place(s, g) < c THEN Place(s, g) ELSE Place(s, g) + 1
                                IN  k \in 1..Len(r.list) /\ r.list[k] = g
  <2> SUFFICES ASSUME NEW g \in DOMAIN s.hooks
               PROVE  LET k == IF Place(s, g) < c THEN Place(s, g) ELSE Place(s, g) + 1
                      IN  k \in 1..Len(r.list) /\ r.list[k] = g
    OBVIOUS
  <2> DEFINE i == Place(s, g)
  <2>1. i \in 1..Len(s.list) /\ s.list[i] = g BY PlaceFacts
  <2> HIDE DEF i
  <2>2. CASE i < c
    <3>1. i \in 1..(c - 1) /\ i \in 1..Len(r.list) BY <1>1, <1>2, <2>1, <2>2
    <3> QED BY <2>1, <2>2, <3>1 DEF Added, i
  <2>3. CASE ~(i < c)
    <3>1. i \in c..Len(s.list) /\ i + 1 \in 1..Len(r.list) BY <1>1, <1>2, <2>1, <2>3
    <3>2. r.list[i + 1] = g BY <2>1, <3>1 DEF Added
    <3> QED BY <2>3, <3>1, <3>2 DEF i
  <2> QED BY <2>2, <2>3
<1>8. c \in 1..Len(r.list) /\ r.list[c] = h BY <1>1, <1>2 DEF Added
<1>9. ToSet(r.list) = DOMAIN r.hooks
  <2>1. DOMAIN r.hooks = DOMAIN s.hooks \cup {h} BY DEF Added
  <2>2. \A k \in 1..Len(r.list) : r.list[k] \in DOMAIN r.hooks BY <1>4, <1>5, <2>1
  <2>3. \A g \in DOMAIN r.hooks : \E k \in 1..Len(r.list) : r.list[k] = g BY <1>7, <1>8, <2>1
  <2> QED BY <1>1, <2>2, <2>3 DEF ToSet
<1>10. DOMAIN r.hooks \subseteq 1..r.made BY <1>1 DEF Listed, Added
<1>11. Listed(r) BY <1>1, <1>6, <1>9, <1>10 DEF Listed
<1>12. \A k \in 1..Len(r.list) : Place(r, r.list[k]) = k BY <1>11, PlaceFacts
<1>13. Place(r, h) = c BY <1>8, <1>12
<1>14. \A g \in DOMAIN s.hooks :
         Place(r, g) = IF Place(s, g) < c THEN Place(s, g) ELSE Place(s, g) + 1
  BY <1>7, <1>12, Zenon
<1> QED BY <1>3, <1>11, <1>13, <1>14

(* The new hook has a place that its priority gives it. *)
LEMMA AddedSorted ==
  ASSUME NEW s, Listed(s), Sorted(s), Timely(s), NEW r, NEW h, NEW c, NEW d \in HookData,
         Added(s, r, h, d, c), d.type \in Type \cap features
  PROVE  Sorted(r)
<1>1. /\ Listed(r) /\ h \notin DOMAIN s.hooks /\ Place(r, h) = c
      /\ \A g \in DOMAIN s.hooks : Place(r, g) = IF Place(s, g) < c THEN Place(s, g) ELSE Place(s, g) + 1
  BY AddedOrder
<1>2. /\ r.hooks[h] = d /\ \A g \in DOMAIN s.hooks : r.hooks[g] = s.hooks[g]
      /\ DOMAIN r.hooks = DOMAIN s.hooks \cup {h} /\ c \in 1..(Len(s.list) + 1)
  BY DEF Added
<1>3. /\ Len(s.list) \in Nat /\ d.pri \in Int
      /\ \A g \in DOMAIN s.hooks : s.hooks[g].pri \in Int /\ Place(s, g) \in 1..Len(s.list)
      /\ \A g \in DOMAIN s.hooks : s.list[Place(s, g)] = g
      /\ \A k \in 1..Len(s.list) : s.list[k] \in DOMAIN s.hooks /\ Place(s, s.list[k]) = k
  BY StateFields, PlaceFacts DEF Listed, HookData, Pri
<1> SUFFICES ASSUME NEW ev \in Event, ev = "server" => Never({"SERVER_ATTRS", "PRINT_ATTRS"}),
                    NEW g \in DOMAIN r.hooks, NEW k \in DOMAIN r.hooks, Place(r, g) < Place(r, k),
                    r.hooks[g].type \in RunBy(ev), r.hooks[k].type \in RunBy(ev)
             PROVE  r.hooks[g].pri >= r.hooks[k].pri
  BY DEF Sorted
<1>4. \A i, j \in DOMAIN s.hooks : /\ Place(s, i) < Place(s, j)
                                   /\ s.hooks[i].type \in RunBy(ev) /\ s.hooks[j].type \in RunBy(ev)
                                   => s.hooks[i].pri >= s.hooks[j].pri
  BY DEF Sorted
<1>5. ASSUME d.type \in RunBy(ev), NEW i \in DOMAIN s.hooks
      PROVE  s.hooks[i].type \in Family(d.type) <=> s.hooks[i].type \in RunBy(ev)
  <2>1. s.hooks[i].type # "DELETED" => s.hooks[i].type \in features BY DEF Timely
  <2>2. CASE ev = "server"
    <3>1. "SERVER_ATTRS" \notin features /\ "PRINT_ATTRS" \notin features BY <2>2 DEF Never
    <3>2. RunBy(ev) = {"SERVER", "SERVER_ATTRS"} /\ d.type = "SERVER"
      BY <1>5, <2>2, <3>1 DEF RunBy
    <3>3. Family(d.type) = {"SERVER", "PRINT_ATTRS"} BY <3>2 DEF Family
    <3> QED BY <2>1, <3>1, <3>2, <3>3
  <2>3. CASE ev # "server" BY <1>5, <2>3 DEF RunBy, Family, Event
  <2> QED BY <2>2, <2>3
<1>6. CASE g \in DOMAIN s.hooks /\ k \in DOMAIN s.hooks
  <2>1. Place(s, g) < Place(s, k) BY <1>1, <1>3, <1>6
  <2> QED BY <1>2, <1>4, <1>6, <2>1
<1>7. CASE g = h /\ k \in DOMAIN s.hooks
  <2> DEFINE x == s.list[c]
  <2>1. Place(s, k) >= c /\ c \in 1..Len(s.list) BY <1>1, <1>2, <1>3, <1>7
  <2>2. x \in DOMAIN s.hooks /\ Place(s, x) = c /\ s.hooks[x].pri <= d.pri
        /\ s.hooks[x].type \in Family(d.type)
    BY <1>3, <2>1 DEF Added
  <2> HIDE DEF x
  <2>3. s.hooks[x].type \in RunBy(ev) BY <1>2, <1>5, <1>7, <2>2
  <2>4. s.hooks[x].pri >= s.hooks[k].pri
    <3>1. CASE Place(s, k) = c
      <4>1. k = x BY <1>3, <1>7, <2>2, <3>1
      <4> QED BY <1>3, <2>2, <4>1
    <3>2. CASE Place(s, k) # c
      <4>1. Place(s, x) < Place(s, k) BY <1>3, <1>7, <2>1, <2>2, <3>2
      <4> QED BY <1>2, <1>4, <1>7, <2>2, <2>3, <4>1
    <3> QED BY <3>1, <3>2
  <2>5. r.hooks[g].pri = d.pri /\ r.hooks[k].pri = s.hooks[k].pri BY <1>2, <1>7
  <2> QED BY <1>3, <1>7, <2>2, <2>4, <2>5
<1>8. CASE k = h /\ g \in DOMAIN s.hooks
  <2>1. Place(s, g) \in 1..(c - 1) /\ s.list[Place(s, g)] = g BY <1>1, <1>2, <1>3, <1>8
  <2>2. s.hooks[g].type \notin Family(d.type) \/ s.hooks[g].pri > d.pri
    <3> DEFINE i == Place(s, g)
    <3>1. i \in 1..(c - 1) /\ s.list[i] = g BY <2>1
    <3> HIDE DEF i
    <3> QED BY <3>1 DEF Added
  <2>3. s.hooks[g].type \in Family(d.type) BY <1>2, <1>5, <1>8
  <2> QED BY <1>2, <1>3, <1>8, <2>2, <2>3
<1>9. ~(g = h /\ k = h) BY <1>1, <1>2, <1>3
<1> QED BY <1>2, <1>6, <1>7, <1>8, <1>9

(* A new hook keeps the invariant. *)
LEMMA AddedGood ==
  ASSUME NEW s, Good(s), NEW r, NEW h, NEW c, NEW d \in HookData, Added(s, r, h, d, c),
         d.type \in Type \cap features, d.tag <=> d.type = "TIMER", d.pl \in s.plugins,
         d.pl = "Timer" => d.type = "TIMER",
         r.timers = s.timers \cup (IF d.pl = "Timer" THEN {h} ELSE {})
  PROVE  Good(r) /\ r.stack = s.stack
<1>1. Listed(s) /\ Timely(s) /\ Sorted(s) /\ s \in State BY DEF Good, Listed
<1>2. /\ Listed(r) /\ h \notin DOMAIN s.hooks /\ Place(r, h) = c
      /\ \A g \in DOMAIN s.hooks : Place(r, g) = IF Place(s, g) < c THEN Place(s, g) ELSE Place(s, g) + 1
  BY <1>1, AddedOrder
<1>3. Sorted(r) BY <1>1, AddedSorted
<1>4. /\ r.hooks[h] = d /\ \A g \in DOMAIN s.hooks : r.hooks[g] = s.hooks[g]
      /\ DOMAIN r.hooks = DOMAIN s.hooks \cup {h} /\ c \in 1..(Len(s.list) + 1)
      /\ r.stack = s.stack /\ r.plugins = s.plugins /\ r.used = s.used
      /\ r.made = h /\ h = s.made + 1
      /\ r.sources = s.sources \cup (IF d.type = "TIMER" THEN {h} ELSE {})
  BY DEF Added
<1>5. d.type # "DELETED" BY DEF Type
<1>6. s.made \in Nat /\ h \notin 1..s.made /\ 1..s.made \subseteq 1..r.made /\ h # 0
  BY <1>1, <1>4, StateFields, BoundsAssumption
<1>7. Timely(r)
  <2>1. r.sources = {g \in DOMAIN r.hooks : r.hooks[g].type = "TIMER"}
    BY <1>1, <1>2, <1>4 DEF Timely
  <2>2. r.timers = {g \in r.sources : r.hooks[g].pl = "Timer"}
    <3>1. \A g \in s.sources : g \in DOMAIN s.hooks BY <1>1 DEF Timely
    <3>2. s.timers = {g \in s.sources : s.hooks[g].pl = "Timer"} BY <1>1 DEF Timely
    <3>3. h \notin s.sources BY <3>1, <1>2
    <3> QED BY <1>4, <3>1, <3>2, <3>3
  <2> QED BY <1>1, <1>4, <2>1, <2>2 DEF Timely
<1>8. Framed(r)
  <2> SUFFICES ASSUME NEW k \in 1..Len(s.stack)
               PROVE  FrameFits(r, s.stack[k]) /\ (s.stack[k].ev = "timer" => k = Len(s.stack))
    BY <1>4 DEF Framed
  <2> DEFINE f == s.stack[k]
  <2>1. FrameFits(s, f) /\ (f.ev = "timer" => k = Len(s.stack)) BY DEF Good, Framed
  <2> HIDE DEF f
  <2>2. f.hook # h /\ h \notin f.found BY <1>6, <2>1 DEF FrameFits
  <2>3. FrameFits(r, f) BY <1>4, <1>6, <2>1, <2>2 DEF FrameFits
  <2> QED BY <2>1, <2>3 DEF f
<1>9. Flat(r) BY <1>4, <1>5 DEF Good, Flat
<1>10. Ahead(r)
  <2> SUFFICES ASSUME FlatRemovals, NEW k \in 1..Len(s.stack) PROVE FrameAhead(r, s.stack[k])
    BY <1>4 DEF Ahead
  <2> DEFINE f == s.stack[k]
  <2>1. FrameAhead(s, f) BY DEF Good, Ahead
  <2>2. f.found \subseteq 1..s.made /\ f.ran \subseteq 1..s.made BY DEF Good, Framed, FrameFits
  <2> HIDE DEF f
  <2>3. f.next # h
    <3>1. f.next \in {0} \cup DOMAIN s.hooks BY <2>1 DEF FrameAhead
    <3> QED BY <3>1, <1>2, <1>6
  <2>4. \A g : Place(s, g) \in 1..Len(s.list) \/ g \notin DOMAIN s.hooks BY <1>1, PlaceFacts
  <2>5. Len(s.list) \in Nat BY <1>1, StateFields
  <2>6. \A g : g # h => (NotBefore(r, f.next, g) <=> NotBefore(s, f.next, g))
    <3> SUFFICES ASSUME NEW g, g # h PROVE NotBefore(r, f.next, g) <=> NotBefore(s, f.next, g)
      OBVIOUS
    <3>1. CASE f.next \in DOMAIN s.hooks /\ g \in DOMAIN s.hooks
      <4>1. Place(r, f.next) <= Place(r, g) <=> Place(s, f.next) <= Place(s, g)
        BY <1>2, <1>4, <2>4, <2>5, <3>1
      <4> QED BY <1>4, <3>1, <4>1 DEF NotBefore
    <3>2. CASE ~(f.next \in DOMAIN s.hooks /\ g \in DOMAIN s.hooks)
      BY <1>4, <2>3, <3>2 DEF NotBefore
    <3> QED BY <3>1, <3>2
  <2>7. h \notin f.found /\ h \notin f.ran BY <1>6, <2>2
  <2>8. \A g : g # h => (Live(r, g) <=> Live(s, g)) BY <1>4 DEF Live
  <2>9. FrameAhead(r, f) BY <1>4, <2>1, <2>6, <2>7, <2>8 DEF FrameAhead
  <2> QED BY <2>9 DEF f
<1>11. Careful(r)
  <2>1. Running(r) = Running(s) BY <1>4 DEF Running
  <2> QED BY <1>4, <2>1 DEF Good, Careful
<1> QED BY <1>2, <1>3, <1>4, <1>7, <1>8, <1>9, <1>10, <1>11 DEF Good

-----------------------------------------------------------------------------
(* The end of a run. *)

(* What was used after it was freed matters to no other part. *)
LEMMA UsedGood ==
  ASSUME NEW s, Good(s), NEW r \in State, r.hooks = s.hooks, r.list = s.list, r.made = s.made,
         r.plugins = s.plugins, r.sources = s.sources, r.timers = s.timers, r.stack = s.stack,
         Unused(r)
  PROVE  Good(r)
<1>1. \A h : Place(r, h) = Place(s, h) BY DEF Place
<1>2. Listed(r) /\ Timely(r) /\ Sorted(r) BY SameList DEF Good
<1>3. Framed(r) /\ Flat(r) BY DEF Good, Framed, FrameFits, Flat
<1>4. Ahead(r) BY <1>1 DEF Good, Ahead, FrameAhead, NotBefore, Live
<1>5. Careful(r) BY DEF Good, Careful, Running, Unused
<1> QED BY <1>2, <1>3, <1>4, <1>5 DEF Good

(* The callbacks below the innermost one are as they were. *)
LEMMA PopGood ==
  ASSUME NEW s, Good(s), s.stack # <<>>
  PROVE  Good(Pop(s))
<1> DEFINE r == Pop(s)
<1>1. /\ s \in State /\ r \in State /\ Len(r.stack) = Len(s.stack) - 1 /\ Len(s.stack) \in Nat \ {0}
      /\ \A k \in 1..Len(r.stack) : r.stack[k] = s.stack[k + 1]
      /\ r.hooks = s.hooks /\ r.list = s.list /\ r.made = s.made
      /\ r.plugins = s.plugins /\ r.sources = s.sources /\ r.timers = s.timers
      /\ r.used = s.used
  BY PopFields DEF Good, Listed
<1> HIDE DEF r
<1>2. \A k \in 1..Len(r.stack) : k + 1 \in 1..Len(s.stack) BY <1>1
<1>3. \A h : Place(r, h) = Place(s, h) BY <1>1 DEF Place
<1>4. Listed(r) /\ Timely(r) /\ Sorted(r) BY <1>1, SameList DEF Good
<1>5. Framed(r)
  <2> SUFFICES ASSUME NEW k \in 1..Len(r.stack)
               PROVE  FrameFits(r, r.stack[k]) /\ (r.stack[k].ev = "timer" => k = Len(r.stack))
    BY DEF Framed
  <2>1. r.stack[k] = s.stack[k + 1] /\ k + 1 \in 1..Len(s.stack) BY <1>1, <1>2
  <2>2. FrameFits(s, r.stack[k]) /\ (r.stack[k].ev = "timer" => k + 1 = Len(s.stack))
    BY <2>1 DEF Good, Framed
  <2>3. FrameFits(r, r.stack[k]) BY <1>1, <2>2 DEF FrameFits
  <2> QED BY <1>1, <2>2, <2>3
<1>6. Flat(r)
  <2>1. \A k \in 1..Len(r.stack) : k + 1 \in 2..Len(s.stack) BY <1>1
  <2>2. \A k \in 2..Len(r.stack) : k \in 1..Len(r.stack) BY <1>1
  <2> QED BY <1>1, <1>2, <2>1, <2>2 DEF Good, Flat
<1>7. Ahead(r)
  <2> SUFFICES ASSUME FlatRemovals, NEW k \in 1..Len(r.stack) PROVE FrameAhead(r, r.stack[k])
    BY DEF Ahead
  <2>1. r.stack[k] = s.stack[k + 1] /\ k + 1 \in 1..Len(s.stack) BY <1>1, <1>2
  <2>2. FrameAhead(s, r.stack[k]) BY <2>1 DEF Good, Ahead
  <2> QED BY <1>1, <1>3, <2>2 DEF FrameAhead, NotBefore, Live
<1>8. Careful(r)
  <2>1. Running(r) \subseteq Running(s) BY <1>1, <1>2 DEF Running
  <2> QED BY <1>1, <1>2, <2>1, SMTT(30) DEF Good, Careful
<1>9. Good(r) BY <1>4, <1>5, <1>6, <1>7, <1>8 DEF Good
<1> QED BY <1>9 DEF r

(* r is s without the hooks that are marked. *)
Purged(s, r) ==
    LET kept == {h \in DOMAIN s.hooks : s.hooks[h].type # "DELETED"} IN
    /\ r \in State
    /\ r.made = s.made /\ r.plugins = s.plugins /\ r.sources = s.sources /\ r.timers = s.timers
    /\ r.stack = s.stack /\ r.used = s.used
    /\ DOMAIN r.hooks = kept /\ \A h \in kept : r.hooks[h] = s.hooks[h]
    /\ r.list = Kept(s.list, kept)

(* The ones that are left keep their order. *)
LEMMA PurgedOrder ==
  ASSUME NEW s, Listed(s), NEW r, Purged(s, r)
  PROVE  /\ Listed(r)
         /\ \A g, h \in DOMAIN r.hooks : Place(r, g) < Place(r, h) => Place(s, g) < Place(s, h)
         /\ \A g, h \in DOMAIN r.hooks : Place(r, g) <= Place(r, h) <=> Place(s, g) <= Place(s, h)
<1> DEFINE kept == {h \in DOMAIN s.hooks : s.hooks[h].type # "DELETED"}
<1>1. s.list \in Seq(Hook) /\ Len(s.list) \in Nat /\ s \in State /\ r \in State
  BY StateFields DEF Listed, Purged
<1>2. r.list = Kept(s.list, kept) /\ DOMAIN r.hooks = kept /\ r.made = s.made BY DEF Purged
<1>3. kept \subseteq DOMAIN s.hooks OBVIOUS
<1> HIDE DEF kept
<1>4. /\ r.list \in Seq(Hook) /\ Len(r.list) \in Nat /\ DOMAIN r.list = 1..Len(r.list)
      /\ \E e \in [1..Len(r.list) -> 1..Len(s.list)] :
           /\ \A i \in 1..Len(r.list) : r.list[i] = s.list[e[i]] /\ s.list[e[i]] \in kept
           /\ \A i, j \in 1..Len(r.list) : i < j => e[i] < e[j]
           /\ \A k \in 1..Len(s.list) : s.list[k] \in kept => \E i \in 1..Len(r.list) : e[i] = k
  <2>1. r.list \in Seq(Hook) BY <1>1, StateFields
  <2>2. Len(r.list) \in Nat /\ DOMAIN r.list = 1..Len(r.list) BY <2>1
  <2>3. Subsequence(s.list, Kept(s.list, kept), kept) BY <1>1, KeptFacts
  <2>4. Subsequence(s.list, r.list, kept) BY <1>2, <2>3, Zenon
  <2> QED BY <2>1, <2>2, <2>4 DEF Subsequence
<1>5. PICK e \in [1..Len(r.list) -> 1..Len(s.list)] :
           /\ \A i \in 1..Len(r.list) : r.list[i] = s.list[e[i]] /\ s.list[e[i]] \in kept
           /\ \A i, j \in 1..Len(r.list) : i < j => e[i] < e[j]
           /\ \A k \in 1..Len(s.list) : s.list[k] \in kept => \E i \in 1..Len(r.list) : e[i] = k
  BY <1>4
<1>6. \A k \in 1..Len(s.list) : s.list[k] \in DOMAIN s.hooks /\ Place(s, s.list[k]) = k
  BY PlaceFacts
<1>7. \A i \in 1..Len(r.list) : e[i] \in 1..Len(s.list) /\ Place(s, r.list[i]) = e[i]
  BY <1>5, <1>6
<1>8. \A i, j \in 1..Len(r.list) : (i < j <=> e[i] < e[j]) /\ (i = j <=> e[i] = e[j])
  <2> SUFFICES ASSUME NEW i \in 1..Len(r.list), NEW j \in 1..Len(r.list)
               PROVE  (i < j <=> e[i] < e[j]) /\ (i = j <=> e[i] = e[j])
    OBVIOUS
  <2>1. e[i] \in Nat /\ e[j] \in Nat /\ i \in Nat /\ j \in Nat BY <1>1, <1>4, <1>7
  <2>2. (i < j => e[i] < e[j]) /\ (j < i => e[j] < e[i]) BY <1>5
  <2> QED BY <2>1, <2>2
<1>9. IsInjective(r.list)
  <2> SUFFICES ASSUME NEW i \in 1..Len(r.list), NEW j \in 1..Len(r.list), r.list[i] = r.list[j]
               PROVE  i = j
    BY <1>4 DEF IsInjective
  <2>1. e[i] = e[j] BY <1>7
  <2> QED BY <1>8, <2>1
<1>10. ToSet(r.list) = DOMAIN r.hooks
  <2>1. \A i \in 1..Len(r.list) : r.list[i] \in kept BY <1>5
  <2>2. \A h \in kept : \E i \in 1..Len(r.list) : r.list[i] = h
    <3> SUFFICES ASSUME NEW h \in kept PROVE \E i \in 1..Len(r.list) : r.list[i] = h
      OBVIOUS
    <3>1. Place(s, h) \in 1..Len(s.list) /\ s.list[Place(s, h)] = h BY <1>3, PlaceFacts
    <3>2. \E i \in 1..Len(r.list) : e[i] = Place(s, h) BY <1>5, <3>1
    <3> QED BY <1>5, <3>1, <3>2
  <2> QED BY <1>2, <1>4, <2>1, <2>2 DEF ToSet
<1>11. Listed(r)
  <2>1. DOMAIN r.hooks \subseteq 1..r.made BY <1>2, <1>3 DEF Listed
  <2> QED BY <1>1, <1>9, <1>10, <2>1 DEF Listed
<1>12. \A h \in DOMAIN r.hooks : Place(r, h) \in 1..Len(r.list) /\ Place(s, h) = e[Place(r, h)]
  BY <1>7, <1>11, PlaceFacts
<1>13. ASSUME NEW g \in DOMAIN r.hooks, NEW h \in DOMAIN r.hooks
       PROVE  /\ Place(r, g) < Place(r, h) => Place(s, g) < Place(s, h)
              /\ Place(r, g) <= Place(r, h) <=> Place(s, g) <= Place(s, h)
  <2> DEFINE i == Place(r, g)
             j == Place(r, h)
  <2>1. i \in 1..Len(r.list) /\ j \in 1..Len(r.list) /\ Place(s, g) = e[i] /\ Place(s, h) = e[j]
    BY <1>12
  <2> HIDE DEF i, j
  <2>2. (i < j <=> e[i] < e[j]) /\ (i = j <=> e[i] = e[j]) BY <1>8, <2>1
  <2>3. e[i] \in Nat /\ e[j] \in Nat /\ i \in Nat /\ j \in Nat BY <1>1, <1>4, <1>7, <2>1
  <2>4. (i < j => e[i] < e[j]) /\ (i <= j <=> e[i] <= e[j]) BY <2>2, <2>3
  <2> QED BY <2>1, <2>4 DEF i, j
<1> QED BY <1>11, <1>13

(* No run goes on where a hook may be freed: either none is marked, or the *)
(* callbacks that are running are those of timers.                         *)
LEMMA PurgedGood ==
  ASSUME NEW s, Good(s), NEW r, Purged(s, r),
         Never({"nest"}) => \A k \in 1..Len(s.stack) : s.stack[k].ev = "timer"
  PROVE  Good(r)
<1> DEFINE kept == {h \in DOMAIN s.hooks : s.hooks[h].type # "DELETED"}
<1>1. /\ Listed(r)
      /\ \A g, h \in DOMAIN r.hooks : Place(r, g) < Place(r, h) => Place(s, g) < Place(s, h)
      /\ \A g, h \in DOMAIN r.hooks : Place(r, g) <= Place(r, h) <=> Place(s, g) <= Place(s, h)
  <2>1. Listed(s) BY DEF Good
  <2> QED BY <2>1, PurgedOrder
<1>2. /\ r \in State
      /\ r.made = s.made /\ r.plugins = s.plugins /\ r.sources = s.sources /\ r.timers = s.timers
      /\ r.stack = s.stack /\ r.used = s.used
      /\ DOMAIN r.hooks = kept /\ \A h \in kept : r.hooks[h] = s.hooks[h]
  BY DEF Purged
<1>3. Timely(r)
  <2>1. Timely(s) BY DEF Good
  <2>2. r.sources = {h \in DOMAIN r.hooks : r.hooks[h].type = "TIMER"} BY <1>2, <2>1 DEF Timely
  <2>3. r.timers = {h \in r.sources : r.hooks[h].pl = "Timer"} BY <1>2, <2>1 DEF Timely
  <2> QED BY <1>2, <2>1, <2>2, <2>3 DEF Timely
<1>4. Framed(r) BY <1>2 DEF Good, Framed, FrameFits
<1>5. Flat(r) BY <1>2 DEF Good, Flat
<1>6. Ahead(r)
  <2> SUFFICES ASSUME FlatRemovals, NEW k \in 1..Len(s.stack) PROVE FrameAhead(r, s.stack[k])
    BY <1>2 DEF Ahead
  <2> DEFINE f == s.stack[k]
  <2>1. FrameAhead(s, f) /\ FrameFits(s, f) BY DEF Good, Ahead, Framed
  <2> HIDE DEF f
  <2>2. CASE Never(Removals)
    <3>1. kept = DOMAIN s.hooks BY <2>2 DEF Good, Flat
    <3> HIDE DEF kept
    <3>2. \A g, h : NotBefore(r, g, h) <=> NotBefore(s, g, h) BY <1>1, <1>2, <3>1 DEF NotBefore
    <3>3. \A h : Live(r, h) <=> Live(s, h) BY <1>2, <3>1 DEF Live
    <3>4. FrameAhead(r, f) BY <1>2, <2>1, <3>1, <3>2, <3>3 DEF FrameAhead
    <3> QED BY <3>4 DEF f
  <2>3. CASE Never({"nest"})
    <3>1. f.ev = "timer" BY <2>3 DEF f
    <3>2. f.next = 0 /\ f.found = {} /\ f.ran = {} BY <2>1, <3>1 DEF FrameFits
    <3>3. FrameAhead(r, f) BY <3>2 DEF FrameAhead
    <3> QED BY <3>3 DEF f
  <2> QED BY <2>2, <2>3 DEF FlatRemovals
<1>7. Careful(r)
  <2>1. Running(r) = Running(s) BY <1>2 DEF Running
  <2> QED BY <1>2, <2>1 DEF Good, Careful
<1>8. Sorted(r)
  <2> SUFFICES ASSUME NEW ev \in Event, ev = "server" => Never({"SERVER_ATTRS", "PRINT_ATTRS"}),
                      NEW g \in kept, NEW h \in kept, Place(r, g) < Place(r, h),
                      s.hooks[g].type \in RunBy(ev), s.hooks[h].type \in RunBy(ev)
               PROVE  s.hooks[g].pri >= s.hooks[h].pri
    BY <1>2 DEF Sorted
  <2>1. Place(s, g) < Place(s, h) BY <1>1, <1>2
  <2> QED BY <2>1 DEF Good, Sorted
<1> QED BY <1>1, <1>3, <1>4, <1>5, <1>6, <1>7, <1>8 DEF Good

(* The end of plugin_hook_run, whatever follows it. *)
LEMMA EndedGood ==
  ASSUME NEW s \in State, s.stack # <<>>, Good(Pop(s)),
         Never({"nest"}) => \A k \in 2..Len(s.stack) : s.stack[k].ev = "timer",
         Never({"close"}) => Head(s.stack).sess
  PROVE  Good(Ended(s)) /\ Ended(s).stack = Tail(s.stack)
<1> DEFINE f == Head(s.stack)
           us == IF ~f.eat /\ ReadsTab(f.ev) /\ ~f.sess THEN s.used \cup {"sess"} ELSE s.used
           u == [s EXCEPT !.used = us]
           kept == {h \in DOMAIN s.hooks : s.hooks[h].type # "DELETED"}
           t == Pop(u)
           r == Ended(s)
<1>1. /\ Pop(s) \in State /\ Pop(s).stack = Tail(s.stack) /\ Len(Pop(s).stack) = Len(s.stack) - 1
      /\ \A k \in 1..Len(Pop(s).stack) : Pop(s).stack[k] = s.stack[k + 1]
      /\ Len(s.stack) \in Nat \ {0} /\ Pop(s).used = s.used /\ Tail(s.stack) \in Seq(Frame)
      /\ Pop(s).hooks = s.hooks /\ Pop(s).list = s.list /\ Pop(s).made = s.made
      /\ Pop(s).plugins = s.plugins /\ Pop(s).sources = s.sources /\ Pop(s).timers = s.timers
  <2>1. s.stack \in Seq(Frame) BY StateFields
  <2> QED BY <2>1, PopFields
<1>2. us \in SUBSET {"node", "sess", "timer", "code"} BY StateFields
<1>3. r = Pop(Purge(u))
  <2>1. ~f.eat /\ ReadsTab(f.ev) /\ ~f.sess => u = [s EXCEPT !.used = @ \cup {"sess"}] BY DEF State
  <2>2. ~(~f.eat /\ ReadsTab(f.ev) /\ ~f.sess) => u = s BY DEF State
  <2> HIDE DEF u
  <2> QED BY <2>1, <2>2, Zenon DEF Ended
<1>4. Never({"close"}) => us = s.used OBVIOUS
<1> HIDE DEF us
<1>5. /\ u \in State /\ u.hooks = s.hooks /\ u.list = s.list /\ u.made = s.made /\ u.plugins = s.plugins
      /\ u.sources = s.sources /\ u.timers = s.timers /\ u.stack = s.stack /\ u.used = us
  BY <1>2 DEF State
<1> HIDE DEF u
<1>6. /\ t \in State /\ t.hooks = s.hooks /\ t.list = s.list /\ t.made = s.made /\ t.plugins = s.plugins
      /\ t.sources = s.sources /\ t.timers = s.timers /\ t.stack = Tail(s.stack) /\ t.used = us
  BY <1>5, PopFields
<1>7. Good(t)
  <2>1. Unused(t) BY <1>1, <1>4, <1>6 DEF Unused, Good, Careful, Never
  <2> HIDE DEF t
  <2> QED BY <1>1, <1>6, <2>1, UsedGood
<1> HIDE DEF t
<1>8. DOMAIN s.hooks \in SUBSET Hook /\ s.hooks \in [DOMAIN s.hooks -> HookData] /\ s.list \in Seq(Hook)
  BY StateFields
<1>9. Purged(t, r)
  <2> DEFINE hk == [h \in kept |-> s.hooks[h]]
             q == Kept(s.list, kept)
  <2>1. Purge(u) = [u EXCEPT !.hooks = hk, !.list = q]
    BY <1>5 DEF Purge
  <2>2. q \in Seq(Hook) BY <1>8, KeptFacts
  <2>3. hk \in [kept -> HookData] /\ kept \in SUBSET Hook BY <1>8
  <2>4. DOMAIN hk = kept /\ \A h \in kept : hk[h] = s.hooks[h] OBVIOUS
  <2> HIDE DEF hk, q, kept
  <2>5. hk \in UNION {[T -> HookData] : T \in SUBSET Hook} BY <2>3
  <2>6. r = [u EXCEPT !.hooks = hk, !.list = q, !.stack = Tail(s.stack)]
    BY <1>3, <1>5, <2>1 DEF Pop, State
  <2>7. /\ r \in State /\ r.hooks = hk /\ r.list = q /\ r.stack = Tail(s.stack)
        /\ r.made = s.made /\ r.plugins = s.plugins /\ r.sources = s.sources /\ r.timers = s.timers
        /\ r.used = us
    BY <1>1, <1>5, <2>2, <2>5, <2>6, ZenonT(60) DEF State
  <2> HIDE DEF r
  <2>8. t.hooks = s.hooks /\ t.list = s.list BY <1>6
  <2>9. kept = {h \in DOMAIN t.hooks : t.hooks[h].type # "DELETED"} BY <2>8 DEF kept
  <2>10. /\ DOMAIN r.hooks = {h \in DOMAIN t.hooks : t.hooks[h].type # "DELETED"}
         /\ \A h \in {g \in DOMAIN t.hooks : t.hooks[g].type # "DELETED"} : r.hooks[h] = t.hooks[h]
         /\ r.list = Kept(t.list, {h \in DOMAIN t.hooks : t.hooks[h].type # "DELETED"})
    BY <2>4, <2>7, <2>8, <2>9 DEF q
  <2> QED BY <1>6, <2>7, <2>10 DEF Purged
<1> HIDE DEF r
<1>10. Never({"nest"}) => \A k \in 1..Len(t.stack) : t.stack[k].ev = "timer"
  <2>1. \A k \in 1..Len(t.stack) : k + 1 \in 2..Len(s.stack) /\ t.stack[k] = s.stack[k + 1]
    BY <1>1, <1>6
  <2> QED BY <2>1
<1>11. Good(r) BY <1>7, <1>9, <1>10, PurgedGood
<1>12. r.stack = Tail(s.stack) BY <1>6, <1>9 DEF Purged
<1> QED BY <1>11, <1>12 DEF r

-----------------------------------------------------------------------------
(* A run, from one hook to the next.  h is the first hook from this one on *)
(* that the event runs.                                                    *)
Found(s, from, ev, h) ==
    /\ from \in DOMAIN s.hooks /\ h \in DOMAIN s.hooks
    /\ s.hooks[h].type \in RunBy(ev)
    /\ Place(s, from) <= Place(s, h)
    /\ \A g \in DOMAIN s.hooks : /\ Place(s, from) <= Place(s, g)
                                 /\ s.hooks[g].type \in RunBy(ev)
                                 => Place(s, h) <= Place(s, g)

(* That is what plugin_hook_find returns. *)
LEMMA FindFacts ==
  ASSUME NEW s, Listed(s), NEW from, NEW ev, plugin_hook_find(s, from, ev) # 0
  PROVE  Found(s, from, ev, plugin_hook_find(s, from, ev))
<1> DEFINE at == {k \in Place(s, from)..Len(s.list) : s.hooks[s.list[k]].type \in RunBy(ev)}
           m == Min(at)
           h == plugin_hook_find(s, from, ev)
<1>1. from \in DOMAIN s.hooks /\ at # {} /\ h = s.list[m] BY Zenon DEF plugin_hook_find
<1>2. Place(s, from) \in 1..Len(s.list) /\ Len(s.list) \in Nat
  BY <1>1, PlaceFacts, StateFields, SMTT(30) DEF Listed
<1>3. at \in SUBSET Nat BY <1>2
<1>4. m \in at /\ \A k \in at : m <= k BY <1>1, <1>3, MinFacts
<1> HIDE DEF m, h
<1>5. m \in 1..Len(s.list) /\ Place(s, from) <= m /\ s.hooks[s.list[m]].type \in RunBy(ev)
  BY <1>2, <1>4
<1>6. h \in DOMAIN s.hooks /\ Place(s, h) = m BY <1>1, <1>5, PlaceFacts
<1>7. ASSUME NEW g \in DOMAIN s.hooks, Place(s, from) <= Place(s, g), s.hooks[g].type \in RunBy(ev)
      PROVE  Place(s, h) <= Place(s, g)
  <2>1. Place(s, g) \in 1..Len(s.list) /\ s.list[Place(s, g)] = g BY PlaceFacts
  <2>2. Place(s, g) \in at BY <1>2, <1>7, <2>1
  <2> HIDE DEF at
  <2> QED BY <1>4, <1>6, <2>2
<1>8. Found(s, from, ev, h) BY <1>1, <1>5, <1>6, <1>7 DEF Found
<1> QED BY <1>8 DEF h

(* After is the next place of the list. *)
LEMMA AfterFacts ==
  ASSUME NEW s, Listed(s), NEW h \in DOMAIN s.hooks
  PROVE  /\ After(s, h) \in {0} \cup DOMAIN s.hooks
         /\ \A g : NotBefore(s, After(s, h), g) <=> g \in DOMAIN s.hooks /\ Place(s, h) < Place(s, g)
<1> DEFINE k == Place(s, h)
           n == After(s, h)
<1>1. k \in 1..Len(s.list) /\ Len(s.list) \in Nat BY PlaceFacts, StateFields DEF Listed
<1>2. \A g \in DOMAIN s.hooks : Place(s, g) \in 1..Len(s.list) BY PlaceFacts
<1>3. 0 \notin DOMAIN s.hooks
  <2>1. DOMAIN s.hooks \in SUBSET Hook BY StateFields DEF Listed
  <2> QED BY <2>1 DEF Hook
<1>4. n = IF k = Len(s.list) THEN 0 ELSE s.list[k + 1] BY DEF After
<1> HIDE DEF k, n
<1>5. CASE k = Len(s.list)
  BY <1>1, <1>2, <1>3, <1>4, <1>5 DEF NotBefore, k, n
<1>6. CASE k # Len(s.list)
  <2>1. k + 1 \in 1..Len(s.list) BY <1>1, <1>6
  <2>2. n \in DOMAIN s.hooks /\ Place(s, n) = k + 1 BY <1>4, <1>6, <2>1, PlaceFacts
  <2> QED BY <1>1, <1>2, <2>2 DEF NotBefore, k, n
<1> QED BY <1>5, <1>6

(* A run that goes on at from, if it goes on. *)
Open(s, from) ==
    LET f == Head(s.stack) IN
    /\ s \in State /\ s.stack # <<>> /\ Good(Pop(s))
    /\ f.ev \in Event /\ f.found \subseteq 1..s.made /\ f.ran \subseteq 1..s.made
    /\ \A h \in f.found \cap DOMAIN s.hooks : s.hooks[h].type \in RunBy(f.ev) \cup {"DELETED"}
    /\ Never({"nest"}) => \A k \in 2..Len(s.stack) : s.stack[k].ev = "timer"
    /\ Never({"close"}) => f.sess
    /\ FlatRemovals => /\ from \in {0} \cup DOMAIN s.hooks
                       /\ \A h \in f.found \ f.ran : Live(s, h) => NotBefore(s, from, h)
                       /\ \A h \in f.ran : ~NotBefore(s, from, h)

(* The next hook that the event runs is called: its frame. *)
LEMMA CalledGood ==
  ASSUME NEW s, NEW from, Open(s, from), NEW h, Found(s, from, Head(s.stack).ev, h)
  PROVE  LET r == [s EXCEPT !.stack[1] = [Head(s.stack) EXCEPT !.hook = h, !.pl = s.hooks[h].pl,
                                             !.next = After(s, h), !.ran = @ \cup {h}]]
         IN  Good(r) /\ Len(r.stack) = Len(s.stack)
<1> DEFINE f == Head(s.stack)
           n == After(s, h)
           g == [f EXCEPT !.hook = h, !.pl = s.hooks[h].pl, !.next = n, !.ran = @ \cup {h}]
           st == [s.stack EXCEPT ![1] = g]
           r == [s EXCEPT !.stack = st]
           b == Pop(s)
<1>1. s \in State /\ s.stack # <<>> /\ s.stack \in Seq(Frame) BY StateFields DEF Open
<1>2. /\ b \in State /\ Len(b.stack) = Len(s.stack) - 1
      /\ \A k \in 1..Len(b.stack) : b.stack[k] = s.stack[k + 1]
      /\ f = s.stack[1] /\ f \in Frame /\ Len(s.stack) \in Nat \ {0}
      /\ b.hooks = s.hooks /\ b.list = s.list /\ b.made = s.made
      /\ b.plugins = s.plugins /\ b.sources = s.sources /\ b.timers = s.timers
      /\ b.used = s.used
  BY <1>1, PopFields
<1>3. Good(b) BY DEF Open
<1> HIDE DEF b
<1>4. Listed(s) /\ Timely(s) /\ Sorted(s) BY <1>1, <1>2, <1>3, SameList DEF Good
<1>5. /\ f.ev \in Event /\ f.found \subseteq 1..s.made /\ f.ran \subseteq 1..s.made
      /\ \A k \in f.found \cap DOMAIN s.hooks : s.hooks[k].type \in RunBy(f.ev) \cup {"DELETED"}
      /\ Never({"nest"}) => \A k \in 2..Len(s.stack) : s.stack[k].ev = "timer"
      /\ Never({"close"}) => f.sess
  BY DEF Open
<1>6. /\ FlatRemovals => /\ from \in {0} \cup DOMAIN s.hooks
                         /\ \A k \in f.found \ f.ran : Live(s, k) => NotBefore(s, from, k)
                         /\ \A k \in f.ran : ~NotBefore(s, from, k)
  BY DEF Open
<1>7. /\ from \in DOMAIN s.hooks /\ h \in DOMAIN s.hooks
      /\ s.hooks[h].type \in RunBy(f.ev)
      /\ Place(s, from) <= Place(s, h)
      /\ \A k \in DOMAIN s.hooks : /\ Place(s, from) <= Place(s, k)
                                   /\ s.hooks[k].type \in RunBy(f.ev)
                                   => Place(s, h) <= Place(s, k)
  BY DEF Found
<1>8. /\ n \in {0} \cup DOMAIN s.hooks
      /\ \A k : NotBefore(s, n, k) <=> k \in DOMAIN s.hooks /\ Place(s, h) < Place(s, k)
  BY <1>4, <1>7, AfterFacts
<1>9. s.hooks[h] \in HookData /\ DOMAIN s.hooks \in SUBSET Hook /\ MaxHooks \in Nat
  BY <1>1, <1>7, StateFields, BoundsAssumption
<1> HIDE DEF f, n
<1>10. /\ g \in Frame /\ g.ev = f.ev /\ g.hook = h /\ g.pl = s.hooks[h].pl /\ g.next = n
       /\ g.sess = f.sess /\ g.found = f.found /\ g.ran = f.ran \cup {h}
  <2>1. n \in 0..MaxHooks /\ h \in Hook /\ s.hooks[h].pl \in Plugin
    BY <1>7, <1>8, <1>9 DEF Hook, HookData
  <2> QED BY <1>2, <2>1 DEF Frame
<1> HIDE DEF g
<1>11. /\ st \in Seq(Frame) /\ Len(st) = Len(s.stack) /\ st[1] = g
       /\ \A k \in 2..Len(s.stack) : st[k] = s.stack[k]
  BY <1>1, <1>2, <1>10
<1> HIDE DEF st
<1>12. /\ r \in State /\ r.hooks = s.hooks /\ r.list = s.list /\ r.made = s.made
       /\ r.plugins = s.plugins /\ r.sources = s.sources /\ r.timers = s.timers
       /\ r.used = s.used /\ r.stack = st
  BY <1>1, <1>11 DEF State
<1> HIDE DEF r
<1>13. \A k \in 1..Len(st) :
         \/ k = 1 /\ st[k] = g
         \/ k - 1 \in 1..Len(b.stack) /\ k \in 2..Len(s.stack) /\ st[k] = b.stack[k - 1]
  <2> SUFFICES ASSUME NEW k \in 1..Len(st), k # 1
               PROVE  k - 1 \in 1..Len(b.stack) /\ k \in 2..Len(s.stack) /\ st[k] = b.stack[k - 1]
    BY <1>11
  <2>1. k \in 2..Len(s.stack) /\ k - 1 \in 1..Len(b.stack) BY <1>2, <1>11
  <2>2. b.stack[k - 1] = s.stack[(k - 1) + 1] BY <1>2, <2>1
  <2> QED BY <1>11, <2>1, <2>2
<1>14. Listed(r) /\ Timely(r) /\ Sorted(r) BY <1>4, <1>12, SameList
<1>15. \A k : Place(r, k) = Place(s, k) /\ Place(b, k) = Place(s, k) BY <1>2, <1>12 DEF Place
<1>16. f.ev # "timer" /\ s.hooks[h].type \notin {"TIMER", "DELETED"}
  BY <1>5, <1>7 DEF Event, RunBy
<1>17. Framed(r)
  <2> SUFFICES ASSUME NEW k \in 1..Len(st)
               PROVE  FrameFits(r, st[k]) /\ (st[k].ev = "timer" => k = Len(st))
    BY <1>12 DEF Framed
  <2>1. CASE st[k] = g
    <3>1. h \in 1..s.made BY <1>4, <1>7 DEF Listed
    <3>2. s.hooks[h].pl # "Timer" BY <1>4, <1>7, <1>16 DEF Timely
    <3>3. FrameFits(r, g) BY <1>5, <1>10, <1>12, <1>16, <3>1, <3>2 DEF FrameFits
    <3> QED BY <1>10, <1>16, <2>1, <3>3
  <2>2. CASE k - 1 \in 1..Len(b.stack) /\ st[k] = b.stack[k - 1]
    <3>1. FrameFits(b, st[k]) /\ (st[k].ev = "timer" => k - 1 = Len(b.stack))
      BY <1>3, <2>2 DEF Good, Framed
    <3>2. FrameFits(r, st[k]) BY <1>2, <1>12, <3>1 DEF FrameFits
    <3> QED BY <1>2, <1>11, <3>1, <3>2
  <2> QED BY <1>13, <2>1, <2>2
<1>18. Flat(r)
  <2>1. Never({"nest"}) => \A k \in 2..Len(r.stack) : r.stack[k].ev = "timer"
    BY <1>5, <1>11, <1>12
  <2>2. ASSUME Never(Removals)
        PROVE  /\ \A k \in DOMAIN r.hooks : r.hooks[k].type # "DELETED"
               /\ \A k \in 1..Len(r.stack) : r.stack[k].ev # "timer"
    BY <1>2, <1>3, <1>10, <1>12, <1>13, <1>16, <2>2 DEF Good, Flat
  <2> QED BY <2>1, <2>2 DEF Flat
<1>19. Ahead(r)
  <2> SUFFICES ASSUME FlatRemovals, NEW k \in 1..Len(st) PROVE FrameAhead(r, st[k])
    BY <1>12 DEF Ahead
  <2>1. CASE st[k] = g
    <3>1. \A j : Live(r, j) <=> Live(s, j) BY <1>12 DEF Live
    <3>2. \A i, j : NotBefore(r, i, j) <=> NotBefore(s, i, j) BY <1>12, <1>15 DEF NotBefore
    <3>3. \A j \in DOMAIN s.hooks : Place(s, j) \in Nat /\ s.list[Place(s, j)] = j
      <4>1. \A j \in DOMAIN s.hooks : Place(s, j) \in 1..Len(s.list) /\ s.list[Place(s, j)] = j
        BY <1>4, PlaceFacts
      <4> QED BY <4>1
    <3>4. ASSUME NEW j \in f.found \ (f.ran \cup {h}), Live(s, j) PROVE NotBefore(s, n, j)
      <4>1. j \in DOMAIN s.hooks /\ Place(s, from) <= Place(s, j)
        BY <1>6, <3>4 DEF NotBefore
      <4>2. s.hooks[j].type \in RunBy(f.ev) BY <1>5, <3>4, <4>1 DEF Live
      <4>3. Place(s, h) <= Place(s, j) BY <1>7, <4>1, <4>2
      <4>4. Place(s, h) # Place(s, j) BY <1>7, <3>3, <3>4, <4>1
      <4> QED BY <1>7, <1>8, <3>3, <4>1, <4>3, <4>4
    <3>5. ASSUME NEW j \in f.ran \cup {h}, NotBefore(s, n, j) PROVE FALSE
      <4>1. j \in DOMAIN s.hooks /\ Place(s, h) < Place(s, j) BY <1>8, <3>5
      <4>2. j # h BY <3>3, <4>1
      <4>3. ~NotBefore(s, from, j) BY <1>6, <3>5, <4>2
      <4>4. Place(s, from) <= Place(s, j) BY <1>7, <3>3, <4>1
      <4> QED BY <1>7, <4>1, <4>3, <4>4 DEF NotBefore
    <3>6. FrameAhead(r, g)
      BY <1>8, <1>10, <1>12, <3>1, <3>2, <3>4, <3>5 DEF FrameAhead
    <3> QED BY <2>1, <3>6
  <2>2. CASE k - 1 \in 1..Len(b.stack) /\ st[k] = b.stack[k - 1]
    <3>1. FrameAhead(b, st[k]) BY <1>3, <2>2 DEF Good, Ahead
    <3> QED BY <1>2, <1>12, <1>15, <3>1 DEF FrameAhead, NotBefore, Live
  <2> QED BY <1>13, <2>1, <2>2
<1>20. Careful(r)
  <2>1. Careful(b) BY <1>3 DEF Good
  <2>2. s.hooks[h].pl \in s.plugins BY <1>4, <1>7, <1>16 DEF Timely
  <2>3. \A k \in 1..Len(st) : st[k].pl = s.hooks[h].pl \/ st[k].pl \in Running(b)
    BY <1>10, <1>13 DEF Running
  <2>4. Running(r) \subseteq Running(b) \cup {s.hooks[h].pl}
    BY <1>12, <2>3 DEF Running
  <2>5. Never({"selfunload"}) => Running(r) \subseteq r.plugins
    BY <1>2, <1>12, <2>1, <2>2, <2>4 DEF Careful
  <2>6. Never({"close"}) => \A k \in 1..Len(r.stack) : r.stack[k].sess
    BY <1>5, <1>10, <1>12, <1>13, <2>1 DEF Careful
  <2>7. Never({"selfdelete"}) =>
          \A k \in 1..Len(r.stack) : r.stack[k].ev = "timer" /\ r.stack[k].pl = "Timer"
                                     => r.stack[k].hook \in r.timers
    BY <1>2, <1>10, <1>12, <1>13, <1>16, <2>1 DEF Careful
  <2> QED BY <1>2, <1>12, <2>1, <2>5, <2>6, <2>7 DEF Careful
<1>21. Good(r) /\ Len(r.stack) = Len(s.stack)
  BY <1>11, <1>12, <1>14, <1>17, <1>18, <1>19, <1>20 DEF Good
<1>22. [s EXCEPT !.stack[1] = g] = r BY DEF r, st
<1> QED BY <1>21, <1>22, Zenon DEF g, f, n

(* A run goes on, or ends. *)
LEMMA ContinueGood ==
  ASSUME NEW s, NEW from, Open(s, from)
  PROVE  Good(Continue(s, from)) /\ Len(Continue(s, from).stack) <= Len(s.stack)
<1> DEFINE f == Head(s.stack)
           h == plugin_hook_find(s, from, f.ev)
<1>1. /\ s \in State /\ s.stack # <<>> /\ Good(Pop(s)) /\ s.stack \in Seq(Frame)
      /\ Never({"nest"}) => \A k \in 2..Len(s.stack) : s.stack[k].ev = "timer"
      /\ Never({"close"}) => f.sess
  BY StateFields DEF Open
<1>2. Listed(s)
  <2>1. Listed(Pop(s)) /\ Pop(s).hooks = s.hooks /\ Pop(s).list = s.list /\ Pop(s).made = s.made
    BY <1>1, PopFields DEF Good
  <2> QED BY <1>1, <2>1, SameList
<1>3. Len(s.stack) \in Nat \ {0} /\ Len(Tail(s.stack)) = Len(s.stack) - 1 BY <1>1
<1>4. CASE from # 0 /\ from \notin DOMAIN s.hooks
  <2> DEFINE t == [s EXCEPT !.used = @ \cup {"node"}]
  <2>1. Continue(s, from) = Ended(t) BY <1>4 DEF Continue
  <2>2. ~FlatRemovals BY <1>4 DEF Open
  <2>3. /\ t \in State /\ t.stack = s.stack /\ t.hooks = s.hooks /\ t.list = s.list /\ t.made = s.made
        /\ t.plugins = s.plugins /\ t.sources = s.sources /\ t.timers = s.timers
    BY <1>1 DEF State
  <2> HIDE DEF t
  <2>4. Good(Pop(t))
    <3> DEFINE b == Pop(s)
               c == Pop(t)
    <3>1. /\ c \in State /\ c.hooks = b.hooks /\ c.list = b.list /\ c.made = b.made /\ c.plugins = b.plugins
          /\ c.sources = b.sources /\ c.timers = b.timers /\ c.stack = b.stack
      BY <1>1, <2>3, PopFields
    <3>2. Unused(c) BY <2>2 DEF Unused
    <3>3. Good(b) BY <1>1
    <3> HIDE DEF b, c
    <3>4. Good(c) BY <3>1, <3>2, <3>3, UsedGood
    <3> QED BY <3>4 DEF c
  <2>5. Good(Ended(t)) /\ Ended(t).stack = Tail(s.stack) BY <1>1, <2>3, <2>4, EndedGood
  <2> QED BY <1>3, <2>1, <2>5
<1>5. CASE ~(from # 0 /\ from \notin DOMAIN s.hooks) /\ h = 0
  <2>1. Continue(s, from) = Ended(s) BY <1>5 DEF Continue
  <2>2. Good(Ended(s)) /\ Ended(s).stack = Tail(s.stack) BY <1>1, EndedGood
  <2> QED BY <1>3, <2>1, <2>2
<1>6. CASE ~(from # 0 /\ from \notin DOMAIN s.hooks) /\ h # 0
  <2> DEFINE r == [s EXCEPT !.stack[1] = [f EXCEPT !.hook = h, !.pl = s.hooks[h].pl,
                                             !.next = After(s, h), !.ran = @ \cup {h}]]
  <2>1. Continue(s, from) = r BY <1>6, Zenon DEF Continue
  <2>2. Found(s, from, Head(s.stack).ev, h) BY <1>2, <1>6, FindFacts
  <2> HIDE DEF h
  <2>3. Good(r) /\ Len(r.stack) = Len(s.stack) BY <2>2, CalledGood, Zenon
  <2> HIDE DEF r
  <2> QED BY <1>3, <2>1, <2>3
<1> QED BY <1>4, <1>5, <1>6

(* An event that is caused where no other is walked, or where callbacks    *)
(* may cause some.                                                         *)
LEMMA RunGood ==
  ASSUME NEW s, Good(s), NEW ev \in Event,
         Never({"nest"}) => \A k \in 1..Len(s.stack) : s.stack[k].ev = "timer"
  PROVE  Good(plugin_hook_run(s, ev)) /\ Len(plugin_hook_run(s, ev).stack) <= Len(s.stack) + 1
<1> DEFINE fo == {h \in DOMAIN s.hooks : s.hooks[h].type \in RunBy(ev)}
           f == [ev |-> ev, hook |-> 1, pl |-> "Timer", next |-> 0, eat |-> FALSE, sess |-> TRUE,
                 found |-> fo, ran |-> {}]
           st == <<f>> \o s.stack
           t == [s EXCEPT !.stack = st]
           from == IF s.list = <<>> THEN 0 ELSE Head(s.list)
<1>1. /\ s \in State /\ s.stack \in Seq(Frame) /\ Listed(s) /\ DOMAIN s.hooks \in SUBSET Hook
      /\ s.list \in Seq(Hook)
  BY StateFields DEF Good, Listed
<1>2. plugin_hook_run(s, ev) = Continue(t, from) BY DEF plugin_hook_run
<1>3. f \in Frame BY <1>1, BoundsAssumption DEF Frame, Hook, Plugin
<1>4. f.ev = ev /\ f.sess /\ f.found = fo /\ f.ran = {} OBVIOUS
<1>5. \A h : h \in fo <=> h \in DOMAIN s.hooks /\ s.hooks[h].type \in RunBy(ev) OBVIOUS
<1> HIDE DEF f, fo
<1>6. /\ st \in Seq(Frame) /\ Head(st) = f /\ Tail(st) = s.stack /\ Len(st) = Len(s.stack) + 1
      /\ st # <<>> /\ Len(s.stack) \in Nat /\ \A k \in 2..Len(st) : st[k] = s.stack[k - 1]
  <2>1. Len(s.stack) \in Nat /\ <<f>> \in Seq(Frame) /\ Len(<<f>>) = 1 BY <1>1, <1>3
  <2>2. st \in Seq(Frame) /\ Len(st) = Len(s.stack) + 1 BY <1>1, <2>1
  <2>3. st[1] = f /\ \A k \in 2..Len(st) : st[k] = s.stack[k - 1] BY <1>1, <1>3, <2>1, <2>2
  <2> HIDE DEF st
  <2>4. Head(st) = f /\ st # <<>> BY <2>1, <2>2, <2>3
  <2>5. Tail(st) = s.stack
    <3>1. Tail(st) \in Seq(Frame) /\ Len(Tail(st)) = Len(s.stack) BY <2>1, <2>2
    <3>2. \A k \in 1..Len(s.stack) : Tail(st)[k] = s.stack[k]
      <4> SUFFICES ASSUME NEW k \in 1..Len(s.stack) PROVE Tail(st)[k] = s.stack[k] OBVIOUS
      <4>1. k + 1 \in 2..Len(st) /\ (k + 1) - 1 = k BY <2>1, <2>2
      <4>2. st[k + 1] = s.stack[k] BY <2>3, <4>1
      <4>3. Tail(st)[k] = st[k + 1] BY <2>1, <2>2
      <4> QED BY <4>2, <4>3
    <3> HIDE DEF st
    <3> QED BY <1>1, <3>1, <3>2, SeqEqual
  <2> QED BY <2>1, <2>2, <2>3, <2>4, <2>5
<1> HIDE DEF st
<1>7. /\ t \in State /\ t.hooks = s.hooks /\ t.list = s.list /\ t.made = s.made
      /\ t.plugins = s.plugins /\ t.sources = s.sources /\ t.timers = s.timers
      /\ t.used = s.used /\ t.stack = st
  BY <1>1, <1>6 DEF State
<1>8. Pop(t) = s BY <1>1, <1>6, <1>7, ZenonT(60) DEF Pop, State
<1> HIDE DEF t
<1>9. fo \subseteq 1..s.made BY <1>1, <1>5 DEF Listed
<1>10. from \in {0} \cup DOMAIN s.hooks /\ \A h \in fo : NotBefore(s, from, h)
  <2>1. CASE s.list = <<>>
    <3>1. ToSet(s.list) = {} BY <2>1 DEF ToSet
    <3> QED BY <1>1, <1>5, <2>1, <3>1 DEF Listed
  <2>2. CASE s.list # <<>>
    <3>1. Len(s.list) \in Nat \ {0} /\ Head(s.list) = s.list[1] BY <1>1, <2>2
    <3>2. from = s.list[1] /\ 1 \in 1..Len(s.list) BY <2>2, <3>1
    <3> HIDE DEF from
    <3>3. from \in DOMAIN s.hooks /\ Place(s, from) = 1 BY <1>1, <3>2, PlaceFacts
    <3>4. \A h \in DOMAIN s.hooks : 1 <= Place(s, h)
      <4>1. \A h \in DOMAIN s.hooks : Place(s, h) \in 1..Len(s.list) BY <1>1, PlaceFacts
      <4> QED BY <3>1, <4>1
    <3> QED BY <1>5, <3>3, <3>4 DEF NotBefore
  <2> QED BY <2>1, <2>2
<1> HIDE DEF from
<1>11. Open(t, from)
  <2>1. \A h : NotBefore(t, from, h) <=> NotBefore(s, from, h) BY <1>7 DEF NotBefore, Place
  <2>2. Never({"nest"}) => \A k \in 2..Len(t.stack) : t.stack[k].ev = "timer"
    <3>1. \A k \in 2..Len(st) : k - 1 \in 1..Len(s.stack) /\ st[k] = s.stack[k - 1] BY <1>6
    <3> QED BY <1>7, <3>1
  <2>3. \A h \in fo \cap DOMAIN t.hooks : t.hooks[h].type \in RunBy(ev) BY <1>5, <1>7
  <2>4. Head(t.stack) = f /\ t.stack # <<>> BY <1>6, <1>7
  <2> QED BY <1>4, <1>7, <1>8, <1>9, <1>10, <2>1, <2>2, <2>3, <2>4 DEF Open
<1>12. Good(Continue(t, from)) /\ Len(Continue(t, from).stack) <= Len(t.stack)
  BY <1>11, ContinueGood
<1> QED BY <1>2, <1>6, <1>7, <1>12

(* The code of a callback is still loaded, where none unloads its own      *)
(* plugin.                                                                 *)
LEMMA ReturningGood ==
  ASSUME NEW s, Good(s), s.stack # <<>>
  PROVE  Good(Returning(s)) /\ Returning(s).stack = s.stack
<1>1. CASE Head(s.stack).pl \in s.plugins BY <1>1 DEF Returning
<1>2. CASE Head(s.stack).pl \notin s.plugins
  <2> DEFINE r == [s EXCEPT !.used = @ \cup {"code"}]
  <2>1. s \in State BY DEF Good, Listed
  <2>2. /\ r \in State /\ r.hooks = s.hooks /\ r.list = s.list /\ r.made = s.made
        /\ r.plugins = s.plugins /\ r.sources = s.sources /\ r.timers = s.timers /\ r.stack = s.stack
    BY <2>1 DEF State
  <2>3. Returning(s) = r BY <1>2 DEF Returning
  <2> HIDE DEF r
  <2>4. Head(s.stack) = s.stack[1] /\ 1 \in 1..Len(s.stack) BY <2>1, PopFields
  <2>5. Head(s.stack).pl \in Running(s) BY <2>4 DEF Running
  <2>6. Unused(r) BY <1>2, <2>5 DEF Unused, Good, Careful, Never
  <2> QED BY <2>2, <2>3, <2>6, UsedGood
<1> QED BY <1>1, <1>2

(* A callback of an event returns. *)
LEMMA HookReturnsGood ==
  ASSUME NEW s, Good(s), s.stack # <<>>, Head(s.stack).ev \in Event,
         NEW eats \in BOOLEAN, NEW stops \in BOOLEAN
  PROVE  /\ Good(HookReturns(s, eats, stops))
         /\ Len(HookReturns(s, eats, stops).stack) <= Len(s.stack)
<1> DEFINE f == Head(s.stack)
           g == [f EXCEPT !.eat = @ \/ eats]
           st == [s.stack EXCEPT ![1] = g]
           t == [s EXCEPT !.stack = st]
<1>1. s \in State /\ s.stack \in Seq(Frame) BY StateFields DEF Good, Listed
<1>2. /\ Pop(s) \in State /\ f = s.stack[1] /\ f \in Frame /\ Len(s.stack) \in Nat \ {0}
  BY <1>1, PopFields
<1>3. Good(Pop(s)) BY PopGood
<1>4. HookReturns(s, eats, stops) = IF stops THEN Ended(t) ELSE Continue(t, Head(t.stack).next)
  <2> DEFINE u == [s EXCEPT !.stack[1].eat = @ \/ eats]
  <2>1. HookReturns(s, eats, stops) = IF stops THEN Ended(u) ELSE Continue(u, Head(u.stack).next)
    BY DEF HookReturns
  <2>2. u = t BY <1>2
  <2> HIDE DEF u, t
  <2> QED BY <2>1, <2>2
<1>5. FrameFits(s, f) /\ (FlatRemovals => FrameAhead(s, f)) /\ (Never({"close"}) => f.sess)
  <2>1. 1 \in 1..Len(s.stack) BY <1>2
  <2> QED BY <1>2, <2>1 DEF Good, Framed, Ahead, Careful
<1>6. Never({"nest"}) => \A k \in 2..Len(s.stack) : s.stack[k].ev = "timer" BY DEF Good, Flat
<1> HIDE DEF f
<1>7. /\ g \in Frame /\ g.ev = f.ev /\ g.next = f.next /\ g.sess = f.sess /\ g.found = f.found
      /\ g.ran = f.ran
  BY <1>2 DEF Frame
<1> HIDE DEF g
<1>8. /\ st \in Seq(Frame) /\ Len(st) = Len(s.stack) /\ Head(st) = g /\ Tail(st) = Tail(s.stack)
      /\ st # <<>> /\ \A k \in 2..Len(st) : st[k] = s.stack[k]
  <2>1. st \in Seq(Frame) /\ Len(st) = Len(s.stack) /\ st[1] = g
        /\ \A k \in 2..Len(st) : st[k] = s.stack[k]
    BY <1>1, <1>2, <1>7
  <2> HIDE DEF st
  <2>2. Head(st) = g /\ st # <<>> BY <1>2, <2>1
  <2>3. Tail(st) = Tail(s.stack)
    <3>1. /\ Tail(st) \in Seq(Frame) /\ Tail(s.stack) \in Seq(Frame)
          /\ Len(Tail(st)) = Len(Tail(s.stack)) /\ Len(Tail(st)) = Len(s.stack) - 1
      BY <1>1, <1>2, <2>1
    <3>2. \A k \in 1..Len(Tail(st)) : Tail(st)[k] = Tail(s.stack)[k]
      <4> SUFFICES ASSUME NEW k \in 1..(Len(s.stack) - 1) PROVE Tail(st)[k] = Tail(s.stack)[k]
        BY <3>1
      <4>1. k + 1 \in 2..Len(st) BY <1>2, <2>1
      <4>2. Tail(st)[k] = st[k + 1] /\ Tail(s.stack)[k] = s.stack[k + 1] BY <1>1, <1>2, <2>1
      <4> QED BY <2>1, <4>1, <4>2
    <3> QED BY <3>1, <3>2, SeqEqual
  <2> QED BY <2>1, <2>2, <2>3
<1> HIDE DEF st
<1>9. /\ t \in State /\ t.hooks = s.hooks /\ t.list = s.list /\ t.made = s.made
      /\ t.plugins = s.plugins /\ t.sources = s.sources /\ t.timers = s.timers
      /\ t.used = s.used /\ t.stack = st
  BY <1>1, <1>8 DEF State
<1>10. Pop(t) = Pop(s) BY <1>1, <1>8, <1>9 DEF Pop, State
<1> HIDE DEF t
<1>11. Head(t.stack) = g /\ t.stack # <<>> /\ Len(t.stack) = Len(s.stack) BY <1>8, <1>9
<1>12. Never({"nest"}) => \A k \in 2..Len(t.stack) : t.stack[k].ev = "timer"
  BY <1>6, <1>8, <1>9
<1>13. Open(t, f.next)
  <2>1. \A h : NotBefore(t, f.next, h) <=> NotBefore(s, f.next, h) BY <1>9 DEF NotBefore, Place
  <2>2. \A h : Live(t, h) <=> Live(s, h) BY <1>9 DEF Live
  <2>3. f.ev \in Event BY DEF f
  <2>4. /\ f.found \subseteq 1..t.made /\ f.ran \subseteq 1..t.made
        /\ \A h \in f.found \cap DOMAIN t.hooks : t.hooks[h].type \in RunBy(f.ev) \cup {"DELETED"}
    BY <1>5, <1>9 DEF FrameFits
  <2>5. FlatRemovals => /\ f.next \in {0} \cup DOMAIN t.hooks
                        /\ \A h \in f.found \ f.ran : Live(t, h) => NotBefore(t, f.next, h)
                        /\ \A h \in f.ran : ~NotBefore(t, f.next, h)
    BY <1>5, <1>9, <2>1, <2>2 DEF FrameAhead
  <2> QED BY <1>3, <1>5, <1>7, <1>9, <1>10, <1>11, <1>12, <2>3, <2>4, <2>5 DEF Open
<1>14. CASE stops
  <2>1. Good(Ended(t)) /\ Ended(t).stack = Tail(t.stack)
    BY <1>3, <1>5, <1>7, <1>9, <1>10, <1>11, <1>12, EndedGood
  <2>2. Len(Tail(t.stack)) = Len(s.stack) - 1 BY <1>1, <1>2, <1>8, <1>9
  <2>3. HookReturns(s, eats, stops) = Ended(t) BY <1>4, <1>14
  <2>4. Len(Ended(t).stack) <= Len(s.stack)
    <3>1. Len(Ended(t).stack) = Len(s.stack) - 1 BY <2>1, <2>2, Zenon
    <3> QED BY <1>2, <3>1
  <2> QED BY <2>1, <2>3, <2>4, Zenon
<1>15. CASE ~stops
  <2>1. Head(t.stack).next = f.next BY <1>7, <1>11
  <2>2. Good(Continue(t, f.next)) /\ Len(Continue(t, f.next).stack) <= Len(t.stack)
    BY <1>13, ContinueGood
  <2> QED BY <1>4, <1>11, <1>15, <2>1, <2>2
<1> QED BY <1>14, <1>15

-----------------------------------------------------------------------------
(* The actions. *)

(* A plugin makes a hook. *)
LEMMA AddHookGood ==
  ASSUME Good(p), AddHook
  PROVE  Good(p') /\ p'.stack = p.stack /\ features' = features
<1>1. PICK pl \in p.plugins \cap Unloadable, type \in features \cap Type, pri \in Pri :
        To(plugin_add_hook(p, pl, type, pri))
  BY DEF AddHook
<1> DEFINE d == [pl |-> pl, type |-> type, pri |-> pri, tag |-> type = "TIMER"]
           h == p.made + 1
           r == plugin_add_hook(p, pl, type, pri)
<1>2. p.made < MaxHooks BY DEF AddHook
<1>3. pl \in Plugin /\ pl # "Timer" /\ pl \in p.plugins BY <1>1 DEF Unloadable, Plugin
<1>4. Listed(p) BY DEF Good
<1>5. r.timers = p.timers /\ \E c : Added(p, r, h, d, c)
  BY <1>2, <1>3, <1>4, AddMakes, Zenon
<1>6. d \in HookData /\ d.type = type /\ d.pl = pl /\ (d.tag <=> d.type = "TIMER")
  BY <1>3 DEF HookData
<1> HIDE DEF d, h, r
<1>7. PICK c : Added(p, r, h, d, c) BY <1>5
<1>8. r.timers = p.timers \cup (IF d.pl = "Timer" THEN {h} ELSE {}) BY <1>3, <1>5, <1>6
<1>9. Good(r) /\ r.stack = p.stack BY <1>3, <1>6, <1>7, <1>8, AddedGood
<1> QED BY <1>1, <1>9 DEF To, r

(* /TIMER makes one. *)
LEMMA timer_addGood ==
  ASSUME Good(p), timer_add
  PROVE  Good(p') /\ p'.stack = p.stack /\ features' = features
<1> DEFINE d == [pl |-> "Timer", type |-> "TIMER", pri |-> 0, tag |-> "TIMER" = "TIMER"]
           h == p.made + 1
           s == plugin_add_hook(p, "Timer", "TIMER", 0)
           r == [s EXCEPT !.timers = @ \cup {s.made}]
<1>1. p' = r /\ features' = features BY DEF timer_add, To
<1>2. p.made < MaxHooks /\ "TIMER" \in features BY DEF timer_add
<1>3. "Timer" \in Plugin /\ "Timer" \in p.plugins /\ "TIMER" \in Type /\ 0 \in Pri
  BY DEF Plugin, Type, Pri, Good, Timely
<1>4. Listed(p) /\ p \in State BY DEF Good, Listed
<1>5. s.timers = p.timers /\ \E c : Added(p, s, h, d, c)
  BY <1>2, <1>3, <1>4, AddMakes, Zenon
<1>6. d \in HookData /\ d.type = "TIMER" /\ d.pl = "Timer" /\ (d.tag <=> d.type = "TIMER")
  BY <1>3 DEF HookData
<1> HIDE DEF d, s, h
<1>7. PICK c : Added(p, s, h, d, c) BY <1>5
<1>8. s \in State /\ s.made = h /\ h \in Hook
  <2>1. s \in State /\ s.made = h /\ h = p.made + 1 BY <1>7 DEF Added
  <2> QED BY <1>2, <1>4, <2>1, StateFields, BoundsAssumption DEF Hook
<1>9. /\ r \in State /\ r.hooks = s.hooks /\ r.list = s.list /\ r.made = s.made
      /\ r.plugins = s.plugins /\ r.sources = s.sources /\ r.stack = s.stack /\ r.used = s.used
      /\ r.timers = p.timers \cup {h}
  BY <1>5, <1>8 DEF State
<1> HIDE DEF r
<1>10. Added(p, r, h, d, c) BY <1>7, <1>9 DEF Added
<1>11. Good(r) /\ r.stack = p.stack
  <2>1. r.timers = p.timers \cup (IF d.pl = "Timer" THEN {h} ELSE {}) BY <1>6, <1>9
  <2> QED BY <1>2, <1>3, <1>6, <1>10, <2>1, AddedGood
<1> QED BY <1>1, <1>11

(* A callback returns. *)
LEMMA ReturnGood ==
  ASSUME Good(p), Return
  PROVE  Good(p') /\ Len(p'.stack) <= Len(p.stack) /\ features' = features
<1>1. p.stack # <<>> BY DEF Return, InCallback, Idle
<1>2. Len(p.stack) \in Nat BY StateFields DEF Good, Listed
<1>3. Good(Returning(p)) /\ Returning(p).stack = p.stack BY <1>1, ReturningGood
<1>4. CASE Top.ev \in Event /\ \E eats, stops \in BOOLEAN : To(HookReturns(Returning(p), eats, stops))
  <2>1. PICK eats \in BOOLEAN, stops \in BOOLEAN : To(HookReturns(Returning(p), eats, stops))
    BY <1>4
  <2> DEFINE s == Returning(p)
  <2>2. Good(s) /\ s.stack = p.stack BY <1>3
  <2> HIDE DEF s
  <2>3. s.stack # <<>> /\ Head(s.stack).ev \in Event BY <1>1, <1>4, <2>2 DEF Top
  <2>4. /\ Good(HookReturns(s, eats, stops))
        /\ Len(HookReturns(s, eats, stops).stack) <= Len(s.stack)
    BY <2>2, <2>3, HookReturnsGood
  <2>5. p' = HookReturns(s, eats, stops) /\ features' = features BY <2>1 DEF To, s
  <2> QED BY <2>2, <2>4, <2>5, Zenon
<1>5. CASE Top.ev = "timer" /\ Top.pl = "Timer"
  <2>1. \E again \in BOOLEAN : p' = timeout_cb(p, again) /\ features' = features
    BY <1>5 DEF Return, To, Event
  <2>2. PICK again \in BOOLEAN : p' = timeout_cb(p, again) /\ features' = features BY <2>1
  <2>3. Good(timeout_cb(p, again)) /\ timeout_cb(p, again).stack = <<>>
    BY <1>1, <1>5, TimeoutGood DEF Top
  <2>4. Good(p') /\ p'.stack = <<>> /\ features' = features BY <2>2, <2>3, Zenon
  <2> QED BY <1>2, <2>4, EmptySeq
<1>6. CASE Top.ev = "timer" /\ Top.pl # "Timer"
  <2> DEFINE s == Returning(p)
  <2>1. \E again \in BOOLEAN : p' = TimerReturns(s, again) /\ features' = features
    BY <1>6 DEF Return, To, Event
  <2>2. PICK again \in BOOLEAN : p' = TimerReturns(s, again) /\ features' = features BY <2>1
  <2>3. Good(s) /\ s.stack = p.stack BY <1>3
  <2> HIDE DEF s
  <2>4. s.stack # <<>> /\ Head(s.stack).ev = "timer" /\ Head(s.stack).pl # "Timer"
    BY <1>1, <1>6, <2>3 DEF Top
  <2>5. /\ Len(s.stack) = 1 /\ ~Never(Removals)
        /\ Head(s.stack).hook \in DOMAIN s.hooks => s.hooks[Head(s.stack).hook].pl # "Timer"
    BY <2>3, <2>4, TimerFrame
  <2>6. Listed(s) /\ Timely(s) /\ Sorted(s) /\ Unused(s) BY <2>3 DEF Good, Careful, Unused
  <2>7. Live(s, Head(s.stack).hook) => again \/ s.hooks[Head(s.stack).hook].pl # "Timer"
    BY <2>5 DEF Live
  <2>8. Good(TimerReturns(s, again)) /\ TimerReturns(s, again).stack = <<>>
    BY <2>5, <2>6, <2>7, TimerReturnsGood
  <2>9. Good(p') /\ p'.stack = <<>> /\ features' = features BY <2>2, <2>8, Zenon
  <2> QED BY <1>2, <2>9, EmptySeq
<1> QED BY <1>4, <1>5, <1>6 DEF Return, Event

(* The invariant holds at the start. *)
LEMMA InitIInv == Init => IInv
<1> SUFFICES ASSUME Init PROVE IInv
  OBVIOUS
<1> DEFINE hk == [h \in {} |-> 0]
<1>1. p = [hooks |-> hk, list |-> <<>>, made |-> 0, plugins |-> Plugin,
           sources |-> {}, timers |-> {}, stack |-> <<>>, used |-> {}]
  BY DEF Init
<1>2. hk \in [{} -> HookData] /\ DOMAIN hk = {} OBVIOUS
<1> HIDE DEF hk
<1>3. p \in State
  <2>1. {} \in SUBSET Hook OBVIOUS
  <2>2. hk \in UNION {[S -> HookData] : S \in SUBSET Hook} BY <1>2, <2>1
  <2> QED BY <1>1, <2>2, BoundsAssumption DEF State
<1>4. /\ DOMAIN p.hooks = {} /\ p.list = <<>> /\ p.stack = <<>> /\ p.sources = {} /\ p.timers = {}
      /\ p.plugins = Plugin /\ p.used = {} /\ p.made = 0
  BY <1>1, <1>2
<1>5. IsInjective(p.list) /\ ToSet(p.list) = {} BY <1>4 DEF IsInjective, ToSet
<1>6. Listed(p) BY <1>3, <1>4, <1>5 DEF Listed
<1>7. Timely(p) BY <1>4 DEF Timely, Plugin
<1>8. Sorted(p) BY <1>4 DEF Sorted
<1>9. Good(p) BY <1>4, <1>6, <1>7, <1>8, IdleGood DEF Unused
<1>10. Len(p.stack) = 0 BY <1>4, EmptySeq
<1> QED BY <1>9, <1>10, BoundsAssumption DEF IInv, Init

(* Every step keeps it. *)
LEMMA NextIInv == IInv /\ [Next]_vars => IInv'
<1> SUFFICES ASSUME IInv, [Next]_vars PROVE IInv'
  OBVIOUS
<1>1. /\ Good(p) /\ Len(p.stack) <= MaxDepth /\ features \in Scenarios /\ p \in State
      /\ Len(p.stack) \in Nat /\ MaxDepth \in Nat \ {0} /\ p.stack \in Seq(Frame)
  BY StateFields, BoundsAssumption DEF IInv, Good, Listed
<1> SUFFICES Good(p)' /\ Len(p'.stack) <= MaxDepth /\ features' = features
  BY <1>1 DEF IInv
<1>2. features' = features => (Good(p)' <=> Good(p'))
  BY DEF Good, Listed, Timely, Framed, Flat, Ahead, Careful, Sorted, Never, FlatRemovals,
         FrameFits, FrameAhead, Running, Live, NotBefore, Place
<1> SUFFICES Good(p') /\ Len(p'.stack) <= MaxDepth /\ features' = features
  BY <1>2
<1>3. CASE Emit
  <2>1. PICK ev \in Event : p' = plugin_hook_run(p, ev) /\ features' = features BY <1>3 DEF Emit, To
  <2>2. Len(p.stack) = 0 BY <1>3, EmptySeq DEF Emit, Idle
  <2>3. Good(p') /\ Len(p'.stack) <= 1 BY <1>1, <2>1, <2>2, RunGood
  <2>4. Len(p'.stack) \in Nat BY <2>3, StateFields DEF Good, Listed
  <2> QED BY <1>1, <2>1, <2>3, <2>4
<1>4. CASE TimerFires
  <2>1. PICK h \in p.sources \cap DOMAIN p.hooks : p' = plugin_timeout_cb(p, h) /\ features' = features
    BY <1>4 DEF TimerFires, To
  <2>2. Good(p') /\ Len(p'.stack) = 1 BY <1>1, <1>4, <2>1, FiresGood DEF TimerFires, Idle
  <2> QED BY <1>1, <2>1, <2>2
<1>5. CASE AddHook BY <1>1, <1>5, AddHookGood
<1>6. CASE timer_add BY <1>1, <1>6, timer_addGood
<1>7. CASE timer_del_ref
  <2>1. PICK h \in p.timers : /\ (\E k \in 1..Len(p.stack) : p.stack[k].hook = h) => May("selfdelete")
                              /\ p' = timer_del(p, h) /\ features' = features
    BY <1>7 DEF timer_del_ref, To
  <2>2. Never({"selfdelete"}) => \A k \in 1..Len(p.stack) : p.stack[k].hook # h
    BY <2>1 DEF May, Never
  <2> QED BY <1>1, <2>1, <2>2, TimerDelGood
<1>8. CASE Unload
  <2>1. PICK pl \in p.plugins \cap Unloadable :
          /\ May("unload")
          /\ InCallback => May("unloadinside") /\ (pl \in Running(p) => May("selfunload"))
          /\ p' = plugin_free(p, pl) /\ features' = features
    BY <1>8 DEF Unload, To
  <2>2. ~Never(Removals) BY <2>1 DEF May, Never, Removals
  <2>3. pl \in Running(p) => ~Never({"selfunload"})
    <3>1. pl \in Running(p) => InCallback BY EmptySeq DEF Running, InCallback, Idle
    <3> QED BY <2>1, <3>1 DEF May, Never
  <2> QED BY <1>1, <2>1, <2>2, <2>3, FreeGood
<1>9. CASE plugin_load
  <2>1. PICK pl \in Plugin : p' = [p EXCEPT !.plugins = @ \cup {pl}] /\ features' = features
    BY <1>9 DEF plugin_load, To
  <2>2. p'.stack = p.stack BY <1>1, <2>1 DEF State
  <2>3. Good(p') BY <1>1, <2>1, LoadGood
  <2> QED BY <1>1, <2>1, <2>2, <2>3
<1>10. CASE Unhook
  <2>1. PICK h \in DOMAIN p.hooks : p.hooks[h].pl # "Timer" /\ p' = hexchat_unhook(p, h) /\ features' = features
    BY <1>10 DEF Unhook, To
  <2>2. ~Never(Removals) BY <1>10 DEF Unhook, May, Never, Removals
  <2> QED BY <1>1, <2>1, <2>2, UnhookGood
<1>11. CASE NestedEvent
  <2>1. PICK ev \in Event : p' = plugin_hook_run(p, ev) /\ features' = features
    BY <1>11 DEF NestedEvent, To
  <2>2. Never({"nest"}) => \A k \in 1..Len(p.stack) : p.stack[k].ev = "timer"
    <3> SUFFICES ASSUME Never({"nest"}) PROVE \A k \in 1..Len(p.stack) : p.stack[k].ev = "timer"
      OBVIOUS
    <3>1. p.stack # <<>> /\ Head(p.stack).pl = "Timer"
      BY <1>11 DEF NestedEvent, InCallback, Idle, May, Never, Top
    <3>2. 1 \in 1..Len(p.stack) /\ Head(p.stack) = p.stack[1] BY <1>1, <3>1
    <3>3. FrameFits(p, p.stack[1]) /\ (p.stack[1].ev = "timer" => 1 = Len(p.stack))
      BY <1>1, <3>2 DEF Good, Framed
    <3> QED BY <3>1, <3>2, <3>3 DEF FrameFits
  <2>3. Good(p') /\ Len(p'.stack) <= Len(p.stack) + 1 BY <1>1, <2>1, <2>2, RunGood
  <2>4. Len(p.stack) < MaxDepth BY <1>11 DEF NestedEvent
  <2>5. Len(p'.stack) \in Nat BY <2>3, StateFields DEF Good, Listed
  <2> QED BY <1>1, <2>1, <2>3, <2>4, <2>5
<1>12. CASE CloseTab
  <2> DEFINE r == [p EXCEPT !.stack = [k \in DOMAIN @ |-> [@[k] EXCEPT !.sess = FALSE]]]
  <2>1. p' = r /\ features' = features BY <1>12 DEF CloseTab, To
  <2>2. ~Never({"close"}) BY <1>12 DEF CloseTab, May, Never
  <2>3. Good(r) /\ Len(r.stack) = Len(p.stack) BY <1>1, <2>2, CloseGood
  <2> HIDE DEF r
  <2> QED BY <1>1, <2>1, <2>3
<1>13. CASE Return
  <2>1. Good(p') /\ Len(p'.stack) <= Len(p.stack) /\ features' = features BY <1>1, <1>13, ReturnGood
  <2>2. Len(p'.stack) \in Nat BY <2>1, StateFields DEF Good, Listed
  <2> QED BY <1>1, <2>1, <2>2
<1>14. CASE UNCHANGED vars
  <2>1. p' = p /\ features' = features BY <1>14 DEF vars
  <2> QED BY <1>1, <2>1
<1> QED
  BY <1>3, <1>4, <1>5, <1>6, <1>7, <1>8, <1>9, <1>10, <1>11, <1>12, <1>13, <1>14 DEF Next

-----------------------------------------------------------------------------
(* The inductive invariant holds in every reachable state. *)
THEOREM IInvHolds == Spec => []IInv
BY InitIInv, NextIInv, PTL DEF Spec

(* TypeOK: the list holds every hook that is not freed, once, and each     *)
(* frame of the call stack is one.                                         *)
THEOREM TypeCorrect == Spec => []TypeOK
BY IInvHolds, InvImplies, PTL

(* NothingFreedIsUsed: plugin_hook_run, the timer callbacks and what       *)
(* follows an event do not go on with what was freed, in the behaviours    *)
(* the property names.                                                     *)
THEOREM SafeToGoOn == Spec => []NothingFreedIsUsed
BY IInvHolds, InvImplies, PTL

(* RunsInOrder: plugin_hook_run calls each hook that it found once, by     *)
(* priority.                                                               *)
THEOREM RunsAreInOrder == Spec => []RunsInOrder
BY IInvHolds, InvImplies, PTL

(* CallsAreDue: the main loop holds the timers that are hooked, and        *)
(* nothing of a plugin that was unloaded is hooked.                        *)
THEOREM CallsComeDue == Spec => []CallsAreDue
BY IInvHolds, InvImplies, PTL
=============================================================================
