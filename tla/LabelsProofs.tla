--------------------------- MODULE LabelsProofs ---------------------------
(***************************************************************************)
(* Proofs about Labels for any number of labels and any timeouts: the      *)
(* sweep is armed while it is needed, and, with an inductive invariant     *)
(* that follows a message from its send to its answer, every message is    *)
(* shown once and brightened by its own answer.                            *)
(***************************************************************************)
EXTENDS Labels, SequenceTheorems, TLAPS

-----------------------------------------------------------------------------
(* What the table operations do to the keys of a table. *)

(* g_hash_table_remove: the keys that are removed, and no others, go. *)
LEMMA WithoutDomain ==
    ASSUME NEW f, NEW S
    PROVE  DOMAIN Without(f, S) = DOMAIN f \ S
BY DEF Without, Restrict

(* Growing older removes and adds nothing. *)
LEMMA OlderDomain ==
    ASSUME NEW f, NEW cap
    PROVE  DOMAIN Older(f, cap) = DOMAIN f
BY DEF Older

(* The empty tables of a new connection. *)
LEMMA EmptyDomain == DOMAIN Empty = {}
BY DEF Empty

-----------------------------------------------------------------------------
(* Nothing is open at the start. *)
LEMMA InitArmed == Init => SweepArmed
BY EmptyDomain DEF Init, SweepArmed

(* Sending installs the timer. *)
LEMMA SendArmed ==
    ASSUME SendCommand \/ handle_say \/ handle_multiline_batch
    PROVE  SweepArmed'
<1>1. ASSUME NEW kinds, send_labels(kinds) PROVE stale_sweep_timer'
      BY <1>1 DEF send_labels, server_ensure_stale_sweep_timer
<1>2. stale_sweep_timer'
      BY <1>1 DEF SendCommand, handle_say, handle_multiline_batch, SendShown
<1> QED BY <1>2 DEF SweepArmed

(* Reading opens a batch with the timer, or opens nothing. *)
LEMMA ReadArmed ==
    ASSUME SweepArmed, Read
    PROVE  SweepArmed'
<1>1. ASSUME NEW l, forget(l) PROVE DOMAIN pending_labels' \subseteq DOMAIN pending_labels
  <2>1. pending_labels' = Without(pending_labels, {l})
        BY <1>1 DEF forget
  <2>2. DOMAIN Without(pending_labels, {l}) = DOMAIN pending_labels \ {l}
        BY WithoutDomain
  <2> QED BY <2>1, <2>2
<1>2. CASE ReadEcho
      BY <1>1, <1>2 DEF ReadEcho, SweepArmed
<1>3. CASE ReadAck
      BY <1>1, <1>3 DEF ReadAck, SweepArmed
<1>4. CASE inbound_batch_start
      BY <1>4 DEF inbound_batch_start, server_ensure_stale_sweep_timer, SweepArmed
<1>5. CASE inbound_batch_add_message
  <2>1. DOMAIN active_batches' = DOMAIN active_batches
        BY <1>5 DEF inbound_batch_add_message
  <2> QED BY <1>5, <2>1 DEF inbound_batch_add_message, SweepArmed
<1>6. CASE inbound_batch_end
  <2>1. DOMAIN pending_labels' \subseteq DOMAIN pending_labels
        BY <1>1, <1>6 DEF inbound_batch_end
  <2>2. DOMAIN active_batches' \subseteq DOMAIN active_batches
    <3>1. \/ active_batches' = Without(active_batches, {Head(inq).label})
          \/ active_batches' = active_batches
          BY <1>6 DEF inbound_batch_end
    <3>2. DOMAIN Without(active_batches, {Head(inq).label})
            = DOMAIN active_batches \ {Head(inq).label}
          BY WithoutDomain
    <3> QED BY <3>1, <3>2
  <2> QED BY <1>6, <2>1, <2>2 DEF inbound_batch_end, SweepArmed
<1> QED BY <1>2, <1>3, <1>4, <1>5, <1>6 DEF Read

(* The sweep goes on for whatever it leaves. *)
LEMMA SweepStaysArmed ==
    ASSUME SweepArmed, stale_sweep_cb
    PROVE  SweepArmed'
<1>1. DOMAIN pending_labels' = DOMAIN pending_labels \ (stale_labels \cup stale_batches)
      BY WithoutDomain DEF stale_sweep_cb
<1>2. DOMAIN active_batches' = DOMAIN active_batches \ stale_batches
      BY WithoutDomain DEF stale_sweep_cb
<1>3. stale_sweep_timer' = (\/ DOMAIN pending_labels \ stale_labels # {}
                            \/ DOMAIN active_batches \ stale_batches # {})
      BY DEF stale_sweep_cb
<1> QED BY <1>1, <1>2, <1>3 DEF SweepArmed

(* A connection ends, and the next one begins, with nothing open. *)
LEMMA ConnectionArmed ==
    ASSUME server_cleanup \/ server_set_defaults
    PROVE  SweepArmed'
BY EmptyDomain DEF server_cleanup, server_set_defaults, SweepArmed

(* The passing of time opens nothing. *)
LEMMA TickArmed ==
    ASSUME SweepArmed, Tick
    PROVE  SweepArmed'
BY OlderDomain DEF Tick, SweepArmed

(* Every step keeps the timer installed as long as something is open. *)
LEMMA NextArmed == SweepArmed /\ [Next]_vars => SweepArmed'
<1> SUFFICES ASSUME SweepArmed, [Next]_vars PROVE SweepArmed'
    OBVIOUS
<1>1. CASE session_free
      BY <1>1 DEF session_free, SweepArmed
<1>2. CASE ServerAnswers
      BY <1>2 DEF ServerAnswers, SweepArmed
<1>3. CASE UNCHANGED vars
      BY <1>3 DEF vars, SweepArmed
<1> QED BY <1>1, <1>2, <1>3, SendArmed, ReadArmed, SweepStaysArmed, ConnectionArmed,
           TickArmed DEF Next

(* As long as a label or a batch is open, the sweep timer is installed:    *)
(* server_ensure_stale_sweep_timer is called on every path that opens one, *)
(* and stale_sweep_cb removes its timer only when both tables are empty.   *)
THEOREM AlwaysSweepArmed == Spec => []SweepArmed
BY InitArmed, NextArmed, PTL DEF Spec

-----------------------------------------------------------------------------
(* The inductive invariant.  The lines under way (inq) of a label are its  *)
(* echo or ACK, or what is left of its batch.                              *)

Opens(i) == inq[i].cmd \in {"echo", "ack", "start"}
Closes(i) == inq[i].cmd \in {"echo", "end"}
Repeats(i) == inq[i].cmd = "echo" \/ (inq[i].cmd = "start" /\ inq[i].type # "chathistory")

Coming(l) == \E i \in 1..Len(inq) : inq[i].label = l

(* A message of ours on its way to the server or back. *)
IsMessage(l) ==
    \/ l \in DOMAIN asked /\ asked[l] # "command"
    \/ \E i \in 1..Len(inq) : inq[i].label = l /\ Repeats(i)
    \/ l \in DOMAIN active_batches /\ active_batches[l].type # "chathistory" /\ Coming(l)

(* Without hooks a label leads to no entry but its own. *)
OwnEntries ==
    "hook" \notin features =>
      \A l \in DOMAIN pending_labels : pending_labels[l].entry \in {NoEntry, l}

(* The next number is a new one everywhere, and a closed tab shows nothing. *)
Numbered ==
    /\ \A l \in DOMAIN pending_labels \cup DOMAIN asked \cup DOMAIN active_batches : l < label_counter
    /\ \A i \in 1..Len(inq) : inq[i].label < label_counter
    /\ \A l \in Label : screen[l].dim => l < label_counter /\ sess

Closed == ~connected => DOMAIN asked = {} /\ inq = <<>>

(* What the server has not answered it has sent nothing about. *)
Unanswered == \A l \in DOMAIN asked : l \notin DOMAIN active_batches /\ ~Coming(l)

(* There is one answer to a label, and the lines of a batch follow its     *)
(* start; what follows no start under way belongs to an open batch.        *)
Ordered ==
    /\ \A i, j \in 1..Len(inq) : Opens(i) /\ Opens(j) /\ inq[i].label = inq[j].label => i = j
    /\ \A i \in 1..Len(inq) : Opens(i) => inq[i].label \notin DOMAIN active_batches
    /\ \A i \in 1..Len(inq) : inq[i].cmd = "batched" =>
         IF i = 1 THEN inq[i].label \in DOMAIN active_batches
                  ELSE inq[i - 1].cmd = "start" /\ inq[i - 1].label = inq[i].label
    /\ \A i \in 1..Len(inq) : inq[i].cmd = "end" =>
         IF i = 1 THEN inq[i].label \in DOMAIN active_batches
                  ELSE inq[i - 1].cmd = "batched" /\ inq[i - 1].label = inq[i].label

(* What is on its way has not aged, so that no sweep comes before it. *)
Fresh ==
    /\ \A l \in Label : IsMessage(l) => l \in DOMAIN pending_labels /\ pending_labels[l].age = 0
    /\ \A l \in DOMAIN active_batches : Coming(l) => active_batches[l].age = 0

(* A message's only echo is a line or a batch with its label. *)
Unwrapped ==
    "wrapped" \notin features =>
       /\ \A i \in 1..Len(inq) : inq[i].cmd = "start" => inq[i].type # "labeled-response"
       /\ \A l \in DOMAIN active_batches : active_batches[l].type # "labeled-response"

(* The label of a message leads to an entry. *)
HasEntry ==
    Never({"hook", "split"}) => \A l \in Label : IsMessage(l) => pending_labels[l].entry # NoEntry

(* A dimmed entry waits for a line that will brighten it. *)
Dimmed ==
    Never({"silent", "hook"}) => \A l \in Label : screen[l].dim =>
      /\ IsMessage(l) /\ pending_labels[l].entry # NoEntry
      /\ l \in DOMAIN asked \/ \E i \in 1..Len(inq) : inq[i].label = l /\ Closes(i)

Once == Never({"wrapped", "hook", "split"}) => NoneShownTwice

Tables == Unanswered /\ Ordered /\ Fresh /\ Unwrapped /\ HasEntry
Timely == Tables /\ Dimmed /\ Once

IInv == TypeOK /\ OwnEntries /\ Numbered /\ Closed /\ ("late" \notin features => Timely)

-----------------------------------------------------------------------------
(* Tables and their types. *)

PendingType == [age: 0..(LabelTimeout + 1), entry: Label \cup {NoEntry}]
ActiveType == [type: BatchType, age: 0..(BatchTimeout + 1), messages: BOOLEAN]

(* What it takes to be a table. *)
LEMMA TableType ==
    ASSUME NEW f, NEW S, NEW T
    PROVE  f \in PartialFunctions(S, T)
             <=> /\ DOMAIN f \subseteq S /\ f = [l \in DOMAIN f |-> f[l]]
                 /\ \A l \in DOMAIN f : f[l] \in T
<1>1. ASSUME f \in PartialFunctions(S, T)
      PROVE  DOMAIN f \subseteq S /\ f = [l \in DOMAIN f |-> f[l]] /\ \A l \in DOMAIN f : f[l] \in T
  <2>1. PICK D \in SUBSET S : f \in [D -> T] BY <1>1 DEF PartialFunctions
  <2> QED BY <2>1
<1>2. ASSUME DOMAIN f \subseteq S, f = [l \in DOMAIN f |-> f[l]], \A l \in DOMAIN f : f[l] \in T
      PROVE  f \in PartialFunctions(S, T)
  <2>1. f \in [DOMAIN f -> T] BY <1>2
  <2> QED BY <1>2, <2>1 DEF PartialFunctions
<1> QED BY <1>1, <1>2

(* What TypeOK says, table by table. *)
LEMMA Types ==
    ASSUME TypeOK
    PROVE  /\ pending_labels \in PartialFunctions(Label, PendingType)
           /\ active_batches \in PartialFunctions(Label, ActiveType)
           /\ asked \in PartialFunctions(Label, Kind)
           /\ DOMAIN pending_labels \subseteq Label /\ DOMAIN active_batches \subseteq Label
           /\ DOMAIN asked \subseteq Label
           /\ \A l \in DOMAIN pending_labels : pending_labels[l] \in PendingType
           /\ \A l \in DOMAIN active_batches : active_batches[l] \in ActiveType
           /\ \A l \in DOMAIN asked : asked[l] \in Kind
<1>1. /\ pending_labels \in PartialFunctions(Label, PendingType)
      /\ active_batches \in PartialFunctions(Label, ActiveType)
      /\ asked \in PartialFunctions(Label, Kind)
  BY DEF TypeOK, PendingType, ActiveType
<1> HIDE DEF PendingType, ActiveType, Kind, Label
<1> QED BY <1>1, TableType, Zenon

(* Removing keys. *)
LEMMA WithoutFacts ==
    ASSUME NEW f, NEW S
    PROVE  /\ DOMAIN Without(f, S) = DOMAIN f \ S
           /\ \A l \in DOMAIN f \ S : Without(f, S)[l] = f[l]
           /\ \A D, T : f \in PartialFunctions(D, T) => Without(f, S) \in PartialFunctions(D, T)
<1>1. Without(f, S) = [l \in DOMAIN f \ S |-> f[l]] BY DEF Without, Restrict
<1>2. DOMAIN Without(f, S) = DOMAIN f \ S /\ \A l \in DOMAIN f \ S : Without(f, S)[l] = f[l]
  BY <1>1
<1>3. ASSUME NEW D, NEW T, f \in PartialFunctions(D, T) PROVE Without(f, S) \in PartialFunctions(D, T)
  <2>1. DOMAIN f \subseteq D /\ \A l \in DOMAIN f : f[l] \in T BY <1>3, TableType, Zenon
  <2> DEFINE g == Without(f, S)
  <2>2. DOMAIN g \subseteq D /\ (\A l \in DOMAIN g : g[l] \in T) /\ g = [l \in DOMAIN g |-> g[l]]
    BY <1>1, <2>1
  <2> HIDE DEF g
  <2>3. g \in PartialFunctions(D, T) BY <2>2, TableType, Zenon
  <2> QED BY <2>3 DEF g
<1> QED BY <1>2, <1>3

(* The empty table. *)
LEMMA EmptyTable == ASSUME NEW D, NEW T PROVE Empty \in PartialFunctions(D, T)
<1> DEFINE g == Empty
<1>1. DOMAIN g \subseteq D /\ (\A l \in DOMAIN g : g[l] \in T) /\ g = [l \in DOMAIN g |-> g[l]]
  BY DEF Empty
<1> HIDE DEF g
<1>2. g \in PartialFunctions(D, T) BY <1>1, TableType, Zenon
<1> QED BY <1>2 DEF g

(* Getting older by one interval, up to a cap. *)
LEMMA OlderFacts ==
    ASSUME NEW f, NEW cap \in Nat, \A l \in DOMAIN f : f[l].age \in 0..(cap + 1)
    PROVE  /\ DOMAIN Older(f, cap) = DOMAIN f
           /\ Older(f, cap) = [l \in DOMAIN f |-> Older(f, cap)[l]]
           /\ \A l \in DOMAIN f : \E a \in 0..(cap + 1) : Older(f, cap)[l] = [f[l] EXCEPT !.age = a]
<1>1. Older(f, cap) = [l \in DOMAIN f |-> [f[l] EXCEPT !.age = IF @ > cap THEN @ ELSE @ + 1]]
  BY DEF Older
<1>2. ASSUME NEW l \in DOMAIN f
      PROVE  \E a \in 0..(cap + 1) : Older(f, cap)[l] = [f[l] EXCEPT !.age = a]
  <2> DEFINE a == IF f[l].age > cap THEN f[l].age ELSE f[l].age + 1
  <2>1. Older(f, cap)[l] = [f[l] EXCEPT !.age = a] BY <1>1, <1>2
  <2>2. f[l].age \in 0..(cap + 1) BY <1>2
  <2>3. a \in 0..(cap + 1) BY <2>2
  <2> HIDE DEF a
  <2> QED BY <2>1, <2>3
<1> QED BY <1>1, <1>2

-----------------------------------------------------------------------------
(* Sending. *)

(* One send: the kinds of its labels, and the label that is marked. *)
Sent(kinds, marked) ==
    /\ kinds \in Seq(Kind) /\ Len(kinds) # 0
    /\ send_labels(kinds) /\ track(kinds, marked)
    /\ "hook" \notin features => marked \in {label_counter, NoEntry}
    /\ \/ kinds = <<"command">> /\ UNCHANGED screen
       \/ /\ sess /\ show_pending(kinds) /\ kinds[1] # "command"
          /\ "hook" \notin features =>
               marked = label_counter /\ \A i \in 1..Len(kinds) : kinds[i] # "command"
          /\ Never({"hook", "split"}) => Len(kinds) = 1

(* A message is shown, hooks send commands, and a long paste goes on. *)
LEMMA ShownIsSent ==
    ASSUME TypeOK, NEW first \in {"say", "paste"}, NEW others, SendShown(first, others),
           others = <<>> \/ (others = <<"paste">> /\ "split" \in features)
    PROVE  \E kinds, marked : Sent(kinds, marked)
<1>1. PICK hooked \in {<<>>} \cup (IF "hook" \in features THEN {<<"command">>} ELSE {}) :
        LET kinds == <<first>> \o hooked \o others
        IN /\ sess /\ send_labels(kinds)
           /\ track(kinds, mark_pending_echo(hooked, kinds)) /\ show_pending(kinds)
  BY DEF SendShown
<1> DEFINE kinds == <<first>> \o hooked \o others
           marked == mark_pending_echo(hooked, kinds)
<1>2. hooked = <<>> \/ (hooked = <<"command">> /\ "hook" \in features) BY <1>1
<1>3. /\ kinds \in Seq(Kind) /\ Len(kinds) = 1 + Len(hooked) + Len(others) /\ kinds[1] = first
      /\ \A i \in 1..Len(kinds) : i > 1 + Len(hooked) => kinds[i] = others[i - 1 - Len(hooked)]
  <2> DEFINE k == <<first>> \o hooked
  <2>0. <<>> \in Seq(Kind) /\ <<first>> \in Seq(Kind) /\ <<"command">> \in Seq(Kind)
        /\ <<"paste">> \in Seq(Kind)
    BY DEF Kind
  <2>1. <<first>> \in Seq(Kind) /\ hooked \in Seq(Kind) /\ others \in Seq(Kind)
    <3> HIDE DEF Kind
    <3> QED BY <1>2, <2>0, Zenon
  <2>2. Len(<<first>>) = 1 /\ <<first>>[1] = first OBVIOUS
  <2>3. Len(hooked) \in Nat /\ Len(others) \in Nat BY <2>1
  <2>4. k \in Seq(Kind) /\ Len(k) = 1 + Len(hooked) /\ k[1] = first
    BY <2>1, <2>2, <2>3, ConcatProperties
  <2> HIDE DEF k
  <2>5. /\ k \o others \in Seq(Kind) /\ Len(k \o others) = 1 + Len(hooked) + Len(others)
        /\ (k \o others)[1] = first
        /\ \A i \in 1..Len(k \o others) :
             i > 1 + Len(hooked) => (k \o others)[i] = others[i - 1 - Len(hooked)]
    BY <2>1, <2>3, <2>4, ConcatProperties
  <2> QED BY <2>5 DEF k
<1>8. sess /\ send_labels(kinds) /\ track(kinds, marked) /\ show_pending(kinds) BY <1>1
<1>9. marked = label_counter + Len(hooked) BY DEF mark_pending_echo
<1> HIDE DEF kinds, marked
<1>10. Len(kinds) # 0 BY <1>2, <1>3
<1>4. ASSUME "hook" \notin features
      PROVE  marked = label_counter /\ \A i \in 1..Len(kinds) : kinds[i] # "command"
  <2>1. hooked = <<>> BY <1>2, <1>4
  <2>2. marked = label_counter
    <3>1. label_counter \in Int BY DEF TypeOK
    <3> QED BY <1>9, <2>1, <3>1
  <2>3. \A i \in 1..Len(kinds) : i = 1 \/ i > 1 BY <1>2, <1>3
  <2>4. \A i \in 1..Len(kinds) : kinds[i] # "command" BY <1>2, <1>3, <2>1, <2>3
  <2> QED BY <2>2, <2>4
<1>5. ASSUME Never({"hook", "split"}) PROVE Len(kinds) = 1
  <2>1. hooked = <<>> /\ others = <<>> BY <1>2, <1>5 DEF Never
  <2> QED BY <1>3, <2>1
<1>6. Sent(kinds, marked) BY <1>3, <1>4, <1>5, <1>8, <1>10 DEF Sent
<1> QED BY <1>6

(* What the three senders have in common. *)
LEMMA SendsAreSent ==
    ASSUME TypeOK, SendCommand \/ handle_say \/ handle_multiline_batch
    PROVE  \E kinds, marked : Sent(kinds, marked)
<1>1. CASE SendCommand
  <2>1. Sent(<<"command">>, NoEntry) BY <1>1 DEF SendCommand, Sent, Kind
  <2> QED BY <2>1
<1>2. CASE handle_say BY <1>2, ShownIsSent DEF handle_say
<1>3. CASE handle_multiline_batch BY <1>3, ShownIsSent DEF handle_multiline_batch
<1> QED BY <1>1, <1>2, <1>3

(* What a send writes into the tables: the new numbers are labels, and     *)
(* what was there stays.                                                   *)
LEMMA SentFacts ==
    ASSUME TypeOK, Numbered, NEW kinds, NEW marked, Sent(kinds, marked),
           NEW new, new = Labelled(kinds)
    PROVE  /\ new \subseteq Label /\ label_counter \in new
           /\ \A l \in new : l >= label_counter /\ l < label_counter'
           /\ label_counter' \in 0..MaxLabels /\ label_counter < label_counter'
           /\ DOMAIN asked' = DOMAIN asked \cup new
           /\ \A l \in DOMAIN asked : l \notin new /\ asked'[l] = asked[l]
           /\ \A l \in new : asked'[l] = kinds[l - label_counter + 1] /\ asked'[l] \in Kind
           /\ DOMAIN pending_labels' = DOMAIN pending_labels \cup new
           /\ \A l \in DOMAIN pending_labels : l \notin new /\ pending_labels'[l] = pending_labels[l]
           /\ \A l \in new : pending_labels'[l] =
                [age |-> 0, entry |-> IF l = marked THEN label_counter ELSE NoEntry]
           /\ asked' \in PartialFunctions(Label, Kind)
           /\ pending_labels' \in PartialFunctions(Label, PendingType)
<1> DEFINE c == label_counter
<1>1. c \in Nat /\ c <= MaxLabels /\ MaxLabels \in Nat BY MaxLabelsAssumption DEF TypeOK
<1>2. kinds \in Seq(Kind) /\ Len(kinds) \in Nat \ {0} /\ c + Len(kinds) <= MaxLabels
      /\ label_counter' = c + Len(kinds)
  BY DEF Sent, send_labels
<1>3. new = c..(c + Len(kinds) - 1) BY DEF Labelled
<1>4. new \subseteq Label /\ c \in new /\ \A l \in new : l \in Nat /\ l >= c /\ l < label_counter'
  BY <1>1, <1>2, <1>3 DEF Label
<1>5. /\ asked' = [l \in DOMAIN asked \cup new |->
                     IF l < c THEN asked[l] ELSE kinds[l - c + 1]]
      /\ pending_labels' = [l \in DOMAIN pending_labels \cup new |->
           IF l < c THEN pending_labels[l]
           ELSE [age |-> 0, entry |-> IF l = marked THEN c ELSE NoEntry]]
  BY DEF Sent, send_labels, track
<1>6. \A l \in DOMAIN asked \cup DOMAIN pending_labels : l < c BY DEF Numbered
<1>7. \A l \in new : ~(l < c) BY <1>1, <1>4
<1>8. \A l \in new : kinds[l - c + 1] \in Kind
  <2> SUFFICES ASSUME NEW l \in new PROVE kinds[l - c + 1] \in Kind OBVIOUS
  <2>1. l - c + 1 \in 1..Len(kinds) BY <1>1, <1>2, <1>3
  <2> QED BY <1>2, <2>1
<1>9. label_counter' \in 0..MaxLabels /\ c < label_counter' BY <1>1, <1>2
<1> HIDE DEF c
<1>10. /\ DOMAIN asked' = DOMAIN asked \cup new
       /\ \A l \in DOMAIN asked : l \notin new /\ asked'[l] = asked[l]
       /\ \A l \in new : asked'[l] = kinds[l - c + 1]
  BY <1>5, <1>6, <1>7
<1>11. /\ DOMAIN pending_labels' = DOMAIN pending_labels \cup new
       /\ \A l \in DOMAIN pending_labels : l \notin new /\ pending_labels'[l] = pending_labels[l]
       /\ \A l \in new : pending_labels'[l] =
            [age |-> 0, entry |-> IF l = marked THEN c ELSE NoEntry]
  BY <1>5, <1>6, <1>7
<1>12. asked' \in PartialFunctions(Label, Kind)
  <2>1. DOMAIN asked \subseteq Label /\ \A l \in DOMAIN asked : asked[l] \in Kind BY Types
  <2>2. DOMAIN asked' \subseteq Label /\ asked' = [l \in DOMAIN asked' |-> asked'[l]]
        /\ \A l \in DOMAIN asked' : asked'[l] \in Kind
    <3>1. DOMAIN asked' \subseteq Label BY <1>4, <1>10, <2>1
    <3>2. asked' = [l \in DOMAIN asked' |-> asked'[l]] BY <1>5
    <3>3. \A l \in DOMAIN asked' : asked'[l] \in Kind BY <1>8, <1>10, <2>1
    <3> QED BY <3>1, <3>2, <3>3
  <2> QED BY <2>2, TableType, Zenon
<1>13. pending_labels' \in PartialFunctions(Label, PendingType)
  <2>1. DOMAIN pending_labels \subseteq Label
        /\ \A l \in DOMAIN pending_labels : pending_labels[l] \in PendingType
    BY Types
  <2>2. \A l \in new :
          [age |-> 0, entry |-> IF l = marked THEN c ELSE NoEntry] \in PendingType
    BY <1>4, TimeoutsAssumption DEF PendingType
  <2>3. DOMAIN pending_labels' \subseteq Label BY <1>4, <1>11, <2>1
  <2>4. pending_labels' = [l \in DOMAIN pending_labels' |-> pending_labels'[l]] BY <1>5
  <2>5. \A l \in DOMAIN pending_labels' : pending_labels'[l] \in PendingType
    BY <1>11, <2>1, <2>2
  <2> QED BY <2>3, <2>4, <2>5, TableType, Zenon
<1> QED BY <1>4, <1>8, <1>9, <1>10, <1>11, <1>12, <1>13 DEF c

(* What is on the way does not depend on anything but the lines.           *)
LEMMA SameLines ==
    ASSUME inq' = inq
    PROVE  \A l : Coming(l)' <=> Coming(l)
BY DEF Coming

(* A send keeps the invariant: its messages wait for the server, with a    *)
(* label that nothing else has.                                            *)
LEMMA SentKeeps ==
    ASSUME IInv, NEW kinds, NEW marked, Sent(kinds, marked)
    PROVE  IInv'
<1> DEFINE new == Labelled(kinds)
           c == label_counter
<1>1. TypeOK /\ OwnEntries /\ Numbered /\ Closed BY DEF IInv
<1>2. /\ new \subseteq Label /\ c \in new
      /\ \A l \in new : l >= c /\ l < label_counter'
      /\ label_counter' \in 0..MaxLabels /\ c < label_counter'
      /\ DOMAIN asked' = DOMAIN asked \cup new
      /\ \A l \in DOMAIN asked : l \notin new /\ asked'[l] = asked[l]
      /\ \A l \in new : asked'[l] = kinds[l - c + 1] /\ asked'[l] \in Kind
      /\ DOMAIN pending_labels' = DOMAIN pending_labels \cup new
      /\ \A l \in DOMAIN pending_labels : l \notin new /\ pending_labels'[l] = pending_labels[l]
      /\ \A l \in new : pending_labels'[l] =
           [age |-> 0, entry |-> IF l = marked THEN c ELSE NoEntry]
      /\ asked' \in PartialFunctions(Label, Kind)
      /\ pending_labels' \in PartialFunctions(Label, PendingType)
  BY <1>1, SentFacts, Zenon
<1>3. /\ connected /\ connected' = connected /\ active_batches' = active_batches /\ inq' = inq
      /\ features' = features /\ sess' = sess /\ due' = due /\ stale_sweep_timer' = TRUE
  BY DEF Sent, send_labels, server_ensure_stale_sweep_timer
<1>4. c \in Nat /\ MaxLabels \in Nat /\ label_counter' \in Nat /\ \A l \in Label : l \in Nat
  BY <1>1, <1>2, MaxLabelsAssumption DEF TypeOK, Label
<1>5. /\ screen' = [l \in Label |-> screen'[l]]
      /\ \A l \in Label :
           \/ screen'[l] = screen[l]
           \/ /\ l \in new /\ kinds[l - c + 1] # "command" /\ sess /\ kinds[1] # "command"
              /\ screen'[l] = [shown |-> 1, dim |-> l = c]
  <2>1. screen = [l \in Label |-> screen[l]] BY <1>1 DEF TypeOK
  <2>2. CASE UNCHANGED screen BY <2>1, <2>2
  <2>3. CASE sess /\ show_pending(kinds) /\ kinds[1] # "command" BY <2>3 DEF show_pending
  <2> QED BY <2>2, <2>3 DEF Sent
<1> HIDE DEF new, c
<1>11. c < label_counter' /\ \A l \in new : l \in Nat /\ l >= c /\ l < label_counter'
  BY <1>2, <1>4
<1>6. TypeOK'
  <2>1. screen' \in [Label -> [shown: Nat, dim: BOOLEAN]]
    <3>1. \A l \in Label : screen[l] \in [shown: Nat, dim: BOOLEAN] BY <1>1 DEF TypeOK
    <3>2. \A l \in Label : [shown |-> 1, dim |-> l = c] \in [shown: Nat, dim: BOOLEAN] OBVIOUS
    <3>3. \A l \in Label : screen'[l] \in [shown: Nat, dim: BOOLEAN] BY <1>5, <3>1, <3>2
    <3> QED BY <1>5, <3>3
  <2> QED BY <1>1, <1>2, <1>3, <2>1 DEF TypeOK, PendingType
<1>7. OwnEntries'
  <2> SUFFICES ASSUME "hook" \notin features, NEW l \in DOMAIN pending_labels'
               PROVE  pending_labels'[l].entry \in {NoEntry, l}
    BY <1>3 DEF OwnEntries
  <2>1. CASE l \in new
    <3>1. marked \in {c, NoEntry} BY DEF Sent, c
    <3>2. pending_labels'[l].entry = IF l = marked THEN c ELSE NoEntry BY <1>2, <2>1
    <3>3. l # NoEntry BY <1>2, <1>4, <2>1 DEF NoEntry
    <3> QED BY <3>1, <3>2, <3>3
  <2>2. CASE l \in DOMAIN pending_labels BY <1>1, <1>2, <2>2 DEF OwnEntries
  <2> QED BY <1>2, <2>1, <2>2
<1>8. Numbered'
  <2>1. \A l \in DOMAIN pending_labels' \cup DOMAIN asked' \cup DOMAIN active_batches' :
          l < label_counter'
    <3>1. \A l \in DOMAIN pending_labels \cup DOMAIN asked \cup DOMAIN active_batches :
            l < c /\ l \in Nat
      BY <1>1, <1>4, Types DEF Numbered, c
    <3>2. \A l \in DOMAIN pending_labels \cup DOMAIN asked \cup DOMAIN active_batches :
            l < label_counter'
      BY <1>2, <1>4, <3>1
    <3> QED BY <1>2, <1>3, <3>2
  <2>2. \A i \in 1..Len(inq') : inq'[i].label < label_counter'
    <3> SUFFICES ASSUME NEW i \in 1..Len(inq) PROVE inq[i].label < label_counter' BY <1>3
    <3>1. inq[i].label < c BY <1>1 DEF Numbered, c
    <3>2. inq[i] \in Line BY <1>1 DEF TypeOK
    <3>3. inq[i].label \in Label BY <3>2 DEF Line
    <3>4. inq[i].label \in Nat BY <1>4, <3>3
    <3> QED BY <1>4, <1>11, <3>1, <3>4
  <2>3. \A l \in Label : screen'[l].dim => l < label_counter' /\ sess'
    <3> SUFFICES ASSUME NEW l \in Label, screen'[l].dim PROVE l < label_counter' /\ sess
      BY <1>3
    <3>1. CASE screen'[l] = screen[l]
      <4>1. l < c /\ sess BY <1>1, <3>1 DEF Numbered, c
      <4> QED BY <1>2, <1>4, <4>1
    <3>2. CASE l \in new /\ sess BY <1>2, <3>2
    <3> QED BY <1>5, <3>1, <3>2
  <2> QED BY <2>1, <2>2, <2>3 DEF Numbered
<1>9. Closed' BY <1>3 DEF Closed
<1>10. ASSUME "late" \notin features PROVE Timely'
  <2>1. Timely BY <1>10 DEF IInv
  <2>2. \A l : Coming(l)' <=> Coming(l) BY <1>3, SameLines
  <2>3. \A l \in new : l \notin DOMAIN active_batches /\ ~Coming(l)
    <3> SUFFICES ASSUME NEW l \in new, l < c PROVE FALSE
      BY <1>1, <1>2 DEF Numbered, Coming, c
    <3> QED BY <1>4, <1>11
  <2>4. \A l \in Label : l \notin new => (IsMessage(l)' <=> IsMessage(l))
    BY <1>2, <1>3, <2>2 DEF IsMessage, Repeats
  <2>5. \A l \in Label : IsMessage(l)' => IsMessage(l) \/ l \in new BY <2>4
  <2>6. \A l \in Label : IsMessage(l) => l \in DOMAIN pending_labels /\ pending_labels[l].age = 0
    BY <2>1 DEF Timely, Tables, Fresh
  <2>7. \A l \in DOMAIN pending_labels : l \notin new BY <1>2
  <2>8. Unanswered' BY <1>2, <1>3, <2>1, <2>2, <2>3 DEF Timely, Tables, Unanswered
  <2>9. Ordered' BY <1>3, <2>1 DEF Timely, Tables, Ordered, Opens
  <2>10. Fresh'
    <3>1. \A l \in Label : IsMessage(l)' => l \in DOMAIN pending_labels' /\ pending_labels'[l].age = 0
      <4> SUFFICES ASSUME NEW l \in Label, IsMessage(l)'
                   PROVE  l \in DOMAIN pending_labels' /\ pending_labels'[l].age = 0
        OBVIOUS
      <4>1. CASE l \in new BY <1>2, <4>1
      <4>2. CASE l \notin new BY <1>2, <2>4, <2>6, <4>2
      <4> QED BY <4>1, <4>2
    <3>2. \A l \in DOMAIN active_batches' : Coming(l)' => active_batches'[l].age = 0
      BY <1>3, <2>1, <2>2 DEF Timely, Tables, Fresh
    <3> QED BY <3>1, <3>2 DEF Fresh
  <2>11. Unwrapped' BY <1>3, <2>1 DEF Timely, Tables, Unwrapped
  <2>12. HasEntry'
    <3>1. ASSUME Never({"hook", "split"}), NEW l \in Label, IsMessage(l)'
          PROVE  pending_labels'[l].entry # NoEntry
      <4>1. CASE l \notin new
        <5>1. IsMessage(l) /\ l \in DOMAIN pending_labels BY <2>4, <2>6, <3>1, <4>1
        <5>2. pending_labels[l].entry # NoEntry BY <2>1, <3>1, <5>1 DEF Timely, Tables, HasEntry
        <5> QED BY <1>2, <5>1, <5>2
      <4>2. CASE l \in new
        <5>1. l \in DOMAIN asked' /\ asked'[l] # "command"
          BY <1>3, <2>2, <2>3, <3>1, <4>2 DEF IsMessage, Coming
        <5>2. "hook" \notin features BY <3>1 DEF Never
        <5>3. Len(kinds) = 1 BY <3>1 DEF Sent
        <5>4. l = c BY <1>4, <4>2, <5>3 DEF new, c, Labelled
        <5>5. kinds[1] # "command" BY <1>2, <1>4, <4>2, <5>1, <5>4
        <5>6. marked = c BY <5>2, <5>5 DEF Sent, c
        <5>7. c # NoEntry BY <1>4 DEF NoEntry
        <5> QED BY <1>2, <4>2, <5>4, <5>6, <5>7
      <4> QED BY <4>1, <4>2
    <3>3. Never({"hook", "split"})' <=> Never({"hook", "split"}) BY <1>3 DEF Never
    <3> QED BY <3>1, <3>3 DEF HasEntry
  <2>13. Dimmed'
    <3> SUFFICES ASSUME Never({"silent", "hook"}), NEW l \in Label, screen'[l].dim
                 PROVE  /\ IsMessage(l)' /\ pending_labels'[l].entry # NoEntry
                        /\ \/ l \in DOMAIN asked'
                           \/ \E i \in 1..Len(inq) : inq[i].label = l /\ Closes(i)
      BY <1>3 DEF Dimmed, Never, Closes
    <3>1. CASE screen'[l] = screen[l]
      <4>1. /\ IsMessage(l) /\ pending_labels[l].entry # NoEntry
            /\ l \in DOMAIN asked \/ \E i \in 1..Len(inq) : inq[i].label = l /\ Closes(i)
        BY <2>1, <3>1 DEF Timely, Dimmed
      <4>2. l \in DOMAIN pending_labels /\ l \notin new BY <2>6, <2>7, <4>1
      <4> QED BY <1>2, <2>4, <4>1, <4>2
    <3>2. CASE l \in new /\ kinds[l - c + 1] # "command" /\ kinds[1] # "command"
               /\ screen'[l] = [shown |-> 1, dim |-> l = c]
      <4> DEFINE mine == l = c
      <4>0. mine
        <5>1. screen'[l] = [shown |-> 1, dim |-> mine] BY <3>2
        <5> HIDE DEF mine
        <5>2. screen'[l].dim = mine BY <5>1
        <5> QED BY <5>2, Zenon
      <4>1. l = c BY <4>0
      <4>2. marked = c BY <3>2 DEF Sent, Never, c
      <4>3. c # NoEntry BY <1>4 DEF NoEntry
      <4>4. IsMessage(l)' BY <1>2, <3>2 DEF IsMessage
      <4> QED BY <1>2, <3>2, <4>1, <4>2, <4>3, <4>4
    <3> QED BY <1>5, <3>1, <3>2
  <2>14. Once'
    <3> SUFFICES ASSUME NoneShownTwice PROVE NoneShownTwice' BY <1>3, <2>1 DEF Timely, Once, Never
    <3> QED BY <1>5 DEF NoneShownTwice
  <2> QED BY <2>8, <2>9, <2>10, <2>11, <2>12, <2>13, <2>14 DEF Timely, Tables
<1> QED BY <1>3, <1>6, <1>7, <1>8, <1>9, <1>10 DEF IInv
-----------------------------------------------------------------------------
(* Reading. *)

(* Taking the first line away. *)
LEMMA TailFacts ==
    ASSUME TypeOK, inq # <<>>, inq' = Tail(inq)
    PROVE  /\ Head(inq) = inq[1] /\ Len(inq) \in Nat \ {0} /\ 1 \in 1..Len(inq)
           /\ \A i \in 1..Len(inq) : inq[i] \in Line /\ inq[i].label \in Label
           /\ inq' \in Seq(Line) /\ Len(inq') = Len(inq) - 1
           /\ \A i \in 1..Len(inq') : i + 1 \in 1..Len(inq) /\ inq'[i] = inq[i + 1]
           /\ \A i \in 1..Len(inq) : i # 1 => i - 1 \in 1..Len(inq') /\ inq[i] = inq'[i - 1]
<1>1. inq \in Seq(Line) BY DEF TypeOK
<1>2. \A i \in 1..Len(inq) : inq[i] \in Line BY <1>1
<1>3. \A r \in Line : r.label \in Label BY DEF Line
<1> HIDE DEF Line
<1>4. Len(inq) \in Nat \ {0} /\ Head(inq) = inq[1] BY <1>1
<1>5. inq' \in Seq(Line) /\ Len(inq') = Len(inq) - 1 /\ \A i \in 1..Len(inq') : inq'[i] = inq[i + 1]
  BY <1>1, HeadTailProperties
<1>6. \A i \in 1..Len(inq') : i + 1 \in 1..Len(inq) BY <1>4, <1>5
<1>7. \A i \in 1..Len(inq) : i # 1 => i - 1 \in 1..Len(inq') /\ inq[i] = inq'[i - 1]
  <2> SUFFICES ASSUME NEW i \in 1..Len(inq), i # 1
               PROVE  i - 1 \in 1..Len(inq') /\ inq[i] = inq'[i - 1]
    OBVIOUS
  <2>1. i - 1 \in 1..Len(inq') /\ (i - 1) + 1 = i BY <1>4, <1>5
  <2>2. inq'[i - 1] = inq[(i - 1) + 1] BY <1>5, <2>1
  <2> QED BY <2>1, <2>2
<1> QED BY <1>2, <1>3, <1>4, <1>5, <1>6, <1>7

(* What a line may change: whether its label is forgotten, the batch of    *)
(* the label, and the screen, where a message is only shown once more if   *)
(* its label or its batch is not known.                                    *)
Known(l) == l \in DOMAIN pending_labels /\ pending_labels[l].entry # NoEntry

Repeated(l) ==
    \/ Head(inq).cmd = "echo" /\ l \notin DOMAIN pending_labels
    \/ /\ Head(inq).cmd = "batched"
       /\ l \in DOMAIN active_batches => active_batches[l].type = "labeled-response"
    \/ /\ Head(inq).cmd = "end" /\ l \in DOMAIN active_batches
       /\ active_batches[l].type = "draft/multiline" /\ ~Known(l)

BatchChange(l) ==
    /\ active_batches' \in PartialFunctions(Label, ActiveType)
    /\ \A m \in Label \ {l} : m \in DOMAIN active_batches' <=> m \in DOMAIN active_batches
    /\ \A m \in DOMAIN active_batches \ {l} : active_batches'[m] = active_batches[m]
    /\ Head(inq).cmd = "start" =>
         l \in DOMAIN active_batches' /\ active_batches'[l].type = Head(inq).type
         /\ active_batches'[l].age = 0
    /\ Head(inq).cmd = "end" => l \notin DOMAIN active_batches'
    /\ Head(inq).cmd \in {"echo", "ack", "batched"} =>
         /\ l \in DOMAIN active_batches' <=> l \in DOMAIN active_batches
         /\ l \in DOMAIN active_batches =>
              active_batches'[l].type = active_batches[l].type
              /\ active_batches'[l].age = active_batches[l].age

ScreenChange(l, gone) ==
    /\ screen' \in [Label -> [shown: Nat, dim: BOOLEAN]]
    /\ \A m \in Label : screen'[m].dim => screen[m].dim
    /\ \A m \in Label : screen[m].dim /\ ~screen'[m].dim =>
         gone /\ l \in DOMAIN pending_labels /\ pending_labels[l].entry = m
    /\ gone /\ sess /\ Known(l) => ~screen'[pending_labels[l].entry].dim
    /\ \A m \in Label : screen'[m].shown = screen[m].shown \/ Repeated(l)

Heard(l, gone) ==
    /\ inq # <<>> /\ inq' = Tail(inq) /\ l = Head(inq).label /\ connected
    /\ UNCHANGED <<connected, label_counter, sess, asked, features, due>>
    /\ stale_sweep_timer' \in BOOLEAN
    /\ gone <=> \/ Head(inq).cmd \in {"echo", "ack"}
                \/ Head(inq).cmd = "end" /\ l \in DOMAIN active_batches
    /\ gone => pending_labels' = Without(pending_labels, {l})
    /\ ~gone => pending_labels' = pending_labels
    /\ BatchChange(l) /\ ScreenChange(l, gone)

(* Showing a message again counts it and dims nothing. *)
LEMMA ShownFacts ==
    ASSUME TypeOK, NEW l \in Label
    PROVE  /\ Shown(l) \in [Label -> [shown: Nat, dim: BOOLEAN]]
           /\ \A m \in Label : Shown(l)[m].dim = screen[m].dim
<1>1. screen \in [Label -> [shown: Nat, dim: BOOLEAN]] BY DEF TypeOK
<1>2. screen[l].shown \in Nat /\ screen[l].dim \in BOOLEAN BY <1>1
<1> DEFINE r == [screen EXCEPT ![l].shown = @ + 1]
<1>3. r = [screen EXCEPT ![l] = [screen[l] EXCEPT !.shown = screen[l].shown + 1]] BY <1>1
<1>4. [screen[l] EXCEPT !.shown = screen[l].shown + 1] \in [shown: Nat, dim: BOOLEAN]
      /\ [screen[l] EXCEPT !.shown = screen[l].shown + 1].dim = screen[l].dim
  BY <1>1, <1>2
<1> HIDE DEF r
<1>5. r \in [Label -> [shown: Nat, dim: BOOLEAN]] /\ \A m \in Label : r[m].dim = screen[m].dim
  BY <1>1, <1>3, <1>4
<1>6. Shown(l) = r \/ Shown(l) = screen BY DEF Shown, r
<1> QED BY <1>1, <1>5, <1>6

(* Confirming brightens the entry that the label leads to, and that only.  *)
LEMMA ConfirmedFacts ==
    ASSUME TypeOK, NEW scr \in [Label -> [shown: Nat, dim: BOOLEAN]], NEW l
    PROVE  /\ Confirmed(scr, l) \in [Label -> [shown: Nat, dim: BOOLEAN]]
           /\ \A m \in Label : /\ Confirmed(scr, l)[m].shown = scr[m].shown
                               /\ Confirmed(scr, l)[m].dim => scr[m].dim
                               /\ scr[m].dim /\ ~Confirmed(scr, l)[m].dim =>
                                    l \in DOMAIN pending_labels /\ pending_labels[l].entry = m
           /\ sess /\ Known(l) => ~Confirmed(scr, l)[pending_labels[l].entry].dim
<1>1. CASE Known(l) /\ sess
  <2> DEFINE e == pending_labels[l].entry
             f == FALSE
             v == [scr[e] EXCEPT !.dim = f]
  <2>1. pending_labels[l] \in PendingType BY <1>1, Types DEF Known
  <2>2. e \in Label /\ e # NoEntry BY <1>1, <2>1 DEF Known, PendingType
  <2>3. Confirmed(scr, l) = [scr EXCEPT ![e] = v] BY <1>1 DEF Confirmed, Known
  <2>4. f \in BOOLEAN /\ ~f OBVIOUS
  <2> HIDE DEF e, f
  <2>5. scr[e] \in [shown: Nat, dim: BOOLEAN] BY <2>2
  <2>6. v \in [shown: Nat, dim: BOOLEAN] /\ v.shown = scr[e].shown /\ v.dim = f BY <2>4, <2>5
  <2> HIDE DEF v
  <2>7. Confirmed(scr, l) \in [Label -> [shown: Nat, dim: BOOLEAN]]
    BY <2>2, <2>3, <2>6
  <2>8. /\ Confirmed(scr, l)[e] = v
        /\ \A m \in Label : m # e => Confirmed(scr, l)[m] = scr[m]
    BY <2>2, <2>3
  <2>9. ~Confirmed(scr, l)[e].dim BY <2>4, <2>6, <2>8
  <2>10. \A m \in Label : Confirmed(scr, l)[m].shown = scr[m].shown BY <2>6, <2>8
  <2>11. \A m \in Label : Confirmed(scr, l)[m].dim => scr[m].dim BY <2>8, <2>9
  <2>12. \A m \in Label : scr[m].dim /\ ~Confirmed(scr, l)[m].dim => m = e BY <2>8
  <2> QED BY <1>1, <2>7, <2>9, <2>10, <2>11, <2>12 DEF Known, e
<1>2. CASE ~(Known(l) /\ sess)
  <2>1. Confirmed(scr, l) = scr BY <1>2 DEF Confirmed, Known
  <2> QED BY <1>2, <2>1
<1> QED BY <1>1, <1>2

(* A line that leaves the batches alone. *)
LEMMA SameBatches ==
    ASSUME TypeOK, NEW l, active_batches' = active_batches, Head(inq).cmd # "start",
           Head(inq).cmd = "end" => l \notin DOMAIN active_batches
    PROVE  BatchChange(l)
<1>1. active_batches \in PartialFunctions(Label, ActiveType) BY Types
<1> QED BY <1>1 DEF BatchChange

(* What all lines have in common. *)
LEMMA AnyLine ==
    ASSUME TypeOK, NEW cmd, ReadAny(cmd), stale_sweep_timer' \in BOOLEAN, due' = due,
           NEW l, l = Head(inq).label, NEW gone \in BOOLEAN,
           gone <=> cmd \in {"echo", "ack"} \/ (cmd = "end" /\ l \in DOMAIN active_batches),
           gone => forget(l), ~gone => pending_labels' = pending_labels,
           BatchChange(l), ScreenChange(l, gone)
    PROVE  l \in Label /\ Heard(l, gone)
<1>1. inq # <<>> /\ inq' = Tail(inq) /\ connected /\ Head(inq).cmd = cmd
      /\ UNCHANGED <<connected, label_counter, sess, asked, features>>
  BY DEF ReadAny
<1>2. l \in Label BY <1>1, TailFacts
<1> QED BY <1>1, <1>2 DEF Heard, forget

(* A line that does not answer its label. *)
LEMMA UnansweringLine ==
    ASSUME TypeOK, NEW cmd, ReadAny(cmd), stale_sweep_timer' \in BOOLEAN, due' = due,
           NEW l, l = Head(inq).label, cmd \notin {"echo", "ack"},
           cmd = "end" => l \notin DOMAIN active_batches,
           pending_labels' = pending_labels, BatchChange(l), ScreenChange(l, FALSE)
    PROVE  Heard(l, FALSE)
<1> DEFINE gone == FALSE
<1>1. gone \in BOOLEAN /\ ~gone /\ ScreenChange(l, gone) OBVIOUS
<1> HIDE DEF gone
<1>2. Heard(l, gone) BY <1>1, AnyLine
<1> QED BY <1>2 DEF gone

(* An echo confirms an entry, or is shown if its label is not known. *)
LEMMA EchoIsHeard == ASSUME TypeOK, ReadEcho PROVE \E l \in Label : Heard(l, TRUE)
<1> DEFINE l == Head(inq).label
<1>1. /\ ReadAny("echo") /\ forget(l)
      /\ screen' = IF l \in DOMAIN pending_labels THEN Confirmed(screen, l) ELSE Shown(l)
      /\ active_batches' = active_batches /\ stale_sweep_timer' = stale_sweep_timer /\ due' = due
  BY DEF ReadEcho
<1>2. Head(inq).cmd = "echo" /\ inq # <<>> /\ inq' = Tail(inq) BY <1>1 DEF ReadAny
<1>3. l \in Label BY <1>2, TailFacts
<1>4. screen \in [Label -> [shown: Nat, dim: BOOLEAN]] BY DEF TypeOK
<1> HIDE DEF l
<1>5. ScreenChange(l, TRUE)
  <2>1. CASE l \in DOMAIN pending_labels
    <3>1. screen' = Confirmed(screen, l) BY <1>1, <2>1
    <3> QED BY <1>4, <3>1, ConfirmedFacts DEF ScreenChange
  <2>2. CASE l \notin DOMAIN pending_labels
    <3>1. screen' = Shown(l) BY <1>1, <2>2
    <3>2. Repeated(l) BY <1>2, <2>2 DEF Repeated
    <3> QED BY <1>3, <2>2, <3>1, <3>2, ShownFacts DEF ScreenChange, Known
  <2> QED BY <2>1, <2>2
<1>6. BatchChange(l) BY <1>1, <1>2, SameBatches
<1>7. stale_sweep_timer' \in BOOLEAN BY <1>1 DEF TypeOK
<1>8. l = Head(inq).label BY DEF l
<1>9. Heard(l, TRUE) BY <1>1, <1>5, <1>6, <1>7, <1>8, AnyLine
<1> QED BY <1>3, <1>9

(* An ACK confirms an entry. *)
LEMMA AckIsHeard == ASSUME TypeOK, ReadAck PROVE \E l \in Label : Heard(l, TRUE)
<1> DEFINE l == Head(inq).label
<1>1. /\ ReadAny("ack") /\ forget(l) /\ screen' = Confirmed(screen, l)
      /\ active_batches' = active_batches /\ stale_sweep_timer' = stale_sweep_timer /\ due' = due
  BY DEF ReadAck
<1>2. Head(inq).cmd = "ack" /\ inq # <<>> /\ inq' = Tail(inq) BY <1>1 DEF ReadAny
<1>3. l \in Label BY <1>2, TailFacts
<1>4. screen \in [Label -> [shown: Nat, dim: BOOLEAN]] BY DEF TypeOK
<1> HIDE DEF l
<1>5. ScreenChange(l, TRUE) BY <1>1, <1>4, ConfirmedFacts DEF ScreenChange
<1>6. BatchChange(l) BY <1>1, <1>2, SameBatches
<1>7. stale_sweep_timer' \in BOOLEAN BY <1>1 DEF TypeOK
<1>8. l = Head(inq).label BY DEF l
<1>9. Heard(l, TRUE) BY <1>1, <1>5, <1>6, <1>7, <1>8, AnyLine
<1> QED BY <1>3, <1>9

(* The screen stays as it is. *)
LEMMA SameScreen ==
    ASSUME TypeOK, NEW l, UNCHANGED screen
    PROVE  ScreenChange(l, FALSE)
<1>1. screen \in [Label -> [shown: Nat, dim: BOOLEAN]] BY DEF TypeOK
<1> QED BY <1>1 DEF ScreenChange

(* A batch is opened under its label. *)
LEMMA StartIsHeard == ASSUME TypeOK, inbound_batch_start PROVE \E l \in Label : Heard(l, FALSE)
<1> DEFINE l == Head(inq).label
           off == FALSE
           b == [type |-> Head(inq).type, age |-> 0, messages |-> off]
<1>1. /\ ReadAny("start") /\ active_batches' = With(active_batches, {l}, b)
      /\ stale_sweep_timer' = TRUE /\ pending_labels' = pending_labels /\ UNCHANGED screen
      /\ due' = due
  BY DEF inbound_batch_start, new_batch, server_ensure_stale_sweep_timer
<1>2. Head(inq).cmd = "start" /\ inq # <<>> /\ inq' = Tail(inq) BY <1>1 DEF ReadAny
<1>3. l \in Label /\ Head(inq) \in Line BY <1>2, TailFacts
<1>4. Head(inq).type \in BatchType BY <1>2, <1>3 DEF Line
<1>5. off \in BOOLEAN OBVIOUS
<1> HIDE DEF off
<1>6. b \in ActiveType /\ b.type = Head(inq).type /\ b.age = 0
  BY <1>4, <1>5, TimeoutsAssumption DEF ActiveType
<1> HIDE DEF l, b
<1>7. /\ active_batches' = [m \in DOMAIN active_batches \cup {l} |->
                              IF m \in {l} THEN b ELSE active_batches[m]]
      /\ DOMAIN active_batches' = DOMAIN active_batches \cup {l} /\ active_batches'[l] = b
      /\ \A m \in DOMAIN active_batches \ {l} : active_batches'[m] = active_batches[m]
  BY <1>1 DEF With
<1>8. DOMAIN active_batches \subseteq Label
      /\ \A m \in DOMAIN active_batches : active_batches[m] \in ActiveType
  BY Types
<1>9. active_batches' \in PartialFunctions(Label, ActiveType)
  <2>1. DOMAIN active_batches' \subseteq Label BY <1>3, <1>7, <1>8
  <2>2. \A m \in DOMAIN active_batches' : active_batches'[m] \in ActiveType
    BY <1>6, <1>7, <1>8
  <2>3. active_batches' = [m \in DOMAIN active_batches' |-> active_batches'[m]] BY <1>7
  <2> QED BY <2>1, <2>2, <2>3, TableType, Zenon
<1>10. BatchChange(l) BY <1>2, <1>6, <1>7, <1>9 DEF BatchChange
<1>11. ScreenChange(l, FALSE) BY <1>1, SameScreen
<1>12. l = Head(inq).label BY DEF l
<1>13. "start" \notin {"echo", "ack"} /\ ("start" = "end" => l \notin DOMAIN active_batches)
  OBVIOUS
<1>14. stale_sweep_timer' \in BOOLEAN BY <1>1
<1>15. Heard(l, FALSE) BY <1>1, <1>10, <1>11, <1>12, <1>13, <1>14, UnansweringLine, Zenon
<1> QED BY <1>3, <1>15

(* A line of a batch is collected, or shown like any other message. *)
LEMMA BatchedIsHeard ==
    ASSUME TypeOK, inbound_batch_add_message PROVE \E l \in Label : Heard(l, FALSE)
<1> DEFINE l == Head(inq).label
           collected == l \in DOMAIN active_batches /\ active_batches[l].type \in Deferred
<1>1. /\ ReadAny("batched") /\ pending_labels' = pending_labels
      /\ stale_sweep_timer' = stale_sweep_timer /\ due' = due
      /\ \/ /\ collected /\ active_batches' = [active_batches EXCEPT ![l].messages = TRUE]
            /\ UNCHANGED screen
         \/ ~collected /\ screen' = Shown(l) /\ active_batches' = active_batches
  BY DEF inbound_batch_add_message
<1>2. Head(inq).cmd = "batched" /\ inq # <<>> /\ inq' = Tail(inq) BY <1>1 DEF ReadAny
<1>3. l \in Label BY <1>2, TailFacts
<1>4. DOMAIN active_batches \subseteq Label
      /\ active_batches \in PartialFunctions(Label, ActiveType)
      /\ \A m \in DOMAIN active_batches : active_batches[m] \in ActiveType
  BY Types
<1>5. l = Head(inq).label BY DEF l
<1> HIDE DEF l
<1>6. BatchChange(l) /\ ScreenChange(l, FALSE)
  <2>1. CASE collected /\ active_batches' = [active_batches EXCEPT ![l].messages = TRUE]
             /\ UNCHANGED screen
    <3> DEFINE on == TRUE
               b == [active_batches[l] EXCEPT !.messages = on]
    <3>1. active_batches' = [active_batches EXCEPT ![l] = b] BY <2>1
    <3>2. on \in BOOLEAN OBVIOUS
    <3> HIDE DEF on
    <3>3. active_batches[l] \in ActiveType BY <1>4, <2>1
    <3>4. b \in ActiveType /\ b.type = active_batches[l].type /\ b.age = active_batches[l].age
      BY <3>2, <3>3 DEF ActiveType
    <3> HIDE DEF b
    <3>5. active_batches = [m \in DOMAIN active_batches |-> active_batches[m]]
      BY <1>4, TableType, Zenon
    <3>6. active_batches' = [m \in DOMAIN active_batches |->
                               IF m = l THEN b ELSE active_batches[m]]
      BY <2>1, <3>1, <3>5
    <3>7. active_batches' \in PartialFunctions(Label, ActiveType)
      <4>1. DOMAIN active_batches' \subseteq Label BY <1>4, <3>6
      <4>2. \A m \in DOMAIN active_batches' : active_batches'[m] \in ActiveType
        BY <1>4, <3>4, <3>6
      <4>3. active_batches' = [m \in DOMAIN active_batches' |-> active_batches'[m]] BY <3>6
      <4> QED BY <4>1, <4>2, <4>3, TableType, Zenon
    <3>8. DOMAIN active_batches' = DOMAIN active_batches /\ active_batches'[l] = b
          /\ \A m \in DOMAIN active_batches \ {l} : active_batches'[m] = active_batches[m]
      BY <2>1, <3>6
    <3>9. BatchChange(l) BY <1>2, <3>4, <3>7, <3>8 DEF BatchChange
    <3> QED BY <2>1, <3>9, SameScreen
  <2>2. CASE ~collected /\ screen' = Shown(l) /\ active_batches' = active_batches
    <3>1. BatchChange(l) BY <1>2, <2>2, SameBatches
    <3>2. Repeated(l)
      <4>1. l \in DOMAIN active_batches => active_batches[l].type = "labeled-response"
        BY <1>4, <2>2 DEF ActiveType, BatchType, Deferred
      <4> QED BY <1>2, <4>1 DEF Repeated
    <3>3. ScreenChange(l, FALSE) BY <1>3, <2>2, <3>2, ShownFacts DEF ScreenChange
    <3> QED BY <3>1, <3>3
  <2> QED BY <1>1, <2>1, <2>2
<1> HIDE DEF collected
<1>7. stale_sweep_timer' \in BOOLEAN BY <1>1 DEF TypeOK
<1>8. "batched" \notin {"echo", "ack"} /\ ("batched" = "end" => l \notin DOMAIN active_batches)
  OBVIOUS
<1>9. Heard(l, FALSE) BY <1>1, <1>5, <1>6, <1>7, <1>8, UnansweringLine, Zenon
<1> QED BY <1>3, <1>9

(* The end of a batch answers its label. *)
LEMMA EndIsHeard ==
    ASSUME TypeOK, inbound_batch_end PROVE \E l \in Label, gone \in BOOLEAN : Heard(l, gone)
<1> DEFINE l == Head(inq).label
           gone == l \in DOMAIN active_batches
<1>1. /\ ReadAny("end") /\ stale_sweep_timer' = stale_sweep_timer /\ due' = due
      /\ \/ /\ gone /\ screen' = Confirmed(batch_shown(l), l) /\ forget(l)
            /\ active_batches' = Without(active_batches, {l})
         \/ /\ ~gone /\ UNCHANGED screen /\ pending_labels' = pending_labels
            /\ active_batches' = active_batches
  BY DEF inbound_batch_end
<1>2. Head(inq).cmd = "end" /\ inq # <<>> /\ inq' = Tail(inq) BY <1>1 DEF ReadAny
<1>3. l \in Label BY <1>2, TailFacts
<1>4. active_batches \in PartialFunctions(Label, ActiveType) BY Types
<1>5. l = Head(inq).label BY DEF l
<1>6. screen \in [Label -> [shown: Nat, dim: BOOLEAN]] BY DEF TypeOK
<1>t. stale_sweep_timer' \in BOOLEAN BY <1>1 DEF TypeOK
<1> HIDE DEF l
<1>7. CASE gone
  <2>1. screen' = Confirmed(batch_shown(l), l) /\ forget(l)
        /\ active_batches' = Without(active_batches, {l})
    BY <1>1, <1>7
  <2>2. \/ batch_shown(l) = screen
        \/ batch_shown(l) = Shown(l) /\ Repeated(l)
    BY <1>2, <1>7 DEF batch_shown, Repeated, Known
  <2> DEFINE scr == batch_shown(l)
  <2>3. /\ scr \in [Label -> [shown: Nat, dim: BOOLEAN]]
        /\ \A m \in Label : scr[m].dim = screen[m].dim
        /\ \A m \in Label : scr[m].shown = screen[m].shown \/ Repeated(l)
    BY <1>3, <1>6, <2>2, ShownFacts
  <2> HIDE DEF scr
  <2>4. screen' = Confirmed(scr, l) BY <2>1 DEF scr
  <2>5. ScreenChange(l, TRUE) BY <2>3, <2>4, ConfirmedFacts DEF ScreenChange
  <2>6. BatchChange(l)
    <3>1. active_batches' \in PartialFunctions(Label, ActiveType)
          /\ DOMAIN active_batches' = DOMAIN active_batches \ {l}
          /\ \A m \in DOMAIN active_batches \ {l} : active_batches'[m] = active_batches[m]
      BY <1>4, <2>1, WithoutFacts, Zenon
    <3> QED BY <1>2, <3>1 DEF BatchChange
  <2>7. Heard(l, TRUE) BY <1>1, <1>5, <1>7, <1>t, <2>1, <2>5, <2>6, AnyLine
  <2> QED BY <1>3, <2>7
<1>8. CASE ~gone
  <2>1. UNCHANGED screen /\ pending_labels' = pending_labels /\ active_batches' = active_batches
    BY <1>1, <1>8
  <2>2. BatchChange(l) BY <1>2, <1>8, <2>1, SameBatches
  <2>3. ScreenChange(l, FALSE) BY <2>1, SameScreen
  <2>4. "end" \notin {"echo", "ack"} /\ ("end" = "end" => l \notin DOMAIN active_batches)
    BY <1>8
  <2>5. Heard(l, FALSE)
    BY <1>1, <1>5, <1>t, <2>1, <2>2, <2>3, <2>4, UnansweringLine, Zenon
  <2> QED BY <1>3, <2>5
<1> QED BY <1>7, <1>8

LEMMA ReadIsHeard ==
    ASSUME TypeOK, Read PROVE \E l \in Label, gone \in BOOLEAN : Heard(l, gone)
BY EchoIsHeard, AckIsHeard, StartIsHeard, BatchedIsHeard, EndIsHeard DEF Read

(* What is left of the lines after one was read, and of the labels they    *)
(* are about.                                                              *)
LEMMA LinesLeft ==
    ASSUME IInv, "late" \notin features, NEW l \in Label, NEW gone \in BOOLEAN, Heard(l, gone)
    PROVE  /\ \A m : Coming(m)' => Coming(m)
           /\ \A m : m # l /\ Coming(m) => Coming(m)'
           /\ Coming(l) /\ l \notin DOMAIN asked
           /\ gone => ~IsMessage(l)'
           /\ \A m \in Label : m # l => (IsMessage(m)' <=> IsMessage(m))
           /\ IsMessage(l)' => IsMessage(l)
           /\ Ordered'
<1>1. TypeOK /\ Unanswered /\ Ordered BY DEF IInv, Timely, Tables
<1>2. /\ Head(inq) = inq[1] /\ Len(inq) \in Nat \ {0} /\ 1 \in 1..Len(inq)
      /\ \A i \in 1..Len(inq) : inq[i] \in Line /\ inq[i].label \in Label
      /\ Len(inq') = Len(inq) - 1
      /\ \A i \in 1..Len(inq') : i + 1 \in 1..Len(inq) /\ inq'[i] = inq[i + 1]
      /\ \A i \in 1..Len(inq) : i # 1 => i - 1 \in 1..Len(inq') /\ inq[i] = inq'[i - 1]
  BY <1>1, TailFacts DEF Heard
<1>3. inq[1].label = l /\ asked' = asked BY <1>2 DEF Heard
<1>4. inq[1].cmd \in {"echo", "ack", "batched", "end", "start"} BY <1>2 DEF Line
<1>5. /\ \A m \in Label : m # l => (m \in DOMAIN active_batches' <=> m \in DOMAIN active_batches)
      /\ \A m \in DOMAIN active_batches : m # l => active_batches'[m] = active_batches[m]
      /\ inq[1].cmd = "start" =>
           l \in DOMAIN active_batches' /\ active_batches'[l].type = inq[1].type
      /\ inq[1].cmd = "end" => l \notin DOMAIN active_batches'
      /\ inq[1].cmd \in {"echo", "ack", "batched"} =>
           /\ l \in DOMAIN active_batches' <=> l \in DOMAIN active_batches
           /\ l \in DOMAIN active_batches => active_batches'[l].type = active_batches[l].type
  BY <1>2 DEF Heard, BatchChange
<1>6. /\ inq[1].cmd = "batched" => l \in DOMAIN active_batches
      /\ inq[1].cmd = "end" => l \in DOMAIN active_batches
      /\ Opens(1) => l \notin DOMAIN active_batches
  BY <1>1, <1>2, <1>3 DEF Ordered
<1>7. Opens(1) <=> inq[1].cmd \in {"echo", "ack", "start"} BY DEF Opens
<1>8. \A i \in 1..Len(inq') : Opens(i)' <=> Opens(i + 1) BY <1>2 DEF Opens
<1>9. \A i \in 1..Len(inq') : Repeats(i)' <=> Repeats(i + 1) BY <1>2 DEF Repeats
<1>10. \A i \in 1..Len(inq) : Repeats(i) => Opens(i) BY DEF Repeats, Opens
<1>11. \A m : Coming(m)' => Coming(m)
  <2> SUFFICES ASSUME NEW m, NEW i \in 1..Len(inq'), inq'[i].label = m PROVE Coming(m)
    BY DEF Coming
  <2> QED BY <1>2 DEF Coming
<1>12. \A m : m # l /\ Coming(m) => Coming(m)'
  <2> SUFFICES ASSUME NEW m, m # l, NEW i \in 1..Len(inq), inq[i].label = m PROVE Coming(m)'
    BY DEF Coming
  <2>1. i - 1 \in 1..Len(inq') /\ inq'[i - 1].label = m BY <1>2, <1>3
  <2> QED BY <2>1 DEF Coming
<1>13. Coming(l) /\ l \notin DOMAIN asked
  <2>1. Coming(l) BY <1>2, <1>3 DEF Coming
  <2> QED BY <1>1, <2>1 DEF Unanswered
<1>14. \A i \in 1..Len(inq') : Opens(i + 1) /\ inq[i + 1].label = l =>
         ~Opens(1) /\ l \notin DOMAIN active_batches
  <2> SUFFICES ASSUME NEW i \in 1..Len(inq'), Opens(i + 1), inq[i + 1].label = l
               PROVE  ~Opens(1) /\ l \notin DOMAIN active_batches
    OBVIOUS
  <2>1. i + 1 \in 1..Len(inq) /\ i + 1 # 1 BY <1>2
  <2>2. l \notin DOMAIN active_batches BY <1>1, <2>1 DEF Ordered
  <2>3. ~Opens(1) BY <1>1, <1>2, <1>3, <2>1 DEF Ordered
  <2> QED BY <2>2, <2>3
(* No line under way but the first one opens something for the label: the  *)
(* first line opens it itself, or follows the start.                       *)
<1>15. \A i \in 1..Len(inq') : ~(Opens(i + 1) /\ inq[i + 1].label = l)
  BY <1>4, <1>6, <1>7, <1>14
<1>16. ~(\E i \in 1..Len(inq') : inq'[i].label = l /\ Repeats(i)')
  BY <1>2, <1>9, <1>10, <1>15
<1>17. gone => ~IsMessage(l)'
  <2> SUFFICES ASSUME gone, IsMessage(l)' PROVE FALSE OBVIOUS
  <2>1. l \in DOMAIN active_batches' BY <1>3, <1>13, <1>16 DEF IsMessage
  <2>2. inq[1].cmd \in {"echo", "ack", "end"} BY <1>2 DEF Heard
  <2> QED BY <1>5, <1>6, <1>7, <2>1, <2>2
<1>18. \A m \in Label : m # l =>
         ((\E i \in 1..Len(inq') : inq'[i].label = m /\ Repeats(i)')
            <=> (\E i \in 1..Len(inq) : inq[i].label = m /\ Repeats(i)))
  <2> SUFFICES ASSUME NEW m \in Label, m # l
      PROVE ((\E i \in 1..Len(inq') : inq'[i].label = m /\ Repeats(i)')
               <=> (\E i \in 1..Len(inq) : inq[i].label = m /\ Repeats(i)))
    OBVIOUS
  <2>1. ASSUME NEW i \in 1..Len(inq'), inq'[i].label = m, Repeats(i)'
        PROVE  \E j \in 1..Len(inq) : inq[j].label = m /\ Repeats(j)
    BY <1>2, <1>9, <2>1
  <2>2. ASSUME NEW i \in 1..Len(inq), inq[i].label = m, Repeats(i)
        PROVE  \E j \in 1..Len(inq') : inq'[j].label = m /\ Repeats(j)'
    <3>1. i # 1 BY <1>3, <2>2
    <3>2. i - 1 \in 1..Len(inq') /\ inq'[i - 1] = inq[i] /\ (i - 1) + 1 = i BY <1>2, <3>1
    <3>3. Repeats(i - 1)' BY <1>9, <2>2, <3>2
    <3> QED BY <2>2, <3>2, <3>3
  <2> QED BY <2>1, <2>2
<1>19. \A m \in Label : m # l => (IsMessage(m)' <=> IsMessage(m))
  <2> SUFFICES ASSUME NEW m \in Label, m # l PROVE IsMessage(m)' <=> IsMessage(m) OBVIOUS
  <2>1. Coming(m)' <=> Coming(m) BY <1>11, <1>12
  <2>2. m \in DOMAIN active_batches' <=> m \in DOMAIN active_batches BY <1>5
  <2>3. m \in DOMAIN active_batches => active_batches'[m] = active_batches[m] BY <1>5
  <2> QED BY <1>3, <1>18, <2>1, <2>2, <2>3 DEF IsMessage
<1>20. IsMessage(l)' => IsMessage(l)
  <2> SUFFICES ASSUME IsMessage(l)' PROVE IsMessage(l) OBVIOUS
  <2>1. l \in DOMAIN active_batches' /\ active_batches'[l].type # "chathistory"
    BY <1>3, <1>13, <1>16 DEF IsMessage
  <2>2. CASE inq[1].cmd = "start"
    <3>1. Repeats(1) BY <1>5, <2>1, <2>2 DEF Repeats
    <3> QED BY <1>2, <1>3, <3>1 DEF IsMessage
  <2>3. CASE inq[1].cmd # "start" BY <1>4, <1>5, <1>13, <2>1, <2>3 DEF IsMessage
  <2> QED BY <2>2, <2>3
<1>21. Ordered'
  <2>1. \A i, j \in 1..Len(inq') : Opens(i)' /\ Opens(j)' /\ inq'[i].label = inq'[j].label => i = j
    <3> SUFFICES ASSUME NEW i \in 1..Len(inq'), NEW j \in 1..Len(inq'), Opens(i + 1), Opens(j + 1),
                        inq[i + 1].label = inq[j + 1].label
                 PROVE  i = j
      BY <1>2, <1>8
    <3>1. i + 1 \in 1..Len(inq) /\ j + 1 \in 1..Len(inq) BY <1>2
    <3>2. i + 1 = j + 1 BY <1>1, <3>1 DEF Ordered
    <3> QED BY <3>2
  <2>2. \A i \in 1..Len(inq') : Opens(i)' => inq'[i].label \notin DOMAIN active_batches'
    <3> SUFFICES ASSUME NEW i \in 1..Len(inq'), Opens(i + 1)
                 PROVE  inq[i + 1].label \notin DOMAIN active_batches'
      BY <1>2, <1>8
    <3>1. i + 1 \in 1..Len(inq) BY <1>2
    <3>2. inq[i + 1].label \notin DOMAIN active_batches BY <1>1, <3>1 DEF Ordered
    <3>3. inq[i + 1].label # l BY <1>15
    <3> QED BY <1>2, <1>5, <3>1, <3>2, <3>3
  <2>3. ASSUME NEW i \in 1..Len(inq'), inq'[i].cmd = "batched"
        PROVE  IF i = 1 THEN inq'[i].label \in DOMAIN active_batches'
                        ELSE inq'[i - 1].cmd = "start" /\ inq'[i - 1].label = inq'[i].label
    <3>1. i + 1 \in 1..Len(inq) /\ i + 1 # 1 /\ (i + 1) - 1 = i BY <1>2
    <3>2. inq[i].cmd = "start" /\ inq[i].label = inq[i + 1].label
      BY <1>1, <1>2, <2>3, <3>1 DEF Ordered
    <3>3. CASE i = 1 BY <1>2, <1>3, <1>5, <3>2, <3>3
    <3>4. CASE i # 1
      <4>1. i - 1 \in 1..Len(inq') /\ inq'[i - 1] = inq[i] BY <1>2, <3>4
      <4> QED BY <1>2, <3>2, <3>4, <4>1
    <3> QED BY <3>3, <3>4
  <2>4. ASSUME NEW i \in 1..Len(inq'), inq'[i].cmd = "end"
        PROVE  IF i = 1 THEN inq'[i].label \in DOMAIN active_batches'
                        ELSE inq'[i - 1].cmd = "batched" /\ inq'[i - 1].label = inq'[i].label
    <3>1. i + 1 \in 1..Len(inq) /\ i + 1 # 1 /\ (i + 1) - 1 = i BY <1>2
    <3>2. inq[i].cmd = "batched" /\ inq[i].label = inq[i + 1].label
      BY <1>1, <1>2, <2>4, <3>1 DEF Ordered
    <3>3. CASE i = 1 BY <1>2, <1>3, <1>5, <1>6, <3>2, <3>3
    <3>4. CASE i # 1
      <4>1. i - 1 \in 1..Len(inq') /\ inq'[i - 1] = inq[i] BY <1>2, <3>4
      <4> QED BY <1>2, <3>2, <3>4, <4>1
    <3> QED BY <3>3, <3>4
  <2> QED BY <2>1, <2>2, <2>3, <2>4 DEF Ordered
<1> QED BY <1>11, <1>12, <1>13, <1>17, <1>19, <1>20, <1>21

(* Reading keeps the part of the invariant that does not depend on time.   *)
LEMMA HeardKeepsTypes ==
    ASSUME IInv, NEW l \in Label, NEW gone \in BOOLEAN, Heard(l, gone)
    PROVE  TypeOK' /\ OwnEntries' /\ Numbered' /\ Closed'
<1>1. TypeOK /\ OwnEntries /\ Numbered BY DEF IInv
<1>2. /\ inq # <<>> /\ inq' = Tail(inq) /\ connected /\ connected' = connected /\ sess' = sess
      /\ label_counter' = label_counter /\ asked' = asked /\ features' = features /\ due' = due
      /\ stale_sweep_timer' \in BOOLEAN
      /\ active_batches' \in PartialFunctions(Label, ActiveType)
      /\ screen' \in [Label -> [shown: Nat, dim: BOOLEAN]]
      /\ \A m \in Label : screen'[m].dim => screen[m].dim
  BY DEF Heard, BatchChange, ScreenChange
<1>3. pending_labels' = Without(pending_labels, {l}) \/ pending_labels' = pending_labels
  BY DEF Heard
<1>4. /\ DOMAIN pending_labels' \subseteq DOMAIN pending_labels
      /\ \A m \in DOMAIN pending_labels' : pending_labels'[m] = pending_labels[m]
      /\ pending_labels' \in PartialFunctions(Label, PendingType)
  <2>1. pending_labels \in PartialFunctions(Label, PendingType) BY <1>1, Types
  <2>2. CASE pending_labels' = pending_labels BY <2>1, <2>2
  <2>3. CASE pending_labels' = Without(pending_labels, {l})
    <3>1. DOMAIN pending_labels' = DOMAIN pending_labels \ {l}
          /\ \A m \in DOMAIN pending_labels \ {l} : pending_labels'[m] = pending_labels[m]
      BY <2>3, WithoutFacts
    <3>2. pending_labels' \in PartialFunctions(Label, PendingType)
      BY <2>1, <2>3, WithoutFacts, Zenon
    <3> QED BY <3>1, <3>2
  <2> QED BY <1>3, <2>2, <2>3
<1>5. inq' \in Seq(Line) /\ \A i \in 1..Len(inq') : i + 1 \in 1..Len(inq) /\ inq'[i] = inq[i + 1]
  BY <1>1, <1>2, TailFacts
<1>6. TypeOK' BY <1>1, <1>2, <1>4, <1>5 DEF TypeOK, PendingType, ActiveType
<1>7. OwnEntries' BY <1>1, <1>2, <1>4 DEF OwnEntries
<1>8. Numbered'
  <2>1. DOMAIN active_batches' \subseteq DOMAIN active_batches \cup {l}
    <3>1. DOMAIN active_batches' \subseteq Label BY <1>2, TableType, Zenon
    <3>2. \A m \in Label \ {l} : m \in DOMAIN active_batches' <=> m \in DOMAIN active_batches
      BY DEF Heard, BatchChange
    <3> QED BY <3>1, <3>2
  <2>2. l < label_counter
    <3>1. l = inq[1].label /\ 1 \in 1..Len(inq) BY <1>1, <1>2, TailFacts DEF Heard
    <3> QED BY <1>1, <3>1 DEF Numbered
  <2>3. \A m \in DOMAIN pending_labels' \cup DOMAIN asked' \cup DOMAIN active_batches' :
          m < label_counter
    BY <1>1, <1>2, <1>4, <2>1, <2>2 DEF Numbered
  <2>4. \A i \in 1..Len(inq') : inq'[i].label < label_counter BY <1>1, <1>5 DEF Numbered
  <2>5. \A m \in Label : screen'[m].dim => m < label_counter /\ sess BY <1>1, <1>2 DEF Numbered
  <2> QED BY <1>2, <2>3, <2>4, <2>5 DEF Numbered
<1>9. Closed' BY <1>2 DEF Closed
<1> QED BY <1>6, <1>7, <1>8, <1>9

(* Reading a line on time leaves every other message as it was, and the    *)
(* message it answers is bright.                                           *)
LEMMA HeardKeepsTables ==
    ASSUME IInv, "late" \notin features, NEW l \in Label, NEW gone \in BOOLEAN, Heard(l, gone)
    PROVE  Tables'
<1>1. TypeOK /\ Tables BY DEF IInv, Timely
<1>2. /\ \A m : Coming(m)' => Coming(m)
      /\ gone => ~IsMessage(l)'
      /\ \A m \in Label : IsMessage(m)' => IsMessage(m)
      /\ Ordered' /\ l \notin DOMAIN asked
  BY LinesLeft
<1>3. asked' = asked /\ features' = features BY DEF Heard
<1>4. \A m \in Label : IsMessage(m)' => m \in DOMAIN pending_labels'
                                        /\ pending_labels'[m] = pending_labels[m]
  <2> SUFFICES ASSUME NEW m \in Label, IsMessage(m)'
               PROVE  m \in DOMAIN pending_labels' /\ pending_labels'[m] = pending_labels[m]
    OBVIOUS
  <2>1. m \in DOMAIN pending_labels BY <1>1, <1>2 DEF Tables, Fresh
  <2>2. CASE gone
    <3>1. m # l BY <1>2, <2>2
    <3>2. pending_labels' = Without(pending_labels, {l}) BY <2>2 DEF Heard
    <3>3. DOMAIN pending_labels' = DOMAIN pending_labels \ {l}
          /\ \A k \in DOMAIN pending_labels \ {l} : pending_labels'[k] = pending_labels[k]
      BY <3>2, WithoutFacts
    <3> QED BY <2>1, <3>1, <3>3
  <2>3. CASE ~gone BY <2>1, <2>3 DEF Heard
  <2> QED BY <2>2, <2>3
<1>5. DOMAIN active_batches' \subseteq Label
  <2>1. active_batches' \in PartialFunctions(Label, ActiveType) BY DEF Heard, BatchChange
  <2> QED BY <2>1, TableType, Zenon
<1>6. /\ \A m \in Label : m # l => (m \in DOMAIN active_batches' <=> m \in DOMAIN active_batches)
      /\ \A m \in DOMAIN active_batches : m # l => active_batches'[m] = active_batches[m]
      /\ Head(inq).cmd = "start" =>
           active_batches'[l].type = Head(inq).type /\ active_batches'[l].age = 0
      /\ Head(inq).cmd = "end" => l \notin DOMAIN active_batches'
      /\ Head(inq).cmd \in {"echo", "ack", "batched"} =>
           /\ l \in DOMAIN active_batches' <=> l \in DOMAIN active_batches
           /\ l \in DOMAIN active_batches =>
                active_batches'[l].type = active_batches[l].type
                /\ active_batches'[l].age = active_batches[l].age
  BY DEF Heard, BatchChange
<1>7. /\ Head(inq) = inq[1] /\ Head(inq) \in Line /\ 1 \in 1..Len(inq) /\ inq[1].label = l
      /\ \A i \in 1..Len(inq') : i + 1 \in 1..Len(inq) /\ inq'[i] = inq[i + 1]
  BY <1>1, TailFacts DEF Heard
<1>8. Head(inq).cmd \in {"echo", "ack", "batched", "end", "start"} BY <1>7 DEF Line
<1>9. Coming(l) BY <1>7 DEF Coming
<1>10. Unanswered'
  <2> SUFFICES ASSUME NEW m \in DOMAIN asked PROVE m \notin DOMAIN active_batches' /\ ~Coming(m)'
    BY <1>3 DEF Unanswered
  <2>1. m # l /\ m \notin DOMAIN active_batches /\ ~Coming(m) BY <1>1, <1>2 DEF Tables, Unanswered
  <2> QED BY <1>2, <1>5, <1>6, <2>1
<1>11. Fresh'
  <2>1. \A m \in Label : IsMessage(m)' => m \in DOMAIN pending_labels'
                                          /\ pending_labels'[m].age = 0
    BY <1>1, <1>2, <1>4 DEF Tables, Fresh
  <2>2. ASSUME NEW m \in DOMAIN active_batches', Coming(m)' PROVE active_batches'[m].age = 0
    <3>1. CASE m # l BY <1>1, <1>2, <1>5, <1>6, <2>2, <3>1 DEF Tables, Fresh
    <3>2. CASE m = l BY <1>1, <1>6, <1>8, <1>9, <2>2, <3>2 DEF Tables, Fresh
    <3> QED BY <3>1, <3>2
  <2> QED BY <2>1, <2>2 DEF Fresh
<1>12. Unwrapped'
  <2> SUFFICES ASSUME "wrapped" \notin features
               PROVE  /\ \A i \in 1..Len(inq') : inq'[i].cmd = "start" => inq'[i].type # "labeled-response"
                      /\ \A m \in DOMAIN active_batches' : active_batches'[m].type # "labeled-response"
    BY <1>3 DEF Unwrapped
  <2>1. \A i \in 1..Len(inq) : inq[i].cmd = "start" => inq[i].type # "labeled-response"
    BY <1>1 DEF Tables, Unwrapped
  <2>2. \A m \in DOMAIN active_batches : active_batches[m].type # "labeled-response"
    BY <1>1 DEF Tables, Unwrapped
  <2>3. ASSUME NEW m \in DOMAIN active_batches' PROVE active_batches'[m].type # "labeled-response"
    <3>1. CASE m # l BY <1>5, <1>6, <2>2, <3>1
    <3>2. CASE m = l BY <1>6, <1>7, <1>8, <2>1, <2>2, <2>3, <3>2
    <3> QED BY <3>1, <3>2
  <2> QED BY <1>7, <2>1, <2>3
<1>13. HasEntry'
  <2>1. Never({"hook", "split"})' <=> Never({"hook", "split"}) BY <1>3 DEF Never
  <2> QED BY <1>1, <1>2, <1>4, <2>1 DEF HasEntry, Tables
<1> QED BY <1>2, <1>10, <1>11, <1>12, <1>13 DEF Tables

(* Where messages are timely none is shown again, and what is dimmed still *)
(* has a line coming that will brighten it.                                *)
LEMMA HeardKeepsScreen ==
    ASSUME IInv, "late" \notin features, NEW l \in Label, NEW gone \in BOOLEAN, Heard(l, gone)
    PROVE  Dimmed' /\ Once'
<1>1. TypeOK /\ Tables /\ Dimmed /\ Once /\ Numbered /\ OwnEntries BY DEF IInv, Timely
<1>2. /\ \A m : m # l /\ Coming(m) => Coming(m)'
      /\ Coming(l) /\ l \notin DOMAIN asked
      /\ \A m \in Label : m # l => (IsMessage(m)' <=> IsMessage(m))
  BY LinesLeft
<1>3. asked' = asked /\ features' = features /\ sess' = sess BY DEF Heard
<1>4. /\ Head(inq) = inq[1] /\ Head(inq) \in Line /\ 1 \in 1..Len(inq) /\ inq[1].label = l
      /\ \A i \in 1..Len(inq) : i # 1 => i - 1 \in 1..Len(inq') /\ inq[i] = inq'[i - 1]
  BY <1>1, TailFacts DEF Heard
<1>5. \A i \in 1..Len(inq) : i # 1 => (Closes(i) => Closes(i - 1)') BY <1>4 DEF Closes
<1>6. \A m \in DOMAIN pending_labels : m # l \/ ~gone =>
        m \in DOMAIN pending_labels' /\ pending_labels'[m] = pending_labels[m]
  <2>1. CASE gone
    <3>1. pending_labels' = Without(pending_labels, {l}) BY <2>1 DEF Heard
    <3>2. DOMAIN pending_labels' = DOMAIN pending_labels \ {l}
          /\ \A k \in DOMAIN pending_labels \ {l} : pending_labels'[k] = pending_labels[k]
      BY <3>1, WithoutFacts
    <3> QED BY <2>1, <3>2
  <2>2. CASE ~gone BY <2>2 DEF Heard
  <2> QED BY <2>1, <2>2
<1>7. \A m \in Label : IsMessage(m) => m \in DOMAIN pending_labels
  BY <1>1 DEF Tables, Fresh
<1>8. /\ inq[1].cmd = "end" => l \in DOMAIN active_batches
      /\ inq[1].cmd = "batched" => l \in DOMAIN active_batches
  BY <1>1, <1>4 DEF Tables, Ordered
<1>9. gone <=> inq[1].cmd \in {"echo", "ack", "end"} BY <1>4, <1>8 DEF Heard
<1>10. Dimmed'
  <2> SUFFICES ASSUME Never({"silent", "hook"}), NEW m \in Label, screen'[m].dim
               PROVE  /\ IsMessage(m)' /\ pending_labels'[m].entry # NoEntry
                      /\ \/ m \in DOMAIN asked
                         \/ \E i \in 1..Len(inq') : inq'[i].label = m /\ Closes(i)'
    <3>1. Never({"silent", "hook"})' <=> Never({"silent", "hook"}) BY <1>3 DEF Never
    <3> QED BY <1>3, <3>1 DEF Dimmed
  <2>1. screen[m].dim BY DEF Heard, ScreenChange
  <2>2. /\ IsMessage(m) /\ pending_labels[m].entry # NoEntry
        /\ m \in DOMAIN asked \/ \E i \in 1..Len(inq) : inq[i].label = m /\ Closes(i)
    BY <1>1, <2>1 DEF Dimmed
  <2>3. m \in DOMAIN pending_labels BY <1>7, <2>2
  <2>4. pending_labels[m].entry = m
    <3>1. "hook" \notin features BY DEF Never
    <3> QED BY <1>1, <2>2, <2>3, <3>1 DEF OwnEntries
  <2>5. sess BY <1>1, <2>1 DEF Numbered
  <2>6. m # l \/ ~gone
    <3> SUFFICES ASSUME m = l, gone PROVE FALSE OBVIOUS
    <3>1. Known(l) BY <2>2, <2>3 DEF Known
    <3>2. ~screen'[pending_labels[l].entry].dim BY <2>5, <3>1 DEF Heard, ScreenChange
    <3> QED BY <2>4, <3>2
  <2>7. pending_labels'[m].entry # NoEntry BY <1>6, <2>2, <2>3, <2>6
  <2>8. m \in DOMAIN asked \/ \E i \in 1..Len(inq') : inq'[i].label = m /\ Closes(i)'
    <3> SUFFICES ASSUME m \notin DOMAIN asked
                 PROVE  \E i \in 1..Len(inq') : inq'[i].label = m /\ Closes(i)'
      OBVIOUS
    <3>1. PICK i \in 1..Len(inq) : inq[i].label = m /\ Closes(i) BY <2>2
    <3>2. i # 1 BY <1>4, <1>9, <2>6, <3>1 DEF Closes
    <3> QED BY <1>4, <1>5, <3>1, <3>2
  <2>9. IsMessage(m)'
    <3>1. CASE m # l BY <1>2, <2>2, <3>1
    <3>2. CASE m = l
      <4>1. ~gone BY <2>6, <3>2
      <4>2. inq[1].cmd \in {"batched", "start"} BY <1>4, <1>9, <4>1 DEF Line
      <4>3. Coming(l)'
        <5>1. PICK i \in 1..Len(inq') : inq'[i].label = l BY <1>2, <2>8, <3>2
        <5> QED BY <5>1 DEF Coming
      <4>4. Opens(1) => \A i \in 1..Len(inq) : Opens(i) /\ inq[i].label = l => i = 1
        BY <1>1, <1>4 DEF Tables, Ordered
      <4>5. \A i \in 1..Len(inq) : Opens(i) /\ inq[i].label = l => l \notin DOMAIN active_batches
        BY <1>1 DEF Tables, Ordered
      <4>6. \A i \in 1..Len(inq) : Repeats(i) => Opens(i) BY DEF Repeats, Opens
      <4>7. CASE inq[1].cmd = "batched"
        <5>1. l \in DOMAIN active_batches BY <1>8, <4>7
        <5>2. active_batches[l].type # "chathistory"
          BY <1>2, <2>2, <3>2, <4>5, <4>6, <5>1 DEF IsMessage
        <5>3. l \in DOMAIN active_batches' /\ active_batches'[l].type # "chathistory"
          BY <1>4, <4>7, <5>1, <5>2 DEF Heard, BatchChange
        <5> QED BY <3>2, <4>3, <5>3 DEF IsMessage
      <4>8. CASE inq[1].cmd = "start"
        <5>1. Opens(1) BY <4>8 DEF Opens
        <5>2. l \notin DOMAIN active_batches BY <1>4, <4>5, <5>1
        <5>3. Repeats(1) BY <1>2, <2>2, <3>2, <4>4, <4>6, <5>1, <5>2 DEF IsMessage
        <5>4. inq[1].type # "chathistory" BY <4>8, <5>3 DEF Repeats
        <5>5. l \in DOMAIN active_batches' /\ active_batches'[l].type # "chathistory"
          BY <1>4, <4>8, <5>4 DEF Heard, BatchChange
        <5> QED BY <3>2, <4>3, <5>5 DEF IsMessage
      <4> QED BY <4>2, <4>7, <4>8
    <3> QED BY <3>1, <3>2
  <2> QED BY <2>7, <2>8, <2>9
<1>11. Once'
  <2> SUFFICES ASSUME Never({"wrapped", "hook", "split"}), NoneShownTwice PROVE NoneShownTwice'
    <3>1. Never({"wrapped", "hook", "split"})' <=> Never({"wrapped", "hook", "split"})
      BY <1>3 DEF Never
    <3> QED BY <1>1, <3>1 DEF Once
  <2>1. Never({"hook", "split"}) /\ "wrapped" \notin features BY DEF Never
  <2>2. ~Repeated(l)
    <3>1. CASE inq[1].cmd = "echo"
      <4>1. IsMessage(l) BY <1>4, <3>1 DEF IsMessage, Repeats
      <4> QED BY <1>4, <1>7, <3>1, <4>1 DEF Repeated
    <3>2. CASE inq[1].cmd = "batched"
      <4>1. l \in DOMAIN active_batches /\ active_batches[l].type # "labeled-response"
        BY <1>1, <1>8, <2>1, <3>2 DEF Tables, Unwrapped
      <4> QED BY <1>4, <3>2, <4>1 DEF Repeated
    <3>3. CASE inq[1].cmd = "end"
      <4> SUFFICES ASSUME active_batches[l].type = "draft/multiline" PROVE Known(l)
        BY <1>4, <3>3 DEF Repeated
      <4>1. IsMessage(l) BY <1>2, <1>8, <3>3 DEF IsMessage
      <4>2. l \in DOMAIN pending_labels /\ pending_labels[l].entry # NoEntry
        BY <1>1, <1>7, <2>1, <4>1 DEF Tables, HasEntry
      <4> QED BY <4>2 DEF Known
    <3>4. CASE inq[1].cmd \notin {"echo", "batched", "end"} BY <1>4, <3>4 DEF Repeated
    <3> QED BY <3>1, <3>2, <3>3, <3>4
  <2>3. \A m \in Label : screen'[m].shown = screen[m].shown BY <2>2 DEF Heard, ScreenChange
  <2> QED BY <2>3 DEF NoneShownTwice
<1> QED BY <1>10, <1>11

(* Reading keeps the invariant. *)
LEMMA HeardKeeps ==
    ASSUME IInv, NEW l \in Label, NEW gone \in BOOLEAN, Heard(l, gone)
    PROVE  IInv'
<1>1. TypeOK' /\ OwnEntries' /\ Numbered' /\ Closed' BY HeardKeepsTypes
<1>2. features' = features BY DEF Heard
<1>3. "late" \notin features => Timely'
  BY HeardKeepsTables, HeardKeepsScreen DEF Timely
<1> QED BY <1>1, <1>2, <1>3 DEF IInv
-----------------------------------------------------------------------------
(* The sweep, the end of the connection, and the clock. *)

(* Nothing is open or under way. *)
Idle == DOMAIN asked = {} /\ DOMAIN active_batches = {} /\ inq = <<>>

LEMMA IdleTables == Idle => Tables
<1> SUFFICES ASSUME Idle PROVE Tables OBVIOUS
<1>1. 1..Len(inq) = {} BY DEF Idle
<1>2. \A l : ~Coming(l) /\ ~IsMessage(l) BY <1>1 DEF Idle, Coming, IsMessage
<1>3. Unanswered /\ Unwrapped /\ Fresh /\ HasEntry
  BY <1>1, <1>2 DEF Idle, Unanswered, Unwrapped, Fresh, HasEntry
<1>4. Ordered BY <1>1 DEF Ordered
<1> QED BY <1>3, <1>4 DEF Tables

(* There is nothing at the start. *)
LEMMA InitIInv == Init => IInv
<1> SUFFICES ASSUME Init PROVE IInv OBVIOUS
<1>1. /\ connected = TRUE /\ label_counter = 0 /\ pending_labels = Empty /\ active_batches = Empty
      /\ stale_sweep_timer = FALSE /\ due = FALSE /\ sess = TRUE
      /\ screen = [l \in Label |-> Nothing] /\ asked = Empty /\ inq = <<>>
      /\ features \in Scenarios
  BY DEF Init
<1>2. DOMAIN pending_labels = {} /\ Idle BY <1>1, EmptyDomain DEF Idle
<1>3. TypeOK
  <2>1. /\ pending_labels \in PartialFunctions(Label, PendingType)
        /\ active_batches \in PartialFunctions(Label, ActiveType)
        /\ asked \in PartialFunctions(Label, Kind)
    BY <1>1, EmptyTable
  <2>2. screen \in [Label -> [shown: Nat, dim: BOOLEAN]] BY <1>1 DEF Nothing
  <2>3. label_counter \in 0..MaxLabels BY <1>1, MaxLabelsAssumption
  <2>4. inq \in Seq(Line) BY <1>1
  <2>5. connected \in BOOLEAN /\ stale_sweep_timer \in BOOLEAN /\ due \in BOOLEAN /\ sess \in BOOLEAN
    BY <1>1
  <2> QED BY <1>1, <2>1, <2>2, <2>3, <2>4, <2>5 DEF TypeOK, PendingType, ActiveType
<1>4. \A l \in Label : ~screen[l].dim /\ screen[l].shown = 0
  <2> DEFINE off == FALSE
  <2>1. Nothing = [shown |-> 0, dim |-> off] /\ ~off BY DEF Nothing
  <2> HIDE DEF off
  <2>2. Nothing.shown = 0 /\ Nothing.dim = off BY <2>1
  <2> QED BY <1>1, <2>1, <2>2
<1>5. OwnEntries /\ Closed BY <1>1, <1>2 DEF OwnEntries, Closed
<1>6. Numbered BY <1>1, <1>2, <1>4 DEF Numbered, Idle
<1>7. Dimmed /\ Once BY <1>4 DEF Dimmed, Once, NoneShownTwice
<1> QED BY <1>2, <1>3, <1>5, <1>6, <1>7, IdleTables DEF IInv, Timely

(* The sweep removes nothing that is on time. *)
LEMMA SweepKeeps == ASSUME IInv, stale_sweep_cb PROVE IInv'
<1>1. TypeOK /\ OwnEntries /\ Numbered /\ Closed BY DEF IInv
<1> DEFINE gone == stale_labels \cup stale_batches
<1>2. /\ due' = FALSE /\ pending_labels' = Without(pending_labels, gone)
      /\ active_batches' = Without(active_batches, stale_batches)
      /\ UNCHANGED <<connected, label_counter, sess, screen, asked, inq, features>>
  BY DEF stale_sweep_cb
<1>3. stale_sweep_timer' \in BOOLEAN
  <2> DEFINE on == \/ DOMAIN pending_labels \ stale_labels # {}
                   \/ DOMAIN active_batches \ stale_batches # {}
  <2>1. stale_sweep_timer' = on BY DEF stale_sweep_cb
  <2>2. on \in BOOLEAN OBVIOUS
  <2> HIDE DEF on
  <2> QED BY <2>1, <2>2
<1> HIDE DEF gone
<1>4. /\ DOMAIN pending_labels' = DOMAIN pending_labels \ gone
      /\ \A l \in DOMAIN pending_labels \ gone : pending_labels'[l] = pending_labels[l]
      /\ pending_labels' \in PartialFunctions(Label, PendingType)
  <2>1. pending_labels \in PartialFunctions(Label, PendingType) BY <1>1, Types
  <2> QED BY <1>2, <2>1, WithoutFacts, Zenon
<1>5. /\ DOMAIN active_batches' = DOMAIN active_batches \ stale_batches
      /\ \A l \in DOMAIN active_batches \ stale_batches : active_batches'[l] = active_batches[l]
      /\ active_batches' \in PartialFunctions(Label, ActiveType)
  <2>1. active_batches \in PartialFunctions(Label, ActiveType) BY <1>1, Types
  <2> QED BY <1>2, <2>1, WithoutFacts, Zenon
<1>6. TypeOK'
  <2>1. due' \in BOOLEAN BY <1>2
  <2> QED BY <1>1, <1>2, <1>3, <1>4, <1>5, <2>1 DEF TypeOK, PendingType, ActiveType
<1>7. OwnEntries' BY <1>1, <1>2, <1>4 DEF OwnEntries
<1>8. Numbered' BY <1>1, <1>2, <1>4, <1>5 DEF Numbered
<1>9. Closed' BY <1>1, <1>2 DEF Closed
<1>10. ASSUME "late" \notin features PROVE Timely'
  <2>1. Unanswered /\ Ordered /\ Fresh /\ Unwrapped /\ HasEntry /\ Dimmed /\ Once
    BY <1>10 DEF IInv, Timely, Tables
  <2>2. \A l : Coming(l)' <=> Coming(l) BY <1>2, SameLines
  <2>3. \A l \in DOMAIN active_batches : Coming(l) => l \notin stale_batches
    BY <2>1, TimeoutsAssumption DEF Fresh, stale_batches
  <2>4. \A l \in Label : IsMessage(l) =>
          l \notin stale_batches /\ l \in DOMAIN pending_labels /\ l \notin gone
    <3> SUFFICES ASSUME NEW l \in Label, IsMessage(l)
                 PROVE  l \notin stale_batches /\ l \in DOMAIN pending_labels /\ l \notin stale_labels
      BY DEF gone
    <3>1. l \in DOMAIN pending_labels /\ pending_labels[l].age = 0 BY <2>1 DEF Fresh
    <3>2. l \notin stale_labels BY <3>1, TimeoutsAssumption DEF stale_labels
    <3>3. l \in DOMAIN active_batches => Coming(l)
      BY <2>1 DEF IsMessage, Unanswered, Coming
    <3>4. l \notin stale_batches BY <2>3, <3>3 DEF stale_batches
    <3> QED BY <3>1, <3>2, <3>4
  <2>5. \A l \in Label : IsMessage(l)' <=> IsMessage(l)
    <3> SUFFICES ASSUME NEW l \in Label PROVE IsMessage(l)' <=> IsMessage(l) OBVIOUS
    <3>1. IsMessage(l)' => IsMessage(l) BY <1>2, <1>5, <2>2 DEF IsMessage, Repeats
    <3>2. IsMessage(l) => IsMessage(l)' BY <1>2, <1>5, <2>2, <2>4 DEF IsMessage, Repeats
    <3> QED BY <3>1, <3>2
  <2>6. \A l \in Label : IsMessage(l) =>
          l \in DOMAIN pending_labels' /\ pending_labels'[l] = pending_labels[l]
    BY <1>4, <2>4
  <2>7. Unanswered' BY <1>2, <1>5, <2>1, <2>2 DEF Unanswered
  <2>8. Ordered'
    <3>1. \A l \in DOMAIN active_batches : Coming(l) => l \in DOMAIN active_batches'
      BY <1>5, <2>3
    <3>2. \A i \in 1..Len(inq) : Coming(inq[i].label) BY DEF Coming
    <3>3. \A i \in 1..Len(inq) : inq[i].label \in DOMAIN active_batches
                                   <=> inq[i].label \in DOMAIN active_batches'
      BY <1>5, <3>1, <3>2
    <3> QED BY <1>2, <2>1, <3>3 DEF Ordered, Opens
  <2>9. Fresh' BY <1>5, <2>1, <2>2, <2>5, <2>6 DEF Fresh
  <2>10. Unwrapped' BY <1>2, <1>5, <2>1 DEF Unwrapped
  <2>11. HasEntry' BY <1>2, <2>1, <2>5, <2>6 DEF HasEntry, Never
  <2>12. Dimmed' BY <1>2, <2>1, <2>5, <2>6 DEF Dimmed, Never, Closes
  <2>13. Once' BY <1>2, <2>1 DEF Once, Never, NoneShownTwice
  <2> QED BY <2>7, <2>8, <2>9, <2>10, <2>11, <2>12, <2>13 DEF Timely, Tables
<1> QED BY <1>2, <1>6, <1>7, <1>8, <1>9, <1>10 DEF IInv

(* Time does not pass while a message is on its way, unless it is late. *)
LEMMA TickKeeps == ASSUME IInv, Tick PROVE IInv'
<1>1. TypeOK /\ OwnEntries /\ Numbered /\ Closed BY DEF IInv
<1>2. /\ due' = stale_sweep_timer
      /\ pending_labels' = Older(pending_labels, LabelTimeout)
      /\ active_batches' = Older(active_batches, BatchTimeout)
      /\ UNCHANGED <<connected, label_counter, stale_sweep_timer, sess, screen, asked, inq,
                     features>>
  BY DEF Tick
<1>3. /\ \A l \in DOMAIN pending_labels : pending_labels[l] \in PendingType
      /\ \A l \in DOMAIN active_batches : active_batches[l] \in ActiveType
      /\ DOMAIN pending_labels \subseteq Label /\ DOMAIN active_batches \subseteq Label
  BY <1>1, Types
<1>4. /\ DOMAIN pending_labels' = DOMAIN pending_labels
      /\ \A l \in DOMAIN pending_labels : pending_labels'[l].entry = pending_labels[l].entry
      /\ pending_labels' \in PartialFunctions(Label, PendingType)
  <2>1. \A l \in DOMAIN pending_labels : pending_labels[l].age \in 0..(LabelTimeout + 1)
    BY <1>3 DEF PendingType
  <2> DEFINE o == Older(pending_labels, LabelTimeout)
  <2>0. LabelTimeout \in Nat BY TimeoutsAssumption
  <2>5. /\ DOMAIN o = DOMAIN pending_labels /\ o = [l \in DOMAIN pending_labels |-> o[l]]
        /\ \A l \in DOMAIN pending_labels :
             \E a \in 0..(LabelTimeout + 1) : o[l] = [pending_labels[l] EXCEPT !.age = a]
    BY <2>0, <2>1, OlderFacts
  <2>6. o = pending_labels' BY <1>2
  <2> HIDE DEF o
  <2>2. /\ DOMAIN pending_labels' = DOMAIN pending_labels
        /\ pending_labels' = [l \in DOMAIN pending_labels |-> pending_labels'[l]]
        /\ \A l \in DOMAIN pending_labels :
             \E a \in 0..(LabelTimeout + 1) : pending_labels'[l] = [pending_labels[l] EXCEPT !.age = a]
    BY <2>5, <2>6
  <2>3. ASSUME NEW l \in DOMAIN pending_labels
        PROVE  pending_labels'[l].entry = pending_labels[l].entry /\ pending_labels'[l] \in PendingType
    <3>1. PICK a \in 0..(LabelTimeout + 1) : pending_labels'[l] = [pending_labels[l] EXCEPT !.age = a]
      BY <2>2
    <3>2. pending_labels[l] \in PendingType BY <1>3
    <3> QED BY <3>1, <3>2 DEF PendingType
  <2>4. pending_labels' \in PartialFunctions(Label, PendingType)
    <3> HIDE DEF PendingType
    <3>1. DOMAIN pending_labels' \subseteq Label BY <1>3, <2>2
    <3>2. pending_labels' = [l \in DOMAIN pending_labels' |-> pending_labels'[l]] BY <2>2
    <3>3. \A l \in DOMAIN pending_labels' : pending_labels'[l] \in PendingType BY <2>2, <2>3
    <3> QED BY <3>1, <3>2, <3>3, TableType, Zenon
  <2> QED BY <2>2, <2>3, <2>4
<1>5. /\ DOMAIN active_batches' = DOMAIN active_batches
      /\ \A l \in DOMAIN active_batches : active_batches'[l].type = active_batches[l].type
      /\ active_batches' \in PartialFunctions(Label, ActiveType)
  <2>1. \A l \in DOMAIN active_batches : active_batches[l].age \in 0..(BatchTimeout + 1)
    BY <1>3 DEF ActiveType
  <2> DEFINE o == Older(active_batches, BatchTimeout)
  <2>0. BatchTimeout \in Nat BY TimeoutsAssumption
  <2>5. /\ DOMAIN o = DOMAIN active_batches /\ o = [l \in DOMAIN active_batches |-> o[l]]
        /\ \A l \in DOMAIN active_batches :
             \E a \in 0..(BatchTimeout + 1) : o[l] = [active_batches[l] EXCEPT !.age = a]
    BY <2>0, <2>1, OlderFacts
  <2>6. o = active_batches' BY <1>2
  <2> HIDE DEF o
  <2>2. /\ DOMAIN active_batches' = DOMAIN active_batches
        /\ active_batches' = [l \in DOMAIN active_batches |-> active_batches'[l]]
        /\ \A l \in DOMAIN active_batches :
             \E a \in 0..(BatchTimeout + 1) : active_batches'[l] = [active_batches[l] EXCEPT !.age = a]
    BY <2>5, <2>6
  <2>3. ASSUME NEW l \in DOMAIN active_batches
        PROVE  active_batches'[l].type = active_batches[l].type /\ active_batches'[l] \in ActiveType
    <3>1. PICK a \in 0..(BatchTimeout + 1) : active_batches'[l] = [active_batches[l] EXCEPT !.age = a]
      BY <2>2
    <3>2. active_batches[l] \in ActiveType BY <1>3
    <3> QED BY <3>1, <3>2 DEF ActiveType
  <2>4. active_batches' \in PartialFunctions(Label, ActiveType)
    <3> HIDE DEF ActiveType
    <3>1. DOMAIN active_batches' \subseteq Label BY <1>3, <2>2
    <3>2. active_batches' = [l \in DOMAIN active_batches' |-> active_batches'[l]] BY <2>2
    <3>3. \A l \in DOMAIN active_batches' : active_batches'[l] \in ActiveType BY <2>2, <2>3
    <3> QED BY <3>1, <3>2, <3>3, TableType, Zenon
  <2> QED BY <2>2, <2>3, <2>4
<1>6. TypeOK' BY <1>1, <1>2, <1>4, <1>5 DEF TypeOK, PendingType, ActiveType
<1>7. OwnEntries' BY <1>1, <1>2, <1>4 DEF OwnEntries
<1>8. Numbered' BY <1>1, <1>2, <1>4, <1>5 DEF Numbered
<1>9. Closed' BY <1>1, <1>2 DEF Closed
<1>10. ASSUME "late" \notin features PROVE Timely'
  <2>1. Unanswered /\ Ordered /\ Fresh /\ Unwrapped /\ HasEntry /\ Dimmed /\ Once
    BY <1>10 DEF IInv, Timely, Tables
  <2>2. inq = <<>> /\ \A l \in DOMAIN asked : asked[l] = "command" BY <1>10 DEF Tick
  <2>3. inq' = <<>> /\ 1..Len(inq) = {} /\ 1..Len(inq') = {} BY <1>2, <2>2
  <2>4. \A l : ~Coming(l)' /\ ~Coming(l) BY <2>3 DEF Coming
  <2>5. \A l : ~IsMessage(l)' /\ ~IsMessage(l) BY <1>2, <2>2, <2>3, <2>4 DEF IsMessage
  <2>6. Unanswered' /\ Fresh' /\ HasEntry'
    BY <1>2, <1>5, <2>1, <2>4, <2>5 DEF Unanswered, Fresh, HasEntry
  <2>7. Ordered' BY <2>3 DEF Ordered
  <2>8. Unwrapped' BY <1>2, <1>5, <2>1, <2>3 DEF Unwrapped
  <2>9. Dimmed' BY <1>2, <2>1, <2>5 DEF Dimmed, Never
  <2>10. Once' BY <1>2, <2>1 DEF Once, Never, NoneShownTwice
  <2> QED BY <2>6, <2>7, <2>8, <2>9, <2>10 DEF Timely, Tables
<1> QED BY <1>2, <1>6, <1>7, <1>8, <1>9, <1>10 DEF IInv

(* A lost connection leaves nothing open, and nothing dimmed. *)
LEMMA CleanupKeeps == ASSUME IInv, server_cleanup PROVE IInv'
<1>1. TypeOK /\ OwnEntries /\ Numbered /\ Closed BY DEF IInv
<1>2. /\ connected' = FALSE /\ pending_labels' = Empty /\ active_batches' = Empty
      /\ stale_sweep_timer' = FALSE /\ due' = FALSE /\ asked' = Empty /\ inq' = <<>>
      /\ UNCHANGED <<label_counter, sess, features>>
      /\ screen' = IF sess THEN [l \in Label |-> [screen[l] EXCEPT !.dim = FALSE]] ELSE screen
  BY DEF server_cleanup
<1>3. screen \in [Label -> [shown: Nat, dim: BOOLEAN]] BY <1>1 DEF TypeOK
<1>4. /\ screen' \in [Label -> [shown: Nat, dim: BOOLEAN]]
      /\ \A l \in Label : ~screen'[l].dim /\ screen'[l].shown = screen[l].shown
  <2>1. CASE sess
    <3> DEFINE off == FALSE
    <3>1. screen' = [l \in Label |-> [screen[l] EXCEPT !.dim = off]] BY <1>2, <2>1
    <3>2. off \in BOOLEAN /\ ~off OBVIOUS
    <3> HIDE DEF off
    <3>3. \A l \in Label : /\ [screen[l] EXCEPT !.dim = off] \in [shown: Nat, dim: BOOLEAN]
                           /\ [screen[l] EXCEPT !.dim = off].dim = off
                           /\ [screen[l] EXCEPT !.dim = off].shown = screen[l].shown
      BY <1>3, <3>2
    <3> QED BY <3>1, <3>2, <3>3
  <2>2. CASE ~sess
    <3>1. \A l \in Label : ~screen[l].dim BY <1>1, <2>2 DEF Numbered
    <3> QED BY <1>2, <1>3, <2>2, <3>1
  <2> QED BY <2>1, <2>2
<1>5. DOMAIN pending_labels' = {} /\ DOMAIN active_batches' = {} /\ DOMAIN asked' = {}
      /\ 1..Len(inq') = {}
  BY <1>2, EmptyDomain
<1>6. TypeOK'
  <2>1. /\ pending_labels' \in PartialFunctions(Label, PendingType)
        /\ active_batches' \in PartialFunctions(Label, ActiveType)
        /\ asked' \in PartialFunctions(Label, Kind)
    BY <1>2, EmptyTable
  <2>2. inq' \in Seq(Line) BY <1>2
  <2>3. connected' \in BOOLEAN /\ stale_sweep_timer' \in BOOLEAN /\ due' \in BOOLEAN BY <1>2
  <2> QED BY <1>1, <1>2, <1>4, <2>1, <2>2, <2>3 DEF TypeOK, PendingType, ActiveType
<1>7. OwnEntries' BY <1>5 DEF OwnEntries
<1>8. Numbered' BY <1>4, <1>5 DEF Numbered
<1>9. Closed' BY <1>2, <1>5 DEF Closed
<1>10. Idle' BY <1>2, <1>5 DEF Idle
<1>11. Tables' BY <1>10, IdleTables, PTL
<1>12. Dimmed' BY <1>4 DEF Dimmed
<1>13. "late" \notin features => Once'
  <2>1. "late" \notin features => Once BY DEF IInv, Timely
  <2> QED BY <1>2, <1>4, <2>1 DEF Once, Never, NoneShownTwice
<1> QED BY <1>2, <1>6, <1>7, <1>8, <1>9, <1>11, <1>12, <1>13 DEF IInv, Timely

(* The next connection starts where the last one left nothing. *)
LEMMA DefaultsKeep == ASSUME IInv, server_set_defaults PROVE IInv'
<1>1. TypeOK /\ OwnEntries /\ Numbered /\ Closed BY DEF IInv
<1>2. /\ ~connected /\ connected' = TRUE /\ pending_labels' = Empty /\ active_batches' = Empty
      /\ stale_sweep_timer' = FALSE /\ due' = FALSE
      /\ UNCHANGED <<label_counter, sess, screen, asked, inq, features>>
  BY DEF server_set_defaults
<1>3. DOMAIN pending_labels' = {} /\ DOMAIN active_batches' = {} /\ DOMAIN asked = {} /\ inq = <<>>
  BY <1>1, <1>2, EmptyDomain DEF Closed
<1>4. TypeOK'
  <2>1. /\ pending_labels' \in PartialFunctions(Label, PendingType)
        /\ active_batches' \in PartialFunctions(Label, ActiveType)
    BY <1>2, EmptyTable
  <2>2. connected' \in BOOLEAN /\ stale_sweep_timer' \in BOOLEAN /\ due' \in BOOLEAN BY <1>2
  <2> QED BY <1>1, <1>2, <2>1, <2>2 DEF TypeOK, PendingType, ActiveType
<1>5. OwnEntries' BY <1>3 DEF OwnEntries
<1>6. Numbered' BY <1>1, <1>2, <1>3 DEF Numbered
<1>7. Closed' BY <1>2 DEF Closed
<1>8. Idle' BY <1>2, <1>3 DEF Idle
<1>9. Tables' BY <1>8, IdleTables, PTL
<1>10. "late" \notin features => Dimmed' /\ Once'
  <2> SUFFICES ASSUME "late" \notin features PROVE Dimmed' /\ Once' OBVIOUS
  <2>1. Dimmed /\ Once BY DEF IInv, Timely
  <2>2. \A l : ~IsMessage(l)
    <3>1. 1..Len(inq) = {} BY <1>3
    <3> QED BY <1>3, <3>1 DEF IsMessage, Coming
  <2>3. Dimmed' BY <1>2, <2>1, <2>2 DEF Dimmed, Never
  <2>4. Once' BY <1>2, <2>1 DEF Once, Never, NoneShownTwice
  <2> QED BY <2>3, <2>4
<1> QED BY <1>2, <1>4, <1>5, <1>6, <1>7, <1>9, <1>10 DEF IInv, Timely

(* A closed tab shows nothing; its messages are answered all the same. *)
LEMMA CloseKeeps == ASSUME IInv, session_free PROVE IInv'
<1>1. TypeOK /\ OwnEntries /\ Numbered /\ Closed BY DEF IInv
<1>2. /\ sess' = FALSE /\ screen' = [l \in Label |-> Nothing]
      /\ UNCHANGED <<connected, label_counter, pending_labels, active_batches,
                     stale_sweep_timer, due, asked, inq, features>>
  BY DEF session_free
<1>3. screen' \in [Label -> [shown: Nat, dim: BOOLEAN]]
      /\ \A l \in Label : ~screen'[l].dim /\ screen'[l].shown = 0
  <2> DEFINE off == FALSE
  <2>1. Nothing = [shown |-> 0, dim |-> off] /\ ~off /\ off \in BOOLEAN BY DEF Nothing
  <2> HIDE DEF off
  <2>2. Nothing.shown = 0 /\ Nothing.dim = off /\ Nothing \in [shown: Nat, dim: BOOLEAN] BY <2>1
  <2> QED BY <1>2, <2>1, <2>2
<1>4. TypeOK'
  <2>1. sess' \in BOOLEAN BY <1>2
  <2> QED BY <1>1, <1>2, <1>3, <2>1 DEF TypeOK
<1>5. OwnEntries' /\ Closed' BY <1>1, <1>2 DEF OwnEntries, Closed
<1>6. Numbered' BY <1>1, <1>2, <1>3 DEF Numbered
<1>7. Dimmed' /\ Once' BY <1>3 DEF Dimmed, Once, NoneShownTwice
<1>8. "late" \notin features => Tables'
  <2> SUFFICES ASSUME "late" \notin features PROVE Tables' OBVIOUS
  <2>1. Tables BY DEF IInv, Timely
  <2>2. \A l : Coming(l)' <=> Coming(l) BY <1>2 DEF Coming
  <2>3. \A l : IsMessage(l)' <=> IsMessage(l) BY <1>2, <2>2 DEF IsMessage, Repeats
  <2>4. Unanswered' /\ Fresh' /\ Unwrapped' /\ HasEntry'
    BY <1>2, <2>1, <2>2, <2>3 DEF Tables, Unanswered, Fresh, Unwrapped, HasEntry, Never
  <2>5. Ordered' BY <1>2, <2>1 DEF Tables, Ordered, Opens
  <2> QED BY <2>4, <2>5 DEF Tables
<1> QED BY <1>2, <1>4, <1>5, <1>6, <1>7, <1>8 DEF IInv, Timely
-----------------------------------------------------------------------------
(* The server. *)

(* What it answers to a label of kind k. *)
AnswerTo(l, k, lines) ==
    /\ lines \in Seq(Line) /\ Len(lines) \in 1..3
    /\ \A i \in 1..Len(lines) : lines[i].label = l
    /\ lines[1].cmd \in {"echo", "ack", "start"}
    /\ Len(lines) > 1 => lines[1].cmd = "start" /\ lines[2].cmd = "batched"
    /\ Len(lines) > 2 => lines[3].cmd = "end"
    /\ IF k = "command"
       THEN lines[1].cmd = "ack" \/ (lines[1].cmd = "start" /\ lines[1].type = "chathistory")
       ELSE /\ lines[1].cmd = "echo" \/ (lines[1].cmd = "start" /\ lines[1].type # "chathistory")
            /\ lines[Len(lines)].cmd \in {"echo", "end"}
    /\ "wrapped" \notin features /\ lines[1].cmd = "start" => lines[1].type # "labeled-response"

LEMMA AnswersFacts ==
    ASSUME NEW l \in Label, asked[l] \in Kind, NEW lines \in Answers(l)
    PROVE  AnswerTo(l, asked[l], lines)
<1> DEFINE echo == [cmd |-> "echo", label |-> l]
           ack == [cmd |-> "ack", label |-> l]
           start(T) == [cmd |-> "start", label |-> l, type |-> T]
           batched == [cmd |-> "batched", label |-> l]
           end == [cmd |-> "end", label |-> l]
<1>1. /\ echo \in Line /\ ack \in Line /\ batched \in Line /\ end \in Line
      /\ \A T \in BatchType : start(T) \in Line
  BY DEF Line
<1>2. /\ echo.label = l /\ ack.label = l /\ batched.label = l /\ end.label = l
      /\ \A T : start(T).label = l /\ start(T).cmd = "start" /\ start(T).type = T
      /\ echo.cmd = "echo" /\ ack.cmd = "ack" /\ batched.cmd = "batched" /\ end.cmd = "end"
  OBVIOUS
<1>3. \A T : Batch(l, T) = <<start(T), batched, end>> BY DEF Batch
<1>4. \/ asked[l] = "say" /\ lines = <<echo>>
      \/ asked[l] = "say" /\ "wrapped" \in features /\ lines = Batch(l, "labeled-response")
      \/ asked[l] = "paste" /\ lines = Batch(l, "draft/multiline")
      \/ asked[l] = "command" /\ lines = <<ack>>
      \/ asked[l] = "command" /\ lines = Batch(l, "chathistory")
      \/ asked[l] = "command" /\ lines = SubSeq(Batch(l, "chathistory"), 1, 2)
  BY DEF Answers, Kind
<1> HIDE DEF echo, ack, start, batched, end, Line
<1> DEFINE history == <<start("chathistory"), batched, end>>
           cut == SubSeq(history, 1, 2)
<1>5. cut \in Seq(Line) /\ Len(cut) = 2 /\ cut[1] = start("chathistory") /\ cut[2] = batched
  <2>1. "chathistory" \in BatchType BY DEF BatchType
  <2>2. history[1] = start("chathistory") /\ history[2] = batched OBVIOUS
  <2> HIDE DEF history
  <2>3. \A i \in 1..2 : i = 1 \/ i = 2 OBVIOUS
  <2>4. \A i \in 1..2 : history[i] \in Line BY <1>1, <2>1, <2>2, <2>3
  <2>5. cut \in Seq(Line) /\ Len(cut) = 2 /\ \A i \in 1..2 : cut[i] = history[i]
    BY <2>4, SubSeqProperties
  <2> QED BY <2>2, <2>5
<1> HIDE DEF cut
<1>6. CASE lines = <<echo>> /\ asked[l] = "say"
  BY <1>1, <1>2, <1>6 DEF AnswerTo
<1>7. CASE lines = <<ack>> /\ asked[l] = "command"
  BY <1>1, <1>2, <1>7 DEF AnswerTo
<1>8. CASE lines = cut /\ asked[l] = "command"
  <2>1. /\ lines \in Seq(Line) /\ Len(lines) = 2 /\ asked[l] = "command"
        /\ lines[1].label = l /\ lines[2].label = l
        /\ lines[1].cmd = "start" /\ lines[2].cmd = "batched" /\ lines[1].type = "chathistory"
    <3> HIDE DEF history
    <3> QED BY <1>2, <1>5, <1>8
  <2>2. \A i \in 1..2 : i = 1 \/ i = 2 OBVIOUS
  <2>3. \A i \in 1..Len(lines) : lines[i].label = l BY <2>1, <2>2
  <2> HIDE DEF history
  <2> QED BY <2>1, <2>3 DEF AnswerTo
<1>9. ASSUME NEW T \in BatchType, lines = <<start(T), batched, end>>,
             (T = "chathistory") <=> (asked[l] = "command"),
             T = "labeled-response" => "wrapped" \in features
      PROVE  AnswerTo(l, asked[l], lines)
  <2>1. lines \in Seq(Line) /\ Len(lines) = 3 /\ lines[1] = start(T) /\ lines[2] = batched
        /\ lines[3] = end
    BY <1>1, <1>9
  <2>2. \A i \in 1..3 : i = 1 \/ i = 2 \/ i = 3 OBVIOUS
  <2> QED BY <1>2, <1>9, <2>1, <2>2 DEF AnswerTo
<1>10. "labeled-response" \in BatchType /\ "draft/multiline" \in BatchType
       /\ "chathistory" \in BatchType
  BY DEF BatchType
<1> QED BY <1>3, <1>4, <1>6, <1>7, <1>8, <1>9, <1>10 DEF cut

(* One answer, or none: the lines that are added, and the label. *)
Answered(l, lines) ==
    /\ connected /\ l \in DOMAIN asked /\ l \in Label /\ asked[l] \in Kind
    /\ \/ AnswerTo(l, asked[l], lines)
       \/ Len(lines) = 0 /\ (asked[l] = "command" \/ "silent" \in features)
    /\ lines \in Seq(Line) /\ inq' \in Seq(Line) /\ Len(inq') = Len(inq) + Len(lines)
    /\ \A i \in 1..Len(inq) : inq'[i] = inq[i]
    /\ \A i \in 1..Len(lines) : inq'[Len(inq) + i] = lines[i]
    /\ DOMAIN asked' = DOMAIN asked \ {l} /\ \A m \in DOMAIN asked' : asked'[m] = asked[m]
    /\ asked' \in PartialFunctions(Label, Kind)
    /\ UNCHANGED <<connected, label_counter, pending_labels, active_batches,
                   stale_sweep_timer, due, sess, screen, features>>

LEMMA AnswersAreAnswered == ASSUME TypeOK, ServerAnswers PROVE \E l, lines : Answered(l, lines)
<1>1. PICK l \in DOMAIN asked :
        /\ \/ \E lines \in Answers(l) : inq' = inq \o lines
           \/ (asked[l] = "command" \/ "silent" \in features) /\ inq' = inq
        /\ asked' = Without(asked, {l})
  BY DEF ServerAnswers
<1>2. /\ connected
      /\ UNCHANGED <<connected, label_counter, pending_labels, active_batches,
                     stale_sweep_timer, due, sess, screen, features>>
  BY DEF ServerAnswers
<1>3. asked \in PartialFunctions(Label, Kind) /\ l \in Label /\ asked[l] \in Kind /\ inq \in Seq(Line)
  <2>1. inq \in Seq(Line) BY DEF TypeOK
  <2> QED BY <2>1, Types
<1>4. /\ DOMAIN asked' = DOMAIN asked \ {l} /\ \A m \in DOMAIN asked' : asked'[m] = asked[m]
      /\ asked' \in PartialFunctions(Label, Kind)
  <2> DEFINE w == Without(asked, {l})
  <2>1. /\ DOMAIN w = DOMAIN asked \ {l} /\ \A m \in DOMAIN w : w[m] = asked[m]
        /\ w \in PartialFunctions(Label, Kind)
    <3>1. /\ DOMAIN Without(asked, {l}) = DOMAIN asked \ {l}
          /\ \A m \in DOMAIN asked \ {l} : Without(asked, {l})[m] = asked[m]
      BY WithoutFacts, Zenon
    <3>2. Without(asked, {l}) \in PartialFunctions(Label, Kind)
      <4> HIDE DEF Label, Kind
      <4> QED BY <1>3, WithoutFacts, Zenon
    <3> QED BY <3>1, <3>2
  <2>2. asked' = w BY <1>1
  <2> QED BY <2>1, <2>2
<1>5. CASE \E lines \in Answers(l) : inq' = inq \o lines
  <2>1. PICK lines \in Answers(l) : inq' = inq \o lines BY <1>5
  <2>2. AnswerTo(l, asked[l], lines) BY <1>3, AnswersFacts
  <2>3. lines \in Seq(Line) BY <2>2 DEF AnswerTo
  <2>4. /\ inq' \in Seq(Line) /\ Len(inq') = Len(inq) + Len(lines)
        /\ \A i \in 1..Len(inq) : inq'[i] = inq[i]
        /\ \A i \in 1..Len(lines) : inq'[Len(inq) + i] = lines[i]
    <3> DEFINE c == inq \o lines
    <3> HIDE DEF Line
    <3>1. /\ c \in Seq(Line) /\ Len(c) = Len(inq) + Len(lines)
          /\ \A i \in 1..Len(c) : c[i] = IF i <= Len(inq) THEN inq[i] ELSE lines[i - Len(inq)]
      BY <1>3, <2>3, ConcatProperties
    <3>2. inq' = c BY <2>1
    <3> HIDE DEF c
    <3>3. Len(inq) \in Nat /\ Len(lines) \in Nat BY <1>3, <2>3
    <3>4. ASSUME NEW i \in 1..Len(inq) PROVE c[i] = inq[i]
      <4>1. i \in 1..Len(c) /\ i <= Len(inq) BY <3>1, <3>3
      <4> QED BY <3>1, <4>1
    <3>5. ASSUME NEW i \in 1..Len(lines) PROVE c[Len(inq) + i] = lines[i]
      <4>1. /\ Len(inq) + i \in 1..Len(c) /\ ~(Len(inq) + i <= Len(inq))
            /\ (Len(inq) + i) - Len(inq) = i
        BY <3>1, <3>3
      <4> QED BY <3>1, <4>1
    <3> QED BY <3>1, <3>2, <3>4, <3>5
  <2>5. Answered(l, lines) BY <1>2, <1>3, <1>4, <2>2, <2>3, <2>4 DEF Answered
  <2> QED BY <2>5
<1>6. CASE (asked[l] = "command" \/ "silent" \in features) /\ inq' = inq
  <2> DEFINE none == <<>>
  <2>1. none \in Seq(Line) /\ Len(none) = 0 /\ 1..Len(none) = {} OBVIOUS
  <2> HIDE DEF none
  <2>2. Len(inq') = Len(inq) + Len(none) BY <1>3, <1>6, <2>1
  <2>3. Answered(l, none) BY <1>2, <1>3, <1>4, <1>6, <2>1, <2>2 DEF Answered
  <2> QED BY <2>3
<1> QED BY <1>1, <1>5, <1>6

(* The lines that are under way already stay; the new ones are behind them. *)
LEMMA AnswerLines ==
    ASSUME NEW l, NEW lines, inq \in Seq(Line), Answered(l, lines)
    PROVE  /\ Len(inq) \in Nat
           /\ \A i \in 1..Len(inq) : i \in 1..Len(inq') /\ inq'[i] = inq[i]
           /\ \A i \in 1..Len(inq') : i <= Len(inq) => i \in 1..Len(inq)
           /\ \A i \in 1..Len(inq') : i > Len(inq) =>
                /\ inq'[i].label = l
                /\ inq'[i].cmd \in {"echo", "ack", "start"} => i = Len(inq) + 1
                /\ inq'[i].cmd = "batched" =>
                     i - 1 > Len(inq) /\ inq'[i - 1].cmd = "start" /\ inq'[i - 1].label = l
                /\ inq'[i].cmd = "end" =>
                     i - 1 > Len(inq) /\ inq'[i - 1].cmd = "batched" /\ inq'[i - 1].label = l
                /\ Repeats(i)' => asked[l] # "command"
                /\ inq'[i].cmd = "start" /\ "wrapped" \notin features
                     => inq'[i].type # "labeled-response"
           /\ asked[l] # "command" /\ "silent" \notin features =>
                /\ \E i \in 1..Len(inq') : inq'[i].label = l /\ Repeats(i)'
                /\ \E i \in 1..Len(inq') : inq'[i].label = l /\ Closes(i)'
<1> DEFINE n == Len(inq)  k == Len(lines)  m == Len(inq')
<1>1. n \in Nat /\ k \in Nat /\ m = n + k BY DEF Answered
<1>2. /\ \A i \in 1..n : inq'[i] = inq[i]
      /\ \A i \in 1..k : inq'[n + i] = lines[i]
      /\ AnswerTo(l, asked[l], lines) \/ (k = 0 /\ (asked[l] = "command" \/ "silent" \in features))
  BY DEF Answered
<1> HIDE DEF n, m, k
<1>3. \A i \in 1..n : i \in 1..m /\ inq'[i] = inq[i] BY <1>1, <1>2
<1>4. \A i \in 1..m : i <= n => i \in 1..n BY <1>1
<1>5. \A i \in 1..m : i > n => i - n \in 1..k /\ inq'[i] = lines[i - n]
  <2> SUFFICES ASSUME NEW i \in 1..m, i > n PROVE i - n \in 1..k /\ inq'[i] = lines[i - n] OBVIOUS
  <2>1. i - n \in 1..k /\ n + (i - n) = i BY <1>1
  <2> QED BY <1>2, <2>1
<1>6. CASE k = 0
  <2>1. \A i \in 1..m : ~(i > n) BY <1>1, <1>6
  <2>2. ~AnswerTo(l, asked[l], lines) BY <1>6 DEF AnswerTo, k
  <2> QED BY <1>1, <1>2, <1>3, <1>4, <2>1, <2>2 DEF n, m
<1>7. CASE AnswerTo(l, asked[l], lines)
  <2>1. /\ k \in 1..3 /\ \A i \in 1..k : lines[i].label = l
        /\ lines[1].cmd \in {"echo", "ack", "start"}
        /\ k > 1 => lines[1].cmd = "start" /\ lines[2].cmd = "batched"
        /\ k > 2 => lines[3].cmd = "end"
        /\ asked[l] = "command" =>
             lines[1].cmd = "ack" \/ (lines[1].cmd = "start" /\ lines[1].type = "chathistory")
        /\ asked[l] # "command" =>
             /\ lines[1].cmd = "echo" \/ (lines[1].cmd = "start" /\ lines[1].type # "chathistory")
             /\ lines[k].cmd \in {"echo", "end"}
        /\ "wrapped" \notin features /\ lines[1].cmd = "start" => lines[1].type # "labeled-response"
    BY <1>7 DEF AnswerTo, k
  <2>2. 1 \in 1..k /\ k \in 1..k /\ n + 1 \in 1..m /\ n + k = m BY <1>1, <2>1
  <2>3. inq'[n + 1] = lines[1] /\ inq'[m] = lines[k] BY <1>2, <2>2
  <2>4. ASSUME NEW i \in 1..m, i > n
        PROVE  /\ inq'[i].label = l
               /\ inq'[i].cmd \in {"echo", "ack", "start"} => i = n + 1
               /\ inq'[i].cmd = "batched" =>
                    i - 1 > n /\ inq'[i - 1].cmd = "start" /\ inq'[i - 1].label = l
               /\ inq'[i].cmd = "end" =>
                    i - 1 > n /\ inq'[i - 1].cmd = "batched" /\ inq'[i - 1].label = l
    <3>1. i - n \in 1..k /\ inq'[i] = lines[i - n] BY <1>5, <2>4
    <3>2. inq'[i].label = l BY <2>1, <3>1
    <3>3. CASE i = n + 1
      <4>1. inq'[i].cmd \in {"echo", "ack", "start"} BY <2>1, <2>3, <3>3
      <4> QED BY <3>2, <3>3, <4>1
    <3>4. CASE i = n + 2
      <4>1. i - n = 2 /\ k > 1 /\ i - 1 > n /\ i - 1 = n + 1 BY <1>1, <2>1, <3>1, <3>4
      <4>2. inq'[i].cmd = "batched" BY <2>1, <3>1, <4>1
      <4>3. inq'[i - 1] = lines[1] BY <2>3, <4>1
      <4>4. inq'[i - 1].cmd = "start" /\ inq'[i - 1].label = l BY <2>1, <2>2, <4>1, <4>3
      <4> QED BY <3>2, <4>1, <4>2, <4>4
    <3>5. CASE i = n + 3
      <4>1. i - n = 3 /\ k > 2 /\ k > 1 /\ i - 1 > n /\ i - 1 \in 1..m /\ (i - 1) - n = 2
        BY <1>1, <2>1, <3>1, <3>5
      <4>2. inq'[i].cmd = "end" BY <2>1, <3>1, <4>1
      <4>3. 2 \in 1..k /\ inq'[i - 1] = lines[2] BY <1>5, <4>1
      <4>4. inq'[i - 1].cmd = "batched" /\ inq'[i - 1].label = l BY <2>1, <4>1, <4>3
      <4> QED BY <3>2, <4>1, <4>2, <4>4
    <3> QED BY <1>1, <2>1, <3>1, <3>3, <3>4, <3>5
  <2>5. ASSUME NEW i \in 1..m, i > n
        PROVE  /\ Repeats(i)' => asked[l] # "command"
               /\ inq'[i].cmd = "start" /\ "wrapped" \notin features
                    => inq'[i].type # "labeled-response"
    <3>1. CASE i = n + 1
      <4>1. inq'[i] = lines[1] BY <2>3, <3>1
      <4> QED BY <2>1, <4>1 DEF Repeats
    <3>2. CASE i # n + 1
      <4>1. inq'[i].cmd \notin {"echo", "ack", "start"} BY <2>4, <2>5, <3>2
      <4> QED BY <4>1 DEF Repeats
    <3> QED BY <3>1, <3>2
  <2>6. ASSUME asked[l] # "command"
        PROVE  /\ \E i \in 1..m : inq'[i].label = l /\ Repeats(i)'
               /\ \E i \in 1..m : inq'[i].label = l /\ Closes(i)'
    <3>1. m \in 1..m BY <1>1, <2>1
    <3>2. ASSUME NEW i \in 1..m, i = n + 1 PROVE inq'[i].label = l /\ Repeats(i)'
      BY <2>1, <2>2, <2>3, <2>6, <3>2 DEF Repeats
    <3>3. ASSUME NEW i \in 1..m, i = m PROVE inq'[i].label = l /\ Closes(i)'
      BY <2>1, <2>2, <2>3, <2>6, <3>3 DEF Closes
    <3> QED BY <2>2, <3>1, <3>2, <3>3
  <2> QED BY <1>1, <1>3, <1>4, <2>4, <2>5, <2>6 DEF n, m
<1> QED BY <1>2, <1>6, <1>7

(* An answer follows everything else, and takes the label it answers. *)
LEMMA AnswerKeeps == ASSUME IInv, ServerAnswers PROVE IInv'
<1>1. TypeOK /\ OwnEntries /\ Numbered /\ Closed BY DEF IInv
<1>2. PICK l, lines : Answered(l, lines) BY <1>1, AnswersAreAnswered
<1>3. inq \in Seq(Line) BY <1>1 DEF TypeOK
<1>4. /\ connected /\ l \in DOMAIN asked /\ l \in Label
      /\ inq' \in Seq(Line)
      /\ DOMAIN asked' = DOMAIN asked \ {l} /\ \A m \in DOMAIN asked' : asked'[m] = asked[m]
      /\ asked' \in PartialFunctions(Label, Kind)
      /\ UNCHANGED <<connected, label_counter, pending_labels, active_batches,
                     stale_sweep_timer, due, sess, screen, features>>
  BY <1>2 DEF Answered
<1> DEFINE n == Len(inq)  m == Len(inq')
<1>5. /\ n \in Nat
      /\ \A i \in 1..n : i \in 1..m /\ inq'[i] = inq[i]
      /\ \A i \in 1..m : i <= n => i \in 1..n
      /\ \A i \in 1..m : i > n =>
           /\ inq'[i].label = l
           /\ inq'[i].cmd \in {"echo", "ack", "start"} => i = n + 1
           /\ inq'[i].cmd = "batched" =>
                i - 1 > n /\ inq'[i - 1].cmd = "start" /\ inq'[i - 1].label = l
           /\ inq'[i].cmd = "end" =>
                i - 1 > n /\ inq'[i - 1].cmd = "batched" /\ inq'[i - 1].label = l
           /\ Repeats(i)' => asked[l] # "command"
           /\ inq'[i].cmd = "start" /\ "wrapped" \notin features
                => inq'[i].type # "labeled-response"
      /\ asked[l] # "command" /\ "silent" \notin features =>
           /\ \E i \in 1..m : inq'[i].label = l /\ Repeats(i)'
           /\ \E i \in 1..m : inq'[i].label = l /\ Closes(i)'
  BY <1>2, <1>3, AnswerLines
<1>6. TypeOK' BY <1>1, <1>4 DEF TypeOK
<1>7. OwnEntries' BY <1>1, <1>4 DEF OwnEntries
<1>8. m \in Nat BY <1>4
<1>9. Numbered'
  <2>1. l < label_counter BY <1>1, <1>4 DEF Numbered
  <2>2. ASSUME NEW i \in 1..m PROVE inq'[i].label < label_counter
    <3>1. CASE i <= n BY <1>1, <1>5, <3>1 DEF Numbered
    <3>2. CASE i > n BY <1>5, <2>1, <3>2
    <3> QED BY <1>5, <3>1, <3>2
  <2> QED BY <1>1, <1>4, <2>2 DEF Numbered
<1>10. Closed' BY <1>4 DEF Closed
<1>11. ASSUME "late" \notin features PROVE Timely'
  <2>1. Unanswered /\ Ordered /\ Fresh /\ Unwrapped /\ HasEntry /\ Dimmed /\ Once
    BY <1>11 DEF IInv, Timely, Tables
  <2>2. l \notin DOMAIN active_batches /\ \A i \in 1..n : inq[i].label # l
    BY <1>4, <2>1 DEF Unanswered, Coming
  <2>3. ASSUME NEW i \in 1..m, inq'[i].label # l PROVE i \in 1..n /\ inq'[i] = inq[i]
    <3>1. i <= n BY <1>5, <1>8, <2>3
    <3> QED BY <1>5, <3>1
  <2>4. ASSUME NEW k, k # l PROVE Coming(k)' <=> Coming(k)
    <3>1. ASSUME NEW i \in 1..m, inq'[i].label = k PROVE i \in 1..n /\ inq[i].label = k
      BY <2>3, <2>4, <3>1
    <3>2. ASSUME NEW i \in 1..n, inq[i].label = k PROVE i \in 1..m /\ inq'[i].label = k
      BY <1>5, <3>2
    <3> QED BY <3>1, <3>2 DEF Coming
  <2>5. ~Coming(l) BY <2>2 DEF Coming
  <2>6. ASSUME NEW k, k # l PROVE IsMessage(k)' <=> IsMessage(k)
    <3>1. ASSUME NEW i \in 1..m, inq'[i].label = k, Repeats(i)'
          PROVE  i \in 1..n /\ inq[i].label = k /\ Repeats(i)
      <4>1. i \in 1..n /\ inq'[i] = inq[i] BY <2>3, <2>6, <3>1
      <4> QED BY <3>1, <4>1 DEF Repeats
    <3>2. ASSUME NEW i \in 1..n, inq[i].label = k, Repeats(i)
          PROVE  i \in 1..m /\ inq'[i].label = k /\ Repeats(i)'
      <4>1. i \in 1..m /\ inq'[i] = inq[i] BY <1>5
      <4> QED BY <3>2, <4>1 DEF Repeats
    <3>3. (\E i \in 1..m : inq'[i].label = k /\ Repeats(i)')
            <=> \E i \in 1..n : inq[i].label = k /\ Repeats(i)
      BY <3>1, <3>2
    <3>4. Coming(k)' <=> Coming(k) BY <2>4, <2>6
    <3>5. k \in DOMAIN asked' /\ asked'[k] # "command" <=> k \in DOMAIN asked /\ asked[k] # "command"
      BY <1>4, <2>6
    <3>6. active_batches' = active_batches BY <1>4
    <3> QED BY <3>3, <3>4, <3>5, <3>6 DEF IsMessage
  <2>7. IsMessage(l)' => asked[l] # "command"
    <3>1. l \notin DOMAIN asked' /\ l \notin DOMAIN active_batches' BY <1>4, <2>2
    <3>2. ASSUME NEW i \in 1..m, inq'[i].label = l, Repeats(i)' PROVE asked[l] # "command"
      <4>1. ~(i \in 1..n) BY <1>5, <2>2, <3>2
      <4>2. i > n BY <1>5, <1>8, <4>1
      <4> QED BY <1>5, <3>2, <4>2
    <3> QED BY <3>1, <3>2 DEF IsMessage
  <2>8. IsMessage(l) <=> asked[l] # "command"
    BY <1>4, <2>2 DEF IsMessage
  <2>9. \A k : IsMessage(k)' => IsMessage(k) BY <2>6, <2>7, <2>8
  <2>10. Unanswered' BY <1>4, <2>1, <2>4 DEF Unanswered
  <2>11. Fresh'
    <3>1. \A k \in DOMAIN active_batches : Coming(k)' => Coming(k) BY <2>2, <2>4
    <3> QED BY <1>4, <2>1, <2>9, <3>1 DEF Fresh
  <2>12. HasEntry' BY <1>4, <2>1, <2>9 DEF HasEntry, Never
  <2>13. Unwrapped'
    <3> SUFFICES ASSUME "wrapped" \notin features
                 PROVE  \A i \in 1..m : inq'[i].cmd = "start" => inq'[i].type # "labeled-response"
      BY <1>4, <2>1 DEF Unwrapped
    <3>1. ASSUME NEW i \in 1..m, inq'[i].cmd = "start" PROVE inq'[i].type # "labeled-response"
      <4>1. CASE i > n BY <1>5, <3>1, <4>1
      <4>2. CASE ~(i > n)
        <5>1. i \in 1..n /\ inq'[i] = inq[i] BY <1>5, <1>8, <4>2
        <5> QED BY <2>1, <3>1, <5>1 DEF Unwrapped
      <4> QED BY <4>1, <4>2
    <3> QED BY <3>1
  <2>14. Ordered'
    <3>1. ASSUME NEW i \in 1..m, i > n
          PROVE  Opens(i)' => i = n + 1
      BY <1>5, <3>1 DEF Opens
    <3>2. ASSUME NEW i \in 1..n PROVE i \in 1..m /\ inq'[i] = inq[i] /\ (Opens(i)' <=> Opens(i))
      BY <1>5 DEF Opens
    <3>3. ASSUME NEW i \in 1..m PROVE i \in 1..n \/ i > n BY <1>5, <1>8
    <3>4. ASSUME NEW i \in 1..m, NEW j \in 1..m, Opens(i)', Opens(j)', inq'[i].label = inq'[j].label
          PROVE  i = j
      <4>1. CASE inq'[i].label = l
        <5>1. i > n /\ j > n BY <2>2, <3>2, <3>3, <3>4, <4>1
        <5> QED BY <3>1, <3>4, <5>1
      <4>2. CASE inq'[i].label # l
        <5>1. i \in 1..n /\ j \in 1..n BY <2>3, <3>4, <4>2
        <5>2. Opens(i) /\ Opens(j) /\ inq[i].label = inq[j].label BY <3>2, <3>4, <5>1
        <5> QED BY <2>1, <5>1, <5>2 DEF Ordered
      <4> QED BY <4>1, <4>2
    <3>5. ASSUME NEW i \in 1..m, Opens(i)' PROVE inq'[i].label \notin DOMAIN active_batches
      <4>1. CASE i > n BY <1>5, <2>2, <4>1
      <4>2. CASE i \in 1..n BY <2>1, <3>2, <3>5, <4>2 DEF Ordered
      <4> QED BY <3>3, <4>1, <4>2
    <3>6. ASSUME NEW i \in 1..m, inq'[i].cmd = "batched"
          PROVE  IF i = 1 THEN inq'[i].label \in DOMAIN active_batches
                 ELSE inq'[i - 1].cmd = "start" /\ inq'[i - 1].label = inq'[i].label
      <4>1. CASE i > n
        <5>1. inq'[i].label = l /\ i - 1 > n /\ inq'[i - 1].cmd = "start" /\ inq'[i - 1].label = l
          BY <1>5, <3>6, <4>1
        <5>2. i # 1 BY <1>5, <5>1
        <5> QED BY <5>1, <5>2
      <4>2. CASE i \in 1..n
        <5>1. inq'[i] = inq[i] BY <3>2, <4>2
        <5>2. CASE i = 1 BY <2>1, <3>6, <4>2, <5>1, <5>2 DEF Ordered
        <5>3. CASE i # 1
          <6>1. i - 1 \in 1..n BY <1>5, <4>2, <5>3
          <6>2. inq'[i - 1] = inq[i - 1] BY <3>2, <6>1
          <6> QED BY <2>1, <3>6, <4>2, <5>1, <5>3, <6>2 DEF Ordered
        <5> QED BY <5>2, <5>3
      <4> QED BY <3>3, <4>1, <4>2
    <3>7. ASSUME NEW i \in 1..m, inq'[i].cmd = "end"
          PROVE  IF i = 1 THEN inq'[i].label \in DOMAIN active_batches
                 ELSE inq'[i - 1].cmd = "batched" /\ inq'[i - 1].label = inq'[i].label
      <4>1. CASE i > n
        <5>1. inq'[i].label = l /\ i - 1 > n /\ inq'[i - 1].cmd = "batched" /\ inq'[i - 1].label = l
          BY <1>5, <3>7, <4>1
        <5>2. i # 1 BY <1>5, <5>1
        <5> QED BY <5>1, <5>2
      <4>2. CASE i \in 1..n
        <5>1. inq'[i] = inq[i] BY <3>2, <4>2
        <5>2. CASE i = 1 BY <2>1, <3>7, <4>2, <5>1, <5>2 DEF Ordered
        <5>3. CASE i # 1
          <6>1. i - 1 \in 1..n BY <1>5, <4>2, <5>3
          <6>2. inq'[i - 1] = inq[i - 1] BY <3>2, <6>1
          <6> QED BY <2>1, <3>7, <4>2, <5>1, <5>3, <6>2 DEF Ordered
        <5> QED BY <5>2, <5>3
      <4> QED BY <3>3, <4>1, <4>2
    <3>8. active_batches' = active_batches BY <1>4
    <3> QED BY <3>4, <3>5, <3>6, <3>7, <3>8 DEF Ordered
  <2>15. Dimmed'
    <3> SUFFICES ASSUME Never({"silent", "hook"}), NEW k \in Label, screen[k].dim
                 PROVE  /\ IsMessage(k)' /\ pending_labels[k].entry # NoEntry
                        /\ k \in DOMAIN asked' \/ \E i \in 1..m : inq'[i].label = k /\ Closes(i)'
      BY <1>4 DEF Dimmed, Never
    <3>1. /\ IsMessage(k) /\ pending_labels[k].entry # NoEntry
          /\ k \in DOMAIN asked \/ \E i \in 1..n : inq[i].label = k /\ Closes(i)
      BY <2>1 DEF Dimmed
    <3>2. CASE k = l
      <4>1. asked[l] # "command" /\ "silent" \notin features BY <2>8, <3>1, <3>2 DEF Never
      <4>2. /\ \E i \in 1..m : inq'[i].label = l /\ Repeats(i)'
            /\ \E i \in 1..m : inq'[i].label = l /\ Closes(i)'
        BY <1>5, <4>1
      <4>3. IsMessage(l)' BY <4>2 DEF IsMessage
      <4> QED BY <3>1, <3>2, <4>2, <4>3
    <3>3. CASE k # l
      <4>1. IsMessage(k)' BY <2>6, <3>1, <3>3
      <4>2. k \in DOMAIN asked => k \in DOMAIN asked' BY <1>4, <3>3
      <4>3. ASSUME NEW i \in 1..n, inq[i].label = k, Closes(i)
            PROVE  i \in 1..m /\ inq'[i].label = k /\ Closes(i)'
        <5>1. i \in 1..m /\ inq'[i] = inq[i] BY <1>5
        <5> QED BY <4>3, <5>1 DEF Closes
      <4> QED BY <3>1, <4>1, <4>2, <4>3
    <3> QED BY <3>2, <3>3
  <2>16. Once' BY <1>4, <2>1 DEF Once, Never, NoneShownTwice
  <2> QED BY <2>10, <2>11, <2>12, <2>13, <2>14, <2>15, <2>16 DEF Timely, Tables
<1> QED BY <1>4, <1>6, <1>7, <1>9, <1>10, <1>11 DEF IInv

-----------------------------------------------------------------------------
(* All steps together, and what follows. *)

LEMMA NextKeeps == IInv /\ [Next]_vars => IInv'
<1> SUFFICES ASSUME IInv, [Next]_vars PROVE IInv' OBVIOUS
<1>1. TypeOK BY DEF IInv
<1>2. CASE SendCommand \/ handle_say \/ handle_multiline_batch
  <2>1. PICK kinds, marked : Sent(kinds, marked) BY <1>1, <1>2, SendsAreSent
  <2> QED BY <2>1, SentKeeps
<1>3. CASE Read
  <2>1. PICK l \in Label, gone \in BOOLEAN : Heard(l, gone) BY <1>1, <1>3, ReadIsHeard
  <2> QED BY <2>1, HeardKeeps
<1>4. CASE UNCHANGED vars
  <2>1. UNCHANGED <<connected, label_counter, pending_labels, active_batches, stale_sweep_timer,
                    due, sess, screen, asked, inq, features>>
    BY <1>4 DEF vars
  <2>2. TypeOK' BY <1>1, <2>1 DEF TypeOK
  <2>3. OwnEntries' /\ Numbered' /\ Closed' BY <2>1 DEF IInv, OwnEntries, Numbered, Closed
  <2>4. \A l : (Coming(l)' <=> Coming(l)) /\ (IsMessage(l)' <=> IsMessage(l))
    BY <2>1 DEF IsMessage, Repeats, Coming
  <2>5. Unanswered /\ Fresh /\ HasEntry => Unanswered' /\ Fresh' /\ HasEntry'
    BY <2>1, <2>4 DEF Unanswered, Fresh, HasEntry, Never
  <2>6. Ordered /\ Unwrapped => Ordered' /\ Unwrapped' BY <2>1 DEF Ordered, Unwrapped, Opens
  <2>7. Dimmed => Dimmed' BY <2>1, <2>4 DEF Dimmed, Never, Closes
  <2>8. Once => Once' BY <2>1 DEF Once, Never, NoneShownTwice
  <2> QED BY <2>1, <2>2, <2>3, <2>5, <2>6, <2>7, <2>8 DEF IInv, Timely, Tables
<1> QED BY <1>2, <1>3, <1>4, SweepKeeps, TickKeeps, CleanupKeeps, DefaultsKeep, CloseKeeps,
           AnswerKeeps DEF Next

(* The tables, the lines under way and the screen fit together in every    *)
(* state: one answer to a label, nothing swept while it is on its way, an  *)
(* entry for every message, and a line to come for every dimmed entry.     *)
THEOREM Invariant == Spec => []IInv
BY InitIInv, NextKeeps, PTL DEF Spec

(* Every variable has its type: tables are keyed by labels that were given *)
(* out, and ages stop one past the timeouts (pending_labels,               *)
(* active_batches of struct server).                                       *)
THEOREM TypeCorrect == Spec => []TypeOK
<1>1. IInv => TypeOK BY DEF IInv
<1> QED BY <1>1, Invariant, PTL

(* A message of ours has one entry, from the send to the answer: its echo  *)
(* confirms the entry and is not shown again, and an entry that is dimmed  *)
(* has a label that will brighten it (mark_pending_echo, echo_confirmed of *)
(* inbound_chanmsg, echo_suppressed of inbound_batch_end).                 *)
THEOREM AlwaysOneEntry == Spec => []OneEntry
<1>1. IInv => OneEntry
  <2> SUFFICES ASSUME IInv PROVE OneEntry OBVIOUS
  <2>1. ShownOnce
    <3> SUFFICES ASSUME Never({"late", "wrapped", "split", "hook"}) PROVE NoneShownTwice
      BY DEF ShownOnce
    <3>1. "late" \notin features /\ Never({"wrapped", "hook", "split"}) BY DEF Never
    <3> QED BY <3>1 DEF IInv, Timely, Once
  <2>2. DimmedIsPending
    <3> SUFFICES ASSUME Never({"silent", "late", "hook"}), NEW l \in Label, screen[l].dim
                 PROVE  l \in DOMAIN pending_labels
      BY DEF DimmedIsPending
    <3>1. "late" \notin features /\ Never({"silent", "hook"}) BY DEF Never
    <3>2. IsMessage(l) BY <3>1 DEF IInv, Timely, Dimmed
    <3> QED BY <3>1, <3>2 DEF IInv, Timely, Tables, Fresh
  <2> QED BY <2>1, <2>2 DEF OneEntry
<1> QED BY <1>1, Invariant, PTL

(* One step brightens an entry only by the answer to its own label. *)
LEMMA BrightenedByItsOwn ==
    ASSUME IInv, [Next]_vars, NEW m \in Label, screen[m].dim, ~screen'[m].dim, connected', sess',
           Never({"hook"})
    PROVE  m \in DOMAIN pending_labels \ DOMAIN pending_labels'
<1>1. TypeOK /\ OwnEntries /\ Numbered BY DEF IInv
<1>2. CASE SendCommand \/ handle_say \/ handle_multiline_batch
  <2>1. PICK kinds, marked : Sent(kinds, marked) BY <1>1, <1>2, SendsAreSent
  <2>2. PICK new : new = Labelled(kinds) OBVIOUS
  <2>3. new \subseteq Label /\ \A l \in new : l >= label_counter /\ l < label_counter'
    BY <1>1, <2>1, <2>2, SentFacts, Zenon
  <2>4. label_counter \in Nat /\ m < label_counter /\ m \in Nat
    BY <1>1 DEF Numbered, TypeOK, Label
  <2>5. m \notin new BY <2>3, <2>4
  <2>6. screen'[m] = screen[m] BY <2>1, <2>2, <2>5 DEF Sent, show_pending
  <2> QED BY <2>6
<1>3. CASE Read
  <2>1. PICK l \in Label, gone \in BOOLEAN : Heard(l, gone) BY <1>1, <1>3, ReadIsHeard
  <2>2. gone /\ l \in DOMAIN pending_labels /\ pending_labels[l].entry = m
    BY <2>1 DEF Heard, ScreenChange
  <2>3. "hook" \notin features BY DEF Never
  <2>4. m # NoEntry BY DEF Label, NoEntry
  <2>5. m = l BY <1>1, <2>2, <2>3, <2>4 DEF OwnEntries
  <2>6. pending_labels' = Without(pending_labels, {l}) BY <2>1, <2>2 DEF Heard
  <2>7. DOMAIN pending_labels' = DOMAIN pending_labels \ {l} BY <2>6, WithoutDomain
  <2> QED BY <2>2, <2>5, <2>7
<1>4. CASE server_cleanup BY <1>4 DEF server_cleanup
<1>5. CASE session_free BY <1>5 DEF session_free
<1>6. CASE stale_sweep_cb \/ server_set_defaults \/ Tick \/ ServerAnswers \/ UNCHANGED vars
  <2>1. screen' = screen
    BY <1>6 DEF stale_sweep_cb, server_set_defaults, Tick, ServerAnswers, vars
  <2> QED BY <2>1
<1> QED BY <1>2, <1>3, <1>4, <1>5, <1>6 DEF Next

(* An entry is brightened by the answer to its own message, or by the end  *)
(* of the connection or of the tab: no other label leads to it, also when  *)
(* one paste takes several labels (fe_confirm_entry, mark_pending_echo).   *)
THEOREM AlwaysConfirmedByItsAnswer == Spec => ConfirmedByItsAnswer
<1> DEFINE A == \A l \in Label :
                  screen[l].dim /\ ~screen'[l].dim /\ connected' /\ sess' /\ Never({"hook"})
                  => l \in DOMAIN pending_labels \ DOMAIN pending_labels'
<1>1. IInv /\ [Next]_vars => A BY BrightenedByItsOwn
<1>2. IInv /\ [Next]_vars => [A]_vars BY <1>1
<1> HIDE DEF A
<1>3. Spec => [][A]_vars BY <1>2, Invariant, PTL DEF Spec
<1> QED BY <1>3 DEF ConfirmedByItsAnswer, A
=============================================================================
