------------------------------- MODULE Labels -------------------------------
(***************************************************************************)
(* labeled-response and batch on one server (src/common/server.c,          *)
(* inbound.c, proto-irc.c, outbound.c): what the client sends carries a    *)
(* label, its own messages are shown at once as pending entries, and the   *)
(* labelled echo confirms the entry instead of being shown again.  Labels  *)
(* and batches that are never finished are swept by a timer.               *)
(*                                                                         *)
(* A label stands for the message it was sent with.  The connection has    *)
(* echo-message, labeled-response, batch and multiline (Tier 2).           *)
(***************************************************************************)
EXTENDS Integers, Sequences, Functions

CONSTANTS Scenarios,     \* sets of features, see AllFeatures
          LabelTimeout,  \* STALE_LABEL_TIMEOUT in sweep intervals
          BatchTimeout,  \* STALE_BATCH_TIMEOUT in sweep intervals
          MaxLabels      \* bound: labels generated in one behaviour

(* "silent": a message is never answered.  "late": an answer comes after   *)
(* its label was swept.  "wrapped": the echo of a message comes in a       *)
(* labeled-response batch, because it was not the only response.           *)
(* "split": a paste is longer than one multiline batch may be.  "hook": a  *)
(* plugin's callback for the text event of a message sends a command.      *)
AllFeatures == {"silent", "late", "wrapped", "split", "hook"}

ASSUME ScenariosAssumption == Scenarios \subseteq SUBSET AllFeatures
ASSUME TimeoutsAssumption == LabelTimeout \in Nat /\ BatchTimeout \in Nat
ASSUME MaxLabelsAssumption == MaxLabels \in Nat

VARIABLES
    connected,
    label_counter,     \* the number of the next label
    pending_labels,    \* label -> when it was sent, and whose text its entry shows
    active_batches,    \* id -> type, when it started, messages collected
    stale_sweep_timer, \* the sweep timer is installed
    due,               \* and its interval is over
    sess,              \* the session the messages are shown in is still open
    screen,            \* label -> how often its text is shown, and if dimmed
    asked,             \* labels the server has not answered: label -> kind
    inq,               \* the lines on their way to the client
    features           \* what can happen in this behaviour, chosen at its start

vars == <<connected, label_counter, pending_labels, active_batches, stale_sweep_timer,
          due, sess, screen, asked, inq, features>>

Label == 0..(MaxLabels - 1)

(* "say" is a PRIVMSG, "paste" a draft/multiline batch, "command" anything *)
(* else that is sent with tcp_sendf_labeled_tracked.                       *)
Kind == {"say", "paste", "command"}

BatchType == {"labeled-response", "chathistory", "draft/multiline"}

(* The batch types whose messages are collected. *)
Deferred == {"chathistory", "draft/multiline"}

(* What the server sends: a labelled echo or ACK, or a batch whose start   *)
(* has the label, with one line that repeats the message (or history).     *)
Line == [cmd: {"echo", "ack", "batched", "end"}, label: Label]
        \cup [cmd: {"start"}, label: Label, type: BatchType]

NoEntry == -1    \* entry_id 0

PartialFunctions(S, T) == UNION {[D -> T] : D \in SUBSET S}

TypeOK ==
    /\ connected \in BOOLEAN /\ label_counter \in 0..MaxLabels
    /\ pending_labels \in PartialFunctions(Label, [age: 0..(LabelTimeout + 1), entry: Label \cup {NoEntry}])
    /\ active_batches \in
         PartialFunctions(Label, [type: BatchType, age: 0..(BatchTimeout + 1), messages: BOOLEAN])
    /\ stale_sweep_timer \in BOOLEAN /\ due \in BOOLEAN /\ sess \in BOOLEAN
    /\ screen \in [Label -> [shown: Nat, dim: BOOLEAN]]
    /\ asked \in PartialFunctions(Label, Kind)
    /\ inq \in Seq(Line) /\ features \in Scenarios

Nothing == [shown |-> 0, dim |-> FALSE]
Empty == [l \in {} |-> 0]

Init ==
    /\ connected = TRUE /\ label_counter = 0
    /\ pending_labels = Empty /\ active_batches = Empty
    /\ stale_sweep_timer = FALSE /\ due = FALSE /\ sess = TRUE
    /\ screen = [l \in Label |-> Nothing]
    /\ asked = Empty /\ inq = <<>> /\ features \in Scenarios

-----------------------------------------------------------------------------
(* Sending.  A handler of outbound.c sends, shows and marks in one go. *)

With(f, S, v) == [l \in DOMAIN f \cup S |-> IF l \in S THEN v ELSE f[l]]
Without(f, S) == Restrict(f, DOMAIN f \ S)

server_ensure_stale_sweep_timer == stale_sweep_timer' = TRUE

Labelled(kinds) == label_counter..(label_counter + Len(kinds) - 1)

(* Not in the code: the number is taken twice. *)
send_labels_Skips(kinds) ==
    /\ connected /\ label_counter + Len(kinds) <= MaxLabels
    /\ label_counter' = label_counter + Len(kinds) + 1
    /\ asked' = [l \in DOMAIN asked \cup Labelled(kinds) |->
                   IF l < label_counter THEN asked[l] ELSE kinds[l - label_counter + 1]]
    /\ server_ensure_stale_sweep_timer
    /\ UNCHANGED <<connected, active_batches, due, sess, inq, features>>

(* tcp_sendf_labeled_tracked and its variants, once for each of kinds. *)
send_labels(kinds) ==
    /\ connected /\ label_counter + Len(kinds) <= MaxLabels
    /\ label_counter' = label_counter + Len(kinds)
    /\ asked' = [l \in DOMAIN asked \cup Labelled(kinds) |->
                   IF l < label_counter THEN asked[l] ELSE kinds[l - label_counter + 1]]
    /\ server_ensure_stale_sweep_timer
    /\ UNCHANGED <<connected, active_batches, due, sess, inq, features>>

(* The labels' records; the one that is marked has the entry of the first. *)
track(kinds, marked) ==
    pending_labels' =
      [l \in DOMAIN pending_labels \cup Labelled(kinds) |->
         IF l < label_counter THEN pending_labels[l]
         ELSE [age |-> 0, entry |-> IF l = marked THEN label_counter ELSE NoEntry]]

SendCommand == send_labels(<<"command">>) /\ track(<<"command">>, NoEntry) /\ UNCHANGED screen

(* Not in the code: the label of the last line that was sent is marked. *)
mark_pending_echo_Last(hooked, kinds) == label_counter + Len(kinds) - 1

(* last_sent_label when the text is on the screen: the message's own, or   *)
(* that of the command that a hook has sent meanwhile.                     *)
mark_pending_echo(hooked, kinds) == label_counter + Len(hooked)

(* The text is shown at once, the first label's entry is dimmed. *)
show_pending(kinds) ==
    screen' = [l \in Label |->
                 IF l \in Labelled(kinds) /\ kinds[l - label_counter + 1] # "command"
                 THEN [shown |-> 1, dim |-> l = label_counter] ELSE screen[l]]

(* A first line, what hooks send while it is shown, and the other batches. *)
SendShown(first, others) ==
    \E hooked \in {<<>>} \cup (IF "hook" \in features THEN {<<"command">>} ELSE {}) :
      LET kinds == <<first>> \o hooked \o others
      IN /\ sess /\ send_labels(kinds)
         /\ track(kinds, mark_pending_echo(hooked, kinds)) /\ show_pending(kinds)

handle_say == SendShown("say", <<>>)

(* One entry for all the batches that the lines need. *)
handle_multiline_batch ==
    \/ SendShown("paste", <<>>)
    \/ "split" \in features /\ SendShown("paste", <<"paste">>)

-----------------------------------------------------------------------------
(* Reading. *)

ReadAny(cmd) ==
    /\ connected /\ inq # <<>> /\ Head(inq).cmd = cmd
    /\ inq' = Tail(inq)
    /\ UNCHANGED <<connected, label_counter, sess, asked, features>>

(* inbound_chanmsg of a message of ours. *)
Shown(l) == IF sess THEN [screen EXCEPT ![l].shown = @ + 1] ELSE screen

(* The label is answered. *)
forget(l) == pending_labels' = Without(pending_labels, {l})

(* Not in the code: for an entry whose session is closed. *)
Confirmed_Inverted(scr, l) ==
    IF l \in DOMAIN pending_labels /\ pending_labels[l].entry # NoEntry /\ ~sess
    THEN [scr EXCEPT ![pending_labels[l].entry].dim = FALSE] ELSE scr

(* fe_confirm_entry, for an entry whose session is still open. *)
Confirmed(scr, l) ==
    IF l \in DOMAIN pending_labels /\ pending_labels[l].entry # NoEntry /\ sess
    THEN [scr EXCEPT ![pending_labels[l].entry].dim = FALSE] ELSE scr

(* The echo is only shown if its label is not pending. *)
ReadEcho_AlwaysShown ==
    /\ ReadAny("echo")
    /\ LET l == Head(inq).label IN forget(l) /\ screen' = Confirmed(Shown(l), l)
    /\ UNCHANGED <<active_batches, stale_sweep_timer, due>>

ReadEcho ==
    /\ ReadAny("echo")
    /\ LET l == Head(inq).label
       IN /\ forget(l)
          /\ screen' = IF l \in DOMAIN pending_labels THEN Confirmed(screen, l) ELSE Shown(l)
    /\ UNCHANGED <<active_batches, stale_sweep_timer, due>>

ReadAck ==
    /\ ReadAny("ack")
    /\ LET l == Head(inq).label IN forget(l) /\ screen' = Confirmed(screen, l)
    /\ UNCHANGED <<active_batches, stale_sweep_timer, due>>

new_batch(line) ==
    With(active_batches, {line.label},
         [type |-> line.type, age |-> 0, messages |-> FALSE])

inbound_batch_start_NoTimer ==
    /\ ReadAny("start")
    /\ active_batches' = new_batch(Head(inq))
    /\ UNCHANGED <<pending_labels, screen, stale_sweep_timer, due>>

(* The label stays pending until the end of the batch.  A batch is named   *)
(* by its label, so that no id is open twice.                              *)
inbound_batch_start ==
    /\ ReadAny("start")
    /\ active_batches' = new_batch(Head(inq))
    /\ server_ensure_stale_sweep_timer
    /\ UNCHANGED <<pending_labels, screen, due>>

(* A line of an unknown batch, or of a type that is not collected, is an   *)
(* ordinary message, and it has no label of its own.                       *)
inbound_batch_add_message ==
    /\ ReadAny("batched")
    /\ LET l == Head(inq).label
           collected == l \in DOMAIN active_batches /\ active_batches[l].type \in Deferred
       IN \/ /\ collected
             /\ active_batches' = [active_batches EXCEPT ![l].messages = TRUE]
             /\ UNCHANGED screen
          \/ ~collected /\ screen' = Shown(l) /\ UNCHANGED active_batches
    /\ UNCHANGED <<pending_labels, stale_sweep_timer, due>>

(* A multiline batch is shown unless it is the echo of a pending entry. *)
batch_shown(l) ==
    LET b == active_batches[l]
        suppressed == l \in DOMAIN pending_labels /\ pending_labels[l].entry # NoEntry
    IN IF b.type = "draft/multiline" /\ b.messages /\ ~suppressed THEN Shown(l) ELSE screen

inbound_batch_end ==
    /\ ReadAny("end")
    /\ LET l == Head(inq).label
       IN \/ /\ l \in DOMAIN active_batches
             /\ screen' = Confirmed(batch_shown(l), l)
             /\ forget(l)
             /\ active_batches' = Without(active_batches, {l})
          \/ /\ l \notin DOMAIN active_batches
             /\ UNCHANGED <<screen, pending_labels, active_batches>>
    /\ UNCHANGED <<stale_sweep_timer, due>>

Read == \/ ReadEcho \/ ReadAck \/ inbound_batch_start \/ inbound_batch_add_message
        \/ inbound_batch_end

-----------------------------------------------------------------------------
(* The sweep, and the end of the connection. *)

stale_labels == {l \in DOMAIN pending_labels : pending_labels[l].age > LabelTimeout}
stale_batches == {l \in DOMAIN active_batches : active_batches[l].age > BatchTimeout}

stale_sweep_cb_StopsForBatches ==
    /\ due /\ due' = FALSE
    /\ pending_labels' = Without(pending_labels, stale_labels \cup stale_batches)
    /\ active_batches' = Without(active_batches, stale_batches)
    /\ stale_sweep_timer' = (DOMAIN pending_labels \ stale_labels # {})
    /\ UNCHANGED <<connected, label_counter, sess, screen, asked, inq, features>>

(* The timer goes on if labels or batches were left when each was counted; *)
(* a stale batch takes its label with it after the labels were counted.    *)
stale_sweep_cb ==
    /\ due /\ due' = FALSE
    /\ pending_labels' = Without(pending_labels, stale_labels \cup stale_batches)
    /\ active_batches' = Without(active_batches, stale_batches)
    /\ stale_sweep_timer' = (\/ DOMAIN pending_labels \ stale_labels # {}
                             \/ DOMAIN active_batches \ stale_batches # {})
    /\ UNCHANGED <<connected, label_counter, sess, screen, asked, inq, features>>

(* server_cleanup of a connected server: entries stop waiting as well. *)
server_cleanup ==
    /\ connected /\ connected' = FALSE
    /\ pending_labels' = Empty /\ active_batches' = Empty
    /\ stale_sweep_timer' = FALSE /\ due' = FALSE
    /\ screen' = IF sess THEN [l \in Label |-> [screen[l] EXCEPT !.dim = FALSE]] ELSE screen
    /\ asked' = Empty /\ inq' = <<>>
    /\ UNCHANGED <<label_counter, sess, features>>

server_set_defaults ==
    /\ ~connected /\ connected' = TRUE
    /\ pending_labels' = Empty /\ active_batches' = Empty
    /\ stale_sweep_timer' = FALSE /\ due' = FALSE
    /\ UNCHANGED <<label_counter, sess, screen, asked, inq, features>>

(* The tab is closed, and what it showed is gone. *)
session_free ==
    /\ sess /\ sess' = FALSE
    /\ screen' = [l \in Label |-> Nothing]
    /\ UNCHANGED <<connected, label_counter, pending_labels, active_batches,
                   stale_sweep_timer, due, asked, inq, features>>

-----------------------------------------------------------------------------
(* The clock and the server (external). *)

Older(f, cap) == [l \in DOMAIN f |-> [f[l] EXCEPT !.age = IF @ > cap THEN @ ELSE @ + 1]]

(* One sweep interval passes.  Without "late" the server and the client    *)
(* are faster than the timeouts.                                           *)
Tick ==
    /\ ~due
    /\ \/ "late" \in features
       \/ inq = <<>> /\ \A l \in DOMAIN asked : asked[l] = "command"
    /\ due' = stale_sweep_timer
    /\ pending_labels' = Older(pending_labels, LabelTimeout)
    /\ active_batches' = Older(active_batches, BatchTimeout)
    /\ UNCHANGED <<connected, label_counter, stale_sweep_timer, sess, screen, asked, inq,
                   features>>

Batch(l, type) == <<[cmd |-> "start", label |-> l, type |-> type],
                    [cmd |-> "batched", label |-> l], [cmd |-> "end", label |-> l]>>

Answers(l) ==
    CASE asked[l] = "say" ->
            {<<[cmd |-> "echo", label |-> l]>>}
            \cup (IF "wrapped" \in features THEN {Batch(l, "labeled-response")} ELSE {})
      [] asked[l] = "paste" -> {Batch(l, "draft/multiline")}
      [] asked[l] = "command" -> {<<[cmd |-> "ack", label |-> l]>>, Batch(l, "chathistory"),
                                  SubSeq(Batch(l, "chathistory"), 1, 2)}

(* A command may always stay without an answer, or its batch without an    *)
(* end; a message only with "silent".                                      *)
ServerAnswers ==
    /\ connected
    /\ \E l \in DOMAIN asked :
         /\ \/ \E lines \in Answers(l) : inq' = inq \o lines
            \/ (asked[l] = "command" \/ "silent" \in features) /\ inq' = inq
         /\ asked' = Without(asked, {l})
    /\ UNCHANGED <<connected, label_counter, pending_labels, active_batches,
                   stale_sweep_timer, due, sess, screen, features>>

-----------------------------------------------------------------------------
Next == \/ SendCommand \/ handle_say \/ handle_multiline_batch \/ Read
        \/ stale_sweep_cb \/ server_cleanup \/ server_set_defaults \/ session_free
        \/ Tick \/ ServerAnswers

Spec == Init /\ [][Next]_vars

(* Time passes and the main loop runs the timers that are due. *)
FairSpec == Spec /\ WF_vars(Tick) /\ WF_vars(stale_sweep_cb)

-----------------------------------------------------------------------------
(* Properties. *)

(* Whenever a label or a batch is open the sweep timer is installed: every *)
(* way to open one, and every sweep that leaves one, keeps it running      *)
(* (server_ensure_stale_sweep_timer, stale_sweep_cb).                      *)
SweepArmed ==
    DOMAIN pending_labels # {} \/ DOMAIN active_batches # {} => stale_sweep_timer

(* None of S can happen in this behaviour. *)
Never(S) == features \cap S = {}

NoneShownTwice == \A l \in Label : screen[l].shown <= 1

(* A message of ours is shown once: its echo, with a label or in a batch,  *)
(* confirms the entry that is there (echo_confirmed, echo_suppressed), if  *)
(* its label was not swept and is on the line or on a batch of its own,    *)
(* and no hook has taken the entry of a paste to another label.            *)
ShownOnce == Never({"late", "wrapped", "split", "hook"}) => NoneShownTwice

(* A dimmed entry has a pending label, so that an answer or the end of the *)
(* connection will still brighten it (mark_pending_echo, fe_confirm_entry, *)
(* fe_clear_all_pending), if the server answers before the sweep: an       *)
(* answer, a split paste or a closed tab never leaves one behind.  A hook  *)
(* that sends a command makes mark_pending_echo take the wrong label.      *)
DimmedIsPending ==
    Never({"silent", "late", "hook"}) => \A l \in Label : screen[l].dim => l \in DOMAIN pending_labels

(* The entry of a message stands for it, from the send to the answer: not  *)
(* doubled by the echo and not left dimmed (handle_say, inbound_chanmsg).  *)
OneEntry == ShownOnce /\ DimmedIsPending

(* An entry is brightened by the answer to its own message, or when the    *)
(* connection is lost or the tab closed, and by nothing else: no other     *)
(* label leads to it, also where one paste needs several.                  *)
ConfirmedByItsAnswer ==
    [][\A l \in Label :
         screen[l].dim /\ ~screen'[l].dim /\ connected' /\ sess' /\ Never({"hook"})
         => l \in DOMAIN pending_labels \ DOMAIN pending_labels']_vars

(* Every label and every batch goes away in the end, answered or not: the  *)
(* tables do not grow for ever.  ("late": the clock waits for nobody.)     *)
Drains ==
    \A l \in Label :
        "late" \in features /\ l \in DOMAIN pending_labels \cup DOMAIN active_batches
            ~> l \notin DOMAIN pending_labels \cup DOMAIN active_batches
=============================================================================
