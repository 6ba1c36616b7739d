---------------------------- MODULE DccTransfer ----------------------------
(***************************************************************************)
(* DCC SEND between two clients of this program (src/common/dcc.c): the    *)
(* offer over IRC, RESUME and ACCEPT, the TCP connection in either         *)
(* direction, blocks one way and 32-bit acknowledgements the other way,    *)
(* throttling, timeouts and aborts.                                        *)
(*                                                                         *)
(* The file has blocks 1..size.  Up to Offers transfers of it run at the   *)
(* same time, from different people, into the same download directory.     *)
(***************************************************************************)
EXTENDS Integers, Sequences

CONSTANTS Scenarios,  \* sets of features, see AllFeatures
          Offers,     \* bound: how many people offer the file
          Size,       \* blocks of the file
          Parts,      \* lengths of the part that may be there at the start
          AckMod,     \* 2^32 bytes, in blocks
          HugeSize,   \* blocks of a file above 4 GB
          SockBuf     \* how many blocks the sockets hold

(* "passive": the receiver listens.  "fastsend": the preference            *)
(* dcc_fast_send.  "resume": a part of the file is there and the user      *)
(* resumes.  "impatient": the user accepts after having resumed.           *)
(* "getnick": the user types /DCC GET nick, with automatic resuming off.   *)
(* "throttle": a speed limit is reached.  "abort": the user aborts.        *)
(* "stall": a timeout passes.  "diskfull": a write fails.  "pieces": an    *)
(* acknowledgement is read in two pieces.  "huge": the file is above 4 GB. *)
(* "twice": a second person offers the same file.                          *)
AllFeatures == {"passive", "fastsend", "resume", "impatient", "getnick", "throttle",
                "abort", "stall", "diskfull", "pieces", "huge", "twice"}

ASSUME ScenariosAssumption == Scenarios \subseteq SUBSET AllFeatures
ASSUME OffersAssumption == Offers \in Nat \ {0}
ASSUME SizesAssumption ==
    /\ Size \in Nat \ {0} /\ AckMod \in Nat \ {0} /\ HugeSize \in Nat \ {0}
    /\ Size < AckMod /\ AckMod <= HugeSize
ASSUME SockBufAssumption == SockBuf \in Nat \ {0}
ASSUME PartsAssumption == Parts \subseteq 0..Size

VARIABLES xfer,      \* the transfers: both ends and what is between them
          files,     \* the receiver's download directory: name -> blocks
          features   \* what can happen in this behaviour, chosen at its start

vars == <<xfer, files, features>>

Transfer == 1..Offers
Name == 0..Offers     \* the name offered, and its renamed forms file.1, file.2 ...

size == IF "huge" \in features THEN HugeSize ELSE Size
fast == "fastsend" \in features
passive == "passive" \in features
May(f) == f \in features
Never(S) == features \cap S = {}

Stat == {"NONE", "QUEUED", "CONNECTING", "ACTIVE", "DONE", "FAILED", "ABORTED", "REMOVED"}
Finished == {"DONE", "FAILED", "ABORTED"}

(* CTCP messages of the two clients. *)
ToReceiver == [cmd: {"SEND", "ACCEPT"}]
ToSender == [cmd: {"RESUME", "PASV"}, offset: Nat]

(* One transfer.  The sender's entry: stat, pos, ack, resumable, ackoffset, *)
(* throttled, and whether the write watch is installed; the receiver's:     *)
(* stat, pos, resumable, resume_sent, throttled, whether the file is open   *)
(* and under which name (began: it was opened once; history).  Then the     *)
(* sockets and what is on its way.                                          *)
TransferType ==
    [sstat: Stat, spos: 0..size, sack: Nat, sresumable: 0..size,
     ackoffset: BOOLEAN, sthrottled: BOOLEAN, wiotag: BOOLEAN,
     rstat: Stat, rpos: Nat, rresumable: 0..size, resume_sent: BOOLEAN,
     rthrottled: BOOLEAN, fp: BOOLEAN, began: BOOLEAN, destfile: Name,
     ssok: {"none", "syn", "open", "closed"}, rsok: {"none", "syn", "open", "closed"},
     reset: BOOLEAN, data: Seq(1..size), acks: Seq(0..(AckMod - 1)),
     toR: Seq(ToReceiver), toS: Seq(ToSender)]

TypeOK ==
    /\ xfer \in [Transfer -> TransferType]
    /\ DOMAIN files \subseteq Name /\ \A n \in DOMAIN files : files[n] \in Seq(1..size)
    /\ features \in Scenarios

NoTransfer ==
    [sstat |-> "NONE", spos |-> 0, sack |-> 0, sresumable |-> 0, ackoffset |-> FALSE,
     sthrottled |-> FALSE, wiotag |-> FALSE,
     rstat |-> "NONE", rpos |-> 0, rresumable |-> 0, resume_sent |-> FALSE,
     rthrottled |-> FALSE, fp |-> FALSE, began |-> FALSE, destfile |-> 0,
     ssok |-> "none", rsok |-> "none", reset |-> FALSE, data |-> <<>>, acks |-> <<>>,
     toR |-> <<>>, toS |-> <<>>]

(* A part of the file may be there from an earlier transfer. *)
Init ==
    /\ xfer = [t \in Transfer |-> NoTransfer]
    /\ \E k \in Parts : files = [n \in (IF k = 0 THEN {} ELSE {0}) |-> [i \in 1..k |-> i]]
    /\ features \in Scenarios

Step(t, x) == xfer' = [xfer EXCEPT ![t] = x] /\ UNCHANGED <<files, features>>

---------------------------------------------------------------------------
(* Closing.  A socket that is closed while it holds unread bytes, or that  *)
(* is written to after it was closed, resets the connection, and what the  *)
(* other end has not read yet may be lost.                                 *)

Gone(sok) == IF sok \in {"open", "syn"} THEN "closed" ELSE sok

dcc_close_sender(x, stat) ==
    [x EXCEPT !.sstat = stat, !.wiotag = FALSE, !.ssok = Gone(@), !.acks = <<>>,
              !.reset = @ \/ x.acks # <<>>]

dcc_close_receiver(x, stat) ==
    [x EXCEPT !.rstat = stat, !.fp = FALSE, !.rsok = Gone(@), !.data = <<>>,
              !.reset = @ \/ x.data # <<>>]

---------------------------------------------------------------------------
(* The sender's stream. *)

(* The watch of a sender that has sent everything is removed. *)
Sent(x, n, out) ==
    [x EXCEPT !.spos = @ + n, !.data = @ \o out, !.wiotag = fast /\ x.spos + n < size,
              !.reset = @ \/ (n > 0 /\ x.rsok = "closed")]

(* Not in the code: the end of the file is not noticed. *)
dcc_send_data_PastEnd(x) ==
    IF x.sthrottled THEN [x EXCEPT !.wiotag = FALSE]
    ELSE IF ~fast /\ x.sack < x.spos % AckMod THEN x
    ELSE IF x.rsok = "closed" THEN Sent(x, 1, <<>>)
    ELSE IF Len(x.data) < SockBuf THEN Sent(x, 1, <<x.spos + 1>>)
    ELSE Sent(x, 0, <<>>)

(* Not in the code: the watch is left when everything is sent. *)
dcc_send_data_KeepsWatch(x) ==
    IF x.sthrottled THEN [x EXCEPT !.wiotag = FALSE]
    ELSE IF ~fast /\ x.sack < x.spos % AckMod THEN x
    ELSE IF x.spos >= size THEN dcc_close_sender(x, "FAILED")
    ELSE IF x.rsok = "closed" THEN Sent(x, 1, <<>>)
    ELSE IF Len(x.data) < SockBuf THEN [Sent(x, 1, <<x.spos + 1>>) EXCEPT !.wiotag = fast]
    ELSE Sent(x, 0, <<>>)

dcc_send_data(x) ==
    IF x.sthrottled THEN [x EXCEPT !.wiotag = FALSE]
    ELSE IF ~fast /\ x.sack < x.spos % AckMod THEN x
    ELSE IF x.spos >= size THEN dcc_close_sender(x, "FAILED")  \* read: end of file
    ELSE IF x.rsok = "closed" THEN Sent(x, 1, <<>>)
    ELSE IF Len(x.data) < SockBuf THEN Sent(x, 1, <<x.spos + 1>>)
    ELSE Sent(x, 0, <<>>)

(* Not in the code: the file counts as received once it is all sent. *)
dcc_handle_new_ack_NoAckCheck(x, a) ==
    IF x.spos >= size
    THEN [dcc_close_sender(x, "DONE") EXCEPT !.sack = size]
    ELSE IF ~fast /\ a >= x.spos % AckMod THEN dcc_send_data([x EXCEPT !.sack = a])
    ELSE [x EXCEPT !.sack = a]

(* "fix for BitchX": an acknowledgement below the resume point counts from *)
(* there.  Only files that fit 32 bits have it.                            *)
dcc_handle_new_ack(x, a) ==
    LET small == size < AckMod
        offset == x.ackoffset \/ (small /\ a < x.sresumable)
        ack == IF small /\ offset THEN a + x.sresumable ELSE a
        y == [x EXCEPT !.ackoffset = offset, !.sack = ack]
        z == IF ~fast /\ ack >= x.spos % AckMod THEN dcc_send_data(y) ELSE y
    IN  IF x.spos >= size /\ ack >= size % AckMod
        THEN [dcc_close_sender(y, "DONE") EXCEPT !.sack = size]
        ELSE [z EXCEPT !.sack = (z.spos - (z.spos % AckMod)) + (ack % AckMod)]

dcc_write(t) ==
    /\ xfer[t].sstat = "ACTIVE" /\ xfer[t].wiotag
    /\ Step(t, dcc_send_data(xfer[t]))

(* recv always writes to the start of ack_buf, so what comes in two pieces *)
(* is some other number.                                                   *)
dcc_read_ack(t) ==
    /\ xfer[t].sstat = "ACTIVE" /\ xfer[t].acks # <<>>
    /\ \E a \in {Head(xfer[t].acks)} \cup (IF May("pieces") THEN 0..(AckMod - 1) ELSE {}) :
         Step(t, dcc_handle_new_ack([xfer[t] EXCEPT !.acks = Tail(@)], a))

(* The stream from the receiver ends, or a write fails. *)
ReceiverLeft(x) == x.rstat \in Finished \cup {"REMOVED"}
SenderError(t) ==
    LET x == xfer[t] IN
    /\ x.sstat = "ACTIVE"
    /\ x.reset \/ (x.acks = <<>> /\ ReceiverLeft(x))
    /\ Step(t, dcc_close_sender(x, "FAILED"))

---------------------------------------------------------------------------
(* The receiver's stream. *)

(* dcc_read opens the file when it is called first: to append to it when   *)
(* resumable is set, else under a name that does not exist yet.            *)
FreeName == CHOOSE n \in 1..(Offers + 1) :
              n \notin DOMAIN files /\ \A m \in 1..(n - 1) : m \in DOMAIN files

(* Not in the code: an existing file is written over. *)
Opened_Overwrites(x) ==
    IF x.fp THEN x
    ELSE [x EXCEPT !.fp = TRUE, !.began = TRUE, !.rpos = x.rresumable]

Opened(x) ==
    IF x.fp THEN x
    ELSE IF x.rresumable # 0 THEN [x EXCEPT !.fp = TRUE, !.began = TRUE, !.rpos = x.rresumable]
    ELSE [x EXCEPT !.fp = TRUE, !.began = TRUE, !.destfile = IF @ \in DOMAIN files THEN FreeName ELSE @]

(* The directory after file n was opened by x and blocks b were written to it. *)
Written(x, n, b) ==
    LET old == IF n \in DOMAIN files /\ (x.fp \/ x.rresumable # 0) THEN files[n] ELSE <<>>
    IN  [m \in DOMAIN files \cup {n} |-> IF m = n THEN old \o b ELSE files[m]]

SenderLeft(x) == x.sstat \in Finished \cup {"REMOVED"}

(* Not in the code: the bytes of this connection are counted. *)
dcc_send_ack_Relative(x) ==
    IF x.ssok = "closed" THEN [x EXCEPT !.reset = TRUE]
    ELSE [x EXCEPT !.acks = Append(@, (x.rpos - x.rresumable) % AckMod)]

dcc_send_ack(x) ==
    IF x.ssok = "closed" THEN [x EXCEPT !.reset = TRUE]
    ELSE [x EXCEPT !.acks = Append(@, x.rpos % AckMod)]

(* Not in the code: the last block is not waited for. *)
Complete_Early(x) == x.rpos + 1 >= size

Complete(x) == x.rpos >= size

(* The loop of dcc_read: the blocks that have come are written, one        *)
(* acknowledgement is sent when no more can be read, and the file is done  *)
(* when its size is reached.                                               *)
ReadBlocks(t, x) ==
    LET y == Opened(x) IN
    \E k \in 0..Len(x.data) :
      /\ k = 0 => x.data = <<>>
      /\ y.rpos + k <= size
      /\ LET z == [y EXCEPT !.rpos = @ + k, !.data = SubSeq(@, k + 1, Len(@))]
             a == IF k > 0 THEN dcc_send_ack(z) ELSE z
         IN  xfer' = [xfer EXCEPT ![t] =
                        IF k > 0 /\ Complete(z) THEN dcc_close_receiver(a, "DONE") ELSE a]
      /\ files' = Written(x, y.destfile, SubSeq(x.data, 1, k))
      /\ UNCHANGED features

(* The stream from the sender ends, or the disk is full. *)
ReadFails(t, x) ==
    /\ \/ x.reset \/ (x.data = <<>> /\ SenderLeft(x))
       \/ May("diskfull") /\ x.data # <<>>
    /\ xfer' = [xfer EXCEPT ![t] = dcc_close_receiver(Opened(x), "FAILED")]
    /\ files' = Written(x, Opened(x).destfile, <<>>)
    /\ UNCHANGED features

dcc_read(t) ==
    LET x == xfer[t] IN
    /\ x.rstat = "ACTIVE" /\ ~x.rthrottled
    /\ \/ x.data # <<>> /\ ReadBlocks(t, x)
       \/ ReadFails(t, x)

---------------------------------------------------------------------------
(* dcc_check_timeouts: the speed limits, and the two timeouts. *)

ThrottleSender(t) ==
    /\ May("throttle") /\ xfer[t].sstat = "ACTIVE" /\ ~xfer[t].sthrottled
    /\ Step(t, [xfer[t] EXCEPT !.sthrottled = TRUE])

ThrottleReceiver(t) ==
    /\ May("throttle") /\ xfer[t].rstat = "ACTIVE" /\ ~xfer[t].rthrottled
    /\ Step(t, [xfer[t] EXCEPT !.rthrottled = TRUE])

(* dcc_unthrottle calls dcc_send_data or dcc_read. *)
UnthrottleSender(t) ==
    /\ xfer[t].sstat = "ACTIVE" /\ xfer[t].sthrottled
    /\ Step(t, dcc_send_data([xfer[t] EXCEPT !.sthrottled = FALSE]))

UnthrottleReceiver(t) ==
    LET x == [xfer[t] EXCEPT !.rthrottled = FALSE] IN
    /\ xfer[t].rstat = "ACTIVE" /\ xfer[t].rthrottled
    /\ ReadBlocks(t, x) \/ ReadFails(t, x)

StallTimeout(t) ==
    LET x == xfer[t] IN
    /\ May("stall")
    /\ \/ x.sstat = "ACTIVE" /\ ~x.sthrottled /\ Step(t, dcc_close_sender(x, "ABORTED"))
       \/ x.rstat = "ACTIVE" /\ ~x.rthrottled /\ Step(t, dcc_close_receiver(x, "ABORTED"))

OfferTimeout(t) ==
    /\ May("stall") /\ xfer[t].sstat = "QUEUED"
    /\ Step(t, dcc_close_sender(xfer[t], "ABORTED"))

(* The user aborts a transfer, or removes a finished one from the list. *)
dcc_abort(t) ==
    LET x == xfer[t]
        To(stat) == IF stat \in Finished THEN "REMOVED" ELSE "ABORTED"
    IN  /\ May("abort")
        /\ \/ x.sstat \notin {"NONE", "REMOVED"} /\ Step(t, dcc_close_sender(x, To(x.sstat)))
           \/ x.rstat \notin {"NONE", "REMOVED"} /\ Step(t, dcc_close_receiver(x, To(x.rstat)))

---------------------------------------------------------------------------
(* Offering, resuming and connecting. *)

(* /DCC SEND and /DCC PSEND; only a listening offer has a socket. *)
dcc_send(t) ==
    /\ xfer[t] = NoTransfer
    /\ t > 1 => May("twice")
    /\ Step(t, [NoTransfer EXCEPT !.sstat = "QUEUED", !.toR = <<[cmd |-> "SEND"]>>])

(* The part that is there can be continued, unless a transfer that runs    *)
(* writes to it.                                                           *)
update_is_resumable(t, x) ==
    LET part == IF x.destfile \in DOMAIN files THEN Len(files[x.destfile]) ELSE 0
        busy == \E u \in Transfer \ {t} :
                  /\ xfer[u].rstat \in {"CONNECTING", "ACTIVE"}
                  /\ xfer[u].destfile = x.destfile
    IN  IF part = 0 \/ part >= size THEN [x EXCEPT !.rresumable = 0]
        ELSE IF busy THEN [x EXCEPT !.rresumable = 0, !.rpos = 0]
        ELSE [x EXCEPT !.rresumable = part, !.rpos = part]

dcc_connect_receiver(x) ==
    IF passive
    THEN [x EXCEPT !.rstat = "CONNECTING", !.toS = Append(@, [cmd |-> "PASV", offset |-> 0])]
    ELSE [x EXCEPT !.rstat = "CONNECTING", !.rsok = "syn"]

dcc_resume(t, x) ==
    LET y == update_is_resumable(t, x) IN
    IF y.rstat = "QUEUED" /\ y.rresumable # 0
    THEN [y EXCEPT !.resume_sent = TRUE,
                   !.toS = Append(@, [cmd |-> "RESUME", offset |-> y.rresumable])]
    ELSE y

(* The user resumes (with dcc_auto_resume, dcc_get does the same), once.   *)
Resume(t) ==
    /\ May("resume") /\ xfer[t].rstat = "QUEUED" /\ ~xfer[t].resume_sent
    /\ Step(t, dcc_resume(t, xfer[t]))

(* Not in the code: what dcc_add_file found is left. *)
dcc_get_KeepsResumable(t) ==
    /\ xfer[t].rstat = "QUEUED"
    /\ xfer[t].resume_sent => May("impatient")
    /\ Step(t, dcc_connect_receiver(xfer[t]))

(* The user accepts. *)
dcc_get(t) ==
    /\ xfer[t].rstat = "QUEUED"
    /\ xfer[t].resume_sent => May("impatient")
    /\ Step(t, dcc_connect_receiver([xfer[t] EXCEPT !.rresumable = 0, !.rpos = 0]))

(* /DCC GET nick: pos and ack are cleared, resumable is not. *)
dcc_get_nick(t) ==
    /\ May("getnick") /\ xfer[t].rstat = "QUEUED"
    /\ xfer[t].resume_sent => May("impatient")
    /\ Step(t, dcc_connect_receiver([update_is_resumable(t, xfer[t]) EXCEPT !.rpos = 0]))

(* The receiver handles a CTCP of the sender.  ACCEPT is looked up by port *)
(* only, which is 0 for every passive offer: the newest one is taken.      *)
Receives(t, cmd) == xfer[t].toR # <<>> /\ Head(xfer[t].toR).cmd = cmd

handle_dcc_send(t) ==
    /\ Receives(t, "SEND")
    /\ Step(t, update_is_resumable(t, [xfer[t] EXCEPT !.rstat = "QUEUED", !.toR = Tail(@)]))

Accepting(t) == {u \in Transfer : xfer[u].rstat = "QUEUED" /\ (u = t \/ passive)}

handle_dcc_accept(t) ==
    LET got == [xfer EXCEPT ![t].toR = Tail(@)] IN
    /\ Receives(t, "ACCEPT")
    /\ xfer' = IF Accepting(t) = {} THEN got
               ELSE LET u == CHOOSE v \in Accepting(t) : \A w \in Accepting(t) : w <= v
                    IN  [got EXCEPT ![u] = dcc_connect_receiver(@)]
    /\ UNCHANGED <<files, features>>

(* Not in the code: the offset is agreed to and not used. *)
handle_dcc_resume_KeepsPos(t) ==
    LET x == xfer[t] IN
    /\ x.toS # <<>> /\ Head(x.toS).cmd = "RESUME"
    /\ LET off == Head(x.toS).offset
           y == [x EXCEPT !.toS = Tail(@)]
       IN  Step(t, IF x.sstat = "REMOVED" THEN y
                   ELSE [y EXCEPT !.sresumable = off, !.toR = Append(@, [cmd |-> "ACCEPT"])])

(* The sender handles a RESUME.  An offer that is not queued any more is   *)
(* found by its name, whatever its state is.                               *)
handle_dcc_resume(t) ==
    LET x == xfer[t] IN
    /\ x.toS # <<>> /\ Head(x.toS).cmd = "RESUME"
    /\ LET off == Head(x.toS).offset
           y == [x EXCEPT !.toS = Tail(@)]
       IN  Step(t, IF x.sstat = "REMOVED" THEN y
                   ELSE IF off >= size THEN [y EXCEPT !.sresumable = off]
                   ELSE [y EXCEPT !.sresumable = off, !.spos = off, !.sack = off,
                                  !.toR = Append(@, [cmd |-> "ACCEPT"])])

(* It learns the address of a listening receiver and connects. *)
handle_dcc_pasv(t) ==
    LET x == xfer[t]
        y == [x EXCEPT !.toS = Tail(@)]
    IN  /\ x.toS # <<>> /\ Head(x.toS).cmd = "PASV"
        /\ Step(t, IF x.sstat = "QUEUED" THEN [y EXCEPT !.sstat = "CONNECTING", !.ssok = "syn"]
                   ELSE y)

(* The sender becomes active and sends its first block. *)
StartSending(x) ==
    dcc_send_data([x EXCEPT !.sstat = "ACTIVE", !.ssok = "open", !.wiotag = fast])

(* The end that listens: its watch fires when the other one has connected. *)
dcc_accept(t) ==
    LET x == xfer[t] IN
    \/ ~passive /\ x.sstat = "QUEUED" /\ x.rsok # "none" /\ Step(t, StartSending(x))
    \/ /\ passive /\ x.rstat = "CONNECTING" /\ x.ssok # "none"
       /\ Step(t, [x EXCEPT !.rstat = "ACTIVE", !.rsok = "open"])

(* The end that connects.  It succeeds when the other one listens or has   *)
(* accepted; else dcc_did_connect marks the transfer as failed.            *)
dcc_connect_finished(t) ==
    LET x == xfer[t]
        sender_there == x.sstat = "QUEUED" \/ x.ssok # "none"
        receiver_there == x.rstat = "CONNECTING" \/ x.rsok # "none"
    IN  \/ /\ ~passive /\ x.rstat = "CONNECTING"
           /\ Step(t, IF sender_there THEN [x EXCEPT !.rstat = "ACTIVE", !.rsok = "open"]
                      ELSE [x EXCEPT !.rstat = "FAILED"])
        \/ /\ passive /\ x.sstat = "CONNECTING"
           /\ Step(t, IF receiver_there THEN StartSending(x) ELSE [x EXCEPT !.sstat = "FAILED"])

---------------------------------------------------------------------------
(* What the programs and the network do by themselves. *)
Handlers(t) ==
    \/ handle_dcc_send(t) \/ handle_dcc_accept(t) \/ handle_dcc_resume(t) \/ handle_dcc_pasv(t)
    \/ dcc_accept(t) \/ dcc_connect_finished(t)

SenderSteps(t) == dcc_write(t) \/ dcc_read_ack(t) \/ SenderError(t) \/ UnthrottleSender(t)
ReceiverSteps(t) == dcc_read(t) \/ UnthrottleReceiver(t)

Next ==
    \E t \in Transfer :
      \/ Handlers(t) \/ SenderSteps(t) \/ ReceiverSteps(t)
      \/ ThrottleSender(t) \/ ThrottleReceiver(t) \/ StallTimeout(t) \/ OfferTimeout(t)
      \/ dcc_send(t) \/ Resume(t) \/ dcc_get(t) \/ dcc_get_nick(t) \/ dcc_abort(t)

Spec == Init /\ [][Next]_vars

(* Messages arrive, watches fire, a speed limit is not exceeded for ever.  *)
FairSpec ==
    Spec /\ \A t \in Transfer :
      /\ WF_vars(handle_dcc_send(t)) /\ WF_vars(handle_dcc_accept(t))
      /\ WF_vars(handle_dcc_resume(t)) /\ WF_vars(handle_dcc_pasv(t))
      /\ WF_vars(dcc_accept(t)) /\ WF_vars(dcc_connect_finished(t))
      /\ WF_vars(dcc_write(t)) /\ WF_vars(dcc_read_ack(t)) /\ WF_vars(UnthrottleSender(t))
      /\ WF_vars(dcc_read(t)) /\ WF_vars(UnthrottleReceiver(t))

---------------------------------------------------------------------------
(* Both ends agree on where the file starts: no accept crosses a resume    *)
(* request, and no second transfer resumes the same part.                  *)
Agreed == Never({"impatient", "getnick"}) /\ ~({"twice", "resume"} \subseteq features)

IsPart(b) == Len(b) <= size /\ \A i \in 1..Len(b) : b[i] = i

(* Whatever is interrupted, resumed, throttled or acknowledged late, every *)
(* file in the download directory is a beginning of the file offered: no   *)
(* block is missing, repeated or out of place (dcc_read, dcc_send_data and *)
(* the resume handshake of handle_dcc).                                    *)
InOrder == Agreed => \A n \in DOMAIN files : IsPart(files[n])

(* An acknowledgement says how much was received as long as it is read in  *)
(* one piece and the file fits 32 bits, or one block at a time is sent.    *)
ExactAcks ==
    /\ Agreed /\ Never({"pieces"})
    /\ ~({"huge", "fastsend"} \subseteq features) /\ ~({"huge", "throttle"} \subseteq features)

(* The sender reports a transfer as complete only if the receiver has      *)
(* written the last block (the "DCC complete check" of dcc_handle_new_ack).*)
DoneIsReceived ==
    ExactAcks => \A t \in Transfer :
      xfer[t].sstat = "DONE" => xfer[t].destfile \in DOMAIN files
                                /\ Len(files[xfer[t].destfile]) = size

(* The two ends agree with the files: what is written is a beginning, and  *)
(* what is reported done is whole.                                         *)
FilesAreRight == InOrder /\ DoneIsReceived

(* No transfer shortens a file that is in the download directory already:  *)
(* a new file gets a name of its own (dcc_read).                           *)
OnlyGrows ==
    \A n \in DOMAIN files :
      /\ n \in DOMAIN files' /\ Len(files'[n]) >= Len(files[n])
      /\ \A i \in 1..Len(files[n]) : files'[n][i] = files[n][i]

(* A sender that has sent everything waits for the last acknowledgement    *)
(* and fails only because of the other end or a reset connection, never by *)
(* its own reading past the end of the file (dcc_send_data removes its     *)
(* watch).  With fast sending, above 4 GB, or when an acknowledgement was  *)
(* misread (a late RESUME makes earlier ones count from its offset), the   *)
(* end of a throttling calls dcc_send_data again all the same.             *)
SentIsNotAborted ==
    \A t \in Transfer :
      /\ Never({"throttle"}) \/ (Agreed /\ Never({"fastsend", "huge", "pieces"}))
      /\ xfer[t].spos = size /\ xfer[t].sstat = "ACTIVE" /\ xfer'[t].sstat = "FAILED"
      => xfer[t].reset \/ ReceiverLeft(xfer[t])

(* No step undoes what was transferred, at either end. *)
NothingUndone == [][OnlyGrows /\ SentIsNotAborted]_vars

(* A transfer that was accepted is completed at both ends if nobody aborts *)
(* it and no timeout passes, however the speed limits come and go.         *)
Delivers ==
    \A t \in Transfer :
      (ExactAcks /\ Never({"abort", "stall", "diskfull"})
       /\ ~({"fastsend", "throttle"} \subseteq features) /\ xfer[t].rstat = "CONNECTING")
      ~> (xfer[t].rstat = "DONE" /\ xfer[t].sstat = "DONE")

---------------------------------------------------------------------------
(* The first transfer implements the abstract copy of a file, in the       *)
(* behaviours where both ends agree and acknowledgements are exact.        *)
Seen(v, idle) == IF ExactAcks THEN v ELSE idle
Side(stat) ==
    CASE stat = "DONE" -> "done"
      [] stat \in {"FAILED", "ABORTED"} -> "failed"
      [] stat = "REMOVED" -> "removed"
      [] OTHER -> "busy"

Copy == INSTANCE FileCopy WITH
    whole <- size,
    copy <- Seen(IF xfer[1].began THEN files[xfer[1].destfile] ELSE <<>>, <<>>),
    begun <- Seen(xfer[1].began, FALSE),
    receiver <- Seen(Side(xfer[1].rstat), "busy"),
    sender <- Seen(Side(xfer[1].sstat), "busy")

(* DccTransfer implements FileCopy. *)
CopiesFile == Copy!Spec
=============================================================================
