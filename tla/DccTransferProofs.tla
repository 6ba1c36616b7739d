------------------------- MODULE DccTransferProofs -------------------------
(***************************************************************************)
(* Proofs about DccTransfer for every number of transfers, every size of   *)
(* the file and of the sockets, and every set of features: an inductive    *)
(* invariant (IInv), what it says of the files in the download directory,  *)
(* that no step undoes what was transferred, and that the first transfer   *)
(* implements FileCopy.                                                    *)
(***************************************************************************)
EXTENDS DccTransfer, FiniteSetTheorems, SequenceTheorems, WellFoundedInduction, TLAPS

(* A set of numbers has a smallest one: < is well-founded on Nat. *)
LEMMA SmallestExists == ASSUME NEW T \in SUBSET Nat, T # {} PROVE \E x \in T : \A y \in T : x <= y
<1> DEFINE R == {ss \in Nat \X Nat : ss[1] < ss[2]}
<1>1. OpToRel(<, Nat) = R
  BY Zenon DEF OpToRel
<1>2. IsWellFoundedOn(R, Nat)
  BY <1>1, NatLessThanWellFounded, Zenon
<1>3. \A a, b \in Nat : a < b => <<a, b>> \in R
  <2> SUFFICES ASSUME NEW a \in Nat, NEW b \in Nat, a < b PROVE <<a, b>> \in R
    OBVIOUS
  <2>1. <<a, b>>[1] = a /\ <<a, b>>[2] = b OBVIOUS
  <2>2. <<a, b>> \in Nat \X Nat OBVIOUS
  <2> QED BY <2>1, <2>2
<1> HIDE DEF R
<1>4. PICK x \in T : \A y \in T : ~ (<<y, x>> \in R)
  BY <1>2, WFMin, Zenon
<1>5. ASSUME NEW y \in T, ~(x <= y) PROVE FALSE
  <2>1. x \in Nat /\ y \in Nat /\ y < x BY <1>5
  <2>2. <<y, x>> \in R BY <2>1, <1>3, Zenon
  <2> QED BY <1>4, <2>2, Zenon
<1> QED BY <1>5

(* A set of numbers up to n has a largest one: the one whose distance to   *)
(* n is smallest.                                                          *)
LEMMA LargestExists ==
  ASSUME NEW n \in Nat, NEW S \in SUBSET (1..n), S # {}
  PROVE  \E v \in S : \A w \in S : w <= v
<1> DEFINE T == {k \in Nat : n - k \in S}
<1>1. \A w \in S : n - w \in Nat /\ n - (n - w) = w
  <2> SUFFICES ASSUME NEW w \in S PROVE n - w \in Nat /\ n - (n - w) = w OBVIOUS
  <2>1. w \in 1..n OBVIOUS
  <2> QED BY <2>1
<1>2. \A w \in S : n - w \in T BY <1>1
<1>3. T \in SUBSET Nat /\ T # {} BY <1>2
<1>4. \A k \in T : k \in Nat /\ n - k \in S OBVIOUS
<1> HIDE DEF T
<1>5. PICK k \in T : \A j \in T : k <= j BY <1>3, SmallestExists, Zenon
<1>6. \A w \in S : w <= n - k
  <2> SUFFICES ASSUME NEW w \in S PROVE w <= n - k OBVIOUS
  <2>1. k <= n - w /\ w \in 1..n /\ k \in Nat BY <1>2, <1>4, <1>5
  <2> QED BY <2>1
<1> QED BY <1>4, <1>5, <1>6

(* What every transfer x satisfies, whatever the two ends agree on: a      *)
(* resume offset is inside of the file, the offer is the first message,    *)
(* a file is opened once and by a transfer that runs, nothing is on its    *)
(* way before the sender starts, and a sender's watch means that there is  *)
(* something left to send.                                                 *)
Basic(x) ==
    /\ x \in TransferType
    /\ \A i \in 1..Len(x.toS) : x.toS[i].offset < size
    /\ \A i \in 1..Len(x.toR) : x.toR[i].cmd = "SEND" => i = 1 /\ x.rstat = "NONE"
    /\ x.rstat \in {"NONE", "QUEUED", "CONNECTING"} => ~x.began
    /\ x.rstat = "ACTIVE" => x.fp = x.began
    /\ x.fp => x.began
    /\ ~x.began => x.destfile = 0
    /\ x.sstat \in {"NONE", "QUEUED", "CONNECTING"} =>
         x.data = <<>> /\ x.acks = <<>> /\ x.spos < size
    /\ x.wiotag => fast /\ x.spos < size
    /\ x.sthrottled => May("throttle")

(* Where the two ends agree.  Before the receiver connects, the sender     *)
(* starts at the first block, or a resume request is on its way there and  *)
(* back, or was ignored.                                                   *)
NoRequest(x) ==
    /\ x.spos = 0 /\ x.sresumable = 0
    /\ x.toS = <<>> /\ \A i \in 1..Len(x.toR) : x.toR[i].cmd = "SEND"

Requested(x) ==
    /\ x.rstat = "QUEUED" /\ x.rpos = x.rresumable /\ x.rresumable > 0
    /\ \/ /\ x.toS = <<[cmd |-> "RESUME", offset |-> x.rresumable]>> /\ x.toR = <<>>
       \/ /\ x.toS = <<>> /\ x.toR = <<[cmd |-> "ACCEPT"]>>
          /\ x.spos = x.rresumable /\ x.sresumable = x.rresumable
       \/ x.toS = <<>> /\ x.toR = <<>> /\ x.sstat = "REMOVED"

Early(x) ==
    /\ x.rsok = "none" /\ x.ssok = "none" /\ ~x.reset /\ x.data = <<>> /\ x.acks = <<>>
    /\ x.sstat \in {"NONE", "QUEUED", "ABORTED", "REMOVED"}
    /\ IF x.resume_sent THEN Requested(x) ELSE NoRequest(x)

(* While the receiver runs, what is on its way are the blocks between the  *)
(* two positions.                                                          *)
Running(x) ==
    /\ x.rsok # "closed" /\ x.toR = <<>>
    /\ \A i \in 1..Len(x.toS) : x.toS[i].cmd = "PASV"
    /\ x.sresumable = x.rresumable /\ x.rresumable <= x.rpos
    /\ ~x.began => x.rpos = x.rresumable
    /\ x.rresumable # 0 => x.resume_sent
    /\ x.spos = x.rpos + Len(x.data)
    /\ \A i \in 1..Len(x.data) : x.data[i] = x.rpos + i

(* A receiver that has opened the file has written what it counts, and no  *)
(* resume request comes any more.  One that has not has acknowledged       *)
(* nothing.                                                                *)
Opening(x, fs) ==
    IF x.began
    THEN /\ Len(fs[x.destfile]) = x.rpos /\ x.rpos <= x.spos
         /\ \A i \in 1..Len(x.toS) : x.toS[i].cmd = "PASV"
    ELSE x.acks = <<>> /\ x.sstat # "DONE"

(* The part that a resume request names is still there.                    *)
PartIsThere(x, fs) ==
    x.resume_sent /\ ~x.began /\ x.rstat \in {"QUEUED", "CONNECTING", "ACTIVE"} =>
      0 \in DOMAIN fs /\ Len(fs[0]) = x.rresumable

Aligned(t, x, fs) ==
    /\ t > 1 /\ x # NoTransfer => May("twice")
    /\ x.resume_sent => May("resume")
    /\ \A i \in 1..Len(x.toR) : x.toR[i].cmd = "ACCEPT" => May("resume")
    /\ \A i \in 1..Len(x.toS) : x.toS[i].cmd = "RESUME" => May("resume")
    /\ x.rstat \in {"NONE", "QUEUED"} => Early(x)
    /\ x.rstat \in {"CONNECTING", "ACTIVE"} => Running(x)
    /\ Opening(x, fs) /\ PartIsThere(x, fs)

(* Where acknowledgements are exact.  In a file of 32 bits an              *)
(* acknowledgement is a position that the receiver has reached; in a       *)
(* larger one there is one block or one acknowledgement on the way.        *)
AcksOfSmall(x) ==
    /\ ~x.ackoffset
    /\ \A i \in 1..Len(x.acks) : x.sresumable <= x.acks[i] /\ x.acks[i] <= x.rpos
    /\ x.sstat \in {"NONE", "QUEUED", "CONNECTING", "ACTIVE"} => x.sack < size

AcksOfHuge(x) ==
    /\ Len(x.data) <= 1
    /\ x.acks # <<>> => Len(x.acks) = 1 /\ x.data = <<>> /\ x.spos = x.rpos

Acknowledged(x) ==
    /\ IF "huge" \in features THEN AcksOfHuge(x) ELSE AcksOfSmall(x)
    /\ x.sstat = "DONE" => x.began /\ x.rpos = size

Fits(t, x, fs) ==
    /\ Basic(x)
    /\ Agreed => Aligned(t, x, fs)
    /\ ExactAcks => Acknowledged(x)

(* The directory: the names in use follow one another, each but the first  *)
(* one was made by a transfer, and those that agree made different ones.   *)
Named(xs, fs) ==
    /\ DOMAIN fs \in {{}} \cup {0..m : m \in Name}
    /\ \A t \in Transfer : xs[t].began => xs[t].destfile \in DOMAIN fs
    /\ \A n \in DOMAIN fs \ {0} : \E t \in Transfer : xs[t].began /\ xs[t].destfile = n
    /\ Agreed => \A t, u \in Transfer :
                   xs[t].began /\ xs[u].began /\ t # u => xs[t].destfile # xs[u].destfile

Filed(fs) ==
    /\ fs = [n \in DOMAIN fs |-> fs[n]]
    /\ \A n \in DOMAIN fs : fs[n] \in Seq(1..size)
    /\ Agreed => \A n \in DOMAIN fs : IsPart(fs[n])

Good(xs, fs) ==
    /\ xs \in [Transfer -> TransferType]
    /\ \A t \in Transfer : Fits(t, xs[t], fs)
    /\ Named(xs, fs) /\ Filed(fs)

IInv == Good(xfer, files) /\ features \in Scenarios

---------------------------------------------------------------------------
(* The constants and what is defined from them. *)
LEMMA Sizes ==
  /\ size \in Nat \ {0} /\ Size \in Nat /\ Size <= size
  /\ AckMod \in Nat \ {0} /\ SockBuf \in Nat \ {0} /\ Offers \in Nat \ {0}
  /\ "huge" \notin features => size < AckMod
BY SizesAssumption, SockBufAssumption, OffersAssumption DEF size

(* Positions as acknowledgements. *)
LEMMA AckFacts ==
  ASSUME NEW n \in Nat
  PROVE  /\ n % AckMod \in 0..(AckMod - 1) /\ n % AckMod <= n
         /\ n < AckMod => n % AckMod = n
BY Sizes

(* The fields of a transfer. *)
LEMMA Fields ==
  ASSUME NEW x \in TransferType
  PROVE  /\ x.sstat \in Stat /\ x.spos \in Nat /\ x.spos <= size /\ x.sack \in Nat
         /\ x.sresumable \in Nat /\ x.sresumable <= size
         /\ x.ackoffset \in BOOLEAN /\ x.sthrottled \in BOOLEAN /\ x.wiotag \in BOOLEAN
         /\ x.rstat \in Stat /\ x.rpos \in Nat /\ x.rresumable \in Nat /\ x.rresumable <= size
         /\ x.resume_sent \in BOOLEAN /\ x.rthrottled \in BOOLEAN /\ x.fp \in BOOLEAN
         /\ x.began \in BOOLEAN /\ x.destfile \in Name
         /\ x.ssok \in {"none", "syn", "open", "closed"} /\ x.rsok \in {"none", "syn", "open", "closed"}
         /\ x.reset \in BOOLEAN /\ x.data \in Seq(1..size) /\ x.acks \in Seq(0..(AckMod - 1))
         /\ x.toR \in Seq(ToReceiver) /\ x.toS \in Seq(ToSender)
BY Sizes DEF TransferType

(* What no function of the sender's stream touches. *)
SameReceiver(x, y) ==
    /\ y.rstat = x.rstat /\ y.rpos = x.rpos /\ y.rresumable = x.rresumable
    /\ y.resume_sent = x.resume_sent /\ y.rthrottled = x.rthrottled /\ y.fp = x.fp
    /\ y.began = x.began /\ y.destfile = x.destfile /\ y.rsok = x.rsok
    /\ y.toR = x.toR /\ y.toS = x.toS

(* dcc_close at the sender. *)
ClosedSender(x, stat, r) ==
    /\ r \in TransferType /\ SameReceiver(x, r)
    /\ r.sstat = stat /\ r.spos = x.spos /\ r.sack = x.sack /\ r.sresumable = x.sresumable
    /\ r.ackoffset = x.ackoffset /\ r.sthrottled = x.sthrottled /\ r.wiotag = FALSE
    /\ r.ssok = Gone(x.ssok) /\ r.acks = <<>> /\ r.data = x.data
    /\ r.reset = (x.reset \/ x.acks # <<>>)

(* Closing changes nothing that the receiver holds. *)
LEMMA CloseSender ==
  ASSUME NEW x \in TransferType, NEW stat \in Stat, NEW r, r = dcc_close_sender(x, stat)
  PROVE  ClosedSender(x, stat, r)
<1> DEFINE b == x.reset \/ x.acks # <<>>
           g == Gone(x.ssok)
           e == <<>>
<1>1. b \in BOOLEAN /\ g \in {"none", "syn", "open", "closed"} /\ e \in Seq(0..(AckMod - 1))
  BY DEF TransferType, Gone
<1>2. r = [x EXCEPT !.sstat = stat, !.wiotag = FALSE, !.ssok = g, !.acks = e, !.reset = b]
  BY Zenon DEF dcc_close_sender
<1>3. g = Gone(x.ssok) /\ b = (x.reset \/ x.acks # <<>>) /\ e = <<>> OBVIOUS
<1> HIDE DEF b, g, e
<1>4. r \in TransferType BY <1>1, <1>2, ZenonT(60) DEF TransferType
<1>6. SameReceiver(x, r) BY <1>1, <1>2 DEF TransferType, SameReceiver
<1>5. /\ r.sstat = stat /\ r.spos = x.spos /\ r.sack = x.sack /\ r.sresumable = x.sresumable
      /\ r.ackoffset = x.ackoffset /\ r.sthrottled = x.sthrottled /\ r.wiotag = FALSE
      /\ r.ssok = g /\ r.acks = e /\ r.data = x.data /\ r.reset = b
  BY <1>1, <1>2 DEF TransferType
<1> QED BY <1>3, <1>4, <1>5, <1>6 DEF ClosedSender

(* A block written to the socket, or none. *)
LEMMA SentFacts ==
  ASSUME NEW x \in TransferType, NEW n \in {0, 1}, x.spos + n <= size,
         NEW out \in Seq(1..size), NEW r, r = Sent(x, n, out)
  PROVE  /\ r \in TransferType /\ SameReceiver(x, r)
         /\ r.sstat = x.sstat /\ r.spos = x.spos + n /\ r.sack = x.sack /\ r.sresumable = x.sresumable
         /\ r.ackoffset = x.ackoffset /\ r.sthrottled = x.sthrottled
         /\ r.wiotag = (fast /\ x.spos + n < size)
         /\ r.ssok = x.ssok /\ r.acks = x.acks /\ r.data = x.data \o out
         /\ r.reset = (x.reset \/ (n > 0 /\ x.rsok = "closed"))
<1> DEFINE b == x.reset \/ (n > 0 /\ x.rsok = "closed")
           w == fast /\ x.spos + n < size
           d == x.data \o out
           p == x.spos + n
<1>1. b \in BOOLEAN /\ w \in BOOLEAN /\ d \in Seq(1..size) /\ p \in 0..size
  BY Sizes, Fields
<1>2. r = [x EXCEPT !.spos = p, !.data = d, !.wiotag = w, !.reset = b]
  BY Zenon DEF Sent
<1>3. /\ b = (x.reset \/ (n > 0 /\ x.rsok = "closed")) /\ w = (fast /\ x.spos + n < size)
      /\ d = x.data \o out /\ p = x.spos + n
  OBVIOUS
<1> HIDE DEF b, w, d, p
<1>4. r \in TransferType BY <1>1, <1>2, ZenonT(60) DEF TransferType
<1>6. SameReceiver(x, r) BY <1>1, <1>2 DEF TransferType, SameReceiver
<1>5. /\ r.sstat = x.sstat /\ r.spos = p /\ r.sack = x.sack /\ r.sresumable = x.sresumable
      /\ r.ackoffset = x.ackoffset /\ r.sthrottled = x.sthrottled /\ r.wiotag = w
      /\ r.ssok = x.ssok /\ r.acks = x.acks /\ r.data = d /\ r.reset = b
  BY <1>1, <1>2 DEF TransferType
<1> QED BY <1>3, <1>4, <1>5, <1>6

(* What one call at the sender does to a transfer: it keeps its place or   *)
(* goes on by one block, which is lost only if the receiver has closed.    *)
SenderStep(x, y) ==
    /\ y \in TransferType /\ SameReceiver(x, y) /\ y.sresumable = x.sresumable
    /\ \/ y.spos = x.spos /\ y.data = x.data
       \/ /\ x.spos < size /\ y.spos = x.spos + 1
          /\ y.data = Append(x.data, y.spos) \/ (x.rsok = "closed" /\ y.data = x.data)
    /\ x.acks = <<>> => y.acks = <<>>
    /\ y.sstat = "DONE" => x.sstat = "DONE" \/ x.acks # <<>>
    /\ y.sstat \notin {"NONE", "QUEUED", "CONNECTING"}
    /\ y.wiotag => fast /\ y.spos < size
    /\ y.sthrottled => May("throttle")

(* dcc_send_data of an active sender: it fails only when it is called      *)
(* although everything was sent.                                           *)
LEMMA SendData ==
  ASSUME NEW x \in TransferType, x.sstat = "ACTIVE", x.wiotag => fast /\ x.spos < size,
         x.sthrottled => May("throttle"), NEW r, r = dcc_send_data(x)
  PROVE  /\ SenderStep(x, r)
         /\ r.sack = x.sack /\ r.ackoffset = x.ackoffset
         /\ r.acks = x.acks \/ (r.acks = <<>> /\ r.sstat = "FAILED")
         /\ r.sstat \in {"ACTIVE", "FAILED"}
         /\ r.sstat = "FAILED" => x.spos = size /\ ~x.sthrottled /\ (fast \/ x.sack >= x.spos % AckMod)
<1>0. x.spos \in Nat /\ x.spos <= size /\ x.sack \in Nat /\ x.data \in Seq(1..size) /\ size \in Nat
  BY Fields, Sizes
<1>6. x.spos % AckMod \in Nat
  <2>1. x.spos % AckMod \in 0..(AckMod - 1) BY <1>0, AckFacts, Zenon
  <2> QED BY <2>1, Sizes
<1>1. CASE x.sthrottled
  <2>1. r = [x EXCEPT !.wiotag = FALSE] BY <1>1 DEF dcc_send_data
  <2>2. r \in TransferType BY <2>1, ZenonT(60) DEF TransferType
  <2>3. SameReceiver(x, r) BY <2>1 DEF SameReceiver, TransferType
  <2>4. /\ r.spos = x.spos /\ r.data = x.data /\ r.acks = x.acks /\ r.sstat = x.sstat
        /\ r.sack = x.sack /\ r.ackoffset = x.ackoffset /\ r.sresumable = x.sresumable
        /\ r.wiotag = FALSE /\ r.sthrottled = x.sthrottled
    BY <2>1 DEF TransferType
  <2> QED BY <1>1, <2>2, <2>3, <2>4 DEF SenderStep
<1>2. CASE ~x.sthrottled /\ ~fast /\ x.sack < x.spos % AckMod
  <2>1. r = x BY <1>2 DEF dcc_send_data
  <2>2. SameReceiver(x, x) BY DEF SameReceiver
  <2> QED BY <2>1, <2>2 DEF SenderStep
<1>3. CASE ~x.sthrottled /\ ~(~fast /\ x.sack < x.spos % AckMod) /\ x.spos >= size
  <2>1. r = dcc_close_sender(x, "FAILED") BY <1>3, Zenon DEF dcc_send_data
  <2>2. "FAILED" \in Stat BY DEF Stat
  <2>3. /\ r \in TransferType /\ SameReceiver(x, r)
        /\ r.sstat = "FAILED" /\ r.spos = x.spos /\ r.sack = x.sack /\ r.sresumable = x.sresumable
        /\ r.ackoffset = x.ackoffset /\ r.sthrottled = x.sthrottled /\ r.wiotag = FALSE
        /\ r.acks = <<>> /\ r.data = x.data
    <3>1. ClosedSender(x, "FAILED", r) BY <2>1, <2>2, CloseSender, Zenon
    <3> QED BY <3>1 DEF ClosedSender
  <2>4. x.spos = size /\ (fast \/ x.sack >= x.spos % AckMod) BY <1>0, <1>6, <1>3
  <2> QED BY <1>3, <2>3, <2>4 DEF SenderStep
<1>4. ASSUME ~x.sthrottled, x.spos < size, NEW n \in {0, 1}, NEW out \in Seq(1..size),
             r = Sent(x, n, out),
             n = 0 => out = <<>>,
             n = 1 => out = <<x.spos + 1>> \/ (x.rsok = "closed" /\ out = <<>>)
      PROVE  /\ SenderStep(x, r) /\ r.sack = x.sack /\ r.ackoffset = x.ackoffset
             /\ r.acks = x.acks /\ r.sstat = "ACTIVE"
  <2>1. x.spos + n <= size BY <1>0, <1>4
  <2>2. /\ r \in TransferType /\ SameReceiver(x, r)
        /\ r.sstat = x.sstat /\ r.spos = x.spos + n /\ r.sack = x.sack /\ r.sresumable = x.sresumable
        /\ r.ackoffset = x.ackoffset /\ r.sthrottled = x.sthrottled
        /\ r.wiotag = (fast /\ x.spos + n < size)
        /\ r.ssok = x.ssok /\ r.acks = x.acks /\ r.data = x.data \o out
    BY <1>4, <2>1, SentFacts
  <2>6. n = 1 => x.spos + 1 \in 1..size BY <1>0, <1>4
  <2>3. r.wiotag => fast /\ r.spos < size BY <2>2
  <2>4. x.data \o <<>> = x.data /\ (n = 1 => x.data \o <<x.spos + 1>> = Append(x.data, x.spos + 1))
    BY <1>0, <2>6
  <2>5. \/ r.spos = x.spos /\ r.data = x.data
        \/ /\ x.spos < size /\ r.spos = x.spos + 1
           /\ r.data = Append(x.data, r.spos) \/ (x.rsok = "closed" /\ r.data = x.data)
    <3>1. CASE n = 0 BY <1>0, <1>4, <2>2, <2>4, <3>1
    <3>2. CASE n = 1
      <4>1. r.spos = x.spos + 1 BY <2>2, <3>2
      <4>2. r.data = Append(x.data, r.spos) \/ (x.rsok = "closed" /\ r.data = x.data)
        BY <1>4, <2>2, <2>4, <3>2, <4>1, Zenon
      <4> QED BY <1>4, <4>1, <4>2
    <3> QED BY <1>4, <3>1, <3>2
  <2> QED BY <1>4, <2>2, <2>3, <2>5 DEF SenderStep
<1>5. CASE ~x.sthrottled /\ ~(~fast /\ x.sack < x.spos % AckMod) /\ ~(x.spos >= size)
  <2>1. x.spos < size BY <1>0, <1>5
  <2>2. \/ r = Sent(x, 1, <<>>) /\ x.rsok = "closed"
        \/ r = Sent(x, 1, <<x.spos + 1>>)
        \/ r = Sent(x, 0, <<>>)
    BY <1>5, Zenon DEF dcc_send_data
  <2>3. <<>> \in Seq(1..size) /\ <<x.spos + 1>> \in Seq(1..size) BY <1>0, <2>1
  <2>4. 0 \in {0, 1} /\ 1 \in {0, 1} /\ 0 # 1 OBVIOUS
  <2>5. /\ SenderStep(x, r) /\ r.sack = x.sack /\ r.ackoffset = x.ackoffset
        /\ r.acks = x.acks /\ r.sstat = "ACTIVE"
    <3>1. CASE r = Sent(x, 1, <<>>) /\ x.rsok = "closed" BY <1>4, <1>5, <2>1, <2>3, <2>4, <3>1, Zenon
    <3>2. CASE r = Sent(x, 1, <<x.spos + 1>>) BY <1>4, <1>5, <2>1, <2>3, <2>4, <3>2, Zenon
    <3>3. CASE r = Sent(x, 0, <<>>) BY <1>4, <1>5, <2>1, <2>3, <2>4, <3>3, Zenon
    <3> QED BY <2>2, <3>1, <3>2, <3>3
  <2> QED BY <2>5
<1> QED BY <1>1, <1>2, <1>3, <1>5, Zenon

(* Such a step keeps what holds of every transfer. *)
LEMMA SenderStepBasic ==
  ASSUME NEW x, NEW y, Basic(x), SenderStep(x, y)
  PROVE  Basic(y)
BY DEF Basic, SenderStep, SameReceiver

(* And what holds where both ends agree, if it does before the receiver    *)
(* connects.                                                               *)
LEMMA SenderStepAligned ==
  ASSUME NEW t, NEW x, NEW y, NEW fs, Basic(x), SenderStep(x, y), x.sstat # "NONE",
         Aligned(t, x, fs), Early(x) => Early(y)
  PROVE  Aligned(t, y, fs)
<1> USE DEF SenderStep, SameReceiver
<1>0. /\ x.spos \in Nat /\ x.rpos \in Nat /\ x.data \in Seq(1..size) /\ size \in Nat
  BY Fields, Sizes DEF Basic
<1>1. x # NoTransfer BY DEF NoTransfer
<1>2. /\ t > 1 /\ y # NoTransfer => May("twice")
      /\ y.resume_sent => May("resume")
      /\ \A i \in 1..Len(y.toR) : y.toR[i].cmd = "ACCEPT" => May("resume")
      /\ \A i \in 1..Len(y.toS) : y.toS[i].cmd = "RESUME" => May("resume")
      /\ y.rstat \in {"NONE", "QUEUED"} => Early(y)
  BY <1>1 DEF Aligned
<1>3. Opening(y, fs)
  <2>1. Opening(x, fs) BY DEF Aligned
  <2>2. y.spos \in Nat /\ x.spos <= y.spos BY <1>0
  <2>3. CASE x.began BY <1>0, <2>1, <2>2, <2>3 DEF Opening
  <2>4. CASE ~x.began BY <2>1, <2>4 DEF Opening
  <2> QED BY <2>3, <2>4
<1>4. PartIsThere(y, fs) BY DEF Aligned, PartIsThere
<1>5. ASSUME y.rstat \in {"CONNECTING", "ACTIVE"} PROVE Running(y)
  <2>1. Running(x) BY <1>5 DEF Aligned
  <2>2. CASE y.spos = x.spos /\ y.data = x.data BY <2>1, <2>2 DEF Running
  <2>3. CASE y.spos = x.spos + 1 /\ y.data = Append(x.data, y.spos) /\ x.spos < size
    <3>1. y.spos \in 1..size BY <1>0, <2>3
    <3>2. /\ Len(y.data) = Len(x.data) + 1 /\ y.data[Len(x.data) + 1] = y.spos
          /\ \A i \in 1..Len(x.data) : y.data[i] = x.data[i]
      BY <1>0, <2>3, <3>1
    <3>3. x.spos = x.rpos + Len(x.data) /\ \A i \in 1..Len(x.data) : x.data[i] = x.rpos + i
      BY <2>1 DEF Running
    <3>4. y.spos = y.rpos + Len(y.data) BY <1>0, <2>3, <3>2, <3>3
    <3>5. \A i \in 1..Len(y.data) : y.data[i] = y.rpos + i
      BY <1>0, <2>3, <3>2, <3>3, <3>4, SMTT(30)
    <3> QED BY <2>1, <3>4, <3>5 DEF Running
  <2> QED BY <2>1, <2>2, <2>3 DEF Running
<1> QED BY <1>2, <1>3, <1>4, <1>5 DEF Aligned

(* What is exact stays so while the sender sends.                          *)
LEMMA SendDataAcks ==
  ASSUME NEW x, NEW y, Basic(x), SenderStep(x, y), Acknowledged(x),
         x.sstat \in {"QUEUED", "CONNECTING", "ACTIVE"}, y.sstat \in {"ACTIVE", "FAILED"},
         y.sack = x.sack, y.ackoffset = x.ackoffset, y.acks = x.acks \/ y.acks = <<>>,
         "huge" \in features => x.data = <<>> /\ x.acks = <<>>
  PROVE  Acknowledged(y)
<1> USE DEF SenderStep, SameReceiver
<1>1. CASE "huge" \in features
  <2>1. x.data \in Seq(1..size) /\ x.spos \in Nat /\ size \in Nat BY Fields, Sizes DEF Basic
  <2>2. y.acks = <<>> /\ x.data = <<>> BY <1>1
  <2>3. CASE y.data = <<>> BY <2>2, <2>3, <1>1 DEF Acknowledged, AcksOfHuge
  <2>4. CASE y.data # <<>>
    <3>1. y.spos \in 1..size /\ y.data = Append(<<>>, y.spos) BY <2>1, <2>2, <2>4
    <3>2. Len(y.data) = 1 BY <3>1
    <3> QED BY <1>1, <2>2, <3>2 DEF Acknowledged, AcksOfHuge
  <2> QED BY <2>3, <2>4
<1>2. CASE ~("huge" \in features) BY <1>2 DEF Acknowledged, AcksOfSmall
<1> QED BY <1>1, <1>2

(* The first of a sequence is taken off. *)
LEMMA TailFacts ==
  ASSUME NEW S, NEW s \in Seq(S), s # <<>>
  PROVE  /\ Tail(s) \in Seq(S) /\ Len(s) \in Nat \ {0} /\ Len(Tail(s)) = Len(s) - 1
         /\ Head(s) = s[1] /\ Head(s) \in S /\ \A i \in 1..Len(Tail(s)) : Tail(s)[i] = s[i + 1]
OBVIOUS

(* dcc_handle_new_ack for the first of the acknowledgements, which was     *)
(* read as a.                                                              *)
AckHandled(x, a, r) ==
    LET offset == x.ackoffset \/ (size < AckMod /\ a < x.sresumable)
        ack == IF size < AckMod /\ offset THEN a + x.sresumable ELSE a
    IN  /\ SenderStep(x, r) /\ r.ackoffset = offset
        /\ IF x.spos >= size /\ ack >= size % AckMod
           THEN r.sstat = "DONE" /\ r.acks = <<>> /\ r.spos = x.spos /\ r.data = x.data
           ELSE /\ r.sstat = "ACTIVE" /\ r.acks = Tail(x.acks)
                /\ r.sack = (r.spos - (r.spos % AckMod)) + (ack % AckMod)

(* dcc_handle_new_ack: the transfer is done when the acknowledgement       *)
(* covers everything; else the sender goes on, and never fails here.       *)
LEMMA NewAck ==
  ASSUME NEW x, Basic(x), x.sstat = "ACTIVE", x.acks # <<>>, NEW a \in 0..(AckMod - 1),
         NEW r, r = dcc_handle_new_ack([x EXCEPT !.acks = Tail(x.acks)], a)
  PROVE  AckHandled(x, a, r)
<1> DEFINE q == Tail(x.acks)
           x1 == [x EXCEPT !.acks = q]
           small == size < AckMod
           offset == x.ackoffset \/ (small /\ a < x.sresumable)
           ack == IF small /\ offset THEN a + x.sresumable ELSE a
           y == [x1 EXCEPT !.ackoffset = offset, !.sack = ack]
           sends == ~fast /\ ack >= x.spos % AckMod
           z == IF sends THEN dcc_send_data(y) ELSE y
           s == (z.spos - (z.spos % AckMod)) + (ack % AckMod)
<1>0. /\ x \in TransferType /\ x.acks \in Seq(0..(AckMod - 1)) /\ x.sresumable \in Nat
      /\ x.spos \in Nat /\ x.spos <= size /\ size \in Nat /\ AckMod \in Nat \ {0}
      /\ (x.wiotag => fast /\ x.spos < size) /\ (x.sthrottled => May("throttle"))
  BY Fields, Sizes DEF Basic
<1>1. q \in Seq(0..(AckMod - 1)) /\ q = Tail(x.acks) BY <1>0, TailFacts
<1>2. offset \in BOOLEAN /\ ack \in Nat BY <1>0, Fields
<1>3. /\ x1.ackoffset = x.ackoffset /\ x1.sresumable = x.sresumable /\ x1.spos = x.spos
      /\ x1.acks = q /\ x1 \in TransferType
  <2> HIDE DEF q
  <2>1. x1 \in TransferType BY <1>0, <1>1 DEF TransferType
  <2> QED BY <2>1, <1>0 DEF TransferType
<1>4. r = IF x.spos >= size /\ ack >= size % AckMod
          THEN [dcc_close_sender(y, "DONE") EXCEPT !.sack = size]
          ELSE [z EXCEPT !.sack = s]
  <2>1. r = dcc_handle_new_ack(x1, a) OBVIOUS
  <2> QED BY <2>1, <1>3 DEF dcc_handle_new_ack
<1>5. /\ x1.sstat = x.sstat /\ x1.data = x.data /\ x1.wiotag = x.wiotag /\ x1.sthrottled = x.sthrottled
      /\ x1.rsok = x.rsok /\ SameReceiver(x, x1)
  <2> HIDE DEF q
  <2>1. SameReceiver(x, x1) BY <1>0, <1>1 DEF TransferType, SameReceiver
  <2> QED BY <2>1, <1>0 DEF TransferType
<1>6. /\ y \in TransferType /\ SameReceiver(x, y) /\ y.sstat = "ACTIVE" /\ y.spos = x.spos
      /\ y.data = x.data /\ y.acks = q /\ y.sresumable = x.sresumable /\ y.rsok = x.rsok
      /\ y.wiotag = x.wiotag /\ y.sthrottled = x.sthrottled /\ y.ackoffset = offset /\ y.sack = ack
  <2> HIDE DEF x1, offset, ack
  <2>1. y \in TransferType BY <1>2, <1>3 DEF TransferType
  <2>2. SameReceiver(x1, y) BY <1>2, <1>3 DEF TransferType, SameReceiver
  <2>3. /\ y.sstat = x1.sstat /\ y.spos = x1.spos
        /\ y.data = x1.data /\ y.acks = x1.acks /\ y.sresumable = x1.sresumable /\ y.rsok = x1.rsok
        /\ y.wiotag = x1.wiotag /\ y.sthrottled = x1.sthrottled /\ y.ackoffset = offset /\ y.sack = ack
    BY <1>2, <1>3 DEF TransferType
  <2> QED BY <1>3, <1>5, <2>1, <2>2, <2>3 DEF SameReceiver
<1> HIDE DEF q, x1, y
<1>7. AckHandled(x, a, r) <=>
        /\ SenderStep(x, r) /\ r.ackoffset = offset
        /\ IF x.spos >= size /\ ack >= size % AckMod
           THEN r.sstat = "DONE" /\ r.acks = <<>> /\ r.spos = x.spos /\ r.data = x.data
           ELSE /\ r.sstat = "ACTIVE" /\ r.acks = Tail(x.acks)
                /\ r.sack = (r.spos - (r.spos % AckMod)) + (ack % AckMod)
  BY Zenon DEF AckHandled
<1> HIDE DEF offset, ack
<1>8. CASE x.spos >= size /\ ack >= size % AckMod
  <2> DEFINE c == dcc_close_sender(y, "DONE")
  <2>1. "DONE" \in Stat BY DEF Stat
  <2>2. ClosedSender(y, "DONE", c) BY <1>6, <2>1, CloseSender, Zenon
  <2> HIDE DEF c
  <2>3. r = [c EXCEPT !.sack = size] BY <1>4, <1>8, Zenon DEF c
  <2>4. c \in TransferType BY <2>2 DEF ClosedSender
  <2>5. r \in TransferType BY <1>0, <2>3, <2>4, ZenonT(60) DEF TransferType
  <2>6. SameReceiver(c, r) BY <2>3, <2>4 DEF TransferType, SameReceiver
  <2>7. /\ r.sstat = c.sstat /\ r.spos = c.spos /\ r.data = c.data /\ r.acks = c.acks
        /\ r.sresumable = c.sresumable /\ r.wiotag = c.wiotag /\ r.sthrottled = c.sthrottled
        /\ r.ackoffset = c.ackoffset
    BY <2>3, <2>4 DEF TransferType
  <2>8. SameReceiver(x, r) BY <1>6, <2>2, <2>6 DEF ClosedSender, SameReceiver
  <2>9. /\ r.sstat = "DONE" /\ r.spos = x.spos /\ r.data = x.data /\ r.acks = <<>>
        /\ r.sresumable = x.sresumable /\ r.wiotag = FALSE /\ r.sthrottled = x.sthrottled
        /\ r.ackoffset = offset
    BY <1>6, <2>2, <2>7 DEF ClosedSender
  <2>10. SenderStep(x, r) BY <1>0, <2>5, <2>8, <2>9 DEF SenderStep
  <2> QED BY <1>7, <1>8, <2>9, <2>10
<1>9. CASE ~(x.spos >= size /\ ack >= size % AckMod)
  <2> DEFINE d == dcc_send_data(y)
  <2>1. /\ SenderStep(y, d) /\ d.sack = y.sack /\ d.ackoffset = y.ackoffset
        /\ d.acks = y.acks \/ (d.acks = <<>> /\ d.sstat = "FAILED")
        /\ d.sstat \in {"ACTIVE", "FAILED"}
        /\ d.sstat = "FAILED" => y.spos = size /\ ~y.sthrottled /\ (fast \/ y.sack >= y.spos % AckMod)
    BY <1>0, <1>6, SendData
  <2> HIDE DEF d
  <2>2. /\ z \in TransferType /\ z.sstat = "ACTIVE" /\ z.acks = q /\ z.ackoffset = offset
        /\ SenderStep(x, z)
    <3>1. CASE sends
      <4>1. z = d BY <3>1 DEF d
      <4>2. d.sstat # "FAILED" BY <1>0, <1>6, <1>9, <2>1, <3>1
      <4>3. SenderStep(x, d) BY <1>0, <1>6, <2>1, <4>2 DEF SenderStep, SameReceiver
      <4> QED BY <1>6, <2>1, <4>1, <4>2, <4>3 DEF SenderStep
    <3>2. CASE ~sends
      <4>1. z = y BY <3>2
      <4>2. SenderStep(x, y) BY <1>0, <1>6 DEF SenderStep
      <4> QED BY <1>6, <4>1, <4>2
    <3> QED BY <3>1, <3>2
  <2>3. s \in Nat
    <3> HIDE DEF z
    <3>1. z.spos \in Nat BY <2>2, Fields
    <3>2. z.spos % AckMod \in 0..(AckMod - 1) /\ z.spos % AckMod <= z.spos /\ ack % AckMod \in 0..(AckMod - 1)
      BY <1>2, <3>1, AckFacts, Zenon
    <3> QED BY <1>0, <3>1, <3>2
  <2>4. r = [z EXCEPT !.sack = s] BY <1>4, <1>9, Zenon
  <2>5. s = (z.spos - (z.spos % AckMod)) + (ack % AckMod) OBVIOUS
  <2> HIDE DEF z, s
  <2>6. r \in TransferType BY <2>2, <2>3, <2>4, ZenonT(60) DEF TransferType
  <2>7. SameReceiver(z, r) BY <2>2, <2>4 DEF TransferType, SameReceiver
  <2>8. /\ r.sstat = z.sstat /\ r.spos = z.spos /\ r.data = z.data /\ r.acks = z.acks
        /\ r.sresumable = z.sresumable /\ r.wiotag = z.wiotag /\ r.sthrottled = z.sthrottled
        /\ r.ackoffset = z.ackoffset /\ r.sack = s
    BY <2>2, <2>4 DEF TransferType
  <2>9. SenderStep(x, r) BY <2>2, <2>6, <2>7, <2>8, ZenonT(60) DEF SenderStep, SameReceiver
  <2> QED BY <1>1, <1>7, <1>9, <2>2, <2>5, <2>8, <2>9
<1> QED BY <1>8, <1>9

(* Read in one piece, an acknowledgement is taken for what it says, and    *)
(* the last one for the end of the file.                                   *)
LEMMA NewAckExact ==
  ASSUME NEW x, NEW fs, NEW r, Basic(x), Opening(x, fs), Acknowledged(x),
         x.sstat = "ACTIVE", x.acks # <<>>, AckHandled(x, Head(x.acks), r),
         x.began => x.rpos <= size
  PROVE  Acknowledged(r)
<1> DEFINE a == Head(x.acks)
           offset == x.ackoffset \/ (size < AckMod /\ a < x.sresumable)
           ack == IF size < AckMod /\ offset THEN a + x.sresumable ELSE a
<1>0. /\ x.acks \in Seq(0..(AckMod - 1)) /\ x.data \in Seq(1..size) /\ x.sresumable \in Nat
      /\ x.spos \in Nat /\ x.rpos \in Nat /\ x.spos <= size /\ size \in Nat \ {0} /\ AckMod \in Nat \ {0}
  BY Fields, Sizes DEF Basic
<1>1. /\ a \in 0..(AckMod - 1) /\ a = x.acks[1] /\ 1 \in 1..Len(x.acks)
      /\ Tail(x.acks) \in Seq(0..(AckMod - 1)) /\ Len(Tail(x.acks)) = Len(x.acks) - 1
      /\ \A i \in 1..Len(Tail(x.acks)) : Tail(x.acks)[i] = x.acks[i + 1] /\ i + 1 \in 1..Len(x.acks)
  <2>1. /\ Tail(x.acks) \in Seq(0..(AckMod - 1)) /\ Len(x.acks) \in Nat \ {0}
        /\ Len(Tail(x.acks)) = Len(x.acks) - 1
        /\ a = x.acks[1] /\ a \in 0..(AckMod - 1)
        /\ \A i \in 1..Len(Tail(x.acks)) : Tail(x.acks)[i] = x.acks[i + 1]
    BY <1>0, TailFacts
  <2> HIDE DEF a
  <2> QED BY <2>1
<1>2. x.began /\ x.rpos <= x.spos /\ x.rpos <= size BY DEF Opening
<1>3. /\ SenderStep(x, r) /\ r.ackoffset = offset
      /\ IF x.spos >= size /\ ack >= size % AckMod
           THEN r.sstat = "DONE" /\ r.acks = <<>> /\ r.spos = x.spos /\ r.data = x.data
           ELSE /\ r.sstat = "ACTIVE" /\ r.acks = Tail(x.acks)
                /\ r.sack = (r.spos - (r.spos % AckMod)) + (ack % AckMod)
  BY Zenon DEF AckHandled
<1>4. r \in TransferType /\ r.began = x.began /\ r.rpos = x.rpos /\ r.sresumable = x.sresumable
  BY <1>3 DEF SenderStep, SameReceiver
<1>5. CASE "huge" \notin features
  <2>1. size < AckMod /\ size % AckMod = size BY <1>0, <1>5, Sizes, AckFacts
  <2>2. ~x.ackoffset /\ x.sresumable <= a /\ a <= x.rpos
    BY <1>1, <1>5 DEF Acknowledged, AcksOfSmall
  <2>3. ~offset /\ ack = a BY <1>0, <1>1, <2>2
  <2> HIDE DEF offset, ack, a
  <2>4. CASE x.spos >= size /\ ack >= size % AckMod
    <3>1. x.rpos = size BY <1>0, <1>1, <1>2, <2>1, <2>2, <2>3, <2>4, SMTT(30)
    <3> QED BY <1>2, <1>3, <1>4, <1>5, <2>3, <2>4, <3>1 DEF Acknowledged, AcksOfSmall
  <2>5. CASE ~(x.spos >= size /\ ack >= size % AckMod)
    <3>1. a < size BY <1>0, <1>1, <1>2, <2>1, <2>2, <2>3, <2>5, SMTT(30)
    <3>2. r.spos \in Nat /\ r.spos <= size BY <1>4, Fields
    <3>3. r.spos % AckMod = r.spos /\ a % AckMod = a
      <4>1. r.spos < AckMod /\ a < AckMod /\ a \in Nat BY <1>0, <1>1, <2>1, <3>1, <3>2
      <4> QED BY <3>2, <4>1, AckFacts, Zenon
    <3>4. r.sack = a
      <4>1. r.sack = (r.spos - (r.spos % AckMod)) + (a % AckMod) BY <1>3, <2>3, <2>5, Zenon
      <4>2. r.sack = (r.spos - r.spos) + a BY <3>3, <4>1, Zenon
      <4> QED BY <1>1, <3>2, <4>2
    <3>5. \A i \in 1..Len(x.acks) : x.sresumable <= x.acks[i] /\ x.acks[i] <= x.rpos
      BY <1>5 DEF Acknowledged, AcksOfSmall
    <3>6. \A i \in 1..Len(r.acks) : r.sresumable <= r.acks[i] /\ r.acks[i] <= r.rpos
      BY <1>1, <1>3, <1>4, <2>5, <3>5
    <3> QED BY <1>3, <1>5, <2>3, <2>5, <3>1, <3>4, <3>6 DEF Acknowledged, AcksOfSmall
  <2> QED BY <2>4, <2>5
<1>6. CASE "huge" \in features
  <2>1. Len(x.acks) = 1 /\ x.data = <<>> /\ x.spos = x.rpos
    BY <1>6 DEF Acknowledged, AcksOfHuge
  <2> HIDE DEF offset, ack, a
  <2>2. r.acks = <<>>
    <3>1. Len(Tail(x.acks)) = 0 BY <1>1, <2>1
    <3>2. Tail(x.acks) = <<>> BY <1>1, <3>1, EmptySeq
    <3> QED BY <1>3, <3>2
  <2>3. Len(r.data) <= 1
    <3>1. CASE r.data = <<>> BY <3>1
    <3>2. CASE r.data # <<>>
      <4>1. r.spos \in 1..size /\ r.data = Append(<<>>, r.spos)
        <5>1. SenderStep(x, r) BY <1>3, Zenon
        <5> QED BY <1>0, <2>1, <3>2, <5>1 DEF SenderStep
      <4> QED BY <4>1
    <3> QED BY <3>1, <3>2
  <2>4. r.sstat = "DONE" => x.rpos = size BY <1>0, <1>3, <2>1
  <2> QED BY <1>2, <1>4, <1>6, <2>2, <2>3, <2>4 DEF Acknowledged, AcksOfHuge
<1> QED BY <1>5, <1>6
---------------------------------------------------------------------------
(* One transfer changes and the directory does not. *)
LEMMA StepGood ==
  ASSUME NEW xs, NEW fs, Good(xs, fs), NEW t \in Transfer, NEW x, Fits(t, x, fs),
         x.began = xs[t].began, x.destfile = xs[t].destfile
  PROVE  Good([xs EXCEPT ![t] = x], fs)
<1> DEFINE ys == [xs EXCEPT ![t] = x]
<1>1. x \in TransferType BY DEF Fits, Basic
<1>2. ys \in [Transfer -> TransferType] BY <1>1 DEF Good
<1>3. ys[t] = x /\ \A u \in Transfer \ {t} : ys[u] = xs[u] BY DEF Good
<1> HIDE DEF ys
<1>4. \A u \in Transfer : Fits(u, ys[u], fs) BY <1>3 DEF Good
<1>5. \A u \in Transfer : ys[u].began = xs[u].began /\ ys[u].destfile = xs[u].destfile
  BY <1>3
<1>6. Named(ys, fs) BY <1>5 DEF Good, Named
<1>7. Good(ys, fs) BY <1>2, <1>4, <1>6 DEF Good
<1> QED BY <1>7 DEF ys

(* What a receiver that has opened the file counts is in the file. *)
LEMMA CountedFits ==
  ASSUME NEW xs, NEW fs, Good(xs, fs), Agreed, NEW t \in Transfer, xs[t].began
  PROVE  xs[t].rpos <= size
<1>1. xs[t].destfile \in DOMAIN fs BY DEF Good, Named
<1>2. Len(fs[xs[t].destfile]) = xs[t].rpos BY DEF Good, Fits, Aligned, Opening
<1>3. IsPart(fs[xs[t].destfile]) BY <1>1 DEF Good, Filed
<1> QED BY <1>2, <1>3 DEF IsPart

(* A step of the sender. *)
LEMMA SenderGood ==
  ASSUME NEW xs, NEW fs, Good(xs, fs), NEW t \in Transfer, NEW y, SenderStep(xs[t], y),
         xs[t].sstat # "NONE", Agreed /\ Early(xs[t]) => Early(y),
         ExactAcks => Acknowledged(y)
  PROVE  Good([xs EXCEPT ![t] = y], fs)
<1>1. Basic(xs[t]) /\ (Agreed => Aligned(t, xs[t], fs)) BY DEF Good, Fits
<1>2. Basic(y) BY <1>1, SenderStepBasic
<1>3. Agreed => Aligned(t, y, fs) BY <1>1, SenderStepAligned
<1>4. Fits(t, y, fs) BY <1>2, <1>3 DEF Fits
<1>5. y.began = xs[t].began /\ y.destfile = xs[t].destfile BY DEF SenderStep, SameReceiver
<1> QED BY <1>4, <1>5, StepGood

(* The invariant speaks of features, which do not change. *)
LEMMA Primed ==
  ASSUME features' = features
  PROVE  IInv' <=> Good(xfer', files') /\ features \in Scenarios
BY DEF IInv, Good, Fits, Basic, Aligned, Early, NoRequest, Requested, Running, Opening, PartIsThere,
       Acknowledged, AcksOfSmall, AcksOfHuge, Named, Filed, IsPart, Agreed, ExactAcks, Never, May,
       fast, size, TransferType
---------------------------------------------------------------------------
(* The sender's actions. *)

(* Closing. *)
LEMMA CloseSenderGood ==
  ASSUME NEW xs, NEW fs, Good(xs, fs), NEW t \in Transfer, NEW stat \in {"FAILED", "ABORTED", "REMOVED"},
         xs[t].sstat \notin {"NONE", "REMOVED"}, Early(xs[t]) => stat # "FAILED"
  PROVE  Good([xs EXCEPT ![t] = dcc_close_sender(xs[t], stat)], fs)
<1> DEFINE x == xs[t]
           y == dcc_close_sender(x, stat)
<1>1. /\ x \in TransferType /\ Basic(x)
      /\ Agreed => Aligned(t, x, fs)
      /\ ExactAcks => Acknowledged(x)
  BY DEF Good, Fits, Basic
<1>2. ClosedSender(x, stat, y)
  <2>1. stat \in Stat BY DEF Stat
  <2> QED BY <1>1, <2>1, CloseSender, Zenon
<1> HIDE DEF y, x
<1>3. SenderStep(x, y) BY <1>1, <1>2 DEF ClosedSender, SenderStep, Basic
<1>4. ASSUME Early(x) PROVE Early(y)
  <2>1. Gone(x.ssok) = "none" /\ x.acks = <<>> BY <1>4 DEF Early, Gone
  <2>2. /\ y.rsok = "none" /\ y.ssok = "none" /\ ~y.reset /\ y.data = <<>> /\ y.acks = <<>>
    BY <1>2, <1>4, <2>1 DEF Early, ClosedSender, SameReceiver
  <2>3. y.sstat \in {"NONE", "QUEUED", "ABORTED", "REMOVED"}
    BY <1>2, <1>4 DEF ClosedSender, x
  <2>4. x.sstat # "REMOVED" BY DEF x
  <2>5. IF y.resume_sent THEN Requested(y) ELSE NoRequest(y)
    BY <1>2, <1>4, <2>4 DEF Early, Requested, NoRequest, ClosedSender, SameReceiver
  <2> QED BY <2>2, <2>3, <2>5 DEF Early
<1>5. ASSUME ExactAcks PROVE Acknowledged(y)
  <2>1. Acknowledged(x) BY <1>1, <1>5
  <2> QED BY <1>2, <2>1 DEF Acknowledged, AcksOfSmall, AcksOfHuge, ClosedSender, SameReceiver
<1> QED BY <1>3, <1>4, <1>5, SenderGood DEF x, y

(* Where one block at a time is sent, dcc_send_data is not called while    *)
(* another one is on its way.                                              *)
LEMMA SendDataGood ==
  ASSUME NEW xs, NEW fs, Good(xs, fs), NEW t \in Transfer, NEW z \in TransferType,
         xs[t].sstat \in {"QUEUED", "CONNECTING", "ACTIVE"}, ~Early(xs[t]) \/ ~Agreed,
         SameReceiver(xs[t], z), z.sstat = "ACTIVE", z.spos = xs[t].spos, z.data = xs[t].data,
         z.acks = xs[t].acks, z.sresumable = xs[t].sresumable, z.sack = xs[t].sack,
         z.ackoffset = xs[t].ackoffset,
         z.wiotag => fast /\ z.spos < size, z.sthrottled => May("throttle"),
         ExactAcks /\ "huge" \in features => z.data = <<>> /\ z.acks = <<>>
  PROVE  Good([xs EXCEPT ![t] = dcc_send_data(z)], fs)
<1> DEFINE x == xs[t]
           y == dcc_send_data(z)
<1>1. /\ x \in TransferType /\ Basic(x)
      /\ Agreed => Aligned(t, x, fs)
      /\ ExactAcks => Acknowledged(x)
  BY DEF Good, Fits, Basic
<1>2. /\ SenderStep(z, y)
      /\ y.sack = z.sack /\ y.ackoffset = z.ackoffset
      /\ y.acks = z.acks \/ (y.acks = <<>> /\ y.sstat = "FAILED")
      /\ y.sstat \in {"ACTIVE", "FAILED"}
  BY SendData
<1> HIDE DEF y
<1>3. SenderStep(x, y) BY <1>2 DEF SenderStep, SameReceiver
<1>4. ASSUME ExactAcks PROVE Acknowledged(y)
  <2>1. Acknowledged(x) BY <1>1, <1>4
  <2> QED BY <1>1, <1>2, <1>3, <1>4, <2>1, SendDataAcks
<1>5. x.sstat # "NONE" OBVIOUS
<1>6. Agreed /\ Early(x) => Early(y) OBVIOUS
<1> QED BY <1>3, <1>4, <1>5, <1>6, SenderGood DEF y

(* An action that changes one transfer. *)
LEMMA StepIInv ==
  ASSUME IInv, NEW t, NEW x, Step(t, x), Good([xfer EXCEPT ![t] = x], files)
  PROVE  IInv'
BY Primed DEF Step, IInv

(* Before the receiver connects, the sender is neither connecting nor      *)
(* active, and a receiver that has a socket is connecting or further.      *)
LEMMA NotEarly ==
  ASSUME NEW x, Early(x)
  PROVE  /\ x.sstat \notin {"CONNECTING", "ACTIVE"} /\ x.rsok = "none" /\ x.ssok = "none"
         /\ x.acks = <<>>
BY DEF Early

(* The stream from the receiver ends. *)
LEMMA SenderErrorStep == ASSUME IInv, NEW t \in Transfer, SenderError(t) PROVE IInv'
<1>1. /\ xfer[t].sstat = "ACTIVE" /\ Step(t, dcc_close_sender(xfer[t], "FAILED")) BY DEF SenderError
<1>2. Good([xfer EXCEPT ![t] = dcc_close_sender(xfer[t], "FAILED")], files)
  BY <1>1, CloseSenderGood, NotEarly DEF IInv
<1> QED BY <1>1, <1>2, StepIInv

(* The write watch fires: with one block at a time there is none. *)
LEMMA WriteStep == ASSUME IInv, NEW t \in Transfer, dcc_write(t) PROVE IInv'
<1>1. xfer[t].sstat = "ACTIVE" /\ xfer[t].wiotag /\ Step(t, dcc_send_data(xfer[t])) BY DEF dcc_write
<1>2. Basic(xfer[t]) BY DEF IInv, Good, Fits
<1>3. ~(ExactAcks /\ "huge" \in features)
  BY <1>1, <1>2 DEF Basic, ExactAcks, fast
<1>4. Good([xfer EXCEPT ![t] = dcc_send_data(xfer[t])], files)
  <2>1. Good(xfer, files) BY DEF IInv
  <2>2. SameReceiver(xfer[t], xfer[t]) BY DEF SameReceiver
  <2>3. ~Early(xfer[t]) BY <1>1, NotEarly
  <2>4. /\ xfer[t] \in TransferType
        /\ xfer[t].wiotag => fast /\ xfer[t].spos < size
        /\ xfer[t].sthrottled => May("throttle")
    BY <1>2 DEF Basic
  <2> QED BY <1>1, <1>3, <2>1, <2>2, <2>3, <2>4, SendDataGood
<1> QED BY <1>1, <1>4, StepIInv

(* The sender is not throttled any more and sends; where acknowledgements  *)
(* are exact the file has 32 bits then.                                    *)
LEMMA UnthrottleSenderStep == ASSUME IInv, NEW t \in Transfer, UnthrottleSender(t) PROVE IInv'
<1> DEFINE x == xfer[t]
           z == [x EXCEPT !.sthrottled = FALSE]
<1>1. x.sstat = "ACTIVE" /\ x.sthrottled /\ Step(t, dcc_send_data(z)) BY DEF UnthrottleSender
<1>2. Good(xfer, files) /\ Basic(x) BY DEF IInv, Good, Fits
<1>3. ~(ExactAcks /\ "huge" \in features)
  BY <1>1, <1>2 DEF Basic, ExactAcks, May
<1>4. x \in TransferType /\ (x.wiotag => fast /\ x.spos < size) BY <1>2 DEF Basic
<1>5. z \in TransferType BY <1>4 DEF TransferType
<1>6. SameReceiver(x, z) BY <1>4 DEF TransferType, SameReceiver
<1>7. /\ z.sstat = x.sstat /\ z.spos = x.spos /\ z.data = x.data
      /\ z.acks = x.acks /\ z.sresumable = x.sresumable /\ z.sack = x.sack
      /\ z.ackoffset = x.ackoffset /\ z.wiotag = x.wiotag /\ z.sthrottled = FALSE
  BY <1>4 DEF TransferType
<1>8. ~Early(x) BY <1>1, NotEarly
<1> HIDE DEF z
<1>9. Good([xfer EXCEPT ![t] = dcc_send_data(z)], files)
  BY <1>1, <1>2, <1>3, <1>4, <1>5, <1>6, <1>7, <1>8, SendDataGood
<1> QED BY <1>1, <1>9, StepIInv

(* An acknowledgement is read, perhaps in two pieces. *)
LEMMA ReadAckStep == ASSUME IInv, NEW t \in Transfer, dcc_read_ack(t) PROVE IInv'
<1> DEFINE x == xfer[t]
<1>1. x.sstat = "ACTIVE" /\ x.acks # <<>> BY DEF dcc_read_ack
<1>2. /\ Good(xfer, files) /\ Basic(x) /\ x \in TransferType
      /\ Agreed => Aligned(t, x, files)
      /\ ExactAcks => Acknowledged(x)
  BY DEF IInv, Good, Fits, Basic
<1>3. PICK a \in {Head(x.acks)} \cup (IF May("pieces") THEN 0..(AckMod - 1) ELSE {}) :
        Step(t, dcc_handle_new_ack([x EXCEPT !.acks = Tail(x.acks)], a))
  BY DEF dcc_read_ack
<1>4. a \in 0..(AckMod - 1)
  <2>1. x.acks \in Seq(0..(AckMod - 1)) BY <1>2, Fields
  <2> QED BY <1>1, <1>3, <2>1, TailFacts
<1> DEFINE y == dcc_handle_new_ack([x EXCEPT !.acks = Tail(x.acks)], a)
<1>5. AckHandled(x, a, y) BY <1>1, <1>2, <1>4, NewAck, Zenon
<1> HIDE DEF y
<1>6. SenderStep(x, y) BY <1>5, Zenon DEF AckHandled
<1>7. ASSUME ExactAcks PROVE Acknowledged(y)
  <2>1. a = Head(x.acks) BY <1>3, <1>7 DEF ExactAcks, Never, May
  <2>2. Agreed BY <1>7 DEF ExactAcks
  <2>3. Opening(x, files) BY <1>2, <2>2 DEF Aligned
  <2>4. x.began => x.rpos <= size BY <1>2, <2>2, CountedFits
  <2> HIDE DEF x
  <2> QED BY <1>1, <1>2, <1>5, <1>7, <2>1, <2>3, <2>4, NewAckExact
<1>8. ~Early(x) BY <1>1, NotEarly
<1>9. Good([xfer EXCEPT ![t] = y], files)
  BY <1>1, <1>2, <1>6, <1>7, <1>8, SenderGood
<1> QED BY <1>3, <1>9, StepIInv DEF y

(* The sender reaches its speed limit. *)
LEMMA ThrottleSenderStep == ASSUME IInv, NEW t \in Transfer, ThrottleSender(t) PROVE IInv'
<1> DEFINE x == xfer[t]
           y == [x EXCEPT !.sthrottled = TRUE]
<1>1. May("throttle") /\ x.sstat = "ACTIVE" /\ Step(t, y) BY DEF ThrottleSender
<1>2. /\ Good(xfer, files) /\ Basic(x) /\ x \in TransferType /\ (ExactAcks => Acknowledged(x))
  BY DEF IInv, Good, Fits, Basic
<1>3. y \in TransferType BY <1>2 DEF TransferType
<1>4. SameReceiver(x, y) BY <1>2 DEF TransferType, SameReceiver
<1>5. /\ y.sstat = x.sstat /\ y.spos = x.spos /\ y.data = x.data
      /\ y.acks = x.acks /\ y.sresumable = x.sresumable /\ y.sack = x.sack
      /\ y.ackoffset = x.ackoffset /\ y.wiotag = x.wiotag /\ y.sthrottled = TRUE
  BY <1>2 DEF TransferType
<1> HIDE DEF y
<1>6. SenderStep(x, y) BY <1>1, <1>2, <1>3, <1>4, <1>5 DEF SenderStep, Basic
<1>7. ExactAcks => Acknowledged(y)
  BY <1>2, <1>4, <1>5 DEF Acknowledged, AcksOfHuge, AcksOfSmall, SameReceiver
<1>8. ~Early(x) BY <1>1, NotEarly
<1>9. Good([xfer EXCEPT ![t] = y], files)
  BY <1>1, <1>2, <1>6, <1>7, <1>8, SenderGood
<1> QED BY <1>1, <1>9, StepIInv

(* An offer that nobody takes is closed. *)
LEMMA OfferTimeoutStep == ASSUME IInv, NEW t \in Transfer, OfferTimeout(t) PROVE IInv'
<1>1. xfer[t].sstat = "QUEUED" /\ Step(t, dcc_close_sender(xfer[t], "ABORTED")) BY DEF OfferTimeout
<1>2. Good([xfer EXCEPT ![t] = dcc_close_sender(xfer[t], "ABORTED")], files)
  BY <1>1, CloseSenderGood DEF IInv
<1> QED BY <1>1, <1>2, StepIInv

(* The new connection has carried nothing yet. *)
LEMMA StartSendingGood ==
  ASSUME NEW xs, NEW fs, Good(xs, fs), NEW t \in Transfer, xs[t].sstat \in {"QUEUED", "CONNECTING"},
         ~Early(xs[t]) \/ ~Agreed
  PROVE  Good([xs EXCEPT ![t] = StartSending(xs[t])], fs)
<1> DEFINE x == xs[t]
           w == fast
           z == [x EXCEPT !.sstat = "ACTIVE", !.ssok = "open", !.wiotag = w]
<1>1. x \in TransferType /\ Basic(x) BY DEF Good, Fits, Basic
<1>2. x.data = <<>> /\ x.acks = <<>> /\ x.spos < size /\ (x.sthrottled => May("throttle"))
  BY <1>1 DEF Basic
<1>3. StartSending(x) = dcc_send_data(z) BY DEF StartSending
<1>4. w \in BOOLEAN /\ w = fast BY DEF fast
<1>5. "ACTIVE" \in Stat BY DEF Stat
<1> HIDE DEF w
<1>6. z \in TransferType BY <1>1, <1>4, <1>5 DEF TransferType
<1>7. SameReceiver(x, z) BY <1>1 DEF TransferType, SameReceiver
<1>8. /\ z.sstat = "ACTIVE" /\ z.spos = x.spos /\ z.data = x.data
      /\ z.acks = x.acks /\ z.sresumable = x.sresumable /\ z.sack = x.sack
      /\ z.ackoffset = x.ackoffset /\ z.wiotag = w /\ z.sthrottled = x.sthrottled
  BY <1>1 DEF TransferType
<1> HIDE DEF z
<1>9. Good([xs EXCEPT ![t] = dcc_send_data(z)], fs)
  BY <1>1, <1>2, <1>4, <1>6, <1>7, <1>8, SendDataGood
<1> QED BY <1>3, <1>9

(* The sender listens and the receiver has connected. *)
LEMMA SenderAcceptsStep ==
  ASSUME IInv, NEW t \in Transfer, xfer[t].sstat = "QUEUED", xfer[t].rsok # "none",
         Step(t, StartSending(xfer[t]))
  PROVE  IInv'
<1>1. ~Early(xfer[t]) BY NotEarly
<1>2. Good([xfer EXCEPT ![t] = StartSending(xfer[t])], files)
  BY <1>1, StartSendingGood DEF IInv
<1> QED BY <1>2, StepIInv

(* The sender connects to a receiver that listens. *)
LEMMA SenderConnectsStep ==
  ASSUME IInv, NEW t \in Transfer, xfer[t].sstat = "CONNECTING", NEW there \in BOOLEAN,
         Step(t, IF there THEN StartSending(xfer[t]) ELSE [xfer[t] EXCEPT !.sstat = "FAILED"])
  PROVE  IInv'
<1> DEFINE x == xfer[t]
<1>1. ~Early(x) BY NotEarly
<1>2. CASE there
  <2>1. Good([xfer EXCEPT ![t] = StartSending(x)], files)
    BY <1>1, StartSendingGood DEF IInv
  <2>2. Step(t, StartSending(x)) BY <1>2
  <2> QED BY <2>1, <2>2, StepIInv
<1>3. CASE ~there
  <2> DEFINE y == [x EXCEPT !.sstat = "FAILED"]
  <2>1. Step(t, y) BY <1>3
  <2>2. Good(xfer, files) /\ Basic(x) /\ x \in TransferType /\ (ExactAcks => Acknowledged(x))
    BY DEF IInv, Good, Fits, Basic
  <2>3. "FAILED" \in Stat BY DEF Stat
  <2>4. y \in TransferType BY <2>2, <2>3 DEF TransferType
  <2>5. SameReceiver(x, y) BY <2>2 DEF TransferType, SameReceiver
  <2>6. /\ y.sstat = "FAILED" /\ y.spos = x.spos /\ y.data = x.data
        /\ y.acks = x.acks /\ y.sresumable = x.sresumable /\ y.sack = x.sack
        /\ y.ackoffset = x.ackoffset /\ y.wiotag = x.wiotag /\ y.sthrottled = x.sthrottled
    BY <2>2 DEF TransferType
  <2> HIDE DEF y
  <2>7. SenderStep(x, y) BY <2>2, <2>4, <2>5, <2>6 DEF SenderStep, Basic
  <2>8. ExactAcks => Acknowledged(y)
    BY <2>2, <2>5, <2>6 DEF Acknowledged, AcksOfHuge, AcksOfSmall, SameReceiver
  <2>9. x.sstat # "NONE" OBVIOUS
  <2>10. Good([xfer EXCEPT ![t] = y], files) BY <1>1, <2>2, <2>7, <2>8, <2>9, SenderGood
  <2> QED BY <2>1, <2>10, StepIInv
<1> QED BY <1>2, <1>3
---------------------------------------------------------------------------
(* The receiver's actions. *)

(* What no function of the receiver's stream touches. *)
SameSender(x, y) ==
    /\ y.sstat = x.sstat /\ y.spos = x.spos /\ y.sack = x.sack /\ y.sresumable = x.sresumable
    /\ y.ackoffset = x.ackoffset /\ y.sthrottled = x.sthrottled /\ y.wiotag = x.wiotag
    /\ y.ssok = x.ssok /\ y.toR = x.toR /\ y.toS = x.toS

(* dcc_close at the receiver. *)
ClosedReceiver(x, stat, r) ==
    /\ r \in TransferType /\ SameSender(x, r)
    /\ r.rstat = stat /\ r.rpos = x.rpos /\ r.rresumable = x.rresumable
    /\ r.resume_sent = x.resume_sent /\ r.fp = FALSE /\ r.began = x.began
    /\ r.destfile = x.destfile /\ r.data = <<>> /\ r.acks = x.acks

(* Closing changes nothing that the sender holds. *)
LEMMA CloseReceiver ==
  ASSUME NEW x \in TransferType, NEW stat \in Stat, NEW r, r = dcc_close_receiver(x, stat)
  PROVE  ClosedReceiver(x, stat, r)
<1> DEFINE b == x.reset \/ x.data # <<>>
           g == Gone(x.rsok)
           e == <<>>
<1>1. b \in BOOLEAN /\ g \in {"none", "syn", "open", "closed"} /\ e \in Seq(1..size)
  BY DEF TransferType, Gone
<1>2. r = [x EXCEPT !.rstat = stat, !.fp = FALSE, !.rsok = g, !.data = e, !.reset = b]
  BY Zenon DEF dcc_close_receiver
<1>3. e = <<>> OBVIOUS
<1> HIDE DEF b, g, e
<1>4. r \in TransferType BY <1>1, <1>2, ZenonT(60) DEF TransferType
<1>5. SameSender(x, r) BY <1>1, <1>2 DEF TransferType, SameSender
<1>6. /\ r.rstat = stat /\ r.rpos = x.rpos /\ r.rresumable = x.rresumable
      /\ r.resume_sent = x.resume_sent /\ r.fp = FALSE /\ r.began = x.began
      /\ r.destfile = x.destfile /\ r.data = e /\ r.acks = x.acks
  BY <1>1, <1>2 DEF TransferType
<1> QED BY <1>3, <1>4, <1>5, <1>6 DEF ClosedReceiver

(* A receiver may be closed at any time. *)
LEMMA CloseReceiverGood ==
  ASSUME NEW xs, NEW fs, Good(xs, fs), NEW t \in Transfer,
         NEW stat \in {"DONE", "FAILED", "ABORTED", "REMOVED"}, xs[t].rstat # "NONE"
  PROVE  Good([xs EXCEPT ![t] = dcc_close_receiver(xs[t], stat)], fs)
<1> DEFINE x == xs[t]
           y == dcc_close_receiver(x, stat)
<1>1. /\ x \in TransferType /\ Basic(x) /\ x.rstat # "NONE"
      /\ Agreed => Aligned(t, x, fs)
      /\ ExactAcks => Acknowledged(x)
  BY DEF Good, Fits, Basic
<1>2. ClosedReceiver(x, stat, y)
  <2>1. stat \in Stat BY DEF Stat
  <2> QED BY <1>1, <2>1, CloseReceiver, Zenon
<1> HIDE DEF y
<1>3. Basic(y)
  <2> HIDE DEF x
  <2> QED BY <1>1, <1>2 DEF ClosedReceiver, SameSender, Basic
<1>4. ASSUME Agreed PROVE Aligned(t, y, fs)
  <2> HIDE DEF x
  <2>1. Aligned(t, x, fs) /\ x # NoTransfer BY <1>1, <1>4 DEF NoTransfer
  <2>2. Opening(y, fs) BY <1>2, <2>1 DEF Aligned, Opening, ClosedReceiver, SameSender
  <2>3. PartIsThere(y, fs) BY <1>2 DEF PartIsThere, ClosedReceiver
  <2> QED BY <1>2, <2>1, <2>2, <2>3 DEF Aligned, ClosedReceiver, SameSender
<1>5. ASSUME ExactAcks PROVE Acknowledged(y)
  <2> HIDE DEF x
  <2>1. Acknowledged(x) BY <1>1, <1>5
  <2> QED BY <1>2, <2>1 DEF Acknowledged, AcksOfSmall, AcksOfHuge, ClosedReceiver, SameSender
<1>6. Fits(t, y, fs) BY <1>3, <1>4, <1>5 DEF Fits
<1>7. y.began = x.began /\ y.destfile = x.destfile BY <1>2 DEF ClosedReceiver
<1> QED BY <1>6, <1>7, StepGood DEF y

(* The two timeouts and the user's aborts, at both ends. *)
LEMMA StallTimeoutStep == ASSUME IInv, NEW t \in Transfer, StallTimeout(t) PROVE IInv'
<1>1. CASE xfer[t].sstat = "ACTIVE" /\ Step(t, dcc_close_sender(xfer[t], "ABORTED"))
  <2>1. Good([xfer EXCEPT ![t] = dcc_close_sender(xfer[t], "ABORTED")], files)
    BY <1>1, CloseSenderGood DEF IInv
  <2> QED BY <1>1, <2>1, StepIInv
<1>2. CASE xfer[t].rstat = "ACTIVE" /\ Step(t, dcc_close_receiver(xfer[t], "ABORTED"))
  <2>1. Good([xfer EXCEPT ![t] = dcc_close_receiver(xfer[t], "ABORTED")], files)
    BY <1>2, CloseReceiverGood DEF IInv
  <2> QED BY <1>2, <2>1, StepIInv
<1> QED BY <1>1, <1>2 DEF StallTimeout

(* The user aborts a transfer at either end, or takes it off the list. *)
LEMMA AbortStep == ASSUME IInv, NEW t \in Transfer, dcc_abort(t) PROVE IInv'
<1> DEFINE To(stat) == IF stat \in Finished THEN "REMOVED" ELSE "ABORTED"
<1>1. CASE /\ xfer[t].sstat \notin {"NONE", "REMOVED"}
           /\ Step(t, dcc_close_sender(xfer[t], To(xfer[t].sstat)))
  <2>1. Good([xfer EXCEPT ![t] = dcc_close_sender(xfer[t], To(xfer[t].sstat))], files)
    BY <1>1, CloseSenderGood DEF IInv
  <2> QED BY <1>1, <2>1, StepIInv
<1>2. CASE /\ xfer[t].rstat \notin {"NONE", "REMOVED"}
           /\ Step(t, dcc_close_receiver(xfer[t], To(xfer[t].rstat)))
  <2>1. Good([xfer EXCEPT ![t] = dcc_close_receiver(xfer[t], To(xfer[t].rstat))], files)
    BY <1>2, CloseReceiverGood DEF IInv
  <2> QED BY <1>2, <2>1, StepIInv
<1> QED BY <1>1, <1>2 DEF dcc_abort

(* A receiver connects, fails to, or is throttled: nothing that was        *)
(* counted changes.                                                        *)
LEMMA ReceiverStatGood ==
  ASSUME NEW xs, NEW fs, Good(xs, fs), NEW t \in Transfer, NEW y \in TransferType,
         SameSender(xs[t], y), xs[t].rstat \in {"CONNECTING", "ACTIVE"},
         y.rstat \in {"ACTIVE", "FAILED"}, y.rsok = "closed" => xs[t].rsok = "closed",
         y.rpos = xs[t].rpos, y.rresumable = xs[t].rresumable, y.resume_sent = xs[t].resume_sent,
         y.fp = xs[t].fp, y.began = xs[t].began, y.destfile = xs[t].destfile,
         y.data = xs[t].data, y.acks = xs[t].acks
  PROVE  Good([xs EXCEPT ![t] = y], fs)
<1> DEFINE x == xs[t]
<1>1. /\ Basic(x)
      /\ Agreed => Aligned(t, x, fs)
      /\ ExactAcks => Acknowledged(x)
  BY DEF Good, Fits
<1>2. x.began \in BOOLEAN /\ x.fp \in BOOLEAN BY <1>1, Fields DEF Basic
<1>3. SameSender(x, y) OBVIOUS
<1>4. Basic(y)
  <2>1. y.rstat = "ACTIVE" => y.fp = y.began BY <1>1, <1>2 DEF Basic
  <2> HIDE DEF x
  <2> QED BY <1>1, <1>3, <2>1 DEF SameSender, Basic, x
<1>5. ASSUME Agreed PROVE Aligned(t, y, fs)
  <2>1. Aligned(t, x, fs) /\ x # NoTransfer BY <1>1, <1>5 DEF NoTransfer
  <2>2. Opening(y, fs) BY <1>3, <2>1 DEF Aligned, Opening, SameSender
  <2>3. PartIsThere(y, fs) BY <2>1 DEF Aligned, PartIsThere
  <2>4. Running(y) BY <1>3, <2>1 DEF Aligned, Running, SameSender
  <2> QED BY <1>3, <2>1, <2>2, <2>3, <2>4 DEF Aligned, SameSender
<1>6. ASSUME ExactAcks PROVE Acknowledged(y)
  <2>1. Acknowledged(x) BY <1>1, <1>6
  <2> QED BY <1>3, <2>1 DEF Acknowledged, AcksOfSmall, AcksOfHuge, SameSender
<1>7. Fits(t, y, fs) BY <1>4, <1>5, <1>6 DEF Fits
<1> QED BY <1>7, StepGood

(* Updates of a receiver's state alone. *)
ReceiverUpdated(x, y, stat, b, s) ==
    /\ y \in TransferType /\ SameSender(x, y)
    /\ y.rstat = stat /\ y.rthrottled = b /\ y.rsok = s
    /\ y.rpos = x.rpos /\ y.rresumable = x.rresumable /\ y.resume_sent = x.resume_sent
    /\ y.fp = x.fp /\ y.began = x.began /\ y.destfile = x.destfile
    /\ y.data = x.data /\ y.acks = x.acks

(* A receiver's state, throttling and socket are set. *)
LEMMA ReceiverUpdates ==
  ASSUME NEW x \in TransferType, NEW stat \in Stat, NEW b \in BOOLEAN, NEW s \in {"open", x.rsok},
         NEW y, y = [x EXCEPT !.rstat = stat, !.rthrottled = b, !.rsok = s]
  PROVE  ReceiverUpdated(x, y, stat, b, s)
<1>1. s \in {"none", "syn", "open", "closed"} BY DEF TransferType
<1>2. y \in TransferType BY <1>1 DEF TransferType
<1>3. SameSender(x, y) BY DEF TransferType, SameSender
<1>4. /\ y.rstat = stat /\ y.rthrottled = b /\ y.rsok = s
      /\ y.rpos = x.rpos /\ y.rresumable = x.rresumable /\ y.resume_sent = x.resume_sent
      /\ y.fp = x.fp /\ y.began = x.began /\ y.destfile = x.destfile
      /\ y.data = x.data /\ y.acks = x.acks
  BY DEF TransferType
<1> QED BY <1>2, <1>3, <1>4 DEF ReceiverUpdated

(* A receiver is throttled. *)
LEMMA ThrottleReceiverStep == ASSUME IInv, NEW t \in Transfer, ThrottleReceiver(t) PROVE IInv'
<1> DEFINE x == xfer[t]
           y == [x EXCEPT !.rthrottled = TRUE]
<1>1. x.rstat = "ACTIVE" /\ Step(t, y) BY DEF ThrottleReceiver
<1>2. Good(xfer, files) /\ x \in TransferType BY DEF IInv, Good
<1>3. y = [x EXCEPT !.rstat = "ACTIVE", !.rthrottled = TRUE, !.rsok = x.rsok]
  BY <1>1, <1>2 DEF TransferType
<1>4. "ACTIVE" \in Stat BY DEF Stat
<1> HIDE DEF y
<1>5. Good([xfer EXCEPT ![t] = y], files)
  <2>1. TRUE \in BOOLEAN /\ x.rsok \in {"open", x.rsok} OBVIOUS
  <2>2. ReceiverUpdated(x, y, "ACTIVE", TRUE, x.rsok) BY <1>2, <1>3, <1>4, <2>1, ReceiverUpdates, Zenon
  <2> QED BY <1>1, <1>2, <2>2, ReceiverStatGood DEF ReceiverUpdated
<1> QED BY <1>1, <1>5, StepIInv

(* A receiver connects or is connected to, or fails to connect. *)
LEMMA ReceiverConnectsStep ==
  ASSUME IInv, NEW t \in Transfer, xfer[t].rstat = "CONNECTING", NEW there \in BOOLEAN,
         Step(t, IF there THEN [xfer[t] EXCEPT !.rstat = "ACTIVE", !.rsok = "open"]
                 ELSE [xfer[t] EXCEPT !.rstat = "FAILED"])
  PROVE  IInv'
<1> DEFINE x == xfer[t]
           y == IF there THEN [x EXCEPT !.rstat = "ACTIVE", !.rsok = "open"]
                ELSE [x EXCEPT !.rstat = "FAILED"]
           stat == IF there THEN "ACTIVE" ELSE "FAILED"
           s == IF there THEN "open" ELSE x.rsok
           b == x.rthrottled
<1>1. Good(xfer, files) /\ x \in TransferType BY DEF IInv, Good
<1>2. y = [x EXCEPT !.rstat = stat, !.rthrottled = b, !.rsok = s]
  BY <1>1 DEF TransferType
<1>3. /\ stat \in Stat /\ b \in BOOLEAN /\ s \in {"open", x.rsok} /\ stat \in {"ACTIVE", "FAILED"}
  BY <1>1 DEF Stat, TransferType
<1> HIDE DEF y, stat, s, b
<1>4. Good([xfer EXCEPT ![t] = y], files)
  <2>1. ReceiverUpdated(x, y, stat, b, s) BY <1>1, <1>2, <1>3, ReceiverUpdates, Zenon
  <2> QED BY <1>1, <1>3, <2>1, ReceiverStatGood DEF ReceiverUpdated
<1>5. Step(t, y) BY DEF y
<1> QED BY <1>4, <1>5, StepIInv

(* The end that listens gets its connection. *)
LEMMA AcceptStep == ASSUME IInv, NEW t \in Transfer, dcc_accept(t) PROVE IInv'
<1>1. CASE xfer[t].sstat = "QUEUED" /\ xfer[t].rsok # "none" /\ Step(t, StartSending(xfer[t]))
  BY <1>1, SenderAcceptsStep
<1>2. CASE /\ xfer[t].rstat = "CONNECTING"
           /\ Step(t, [xfer[t] EXCEPT !.rstat = "ACTIVE", !.rsok = "open"])
  <2>1. TRUE \in BOOLEAN /\ Step(t, IF TRUE THEN [xfer[t] EXCEPT !.rstat = "ACTIVE", !.rsok = "open"]
                                    ELSE [xfer[t] EXCEPT !.rstat = "FAILED"])
    BY <1>2
  <2> QED BY <1>2, <2>1, ReceiverConnectsStep
<1> QED BY <1>1, <1>2 DEF dcc_accept

(* The end that connects, or fails to. *)
LEMMA ConnectFinishedStep == ASSUME IInv, NEW t \in Transfer, dcc_connect_finished(t) PROVE IInv'
<1> DEFINE x == xfer[t]
           sender_there == x.sstat = "QUEUED" \/ x.ssok # "none"
           receiver_there == x.rstat = "CONNECTING" \/ x.rsok # "none"
<1>0. sender_there \in BOOLEAN /\ receiver_there \in BOOLEAN OBVIOUS
<1>1. CASE /\ x.rstat = "CONNECTING"
           /\ Step(t, IF sender_there THEN [x EXCEPT !.rstat = "ACTIVE", !.rsok = "open"]
                      ELSE [x EXCEPT !.rstat = "FAILED"])
  <2> HIDE DEF sender_there
  <2> QED BY <1>0, <1>1, ReceiverConnectsStep
<1>2. CASE /\ x.sstat = "CONNECTING"
           /\ Step(t, IF receiver_there THEN StartSending(x) ELSE [x EXCEPT !.sstat = "FAILED"])
  <2> HIDE DEF receiver_there
  <2> QED BY <1>0, <1>2, SenderConnectsStep
<1> QED BY <1>1, <1>2 DEF dcc_connect_finished
---------------------------------------------------------------------------
(* The handshake. *)

(* An offer is made. *)
LEMMA SendStep == ASSUME IInv, NEW t \in Transfer, dcc_send(t) PROVE IInv'
<1> DEFINE x == xfer[t]
           q == <<[cmd |-> "SEND"]>>
           y == [NoTransfer EXCEPT !.sstat = "QUEUED", !.toR = q]
<1>1. x = NoTransfer /\ (t > 1 => May("twice")) /\ Step(t, y) BY DEF dcc_send
<1>2. /\ Good(xfer, files) /\ Basic(x) /\ x \in TransferType
      /\ Agreed => Aligned(t, x, files)
      /\ ExactAcks => Acknowledged(x)
  BY DEF IInv, Good, Fits, Basic
<1>3. /\ q \in Seq(ToReceiver) /\ Len(q) = 1 /\ q[1].cmd = "SEND"
  BY DEF ToReceiver
<1>4. "QUEUED" \in Stat BY DEF Stat
<1> DEFINE e == <<>>
<1>5. NoTransfer = [sstat |-> "NONE", spos |-> 0, sack |-> 0, sresumable |-> 0, ackoffset |-> FALSE,
     sthrottled |-> FALSE, wiotag |-> FALSE,
     rstat |-> "NONE", rpos |-> 0, rresumable |-> 0, resume_sent |-> FALSE,
     rthrottled |-> FALSE, fp |-> FALSE, began |-> FALSE, destfile |-> 0,
     ssok |-> "none", rsok |-> "none", reset |-> FALSE, data |-> e, acks |-> e,
     toR |-> e, toS |-> e]
  BY DEF NoTransfer
<1>6. e = <<>> OBVIOUS
<1> HIDE DEF q, e
<1>7. y \in TransferType BY <1>1, <1>2, <1>3, <1>4 DEF TransferType
<1>8. /\ y.sstat = "QUEUED" /\ y.spos = 0 /\ y.sack = 0 /\ y.sresumable = 0 /\ y.ackoffset = FALSE
      /\ y.sthrottled = FALSE /\ y.wiotag = FALSE
      /\ y.rstat = "NONE" /\ y.rpos = 0 /\ y.rresumable = 0 /\ y.resume_sent = FALSE
      /\ y.fp = FALSE /\ y.began = FALSE /\ y.destfile = 0
      /\ y.ssok = "none" /\ y.rsok = "none" /\ y.reset = FALSE /\ y.data = e /\ y.acks = e
      /\ y.toR = q /\ y.toS = e
  BY <1>5
<1>9. Len(e) = 0 BY <1>6
<1> HIDE DEF y
<1>16. /\ \A i \in 1..Len(y.toR) : i = 1 /\ y.toR[i].cmd = "SEND"
       /\ \A i \in 1..Len(y.toS) : FALSE
  <2>1. y.toR = q /\ y.toS = e BY <1>8
  <2>2. \A i \in 1..Len(q) : i = 1 BY <1>3
  <2>3. \A i \in 1..Len(q) : q[i].cmd = "SEND" BY <1>3, <2>2, Zenon
  <2>4. \A i \in 1..Len(e) : FALSE BY <1>9
  <2> QED BY <2>1, <2>2, <2>3, <2>4, Zenon
<1>17. y.data = <<>> /\ y.acks = <<>> /\ y.toS = <<>> /\ Len(y.data) = 0 /\ Len(y.acks) = 0
  BY <1>6, <1>8, <1>9
<1>10. Basic(y) BY <1>7, <1>8, <1>16, <1>17, Sizes DEF Basic
<1>11. Aligned(t, y, files)
  <2>1. NoRequest(y) BY <1>8, <1>16, <1>17 DEF NoRequest
  <2>2. Early(y) BY <1>6, <1>8, <2>1 DEF Early
  <2>3. Opening(y, files) /\ PartIsThere(y, files) BY <1>6, <1>8 DEF Opening, PartIsThere
  <2> QED BY <1>1, <1>8, <1>16, <2>2, <2>3 DEF Aligned
<1>12. Acknowledged(y)
  BY <1>6, <1>8, <1>9, Sizes DEF Acknowledged, AcksOfSmall, AcksOfHuge
<1>13. Fits(t, y, files) BY <1>10, <1>11, <1>12 DEF Fits
<1>14. y.began = x.began /\ y.destfile = x.destfile
  <2>1. x.began = FALSE /\ x.destfile = 0 BY <1>1 DEF NoTransfer
  <2> QED BY <1>8, <2>1
<1>15. Good([xfer EXCEPT ![t] = y], files) BY <1>2, <1>13, <1>14, StepGood
<1> QED BY <1>1, <1>15, StepIInv DEF y

(* Nothing was acknowledged while the receiver is not connected. *)
LEMMA QuietAcks ==
  ASSUME NEW x, NEW y, Acknowledged(x), x.sstat # "DONE", y.sstat # "DONE",
         y.acks = <<>>, Len(y.data) <= 1, y.ackoffset = x.ackoffset,
         (x.sstat = y.sstat /\ y.sack = x.sack) \/ y.sack < size,
         y.sstat = "CONNECTING" => x.sstat \in {"CONNECTING", "QUEUED"}
  PROVE  Acknowledged(y)
<1>1. Len(y.acks) = 0 OBVIOUS
<1> QED BY <1>1 DEF Acknowledged, AcksOfHuge, AcksOfSmall

(* What update_is_resumable finds: a part that is shorter than the file,   *)
(* or nothing.                                                             *)
Updated(x, r) ==
    /\ r \in TransferType /\ SameSender(x, r)
    /\ r.rstat = x.rstat /\ r.resume_sent = x.resume_sent /\ r.rthrottled = x.rthrottled
    /\ r.fp = x.fp /\ r.began = x.began /\ r.destfile = x.destfile
    /\ r.rsok = x.rsok /\ r.reset = x.reset /\ r.data = x.data /\ r.acks = x.acks
    /\ \/ r.rresumable = 0 /\ r.rpos \in {0, x.rpos}
       \/ /\ x.destfile \in DOMAIN files /\ r.rresumable = Len(files[x.destfile])
          /\ r.rpos = r.rresumable /\ 0 < r.rresumable /\ r.rresumable < size

Positioned(x, r, part, p) ==
    /\ r \in TransferType /\ SameSender(x, r)
    /\ r.rstat = x.rstat /\ r.resume_sent = x.resume_sent /\ r.rthrottled = x.rthrottled
    /\ r.fp = x.fp /\ r.began = x.began /\ r.destfile = x.destfile
    /\ r.rsok = x.rsok /\ r.reset = x.reset /\ r.data = x.data /\ r.acks = x.acks
    /\ r.rresumable = part /\ r.rpos = p

(* The receiver's position is set. *)
LEMMA PositionUpdates ==
  ASSUME NEW x \in TransferType, NEW part \in 0..size, NEW p \in Nat,
         NEW r, r = [x EXCEPT !.rresumable = part, !.rpos = p]
  PROVE  Positioned(x, r, part, p)
<1>1. r \in TransferType BY DEF TransferType
<1>2. SameSender(x, r) BY DEF TransferType, SameSender
<1>3. /\ r.rstat = x.rstat /\ r.resume_sent = x.resume_sent /\ r.rthrottled = x.rthrottled
      /\ r.fp = x.fp /\ r.began = x.began /\ r.destfile = x.destfile
      /\ r.rsok = x.rsok /\ r.reset = x.reset /\ r.data = x.data /\ r.acks = x.acks
      /\ r.rresumable = part /\ r.rpos = p
  BY DEF TransferType
<1> QED BY <1>1, <1>2, <1>3 DEF Positioned

(* update_is_resumable. *)
LEMMA UpdateResumable ==
  ASSUME Good(xfer, files), NEW t \in Transfer, NEW x \in TransferType,
         NEW r, r = update_is_resumable(t, x)
  PROVE  Updated(x, r)
<1> DEFINE part == IF x.destfile \in DOMAIN files THEN Len(files[x.destfile]) ELSE 0
<1>0. size \in Nat /\ x.rpos \in Nat BY Sizes, Fields
<1>1. part \in Nat /\ (part # 0 => x.destfile \in DOMAIN files /\ part = Len(files[x.destfile]))
  BY DEF Good, Filed
<1>2. \/ r = [x EXCEPT !.rresumable = 0]
      \/ r = [x EXCEPT !.rresumable = 0, !.rpos = 0]
      \/ part # 0 /\ ~(part >= size) /\ r = [x EXCEPT !.rresumable = part, !.rpos = part]
  BY Zenon DEF update_is_resumable
<1> HIDE DEF part
<1>3. CASE r = [x EXCEPT !.rresumable = 0]
  <2>1. r = [x EXCEPT !.rresumable = 0, !.rpos = x.rpos] BY <1>3 DEF TransferType
  <2>2. 0 \in 0..size BY <1>0
  <2>3. Positioned(x, r, 0, x.rpos)
    BY <1>0, <2>1, <2>2, PositionUpdates, Zenon
  <2> QED BY <2>3 DEF Updated, Positioned
<1>4. CASE r = [x EXCEPT !.rresumable = 0, !.rpos = 0]
  <2>2. 0 \in 0..size /\ 0 \in Nat BY <1>0
  <2>3. Positioned(x, r, 0, 0)
    BY <1>4, <2>2, PositionUpdates, Zenon
  <2> QED BY <2>3 DEF Updated, Positioned
<1>5. CASE part # 0 /\ ~(part >= size) /\ r = [x EXCEPT !.rresumable = part, !.rpos = part]
  <2>2. part \in 0..size /\ part \in Nat /\ 0 < part /\ part < size BY <1>0, <1>1, <1>5
  <2>3. Positioned(x, r, part, part)
    BY <1>5, <2>2, PositionUpdates, Zenon
  <2> QED BY <1>1, <1>5, <2>2, <2>3 DEF Updated, Positioned
<1> QED BY <1>2, <1>3, <1>4, <1>5

(* A transfer whose receiver is not connected yet is still in order: it    *)
(* keeps the sender's place, and a request that it makes names the part    *)
(* that is there.                                                          *)
LEMMA QueuedGood ==
  ASSUME NEW xs, NEW fs, Good(xs, fs), NEW t \in Transfer, NEW y, Basic(y),
         y.rstat = "QUEUED", y.destfile = xs[t].destfile, ~xs[t].began,
         y.sstat = xs[t].sstat, y.sack = xs[t].sack, y.ackoffset = xs[t].ackoffset,
         xs[t] # NoTransfer,
         Agreed => Early(xs[t]) /\ Early(y) /\ PartIsThere(y, fs),
         Agreed => \A i \in 1..Len(y.toR) : y.toR[i].cmd = "ACCEPT" => May("resume"),
         Agreed => \A i \in 1..Len(y.toS) : y.toS[i].cmd = "RESUME" => May("resume"),
         Agreed /\ y.resume_sent => May("resume")
  PROVE  Good([xs EXCEPT ![t] = y], fs)
<1> DEFINE x == xs[t]
<1>1. /\ Basic(x)
      /\ Agreed => Aligned(t, x, fs)
      /\ ExactAcks => Acknowledged(x)
  BY DEF Good, Fits
<1>2. ~y.began BY DEF Basic
<1>3. ASSUME Agreed PROVE Aligned(t, y, fs)
  <2>1. Opening(y, fs) BY <1>2, <1>3 DEF Early, Opening
  <2> QED BY <1>1, <1>3, <2>1 DEF Aligned
<1>4. ASSUME ExactAcks PROVE Acknowledged(y)
  <2>1. Early(x) /\ Early(y) BY <1>4 DEF ExactAcks
  <2>2. y.acks = <<>> /\ Len(y.data) <= 1 /\ x.sstat # "DONE" /\ y.sstat # "DONE"
    <3>1. Len(<<>>) <= 1 OBVIOUS
    <3> QED BY <2>1, <3>1 DEF Early
  <2>3. Acknowledged(x) BY <1>1, <1>4
  <2> QED BY <2>2, <2>3, QuietAcks
<1>5. Fits(t, y, fs) BY <1>3, <1>4 DEF Fits
<1>6. x.began \in BOOLEAN /\ y.began \in BOOLEAN BY <1>1, Fields DEF Basic
<1> QED BY <1>2, <1>5, <1>6, StepGood

(* The offer arrives. *)
LEMMA HandleSendStep == ASSUME IInv, NEW t \in Transfer, handle_dcc_send(t) PROVE IInv'
<1> DEFINE x == xfer[t]
           q == Tail(x.toR)
           y == [x EXCEPT !.rstat = "QUEUED", !.toR = q]
           r == update_is_resumable(t, y)
<1>1. x.toR # <<>> /\ Head(x.toR).cmd = "SEND" /\ Step(t, r) BY DEF handle_dcc_send, Receives
<1>2. /\ Good(xfer, files) /\ Basic(x) /\ x \in TransferType
      /\ Agreed => Aligned(t, x, files)
  BY DEF IInv, Good, Fits, Basic
<1>3. /\ q \in Seq(ToReceiver) /\ Len(x.toR) \in Nat \ {0} /\ Len(q) = Len(x.toR) - 1
      /\ Head(x.toR) = x.toR[1]
      /\ \A i \in 1..Len(q) : q[i] = x.toR[i + 1]
  BY <1>1, <1>2, Fields, TailFacts
<1>4. x.rstat = "NONE" /\ \A i \in 1..Len(q) : q[i].cmd # "SEND"
  <2>1. 1 \in 1..Len(x.toR) /\ \A i \in 1..Len(q) : i + 1 \in 1..Len(x.toR) /\ i + 1 # 1 BY <1>3
  <2>2. \A i \in 1..Len(x.toR) : x.toR[i].cmd = "SEND" => i = 1 /\ x.rstat = "NONE"
    BY <1>2 DEF Basic
  <2> HIDE DEF q, x
  <2> QED BY <1>1, <1>3, <2>1, <2>2
<1>5. "QUEUED" \in Stat BY DEF Stat
<1> HIDE DEF q
<1>6. y \in TransferType BY <1>2, <1>3, <1>5 DEF TransferType
<1>7. /\ y.sstat = x.sstat /\ y.spos = x.spos /\ y.sack = x.sack /\ y.sresumable = x.sresumable
      /\ y.ackoffset = x.ackoffset /\ y.sthrottled = x.sthrottled /\ y.wiotag = x.wiotag
      /\ y.ssok = x.ssok /\ y.toR = q /\ y.toS = x.toS
      /\ y.rstat = "QUEUED" /\ y.resume_sent = x.resume_sent
      /\ y.fp = x.fp /\ y.began = x.began /\ y.destfile = x.destfile
      /\ y.rsok = x.rsok /\ y.reset = x.reset /\ y.data = x.data /\ y.acks = x.acks
  BY <1>2, <1>3 DEF TransferType
<1> HIDE DEF y
<1>8. Updated(y, r) BY <1>2, <1>6, UpdateResumable, Zenon
<1> HIDE DEF r, x
<1>9. ~x.began BY <1>2, <1>4 DEF Basic
<1>10. Basic(r)
  BY <1>2, <1>4, <1>7, <1>8, <1>9 DEF Basic, Updated, SameSender
<1>11. ASSUME Agreed PROVE Early(x) /\ ~x.resume_sent /\ NoRequest(x)
  <2>1. Early(x) BY <1>2, <1>4, <1>11 DEF Aligned
  <2> QED BY <1>4, <2>1 DEF Early, Requested
<1>12. ASSUME Agreed PROVE Early(r) /\ ~r.resume_sent
  <2>1. ~r.resume_sent BY <1>7, <1>8, <1>11, <1>12 DEF Updated
  <2>2. \A i \in 1..Len(q) : FALSE
    <3>1. \A i \in 1..Len(x.toR) : x.toR[i].cmd = "SEND" BY <1>11, <1>12 DEF NoRequest
    <3>2. \A i \in 1..Len(q) : i + 1 \in 1..Len(x.toR) BY <1>3
    <3> QED BY <1>3, <1>4, <3>1, <3>2
  <2>3. NoRequest(r) BY <1>7, <1>8, <1>11, <1>12, <2>2 DEF NoRequest, Updated, SameSender
  <2> QED BY <1>7, <1>8, <1>11, <1>12, <2>1, <2>3 DEF Early, Updated, SameSender
<1>13. ASSUME Agreed
       PROVE  /\ PartIsThere(r, files)
              /\ \A i \in 1..Len(r.toR) : r.toR[i].cmd = "ACCEPT" => May("resume")
              /\ \A i \in 1..Len(r.toS) : r.toS[i].cmd = "RESUME" => May("resume")
  <2>1. PartIsThere(r, files) BY <1>12, <1>13 DEF PartIsThere
  <2>2. NoRequest(r) /\ Basic(r) BY <1>10, <1>12, <1>13 DEF Early
  <2>3. Len(r.toS) = 0 BY <2>2 DEF NoRequest
  <2> QED BY <2>1, <2>2, <2>3 DEF NoRequest
<1>14. x # NoTransfer
  <2>1. NoTransfer.toR = <<>> BY DEF NoTransfer
  <2> QED BY <1>1, <2>1
<1>15. Good([xfer EXCEPT ![t] = r], files)
  <2>1. /\ r.rstat = "QUEUED" /\ r.destfile = x.destfile /\ r.sstat = x.sstat
        /\ r.sack = x.sack /\ r.ackoffset = x.ackoffset
    BY <1>7, <1>8 DEF Updated, SameSender
  <2> QED BY <1>2, <1>9, <1>10, <1>11, <1>12, <1>13, <1>14, <2>1, QueuedGood DEF x
<1> QED BY <1>1, <1>15, StepIInv DEF x

(* The offer was taken from the queue. *)
LEMMA OfferTaken ==
  ASSUME NEW x, Basic(x), NoRequest(x), x.rstat # "NONE"
  PROVE  x.toR = <<>> /\ x.toS = <<>> /\ Len(x.toR) = 0 /\ Len(x.toS) = 0
<1>1. x.toR \in Seq(ToReceiver) BY Fields DEF Basic
<1>2. \A i \in 1..Len(x.toR) : i = 1 /\ FALSE BY DEF Basic, NoRequest
<1>3. Len(x.toR) = 0 BY <1>1, <1>2
<1>4. x.toR = <<>> BY <1>1, <1>3, EmptySeq
<1> QED BY <1>3, <1>4 DEF NoRequest

(* A message is sent after the others. *)
LEMMA AppendFacts ==
  ASSUME NEW S, NEW s \in Seq(S), NEW m \in S
  PROVE  /\ Append(s, m) \in Seq(S) /\ Len(Append(s, m)) = Len(s) + 1 /\ Len(s) \in Nat
         /\ \A i \in 1..Len(Append(s, m)) :
              IF i = Len(s) + 1 THEN Append(s, m)[i] = m
              ELSE i \in 1..Len(s) /\ Append(s, m)[i] = s[i]
OBVIOUS

(* The user resumes. *)
LEMMA ResumeStep == ASSUME IInv, NEW t \in Transfer, Resume(t) PROVE IInv'
<1> DEFINE x == xfer[t]
           u == update_is_resumable(t, x)
           m == [cmd |-> "RESUME", offset |-> u.rresumable]
           q == Append(u.toS, m)
           r == IF u.rstat = "QUEUED" /\ u.rresumable # 0
                THEN [u EXCEPT !.resume_sent = TRUE, !.toS = q] ELSE u
<1>1. May("resume") /\ x.rstat = "QUEUED" /\ ~x.resume_sent /\ Step(t, r)
  BY DEF Resume, dcc_resume
<1>2. /\ Good(xfer, files) /\ Basic(x) /\ x \in TransferType
      /\ Agreed => Aligned(t, x, files)
  BY DEF IInv, Good, Fits, Basic
<1>3. Updated(x, u) BY <1>2, UpdateResumable, Zenon
<1> HIDE DEF u
<1>4. u \in TransferType /\ u.rresumable \in Nat /\ u.rresumable < size
  <2>1. u \in TransferType BY <1>3 DEF Updated
  <2> QED BY <1>3, <2>1, Fields, Sizes DEF Updated
<1>5. /\ m \in ToSender /\ m.cmd = "RESUME" /\ m.offset = u.rresumable
  BY <1>4 DEF ToSender
<1>6. u.toS \in Seq(ToSender) BY <1>4, Fields
<1> HIDE DEF m
<1>7. /\ q \in Seq(ToSender) /\ Len(q) = Len(u.toS) + 1 /\ Len(u.toS) \in Nat
      /\ \A i \in 1..Len(q) : IF i = Len(u.toS) + 1 THEN q[i] = m
                              ELSE i \in 1..Len(u.toS) /\ q[i] = u.toS[i]
  BY <1>5, <1>6, AppendFacts
<1>8. q = Append(u.toS, m) OBVIOUS
<1> HIDE DEF q, r
<1>9. ~x.began BY <1>1, <1>2 DEF Basic
<1>10. ASSUME Agreed PROVE Early(x) /\ NoRequest(x)
  <2>1. Early(x) BY <1>1, <1>2, <1>10 DEF Aligned
  <2> QED BY <1>1, <2>1 DEF Early
<1>11. x # NoTransfer
  <2>1. NoTransfer.rstat = "NONE" BY DEF NoTransfer
  <2> QED BY <1>1, <2>1
<1>12. Basic(u)
  <2> HIDE DEF x
  <2> QED BY <1>2, <1>1, <1>3, <1>9 DEF Basic, Updated, SameSender
<1>13. CASE u.rresumable = 0
  <2>1. r = u BY <1>13 DEF r
  <2>2. ASSUME Agreed PROVE Early(u) /\ NoRequest(u)
    <3>1. NoRequest(u) BY <1>3, <1>10, <2>2 DEF NoRequest, Updated, SameSender
    <3> QED BY <1>1, <1>3, <1>10, <2>2, <3>1 DEF Early, Updated, SameSender
  <2>3. ASSUME Agreed
        PROVE  /\ PartIsThere(u, files)
               /\ Len(u.toR) = 0 /\ Len(u.toS) = 0 /\ ~u.resume_sent
    <3>1. ~u.resume_sent BY <1>1, <1>3 DEF Updated
    <3>2. u.rstat # "NONE" BY <1>1, <1>3 DEF Updated
    <3> QED BY <1>12, <2>2, <2>3, <3>1, <3>2, OfferTaken DEF PartIsThere
  <2>4. /\ u.rstat = "QUEUED" /\ u.destfile = x.destfile /\ u.sstat = x.sstat
        /\ u.sack = x.sack /\ u.ackoffset = x.ackoffset
    BY <1>1, <1>3 DEF Updated, SameSender
  <2>5. Good([xfer EXCEPT ![t] = u], files)
    BY <1>2, <1>9, <1>10, <1>11, <1>12, <2>2, <2>3, <2>4, QueuedGood
  <2> QED BY <1>1, <2>1, <2>5, StepIInv
<1>14. CASE u.rresumable # 0
  <2>1. r = [u EXCEPT !.resume_sent = TRUE, !.toS = q] BY <1>1, <1>3, <1>14 DEF r, Updated
  <2>2. r \in TransferType BY <1>4, <1>7, <2>1 DEF TransferType
  <2>3. /\ r.sstat = u.sstat /\ r.spos = u.spos /\ r.sack = u.sack /\ r.sresumable = u.sresumable
        /\ r.ackoffset = u.ackoffset /\ r.sthrottled = u.sthrottled /\ r.wiotag = u.wiotag
        /\ r.ssok = u.ssok /\ r.toR = u.toR /\ r.toS = q
        /\ r.rstat = u.rstat /\ r.resume_sent = TRUE /\ r.rpos = u.rpos /\ r.rresumable = u.rresumable
        /\ r.fp = u.fp /\ r.began = u.began /\ r.destfile = u.destfile
        /\ r.rsok = u.rsok /\ r.reset = u.reset /\ r.data = u.data /\ r.acks = u.acks
    BY <1>4, <1>7, <2>1 DEF TransferType
  <2>4. Basic(r)
    <3>1. \A i \in 1..Len(r.toS) : r.toS[i].offset < size
      BY <1>4, <1>5, <1>7, <1>12, <2>3 DEF Basic
    <3> QED BY <1>12, <2>2, <2>3, <3>1 DEF Basic
  <2>5. ASSUME Agreed PROVE Early(r) /\ r.toR = <<>>
    <3>1. x.toR = <<>> /\ x.toS = <<>> BY <1>1, <1>2, <1>10, <2>5, OfferTaken
    <3>2. q = <<m>> /\ m = [cmd |-> "RESUME", offset |-> r.rresumable]
      BY <1>3, <1>8, <2>3, <3>1 DEF m, Updated, SameSender
    <3>3. r.rresumable > 0 /\ r.rpos = r.rresumable
      BY <1>3, <1>14, <2>3 DEF Updated
    <3>4. r.rstat = "QUEUED" BY <1>1, <1>3, <2>3 DEF Updated
    <3>5. r.toS = <<[cmd |-> "RESUME", offset |-> r.rresumable]>> /\ r.toR = <<>>
      BY <1>3, <2>3, <3>1, <3>2 DEF Updated, SameSender
    <3>6. Requested(r) BY <3>3, <3>4, <3>5 DEF Requested
    <3> QED BY <1>3, <1>10, <2>3, <2>5, <3>5, <3>6 DEF Early, Updated, SameSender
  <2>6. PartIsThere(r, files)
    <3>1. x.destfile = 0 BY <1>2, <1>9 DEF Basic
    <3> QED BY <1>3, <1>14, <2>3, <3>1 DEF PartIsThere, Updated
  <2>7. ASSUME Agreed PROVE \A i \in 1..Len(r.toR) : r.toR[i].cmd = "ACCEPT" => May("resume")
    BY <1>1
  <2>8. /\ r.rstat = "QUEUED" /\ r.destfile = x.destfile /\ r.sstat = x.sstat
        /\ r.sack = x.sack /\ r.ackoffset = x.ackoffset
    BY <1>1, <1>3, <2>3 DEF Updated, SameSender
  <2>9. Good([xfer EXCEPT ![t] = r], files)
    BY <1>1, <1>2, <1>9, <1>10, <1>11, <2>4, <2>5, <2>6, <2>7, <2>8, QueuedGood
  <2> QED BY <1>1, <2>9, StepIInv
<1> QED BY <1>13, <1>14

(* dcc_connect at the receiver: it connects, or says where it listens.     *)
Connected(z, r) ==
    /\ r \in TransferType
    /\ r.sstat = z.sstat /\ r.spos = z.spos /\ r.sack = z.sack /\ r.sresumable = z.sresumable
    /\ r.ackoffset = z.ackoffset /\ r.sthrottled = z.sthrottled /\ r.wiotag = z.wiotag
    /\ r.ssok = z.ssok /\ r.toR = z.toR
    /\ r.rstat = "CONNECTING" /\ r.resume_sent = z.resume_sent
    /\ r.rpos = z.rpos /\ r.rresumable = z.rresumable
    /\ r.fp = z.fp /\ r.began = z.began /\ r.destfile = z.destfile
    /\ r.rsok \in {"syn", z.rsok} /\ r.reset = z.reset /\ r.data = z.data /\ r.acks = z.acks
    /\ \A i \in 1..Len(r.toS) : \/ i \in 1..Len(z.toS) /\ r.toS[i] = z.toS[i]
                                \/ r.toS[i].cmd = "PASV" /\ r.toS[i].offset = 0

(* dcc_connect of a receiver: it listens, and says so, or connects. *)
LEMMA ConnectReceiver ==
  ASSUME NEW z \in TransferType, NEW r, r = dcc_connect_receiver(z)
  PROVE  Connected(z, r)
<1> DEFINE m == [cmd |-> "PASV", offset |-> 0]
           q == IF passive THEN Append(z.toS, m) ELSE z.toS
           s == IF passive THEN z.rsok ELSE "syn"
<1>1. m \in ToSender /\ m.cmd = "PASV" /\ m.offset = 0 BY DEF ToSender
<1>2. z.toS \in Seq(ToSender) BY Fields
<1> HIDE DEF m
<1>3. /\ q \in Seq(ToSender)
      /\ \A i \in 1..Len(q) : \/ i \in 1..Len(z.toS) /\ q[i] = z.toS[i]
                              \/ q[i] = m
  <2>1. /\ Append(z.toS, m) \in Seq(ToSender)
        /\ \A i \in 1..Len(Append(z.toS, m)) :
              IF i = Len(z.toS) + 1 THEN Append(z.toS, m)[i] = m
              ELSE i \in 1..Len(z.toS) /\ Append(z.toS, m)[i] = z.toS[i]
    BY <1>1, <1>2, AppendFacts
  <2>2. CASE passive BY <2>1, <2>2
  <2>3. CASE ~passive BY <1>2, <2>3
  <2> QED BY <2>2, <2>3
<1>4. s \in {"none", "syn", "open", "closed"} /\ s \in {"syn", z.rsok} BY DEF TransferType
<1>5. r = [z EXCEPT !.rstat = "CONNECTING", !.toS = q, !.rsok = s]
  <2>1. CASE passive BY <2>1 DEF dcc_connect_receiver, m, TransferType
  <2>2. CASE ~passive BY <2>2 DEF dcc_connect_receiver, m, TransferType
  <2> QED BY <2>1, <2>2
<1>6. "CONNECTING" \in Stat BY DEF Stat
<1> HIDE DEF q, s
<1>7. r \in TransferType BY <1>3, <1>4, <1>5, <1>6, ZenonT(60) DEF TransferType
<1>8. /\ r.sstat = z.sstat /\ r.spos = z.spos /\ r.sack = z.sack /\ r.sresumable = z.sresumable
      /\ r.ackoffset = z.ackoffset /\ r.sthrottled = z.sthrottled /\ r.wiotag = z.wiotag
      /\ r.ssok = z.ssok /\ r.toR = z.toR
      /\ r.rstat = "CONNECTING" /\ r.resume_sent = z.resume_sent
      /\ r.rpos = z.rpos /\ r.rresumable = z.rresumable
      /\ r.fp = z.fp /\ r.began = z.began /\ r.destfile = z.destfile
      /\ r.rsok = s /\ r.reset = z.reset /\ r.data = z.data /\ r.acks = z.acks /\ r.toS = q
  BY <1>3, <1>4, <1>5, <1>6 DEF TransferType
<1>9. \A i \in 1..Len(q) : \/ i \in 1..Len(z.toS) /\ q[i] = z.toS[i]
                           \/ q[i].cmd = "PASV" /\ q[i].offset = 0
  BY <1>1, <1>3, Zenon
<1> QED BY <1>4, <1>7, <1>8, <1>9 DEF Connected

(* A receiver that agrees with the sender where the file starts connects.  *)
LEMMA ConnectGood ==
  ASSUME NEW xs, NEW fs, Good(xs, fs), NEW t \in Transfer, NEW z, Basic(z), z.rstat = "QUEUED",
         xs[t].rstat = "QUEUED", z.destfile = xs[t].destfile, z.sstat = xs[t].sstat,
         z.sack = xs[t].sack, z.ackoffset = xs[t].ackoffset,
         Agreed => /\ z.rsok = "none" /\ z.data = <<>> /\ z.acks = <<>>
                   /\ z.toR = <<>> /\ z.toS = <<>>
                   /\ z.sresumable = z.rresumable /\ z.rpos = z.rresumable /\ z.spos = z.rpos
                   /\ z.rresumable # 0 => z.resume_sent
                   /\ z.resume_sent => May("resume")
                   /\ PartIsThere(z, fs)
  PROVE  Good([xs EXCEPT ![t] = dcc_connect_receiver(z)], fs)
<1> DEFINE x == xs[t]
           y == dcc_connect_receiver(z)
<1>1. /\ Basic(x) /\ z \in TransferType
      /\ Agreed => Aligned(t, x, fs)
      /\ ExactAcks => Acknowledged(x)
  BY DEF Good, Fits, Basic
<1>2. Connected(z, y) BY <1>1, ConnectReceiver, Zenon
<1>3. /\ y \in TransferType
      /\ y.sstat = z.sstat /\ y.spos = z.spos /\ y.sack = z.sack /\ y.sresumable = z.sresumable
      /\ y.ackoffset = z.ackoffset /\ y.sthrottled = z.sthrottled /\ y.wiotag = z.wiotag
      /\ y.toR = z.toR
      /\ y.rstat = "CONNECTING" /\ y.resume_sent = z.resume_sent
      /\ y.rpos = z.rpos /\ y.rresumable = z.rresumable
      /\ y.fp = z.fp /\ y.began = z.began /\ y.destfile = z.destfile
      /\ y.rsok \in {"syn", z.rsok} /\ y.data = z.data /\ y.acks = z.acks
  BY <1>2 DEF Connected
<1>4. \A i \in 1..Len(y.toS) : \/ i \in 1..Len(z.toS) /\ y.toS[i] = z.toS[i]
                               \/ y.toS[i].cmd = "PASV" /\ y.toS[i].offset = 0
  BY <1>2 DEF Connected
<1> HIDE DEF y
<1>5. ~x.began /\ ~z.began BY <1>1 DEF Basic
<1>6. Basic(y)
  <2>1. \A i \in 1..Len(y.toS) : y.toS[i].offset < size
    BY <1>4, Sizes DEF Basic
  <2>2. \A i \in 1..Len(y.toR) : y.toR[i].cmd = "SEND" => i = 1 /\ y.rstat = "NONE"
    BY <1>3 DEF Basic
  <2> QED BY <1>3, <1>5, <2>1, <2>2 DEF Basic
<1>7. x # NoTransfer
  <2>1. NoTransfer.rstat = "NONE" BY DEF NoTransfer
  <2> QED BY <2>1
<1>8. ASSUME Agreed PROVE Early(x) BY <1>1, <1>8 DEF Aligned
<1>9. ASSUME Agreed PROVE Aligned(t, y, fs)
  <2>1. Len(z.toS) = 0 /\ Len(z.data) = 0 /\ Len(z.toR) = 0 BY <1>9
  <2>2. \A i \in 1..Len(y.toS) : y.toS[i].cmd = "PASV" BY <1>4, <2>1
  <2>3. \A i \in 1..Len(y.toR) : FALSE BY <1>3, <2>1
  <2>4. Running(y)
    <3>1. y.rpos \in Nat BY <1>3, Fields
    <3> QED BY <1>3, <1>9, <2>1, <2>2, <3>1 DEF Running
  <2>5. Opening(y, fs) BY <1>3, <1>5, <1>8, <1>9 DEF Opening, Early
  <2>6. PartIsThere(y, fs) BY <1>3, <1>5, <1>9 DEF PartIsThere
  <2>7. y.resume_sent => May("resume") BY <1>3, <1>9
  <2> QED BY <1>1, <1>3, <1>7, <1>9, <2>2, <2>3, <2>4, <2>5, <2>6, <2>7 DEF Aligned
<1>10. ASSUME ExactAcks PROVE Acknowledged(y)
  <2>1. y.acks = <<>> /\ y.data = <<>> BY <1>3, <1>10 DEF ExactAcks
  <2>2. Len(y.data) <= 1 BY <2>1
  <2>3. x.sstat # "DONE" BY <1>8, <1>10 DEF Early, ExactAcks
  <2>4. Acknowledged(x) BY <1>1, <1>10
  <2> QED BY <1>3, <2>1, <2>2, <2>3, <2>4, QuietAcks
<1>11. Fits(t, y, fs) BY <1>6, <1>9, <1>10 DEF Fits
<1>12. x.began \in BOOLEAN /\ y.began \in BOOLEAN BY <1>1, <1>3, Fields DEF Basic
<1> QED BY <1>3, <1>5, <1>11, <1>12, StepGood DEF y

(* Basic says nothing of the receiver's position. *)
LEMMA PositionBasic ==
  ASSUME NEW x, NEW r, NEW part, NEW p, Basic(x), Positioned(x, r, part, p)
  PROVE  Basic(r)
BY DEF Basic, Positioned, SameSender

(* The user accepts: the file starts at the first block, at both ends      *)
(* unless a resume request is on its way.                                  *)
LEMMA GetStep == ASSUME IInv, NEW t \in Transfer, dcc_get(t) PROVE IInv'
<1> DEFINE x == xfer[t]
           z == [x EXCEPT !.rresumable = 0, !.rpos = 0]
<1>1. x.rstat = "QUEUED" /\ (x.resume_sent => May("impatient")) /\ Step(t, dcc_connect_receiver(z))
  BY DEF dcc_get
<1>2. /\ Good(xfer, files) /\ Basic(x) /\ x \in TransferType
      /\ Agreed => Aligned(t, x, files)
  BY DEF IInv, Good, Fits, Basic
<1>3. Positioned(x, z, 0, 0)
  <2>1. 0 \in 0..size /\ 0 \in Nat BY Sizes
  <2> QED BY <1>2, <2>1, PositionUpdates, Zenon
<1> HIDE DEF z
<1>4. Basic(z) BY <1>2, <1>3, PositionBasic
<1>5. /\ z.rstat = "QUEUED" /\ z.destfile = x.destfile /\ z.sstat = x.sstat
      /\ z.sack = x.sack /\ z.ackoffset = x.ackoffset
      /\ z.rresumable = 0 /\ z.rpos = 0
  BY <1>1, <1>3 DEF Positioned, SameSender
<1>6. ASSUME Agreed
      PROVE  /\ z.rsok = "none" /\ z.data = <<>> /\ z.acks = <<>>
             /\ z.toR = <<>> /\ z.toS = <<>> /\ z.sresumable = 0 /\ z.spos = 0 /\ ~z.resume_sent
  <2>1. ~x.resume_sent BY <1>1, <1>6 DEF Agreed, Never, May
  <2>2. Early(x) BY <1>1, <1>2, <1>6 DEF Aligned
  <2>3. NoRequest(x) BY <2>1, <2>2 DEF Early
  <2>4. x.toR = <<>> /\ x.toS = <<>> BY <1>1, <1>2, <2>3, OfferTaken
  <2> QED BY <1>3, <2>1, <2>2, <2>3, <2>4 DEF Early, NoRequest, Positioned, SameSender
<1>7. Good([xfer EXCEPT ![t] = dcc_connect_receiver(z)], files)
  <2>1. Agreed => PartIsThere(z, files) BY <1>6 DEF PartIsThere
  <2> QED BY <1>1, <1>2, <1>4, <1>5, <1>6, <2>1, ConnectGood
<1> QED BY <1>1, <1>7, StepIInv

(* DCC GET nick, which leaves resumable: the two ends do not agree.        *)
LEMMA GetNickStep == ASSUME IInv, NEW t \in Transfer, dcc_get_nick(t) PROVE IInv'
<1> DEFINE x == xfer[t]
           u == update_is_resumable(t, x)
           z == [u EXCEPT !.rpos = 0]
<1>1. x.rstat = "QUEUED" /\ May("getnick") /\ Step(t, dcc_connect_receiver(z))
  BY DEF dcc_get_nick
<1>2. Good(xfer, files) /\ Basic(x) /\ x \in TransferType BY DEF IInv, Good, Fits, Basic
<1>3. Updated(x, u) BY <1>2, UpdateResumable, Zenon
<1> HIDE DEF u
<1>4. u \in TransferType /\ u.rresumable \in 0..size BY <1>3 DEF Updated, TransferType
<1>5. z = [u EXCEPT !.rresumable = u.rresumable, !.rpos = 0] BY <1>4 DEF TransferType
<1> HIDE DEF z
<1>6. Positioned(u, z, u.rresumable, 0) BY <1>4, <1>5, PositionUpdates
<1>7. Basic(u)
  <2>1. ~x.began BY <1>1, <1>2 DEF Basic
  <2> QED BY <1>2, <1>1, <1>3, <2>1 DEF Basic, Updated, SameSender
<1>8. Basic(z) BY <1>6, <1>7, PositionBasic
<1>9. /\ z.rstat = "QUEUED" /\ z.destfile = x.destfile /\ z.sstat = x.sstat
      /\ z.sack = x.sack /\ z.ackoffset = x.ackoffset
  BY <1>1, <1>3, <1>6 DEF Positioned, Updated, SameSender
<1>10. ~Agreed BY <1>1 DEF Agreed, Never, May
<1>11. Good([xfer EXCEPT ![t] = dcc_connect_receiver(z)], files)
  BY <1>1, <1>2, <1>8, <1>9, <1>10, ConnectGood
<1> QED BY <1>1, <1>11, StepIInv

(* A message of the sender is taken from the queue. *)
Taken(x, y) ==
    /\ y \in TransferType
    /\ y.sstat = x.sstat /\ y.spos = x.spos /\ y.sack = x.sack /\ y.sresumable = x.sresumable
    /\ y.ackoffset = x.ackoffset /\ y.sthrottled = x.sthrottled /\ y.wiotag = x.wiotag
    /\ y.ssok = x.ssok /\ y.toR = Tail(x.toR) /\ y.toS = x.toS
    /\ y.rstat = x.rstat /\ y.rpos = x.rpos /\ y.rresumable = x.rresumable
    /\ y.resume_sent = x.resume_sent /\ y.fp = x.fp /\ y.began = x.began
    /\ y.destfile = x.destfile /\ y.rsok = x.rsok /\ y.reset = x.reset
    /\ y.data = x.data /\ y.acks = x.acks

(* The receiver takes the first message of the sender. *)
LEMMA TakeMessage ==
  ASSUME NEW x, Basic(x), x.toR # <<>>, NEW y, y = [x EXCEPT !.toR = Tail(x.toR)]
  PROVE  /\ Basic(y) /\ Taken(x, y)
         /\ \A i \in 1..Len(y.toR) : i + 1 \in 1..Len(x.toR) /\ y.toR[i] = x.toR[i + 1]
<1> DEFINE q == Tail(x.toR)
<1>1. x \in TransferType /\ x.toR \in Seq(ToReceiver) BY Fields DEF Basic
<1>2. /\ q \in Seq(ToReceiver) /\ Len(x.toR) \in Nat \ {0} /\ Len(q) = Len(x.toR) - 1
      /\ \A i \in 1..Len(q) : q[i] = x.toR[i + 1]
  BY <1>1, TailFacts
<1>3. y = [x EXCEPT !.toR = q] OBVIOUS
<1>4. q = Tail(x.toR) OBVIOUS
<1> HIDE DEF q
<1>5. \A i \in 1..Len(q) : i + 1 \in 1..Len(x.toR) /\ i + 1 # 1 BY <1>2
<1>6. y \in TransferType BY <1>1, <1>2, <1>3, ZenonT(60) DEF TransferType
<1>7. /\ y.sstat = x.sstat /\ y.spos = x.spos /\ y.sack = x.sack /\ y.sresumable = x.sresumable
      /\ y.ackoffset = x.ackoffset /\ y.sthrottled = x.sthrottled /\ y.wiotag = x.wiotag
      /\ y.ssok = x.ssok /\ y.toR = q /\ y.toS = x.toS
      /\ y.rstat = x.rstat /\ y.rpos = x.rpos /\ y.rresumable = x.rresumable
      /\ y.resume_sent = x.resume_sent /\ y.fp = x.fp /\ y.began = x.began
      /\ y.destfile = x.destfile /\ y.rsok = x.rsok /\ y.reset = x.reset
      /\ y.data = x.data /\ y.acks = x.acks
  BY <1>1, <1>2, <1>3 DEF TransferType
<1>8. Taken(x, y) BY <1>4, <1>6, <1>7 DEF Taken
<1>9. \A i \in 1..Len(y.toR) : y.toR[i].cmd = "SEND" => i = 1 /\ y.rstat = "NONE"
  BY <1>2, <1>5, <1>7 DEF Basic
<1>10. Basic(y) BY <1>6, <1>7, <1>9 DEF Basic
<1> QED BY <1>2, <1>5, <1>7, <1>8, <1>10

(* Where both ends agree, an ACCEPT comes to a receiver that waits for it  *)
(* and answers the request it made, or to one that was closed.             *)
LEMMA Accepted ==
  ASSUME NEW t, NEW x, NEW fs, Basic(x), Aligned(t, x, fs), x.toR # <<>>, x.toR[1].cmd = "ACCEPT"
  PROVE  /\ May("resume") /\ x.rstat \notin {"NONE", "CONNECTING", "ACTIVE"}
         /\ x.rstat = "QUEUED" => /\ Early(x) /\ x.resume_sent /\ x.rpos = x.rresumable
                                  /\ x.toR = <<[cmd |-> "ACCEPT"]>> /\ x.toS = <<>>
                                  /\ x.spos = x.rresumable /\ x.sresumable = x.rresumable
<1>1. x.toR \in Seq(ToReceiver) BY Fields DEF Basic
<1>2. 1 \in 1..Len(x.toR)
  <2>1. Len(x.toR) \in Nat \ {0} BY <1>1, TailFacts
  <2> QED BY <2>1
<1>3. May("resume") BY <1>2 DEF Aligned
<1>4. x.rstat \notin {"CONNECTING", "ACTIVE"} BY DEF Aligned, Running
<1>5. ~NoRequest(x) BY <1>2 DEF NoRequest
<1>6. x.rstat \in {"NONE", "QUEUED"} => Early(x) /\ x.resume_sent /\ Requested(x)
  BY <1>5 DEF Aligned, Early
<1>7. x.rstat # "NONE" BY <1>6 DEF Requested
<1> QED BY <1>3, <1>4, <1>6, <1>7 DEF Requested

(* The ACCEPT of a resume request arrives. *)
LEMMA HandleAcceptStep == ASSUME IInv, NEW t \in Transfer, handle_dcc_accept(t) PROVE IInv'
<1> DEFINE x == xfer[t]
           y == [x EXCEPT !.toR = Tail(x.toR)]
           got == [xfer EXCEPT ![t] = y]
           u == CHOOSE v \in Accepting(t) : \A w \in Accepting(t) : w <= v
<1>1. /\ x.toR # <<>> /\ Head(x.toR).cmd = "ACCEPT" /\ files' = files /\ features' = features
      /\ xfer' = IF Accepting(t) = {} THEN got ELSE [got EXCEPT ![u] = dcc_connect_receiver(@)]
  BY DEF handle_dcc_accept, Receives
<1>2. /\ Good(xfer, files) /\ Basic(x) /\ x \in TransferType
      /\ Agreed => Aligned(t, x, files)
      /\ ExactAcks => Acknowledged(x)
      /\ xfer \in [Transfer -> TransferType]
  BY DEF IInv, Good, Fits, Basic
<1>3. /\ Basic(y) /\ Taken(x, y)
      /\ \A i \in 1..Len(y.toR) : i + 1 \in 1..Len(x.toR) /\ y.toR[i] = x.toR[i + 1]
  BY <1>1, <1>2, TakeMessage, Zenon
<1> HIDE DEF y
<1>4. x.toR[1].cmd = "ACCEPT"
  <2>1. x.toR \in Seq(ToReceiver) BY <1>2, Fields
  <2>2. Head(x.toR) = x.toR[1] BY <1>1, <2>1, TailFacts
  <2> QED BY <1>1, <2>2, Zenon
<1>5. ASSUME Agreed
      PROVE  /\ May("resume") /\ x.rstat \notin {"NONE", "CONNECTING", "ACTIVE"}
             /\ x.rstat = "QUEUED" => /\ Early(x) /\ x.resume_sent /\ x.rpos = x.rresumable
                                      /\ x.toR = <<[cmd |-> "ACCEPT"]>> /\ x.toS = <<>>
                                      /\ x.spos = x.rresumable /\ x.sresumable = x.rresumable
  <2>1. Aligned(t, x, files) BY <1>2, <1>5
  <2> HIDE DEF x
  <2> QED BY <1>1, <1>2, <1>4, <2>1, Accepted
<1>6. IInv' <=> Good(xfer', files)
  <2>1. IInv' <=> Good(xfer', files') /\ features \in Scenarios BY <1>1, Primed, Zenon
  <2> QED BY <1>1, <2>1 DEF IInv
<1>7. x # NoTransfer
  <2>1. NoTransfer.toR = <<>> BY DEF NoTransfer
  <2> QED BY <1>1, <2>1
<1>8. ASSUME ~Agreed \/ x.rstat # "QUEUED" PROVE Good(got, files)
  <2>1. ASSUME Agreed PROVE Aligned(t, y, files)
    <3>1. Aligned(t, x, files) /\ May("resume") BY <1>2, <1>5, <2>1
    <3>2. y.rstat \notin {"NONE", "QUEUED", "CONNECTING", "ACTIVE"}
      BY <1>3, <1>5, <1>8, <2>1 DEF Taken
    <3>3. Opening(y, files) BY <1>3, <3>1 DEF Taken, Opening, Aligned
    <3>4. PartIsThere(y, files) BY <3>2 DEF PartIsThere
    <3> QED BY <1>3, <1>7, <3>1, <3>2, <3>3, <3>4 DEF Taken, Aligned
  <2>2. ASSUME ExactAcks PROVE Acknowledged(y)
    <3>1. Acknowledged(x) BY <1>2, <2>2
    <3> QED BY <1>3, <3>1 DEF Acknowledged, AcksOfSmall, AcksOfHuge, Taken
  <2>3. Fits(t, y, files) BY <1>3, <2>1, <2>2 DEF Fits
  <2>4. y.began = x.began /\ y.destfile = x.destfile BY <1>3 DEF Taken
  <2> QED BY <1>2, <2>3, <2>4, StepGood
<1>9. CASE Accepting(t) = {}
  <2>1. x.rstat # "QUEUED" BY <1>9 DEF Accepting
  <2> QED BY <1>1, <1>6, <1>8, <1>9, <2>1
<1>10. CASE Accepting(t) # {}
  <2>1. u \in Accepting(t)
    <3>1. \E v \in Accepting(t) : \A w \in Accepting(t) : w <= v
      <4>1. Accepting(t) \in SUBSET (1..Offers) BY DEF Accepting, Transfer
      <4>2. Offers \in Nat BY Sizes
      <4> QED BY <1>10, <4>1, <4>2, LargestExists, Zenon
    <3> QED BY <3>1
  <2> HIDE DEF u
  <2>2. u \in Transfer /\ xfer[u].rstat = "QUEUED" /\ xfer' = [got EXCEPT ![u] = dcc_connect_receiver(@)]
    BY <1>1, <1>10, <2>1 DEF Accepting
  <2>3. CASE u = t
    <3>1. xfer' = [xfer EXCEPT ![t] = dcc_connect_receiver(y)]
      BY <1>2, <2>2, <2>3
    <3>2. ASSUME Agreed
          PROVE  /\ y.rsok = "none" /\ y.data = <<>> /\ y.acks = <<>>
                 /\ y.toR = <<>> /\ y.toS = <<>>
                 /\ y.sresumable = y.rresumable /\ y.rpos = y.rresumable /\ y.spos = y.rpos
                 /\ y.resume_sent /\ May("resume")
                 /\ PartIsThere(y, files)
      <4>1. /\ May("resume") /\ Early(x) /\ x.resume_sent /\ x.rpos = x.rresumable
            /\ x.toR = <<[cmd |-> "ACCEPT"]>> /\ x.toS = <<>>
            /\ x.spos = x.rresumable /\ x.sresumable = x.rresumable
        BY <1>5, <2>2, <2>3, <3>2
      <4>2. Tail(x.toR) = <<>> BY <4>1
      <4>3. PartIsThere(x, files) BY <1>2, <3>2 DEF Aligned
      <4>4. PartIsThere(y, files) BY <1>3, <4>3 DEF PartIsThere, Taken
      <4> QED BY <1>3, <4>1, <4>2, <4>4 DEF Early, Taken
    <3>3. /\ y.rstat = "QUEUED" /\ y.destfile = x.destfile /\ y.sstat = x.sstat
          /\ y.sack = x.sack /\ y.ackoffset = x.ackoffset /\ x.rstat = "QUEUED"
      BY <1>3, <2>2, <2>3 DEF Taken
    <3>4. Good([xfer EXCEPT ![t] = dcc_connect_receiver(y)], files)
      BY <1>2, <1>3, <3>2, <3>3, ConnectGood
    <3> QED BY <1>6, <3>1, <3>4
  <2>4. CASE u # t
    <3>1. ~Agreed
      <4> SUFFICES ASSUME Agreed PROVE FALSE OBVIOUS
      <4>1. ~May("twice") BY <1>5 DEF Agreed, May
      <4>2. Aligned(t, x, files) /\ Aligned(u, xfer[u], files)
        BY <1>2, <2>2 DEF Good, Fits
      <4>3. xfer[u] # NoTransfer
        <5>1. NoTransfer.rstat = "NONE" BY DEF NoTransfer
        <5> QED BY <2>2, <5>1
      <4>4. ~(t > 1) /\ ~(u > 1) BY <1>7, <4>1, <4>2, <4>3 DEF Aligned
      <4> QED BY <2>2, <2>4, <4>4, Sizes DEF Transfer
    <3>2. Good(got, files) BY <1>8, <3>1
    <3>3. got[u] = xfer[u] BY <1>2, <2>2, <2>4
    <3> HIDE DEF got
    <3>4. Basic(got[u]) BY <1>2, <2>2, <3>3 DEF Good, Fits
    <3>5. Good([got EXCEPT ![u] = dcc_connect_receiver(got[u])], files)
      BY <2>2, <3>1, <3>2, <3>3, <3>4, ConnectGood
    <3> QED BY <1>6, <2>2, <3>5
  <2> QED BY <2>3, <2>4
<1> QED BY <1>9, <1>10

(* A message of the receiver is taken from the queue. *)
Heard(x, y) ==
    /\ y \in TransferType /\ y.ssok = x.ssok /\ y.sstat = x.sstat
    /\ y.spos = x.spos /\ y.sack = x.sack /\ y.sresumable = x.sresumable
    /\ y.ackoffset = x.ackoffset /\ y.sthrottled = x.sthrottled /\ y.wiotag = x.wiotag
    /\ y.toR = x.toR /\ y.toS = Tail(x.toS)
    /\ y.rstat = x.rstat /\ y.rpos = x.rpos /\ y.rresumable = x.rresumable
    /\ y.resume_sent = x.resume_sent /\ y.fp = x.fp /\ y.began = x.began
    /\ y.destfile = x.destfile /\ y.rsok = x.rsok /\ y.reset = x.reset
    /\ y.data = x.data /\ y.acks = x.acks

(* The sender takes the first message of the receiver. *)
LEMMA HearMessage ==
  ASSUME NEW x, Basic(x), x.toS # <<>>, NEW y, y = [x EXCEPT !.toS = Tail(x.toS)]
  PROVE  /\ Basic(y) /\ Heard(x, y) /\ 1 \in 1..Len(x.toS) /\ Head(x.toS) = x.toS[1]
         /\ \A i \in 1..Len(y.toS) : i + 1 \in 1..Len(x.toS) /\ y.toS[i] = x.toS[i + 1]
<1> DEFINE q == Tail(x.toS)
<1>1. x \in TransferType /\ x.toS \in Seq(ToSender) BY Fields DEF Basic
<1>2. /\ q \in Seq(ToSender) /\ Len(x.toS) \in Nat \ {0} /\ Len(q) = Len(x.toS) - 1
      /\ Head(x.toS) = x.toS[1]
      /\ \A i \in 1..Len(q) : q[i] = x.toS[i + 1]
  BY <1>1, TailFacts
<1>3. y = [x EXCEPT !.toS = q] OBVIOUS
<1>4. q = Tail(x.toS) OBVIOUS
<1> HIDE DEF q
<1>5. 1 \in 1..Len(x.toS) /\ \A i \in 1..Len(q) : i + 1 \in 1..Len(x.toS) BY <1>2
<1>6. y \in TransferType BY <1>1, <1>2, <1>3, ZenonT(60) DEF TransferType
<1>7. /\ y.sstat = x.sstat /\ y.spos = x.spos /\ y.sack = x.sack /\ y.sresumable = x.sresumable
      /\ y.ackoffset = x.ackoffset /\ y.sthrottled = x.sthrottled /\ y.wiotag = x.wiotag
      /\ y.ssok = x.ssok /\ y.toR = x.toR /\ y.toS = q
      /\ y.rstat = x.rstat /\ y.rpos = x.rpos /\ y.rresumable = x.rresumable
      /\ y.resume_sent = x.resume_sent /\ y.fp = x.fp /\ y.began = x.began
      /\ y.destfile = x.destfile /\ y.rsok = x.rsok /\ y.reset = x.reset
      /\ y.data = x.data /\ y.acks = x.acks
  BY <1>1, <1>2, <1>3 DEF TransferType
<1>8. Heard(x, y) BY <1>4, <1>6, <1>7 DEF Heard
<1>9. \A i \in 1..Len(y.toS) : y.toS[i].offset < size
  BY <1>2, <1>5, <1>7 DEF Basic
<1>10. Basic(y) BY <1>6, <1>7, <1>9 DEF Basic
<1> QED BY <1>2, <1>5, <1>7, <1>8, <1>10

(* Where both ends agree, a RESUME comes from a receiver that waits for    *)
(* the answer, or was closed.                                              *)
LEMMA ResumeHeard ==
  ASSUME NEW t, NEW x, NEW fs, Aligned(t, x, fs), Basic(x), 1 \in 1..Len(x.toS), x.toS[1].cmd = "RESUME"
  PROVE  /\ May("resume") /\ ~x.began /\ x.rstat \notin {"NONE", "CONNECTING", "ACTIVE"}
         /\ x.acks = <<>> /\ x.sstat # "DONE"
         /\ x.rstat = "QUEUED" =>
              /\ Early(x) /\ x.resume_sent /\ x.rpos = x.rresumable /\ x.rresumable > 0
              /\ x.toS = <<[cmd |-> "RESUME", offset |-> x.rresumable]>> /\ x.toR = <<>>
<1>1. May("resume") BY DEF Aligned
<1>2. ~x.began /\ x.acks = <<>> /\ x.sstat # "DONE" BY DEF Aligned, Opening
<1>3. x.rstat \notin {"CONNECTING", "ACTIVE"} BY DEF Aligned, Running
<1>4. x.toS # <<>> OBVIOUS
<1>5. x.rstat \in {"NONE", "QUEUED"} => Early(x) /\ x.resume_sent /\ Requested(x)
  BY <1>4 DEF Aligned, Early, NoRequest
<1>6. x.rstat # "NONE" BY <1>5 DEF Requested
<1>7. x.rstat = "QUEUED" => x.toS = <<[cmd |-> "RESUME", offset |-> x.rresumable]>> /\ x.toR = <<>>
  BY <1>4, <1>5 DEF Requested
<1> QED BY <1>1, <1>2, <1>3, <1>5, <1>6, <1>7 DEF Requested

(* The resume request arrives: the sender goes to its offset and answers. *)
LEMMA HandleResumeStep == ASSUME IInv, NEW t \in Transfer, handle_dcc_resume(t) PROVE IInv'
<1> DEFINE x == xfer[t]
           y == [x EXCEPT !.toS = Tail(x.toS)]
           off == Head(x.toS).offset
           m == [cmd |-> "ACCEPT"]
           q == Append(y.toR, m)
           r == [y EXCEPT !.sresumable = off, !.spos = off, !.sack = off, !.toR = q]
<1>1. /\ x.toS # <<>> /\ Head(x.toS).cmd = "RESUME"
      /\ Step(t, IF x.sstat = "REMOVED" THEN y
                 ELSE IF off >= size THEN [y EXCEPT !.sresumable = off] ELSE r)
  BY DEF handle_dcc_resume
<1>2. /\ Good(xfer, files) /\ Basic(x) /\ x \in TransferType
      /\ Agreed => Aligned(t, x, files)
      /\ ExactAcks => Acknowledged(x)
  BY DEF IInv, Good, Fits, Basic
<1>3. /\ Basic(y) /\ Heard(x, y) /\ 1 \in 1..Len(x.toS) /\ Head(x.toS) = x.toS[1]
      /\ \A i \in 1..Len(y.toS) : i + 1 \in 1..Len(x.toS) /\ y.toS[i] = x.toS[i + 1]
  BY <1>1, <1>2, HearMessage, Zenon
<1> HIDE DEF y
<1>4. off \in Nat /\ off < size /\ off = x.toS[1].offset /\ x.toS[1].cmd = "RESUME" /\ size \in Nat
  <2>1. x.toS \in Seq(ToSender) BY <1>2, Fields
  <2>2. x.toS[1] \in ToSender BY <1>3, <2>1
  <2>3. x.toS[1].offset < size BY <1>2, <1>3 DEF Basic
  <2>4. x.toS[1].offset \in Nat BY <2>2 DEF ToSender
  <2>5. off = x.toS[1].offset /\ x.toS[1].cmd = "RESUME" BY <1>1, <1>3, Zenon
  <2> QED BY <2>3, <2>4, <2>5, Sizes
<1>5. ASSUME Agreed
      PROVE /\ May("resume") /\ ~x.began /\ x.rstat \notin {"NONE", "CONNECTING", "ACTIVE"}
            /\ x.acks = <<>> /\ x.sstat # "DONE"
            /\ x.rstat = "QUEUED" =>
                 /\ Early(x) /\ x.resume_sent /\ x.rpos = x.rresumable /\ x.rresumable > 0
                 /\ x.toS = <<[cmd |-> "RESUME", offset |-> x.rresumable]>> /\ x.toR = <<>>
  <2>1. Aligned(t, x, files) BY <1>2, <1>5
  <2> HIDE DEF x
  <2> QED BY <1>2, <1>3, <1>4, <2>1, ResumeHeard
<1>6. x # NoTransfer
  <2>1. NoTransfer.toS = <<>> BY DEF NoTransfer
  <2> QED BY <1>1, <2>1
<1>7. ASSUME Agreed, x.rstat = "QUEUED" PROVE y.toS = <<>> /\ off = x.rresumable
  <2>1. x.toS = <<[cmd |-> "RESUME", offset |-> x.rresumable]>> BY <1>5, <1>7
  <2>2. Tail(x.toS) = <<>> /\ x.toS[1].offset = x.rresumable BY <2>1
  <2> QED BY <1>3, <1>4, <2>2 DEF Heard
<1> HIDE DEF off
<1>8. CASE x.sstat = "REMOVED"
  <2>1. Step(t, y) BY <1>1, <1>8
  <2>2. ASSUME Agreed PROVE Aligned(t, y, files)
    <3>1. Aligned(t, x, files) BY <1>2, <2>2
    <3>2. ASSUME y.rstat \in {"NONE", "QUEUED"} PROVE Early(y)
      <4>1. x.rstat = "QUEUED" BY <1>3, <1>5, <2>2, <3>2 DEF Heard
      <4>2. Requested(y) BY <1>3, <1>5, <1>7, <1>8, <2>2, <4>1 DEF Heard, Requested
      <4> QED BY <1>3, <1>5, <2>2, <4>1, <4>2 DEF Heard, Early
    <3>3. y.rstat \notin {"CONNECTING", "ACTIVE"} BY <1>3, <1>5, <2>2 DEF Heard
    <3>4. Opening(y, files) BY <1>3, <1>5, <2>2 DEF Heard, Opening
    <3>5. PartIsThere(y, files) BY <1>3, <3>1 DEF Heard, PartIsThere, Aligned
    <3> QED BY <1>3, <1>5, <1>6, <2>2, <3>1, <3>2, <3>3, <3>4, <3>5 DEF Heard, Aligned
  <2>3. ASSUME ExactAcks PROVE Acknowledged(y)
    <3>1. Acknowledged(x) BY <1>2, <2>3
    <3> QED BY <1>3, <3>1 DEF Acknowledged, AcksOfSmall, AcksOfHuge, Heard
  <2>4. Fits(t, y, files) BY <1>3, <2>2, <2>3 DEF Fits
  <2>5. y.began = x.began /\ y.destfile = x.destfile BY <1>3 DEF Heard
  <2>6. Good([xfer EXCEPT ![t] = y], files) BY <1>2, <2>4, <2>5, StepGood
  <2> QED BY <2>1, <2>6, StepIInv
<1>9. CASE x.sstat # "REMOVED"
  <2>1. Step(t, r)
    <3>1. ~(off >= size) BY <1>4
    <3> HIDE DEF r
    <3> QED BY <1>1, <1>9, <3>1
  <2>2. /\ m \in ToReceiver /\ m.cmd = "ACCEPT" /\ m = [cmd |-> "ACCEPT"] BY DEF ToReceiver
  <2>3. y \in TransferType /\ y.toR \in Seq(ToReceiver) BY <1>3, Fields DEF Heard
  <2> HIDE DEF m
  <2>4. /\ q \in Seq(ToReceiver) /\ Len(q) = Len(y.toR) + 1 /\ Len(y.toR) \in Nat
        /\ \A i \in 1..Len(q) : IF i = Len(y.toR) + 1 THEN q[i] = m
                                ELSE i \in 1..Len(y.toR) /\ q[i] = y.toR[i]
    BY <2>2, <2>3, AppendFacts
  <2>5. q = Append(y.toR, m) OBVIOUS
  <2>6. off \in 0..size BY <1>4
  <2> HIDE DEF q
  <2>7. r \in TransferType BY <1>4, <2>3, <2>4, <2>6, ZenonT(60) DEF TransferType
  <2>8. /\ r.sstat = y.sstat /\ r.spos = off /\ r.sack = off /\ r.sresumable = off
        /\ r.ackoffset = y.ackoffset /\ r.sthrottled = y.sthrottled /\ r.wiotag = y.wiotag
        /\ r.ssok = y.ssok /\ r.toR = q /\ r.toS = y.toS
        /\ r.rstat = y.rstat /\ r.rpos = y.rpos /\ r.rresumable = y.rresumable
        /\ r.resume_sent = y.resume_sent /\ r.fp = y.fp /\ r.began = y.began
        /\ r.destfile = y.destfile /\ r.rsok = y.rsok /\ r.reset = y.reset
        /\ r.data = y.data /\ r.acks = y.acks
    BY <1>4, <2>3, <2>4, <2>6 DEF TransferType
  <2> HIDE DEF r
  <2>9. Basic(r)
    <3>1. \A i \in 1..Len(r.toR) : r.toR[i].cmd = "SEND" => i = 1 /\ r.rstat = "NONE"
      BY <1>3, <2>2, <2>4, <2>8 DEF Basic
    <3> QED BY <1>3, <1>4, <2>7, <2>8, <3>1 DEF Basic
  <2>10. ASSUME Agreed PROVE Aligned(t, r, files)
    <3>1. Aligned(t, x, files) BY <1>2, <2>10
    <3>2. ASSUME r.rstat \in {"NONE", "QUEUED"} PROVE Early(r)
      <4>1. x.rstat = "QUEUED" BY <1>3, <1>5, <2>8, <2>10, <3>2 DEF Heard
      <4>2. y.toS = <<>> /\ off = x.rresumable /\ x.toR = <<>> BY <1>5, <1>7, <2>10, <4>1
      <4>3. q = <<[cmd |-> "ACCEPT"]>> BY <1>3, <2>2, <2>5, <4>2 DEF Heard
      <4>4. Requested(r) BY <1>3, <1>5, <2>8, <2>10, <4>1, <4>2, <4>3, ZenonT(60) DEF Heard, Requested
      <4> QED BY <1>3, <1>5, <2>8, <2>10, <4>1, <4>4 DEF Heard, Early
    <3>3. r.rstat \notin {"CONNECTING", "ACTIVE"} BY <1>3, <1>5, <2>8, <2>10 DEF Heard
    <3>4. Opening(r, files) BY <1>3, <1>5, <2>8, <2>10 DEF Heard, Opening
    <3>5. PartIsThere(r, files) BY <1>3, <2>8, <3>1 DEF Heard, PartIsThere, Aligned
    <3>6. \A i \in 1..Len(r.toS) : r.toS[i].cmd = "RESUME" => May("resume") BY <1>5, <2>10
    <3> QED BY <1>3, <1>5, <1>6, <2>8, <2>10, <3>1, <3>2, <3>3, <3>4, <3>5, <3>6 DEF Heard, Aligned
  <2>11. ASSUME ExactAcks PROVE Acknowledged(r)
    <3>1. Acknowledged(x) BY <1>2, <2>11
    <3>2. r.acks = <<>> /\ Len(r.acks) = 0 /\ r.sstat # "DONE"
      BY <1>3, <1>5, <2>8, <2>11 DEF Heard, ExactAcks
    <3> QED BY <1>3, <1>4, <2>8, <3>1, <3>2 DEF Acknowledged, AcksOfSmall, AcksOfHuge, Heard
  <2>12. Fits(t, r, files) BY <2>9, <2>10, <2>11 DEF Fits
  <2>13. r.began = x.began /\ r.destfile = x.destfile BY <1>3, <2>8 DEF Heard
  <2>14. Good([xfer EXCEPT ![t] = r], files) BY <1>2, <2>12, <2>13, StepGood
  <2> QED BY <2>1, <2>14, StepIInv
<1> QED BY <1>8, <1>9

(* The sender learns where the receiver listens. *)
LEMMA HandlePasvStep == ASSUME IInv, NEW t \in Transfer, handle_dcc_pasv(t) PROVE IInv'
<1> DEFINE x == xfer[t]
           y == [x EXCEPT !.toS = Tail(x.toS)]
           stat == IF x.sstat = "QUEUED" THEN "CONNECTING" ELSE x.sstat
           s == IF x.sstat = "QUEUED" THEN "syn" ELSE x.ssok
           r == [y EXCEPT !.sstat = stat, !.ssok = s]
<1>1. /\ x.toS # <<>> /\ Head(x.toS).cmd = "PASV"
      /\ Step(t, IF x.sstat = "QUEUED" THEN [y EXCEPT !.sstat = "CONNECTING", !.ssok = "syn"] ELSE y)
  BY DEF handle_dcc_pasv
<1>2. /\ Good(xfer, files) /\ Basic(x) /\ x \in TransferType
      /\ Agreed => Aligned(t, x, files)
      /\ ExactAcks => Acknowledged(x)
  BY DEF IInv, Good, Fits, Basic
<1>3. /\ Basic(y) /\ Heard(x, y) /\ 1 \in 1..Len(x.toS) /\ Head(x.toS) = x.toS[1]
      /\ \A i \in 1..Len(y.toS) : i + 1 \in 1..Len(x.toS) /\ y.toS[i] = x.toS[i + 1]
  BY <1>1, <1>2, HearMessage, Zenon
<1> HIDE DEF y
<1>4. y \in TransferType /\ stat \in Stat /\ s \in {"none", "syn", "open", "closed"}
  BY <1>2, <1>3 DEF Heard, Stat, TransferType
<1>5. Step(t, r)
  <2>1. CASE x.sstat = "QUEUED" BY <1>1, <2>1
  <2>2. CASE x.sstat # "QUEUED"
    <3>1. y.sstat = x.sstat /\ y.ssok = x.ssok BY <1>3 DEF Heard
    <3>2. r = y BY <1>4, <2>2, <3>1 DEF TransferType
    <3> QED BY <1>1, <2>2, <3>2
  <2> QED BY <2>1, <2>2
<1>6. /\ stat = "CONNECTING" => x.sstat \in {"QUEUED", "CONNECTING"}
      /\ stat = "DONE" => x.sstat = "DONE"
      /\ stat \in {"NONE", "QUEUED", "CONNECTING", "ACTIVE"} =>
           x.sstat \in {"NONE", "QUEUED", "CONNECTING", "ACTIVE"}
      /\ stat \in {"NONE", "QUEUED", "CONNECTING"} => x.sstat \in {"NONE", "QUEUED", "CONNECTING"}
  OBVIOUS
<1> HIDE DEF stat, s
<1>7. r \in TransferType BY <1>4 DEF TransferType
<1>8. /\ r.sstat = stat /\ r.spos = y.spos /\ r.sack = y.sack /\ r.sresumable = y.sresumable
      /\ r.ackoffset = y.ackoffset /\ r.sthrottled = y.sthrottled /\ r.wiotag = y.wiotag
      /\ r.toR = y.toR /\ r.toS = y.toS
      /\ r.rstat = y.rstat /\ r.rpos = y.rpos /\ r.rresumable = y.rresumable
      /\ r.resume_sent = y.resume_sent /\ r.fp = y.fp /\ r.began = y.began
      /\ r.destfile = y.destfile /\ r.rsok = y.rsok /\ r.reset = y.reset
      /\ r.data = y.data /\ r.acks = y.acks
  BY <1>4 DEF TransferType
<1> HIDE DEF r
<1>9. Basic(r) BY <1>3, <1>6, <1>7, <1>8 DEF Basic, Heard
<1>10. x # NoTransfer
  <2>1. NoTransfer.toS = <<>> BY DEF NoTransfer
  <2> QED BY <1>1, <2>1
<1>11. x.toS[1].cmd = "PASV" BY <1>1, <1>3, Zenon
<1>12. ASSUME Agreed PROVE Aligned(t, r, files)
  <2>1. Aligned(t, x, files) BY <1>2, <1>12
  <2>2. x.rstat \notin {"NONE", "QUEUED"}
    <3> SUFFICES ASSUME x.rstat \in {"NONE", "QUEUED"} PROVE FALSE OBVIOUS
    <3>1. Early(x) BY <2>1 DEF Aligned
    <3>2. Requested(x) BY <1>1, <3>1 DEF Early, NoRequest
    <3>3. x.toS = <<[cmd |-> "RESUME", offset |-> x.rresumable]>> BY <1>1, <3>2 DEF Requested
    <3>4. x.toS[1].cmd = "RESUME" BY <3>3
    <3> QED BY <1>11, <3>4
  <2>3. Opening(r, files) BY <1>3, <1>6, <1>8, <2>1 DEF Heard, Opening, Aligned
  <2>4. PartIsThere(r, files) BY <1>3, <1>8, <2>1 DEF Heard, PartIsThere, Aligned
  <2>5. ASSUME r.rstat \in {"CONNECTING", "ACTIVE"} PROVE Running(r)
    <3>1. Running(x) BY <1>3, <1>8, <2>1, <2>5 DEF Aligned, Heard
    <3> QED BY <1>3, <1>8, <3>1 DEF Running, Heard
  <2> QED BY <1>3, <1>8, <1>10, <2>1, <2>2, <2>3, <2>4, <2>5 DEF Heard, Aligned
<1>13. ASSUME ExactAcks PROVE Acknowledged(r)
  <2>1. Acknowledged(x) BY <1>2, <1>13
  <2> QED BY <1>3, <1>6, <1>8, <2>1 DEF Acknowledged, AcksOfSmall, AcksOfHuge, Heard
<1>14. Fits(t, r, files) BY <1>9, <1>12, <1>13 DEF Fits
<1>15. r.began = x.began /\ r.destfile = x.destfile BY <1>3, <1>8 DEF Heard
<1>16. Good([xfer EXCEPT ![t] = r], files) BY <1>2, <1>14, <1>15, StepGood
<1> QED BY <1>5, <1>16, StepIInv
---------------------------------------------------------------------------
(* Reading. *)

(* While a transfer has not opened a file, the others have used fewer      *)
(* names than there are, so there is a free one.                           *)
LEMMA FreeNameFacts ==
  ASSUME NEW xs, Good(xs, files), NEW t \in Transfer, ~xs[t].began, 0 \in DOMAIN files
  PROVE  /\ FreeName \in Name /\ FreeName \notin DOMAIN files
         /\ DOMAIN files \cup {FreeName} \in {0..m : m \in Name}
<1>1. PICK m \in Name : DOMAIN files = 0..m BY DEF Good, Named
<1>2. m \in Nat /\ m <= Offers /\ Offers \in Nat \ {0} BY Sizes DEF Name
<1>3. FreeName = m + 1
  <2> DEFINE Free(n) == n \notin DOMAIN files /\ \A k \in 1..(n - 1) : k \in DOMAIN files
  <2>1. m + 1 \in 1..(Offers + 1) BY <1>2
  <2>2. Free(m + 1) BY <1>1, <1>2
  <2>3. \A n \in 1..(Offers + 1) : Free(n) => n = m + 1
    <3> SUFFICES ASSUME NEW n \in 1..(Offers + 1), Free(n), n # m + 1 PROVE FALSE OBVIOUS
    <3>1. CASE n < m + 1 BY <1>1, <1>2, <3>1
    <3>2. CASE n > m + 1
      <4>1. m + 1 \in 1..(n - 1) BY <1>2, <3>2
      <4>2. m + 1 \in DOMAIN files BY <4>1
      <4> QED BY <1>1, <1>2, <4>2
    <3> QED BY <1>2, <3>1, <3>2
  <2>4. FreeName = CHOOSE n \in 1..(Offers + 1) : Free(n) BY DEF FreeName
  <2> HIDE DEF Free
  <2> QED BY <2>1, <2>2, <2>3, <2>4
<1>4. m < Offers
  <2> SUFFICES ASSUME m = Offers PROVE FALSE BY <1>2
  <2> DEFINE S == 1..Offers
             T == Transfer \ {t}
             f == [n \in S |-> CHOOSE u \in T : xs[u].began /\ xs[u].destfile = n]
  <2>1. \A n \in S : \E u \in T : xs[u].began /\ xs[u].destfile = n
    <3> SUFFICES ASSUME NEW n \in S PROVE \E u \in T : xs[u].began /\ xs[u].destfile = n
      OBVIOUS
    <3>1. n \in DOMAIN files \ {0} BY <1>1, <1>2
    <3>2. PICK u \in Transfer : xs[u].began /\ xs[u].destfile = n BY <3>1 DEF Good, Named
    <3> QED BY <3>2
  <2>2. \A n \in S : f[n] \in T /\ xs[f[n]].destfile = n BY <2>1
  <2>3. f \in [S -> T] BY <2>2
  <2>4. IsFiniteSet(S) /\ Cardinality(S) = Offers BY <1>2, FS_Interval
  <2>5. IsFiniteSet(T) /\ Cardinality(T) = Offers - 1
    <3>1. IsFiniteSet(Transfer) /\ Cardinality(Transfer) = Offers BY <2>4 DEF Transfer
    <3> QED BY <3>1, FS_RemoveElement
  <2> HIDE DEF f, S, T
  <2>6. Cardinality(T) < Cardinality(S) BY <1>2, <2>4, <2>5
  <2>7. \E a, b \in S : a # b /\ f[a] = f[b] BY <2>3, <2>4, <2>5, <2>6, FS_PigeonHole, Zenon
  <2> QED BY <2>2, <2>7, Zenon
<1>5. DOMAIN files \cup {m + 1} = 0..(m + 1) BY <1>1, <1>2
<1>6. m + 1 \in Name BY <1>2, <1>4 DEF Name
<1>7. m + 1 \notin DOMAIN files BY <1>1, <1>2
<1> QED BY <1>3, <1>5, <1>6, <1>7

(* A file is open: the one the transfer had opened, the part that it       *)
(* resumes, or one of a new name.                                          *)
FileOpened(x, y) ==
    /\ y \in TransferType /\ SameSender(x, y)
    /\ y.rstat = x.rstat /\ y.rresumable = x.rresumable /\ y.resume_sent = x.resume_sent
    /\ y.rsok = x.rsok /\ y.reset = x.reset /\ y.data = x.data /\ y.acks = x.acks
    /\ y.fp /\ y.began
    /\ y.rpos = (IF ~x.fp /\ x.rresumable # 0 THEN x.rresumable ELSE x.rpos)
    /\ DOMAIN files \cup {y.destfile} \in {0..m : m \in Name}
    /\ \/ x.began /\ x.fp /\ y.destfile = x.destfile /\ y.destfile \in DOMAIN files
       \/ ~x.began /\ ~x.fp /\ x.rresumable # 0 /\ y.destfile = 0
       \/ ~x.began /\ ~x.fp /\ x.rresumable = 0 /\ y.destfile \notin DOMAIN files

(* dcc_read finds a name for the file, since a transfer uses one at most. *)
LEMMA OpenedFacts ==
  ASSUME NEW xs, Good(xs, files), NEW t \in Transfer, xs[t].rstat = "ACTIVE", NEW y, y = Opened(xs[t])
  PROVE  FileOpened(xs[t], y)
<1> DEFINE x == xs[t]
<1>1. Basic(x) /\ x \in TransferType /\ Good(xs, files) BY DEF Good, Fits, Basic
<1>2. /\ x.fp = x.began /\ x.fp \in BOOLEAN /\ (~x.began => x.destfile = 0)
      /\ x.rresumable \in Nat
  BY <1>1, Fields DEF Basic
<1>3. DOMAIN files \in {{}} \cup {0..m : m \in Name} BY DEF Good, Named
<1>4. 0 \in Name /\ 0..0 = {0} BY Sizes DEF Name
<1>5. CASE x.fp
  <2>1. y = x BY <1>5 DEF Opened
  <2>2. x.destfile \in DOMAIN files BY <1>2, <1>5 DEF Good, Named
  <2>3. DOMAIN files \cup {x.destfile} = DOMAIN files BY <2>2
  <2>4. DOMAIN files \in {0..m : m \in Name} BY <1>3, <2>2
  <2>5. SameSender(x, x) BY DEF SameSender
  <2> QED BY <1>1, <1>2, <1>5, <2>1, <2>2, <2>3, <2>4, <2>5 DEF FileOpened
<1>6. CASE ~x.fp /\ x.rresumable # 0
  <2> DEFINE p == x.rresumable
  <2>1. y = [x EXCEPT !.fp = TRUE, !.began = TRUE, !.rpos = p] BY <1>6 DEF Opened
  <2>2. p \in Nat /\ p = x.rresumable BY <1>2
  <2> HIDE DEF p
  <2>3. y \in TransferType BY <1>1, <2>1, <2>2, ZenonT(60) DEF TransferType
  <2>4. SameSender(x, y) BY <1>1, <2>1, <2>2 DEF TransferType, SameSender
  <2>5. /\ y.rstat = x.rstat /\ y.rresumable = x.rresumable /\ y.resume_sent = x.resume_sent
        /\ y.rsok = x.rsok /\ y.reset = x.reset /\ y.data = x.data /\ y.acks = x.acks
        /\ y.fp /\ y.began /\ y.rpos = p /\ y.destfile = x.destfile
    BY <1>1, <2>1, <2>2 DEF TransferType
  <2>6. y.destfile = 0 BY <1>2, <1>6, <2>5
  <2>7. DOMAIN files \cup {0} \in {0..m : m \in Name}
    <3>1. CASE DOMAIN files = {}
      <4>1. DOMAIN files \cup {0} = 0..0 BY <1>4, <3>1
      <4> QED BY <1>4, <4>1
    <3>2. CASE DOMAIN files \in {0..m : m \in Name}
      <4>1. 0 \in DOMAIN files BY <3>2 DEF Name
      <4>2. DOMAIN files \cup {0} = DOMAIN files BY <4>1
      <4> QED BY <3>2, <4>2
    <3> QED BY <1>3, <3>1, <3>2
  <2> QED BY <1>2, <1>6, <2>2, <2>3, <2>4, <2>5, <2>6, <2>7 DEF FileOpened
<1>7. CASE ~x.fp /\ x.rresumable = 0
  <2> DEFINE d == IF x.destfile \in DOMAIN files THEN FreeName ELSE x.destfile
  <2>1. y = [x EXCEPT !.fp = TRUE, !.began = TRUE, !.destfile = d] BY <1>7 DEF Opened
  <2>2. d \in Name /\ d \notin DOMAIN files /\ DOMAIN files \cup {d} \in {0..m : m \in Name}
    <3>1. CASE 0 \in DOMAIN files
      <4>1. d = FreeName BY <1>2, <1>7, <3>1
      <4>2. ~xs[t].began BY <1>2, <1>7
      <4> HIDE DEF d, x
      <4> QED BY <1>1, <3>1, <4>1, <4>2, FreeNameFacts
    <3>2. CASE 0 \notin DOMAIN files
      <4>1. d = 0 BY <1>2, <1>7, <3>2
      <4>2. DOMAIN files = {} BY <1>3, <3>2 DEF Name
      <4>3. DOMAIN files \cup {0} = 0..0 BY <1>4, <4>2
      <4> QED BY <1>4, <3>2, <4>1, <4>3
    <3> QED BY <3>1, <3>2
  <2> HIDE DEF d
  <2>3. y \in TransferType BY <1>1, <2>1, <2>2, ZenonT(60) DEF TransferType
  <2>4. SameSender(x, y) BY <1>1, <2>1, <2>2 DEF TransferType, SameSender
  <2>5. /\ y.rstat = x.rstat /\ y.rresumable = x.rresumable /\ y.resume_sent = x.resume_sent
        /\ y.rsok = x.rsok /\ y.reset = x.reset /\ y.data = x.data /\ y.acks = x.acks
        /\ y.fp /\ y.began /\ y.rpos = x.rpos /\ y.destfile = d
    BY <1>1, <2>1, <2>2 DEF TransferType
  <2> QED BY <1>2, <1>7, <2>2, <2>3, <2>4, <2>5 DEF FileOpened
<1> QED BY <1>2, <1>5, <1>6, <1>7

(* Where both ends agree, either no other transfer was made, or nothing is *)
(* resumed.                                                                *)
LEMMA Alone ==
  ASSUME NEW xs, NEW fs, Good(xs, fs), Agreed, NEW t \in Transfer, NEW u \in Transfer, t # u,
         xs[t] # NoTransfer, xs[u] # NoTransfer
  PROVE  ~May("resume") /\ ~xs[t].resume_sent /\ ~xs[u].resume_sent
<1>1. Aligned(t, xs[t], fs) /\ Aligned(u, xs[u], fs) BY DEF Good, Fits
<1>2. t > 1 \/ u > 1 BY Sizes DEF Transfer
<1>3. May("twice") BY <1>1, <1>2 DEF Aligned
<1>4. ~May("resume") BY <1>3 DEF Agreed, May
<1> QED BY <1>1, <1>4 DEF Aligned

(* The first k blocks that have come are read, and perhaps acknowledged.   *)
ReadInto(x, y, k, b, a) ==
    /\ a \in TransferType /\ SameSender(x, a) /\ a.rstat = "ACTIVE"
    /\ a.rresumable = x.rresumable /\ a.resume_sent = x.resume_sent /\ a.rsok = x.rsok
    /\ a.fp /\ a.began /\ a.destfile = y.destfile /\ a.rpos = y.rpos + k
    /\ b \in Seq(1..size) /\ Len(b) = k /\ \A i \in 1..k : b[i] = x.data[i]
    /\ Len(a.data) = Len(x.data) - k /\ \A i \in 1..Len(a.data) : a.data[i] = x.data[k + i]
    /\ a.acks = x.acks \/ (k > 0 /\ a.acks = Append(x.acks, a.rpos % AckMod))

(* What was in the file that is opened. *)
OldPart(x, d) == IF d \in DOMAIN files /\ (x.fp \/ x.rresumable # 0) THEN files[d] ELSE <<>>

(* Where both ends agree, the file that is opened holds what the receiver  *)
(* counts.                                                                 *)
LEMMA OldPartFacts ==
  ASSUME NEW xs, Good(xs, files), NEW t \in Transfer, xs[t].rstat = "ACTIVE",
         NEW y, FileOpened(xs[t], y), NEW old, old = OldPart(xs[t], y.destfile)
  PROVE  /\ old \in Seq(1..size)
         /\ Agreed => IsPart(old) /\ Len(old) = y.rpos /\ y.rpos = xs[t].rpos
<1> DEFINE x == xs[t]
           d == y.destfile
<1>1. old = files[d] \/ old = <<>> BY DEF OldPart
<1>2. old \in Seq(1..size)
  <2>1. d \in DOMAIN files => files[d] \in Seq(1..size) BY DEF Good, Filed
  <2>2. <<>> \in Seq(1..size) OBVIOUS
  <2>3. (d \in DOMAIN files /\ old = files[d]) \/ old = <<>> BY DEF OldPart
  <2> QED BY <2>1, <2>2, <2>3
<1>3. ASSUME Agreed PROVE IsPart(old) /\ Len(old) = y.rpos /\ y.rpos = x.rpos
  <2>1. Aligned(t, x, files) /\ Basic(x) BY <1>3 DEF Good, Fits
  <2>2. Running(x) /\ Opening(x, files) /\ PartIsThere(x, files) BY <2>1 DEF Aligned
  <2>3. d \in DOMAIN files => IsPart(files[d]) BY <1>3 DEF Good, Filed
  <2>4. IsPart(<<>>) /\ Len(<<>>) = 0 BY Sizes DEF IsPart
  <2>5. CASE x.began /\ x.fp /\ d = x.destfile /\ d \in DOMAIN files
    <3>1. old = files[d] BY <2>5 DEF OldPart
    <3>2. y.rpos = x.rpos BY <2>5 DEF FileOpened
    <3> QED BY <2>2, <2>3, <2>5, <3>1, <3>2 DEF Opening
  <2>6. CASE ~x.began /\ ~x.fp /\ x.rresumable # 0 /\ d = 0
    <3>1. 0 \in DOMAIN files /\ Len(files[0]) = x.rresumable
      BY <2>2, <2>6 DEF Running, PartIsThere
    <3>2. old = files[0] BY <2>6, <3>1 DEF OldPart
    <3>3. y.rpos = x.rresumable /\ x.rpos = x.rresumable
      BY <2>2, <2>6 DEF FileOpened, Running
    <3> QED BY <2>3, <2>6, <3>1, <3>2, <3>3
  <2>7. CASE ~x.began /\ ~x.fp /\ x.rresumable = 0 /\ d \notin DOMAIN files
    <3>1. old = <<>> BY <2>7 DEF OldPart
    <3>2. y.rpos = x.rpos /\ x.rpos = 0 BY <2>2, <2>7 DEF FileOpened, Running
    <3> QED BY <2>4, <3>1, <3>2
  <2> QED BY <2>5, <2>6, <2>7 DEF FileOpened
<1> QED BY <1>2, <1>3

(* What Written does to the directory. *)
Extended(x, d, b, fs2) ==
    /\ fs2 = [m \in DOMAIN fs2 |-> fs2[m]]
    /\ DOMAIN fs2 = DOMAIN files \cup {d} /\ d \in DOMAIN fs2
    /\ fs2[d] = OldPart(x, d) \o b
    /\ \A n \in DOMAIN files \ {d} : n \in DOMAIN fs2 /\ fs2[n] = files[n]

(* Written changes one file and leaves the others. *)
LEMMA WrittenFacts ==
  ASSUME NEW x, NEW d, NEW b, NEW fs2, fs2 = Written(x, d, b)
  PROVE  Extended(x, d, b, fs2)
<1> DEFINE old == OldPart(x, d)
<1>1. fs2 = [m \in DOMAIN files \cup {d} |-> IF m = d THEN old \o b ELSE files[m]]
  BY Zenon DEF Written, OldPart
<1> HIDE DEF old
<1> QED BY <1>1 DEF old, Extended

(* Blocks that continue a beginning of the file make a longer one. *)
LEMMA PartGrows ==
  ASSUME NEW old \in Seq(1..size), IsPart(old), NEW b \in Seq(1..size), Len(old) + Len(b) <= size,
         \A i \in 1..Len(b) : b[i] = Len(old) + i
  PROVE  IsPart(old \o b) /\ Len(old \o b) = Len(old) + Len(b)
<1>1. Len(old) \in Nat /\ Len(b) \in Nat OBVIOUS
<1>2. Len(old \o b) = Len(old) + Len(b) OBVIOUS
<1>3. \A i \in 1..Len(old) : (old \o b)[i] = old[i] OBVIOUS
<1>4. \A i \in (Len(old) + 1)..(Len(old) + Len(b)) : (old \o b)[i] = b[i - Len(old)] OBVIOUS
<1>5. ASSUME NEW i \in 1..(Len(old) + Len(b)) PROVE (old \o b)[i] = i
  <2>1. CASE i \in 1..Len(old) BY <1>3, <2>1 DEF IsPart
  <2>2. CASE i \notin 1..Len(old)
    <3>1. i \in (Len(old) + 1)..(Len(old) + Len(b)) /\ i - Len(old) \in 1..Len(b) BY <1>1, <1>5, <2>2
    <3>2. b[i - Len(old)] = Len(old) + (i - Len(old)) BY <3>1
    <3> QED BY <1>1, <1>4, <3>1, <3>2
  <2> QED BY <2>1, <2>2
<1> QED BY <1>2, <1>5 DEF IsPart

(* Places in what is read and in what is left. *)
LEMMA InLonger == ASSUME NEW l \in Nat, NEW k \in Nat, k <= l, NEW i \in 1..k PROVE i \in 1..l
OBVIOUS

(* The i-th of what is left. *)
LEMMA AfterFirst ==
  ASSUME NEW l \in Nat, NEW k \in Nat, k <= l, NEW m, m = l - k, NEW i \in 1..m
  PROVE  k + i \in 1..l
OBVIOUS

(* Acknowledgements while blocks are read: each still says a position that *)
(* was reached.                                                            *)
LEMMA ReadAcks ==
  ASSUME NEW x, NEW y, NEW k \in Nat, NEW b, NEW a, ExactAcks, Basic(x), Acknowledged(x), Running(x),
         x.rstat = "ACTIVE", ReadInto(x, y, k, b, a), k <= Len(x.data), y.rpos = x.rpos
  PROVE  Acknowledged(a)
<1>0. /\ x.data \in Seq(1..size) /\ a.data \in Seq(1..size)
      /\ x.acks \in Seq(0..(AckMod - 1)) /\ a.acks \in Seq(0..(AckMod - 1))
      /\ x.spos \in Nat /\ x.spos <= size /\ x.rpos \in Nat /\ size \in Nat /\ x.rresumable \in Nat
      /\ x.sresumable \in Nat /\ AckMod \in Nat \ {0}
  BY Fields, Sizes DEF Basic, ReadInto
<1>1. a.rpos = x.rpos + k /\ a.began /\ Len(a.data) = Len(x.data) - k BY DEF ReadInto
<1>2. /\ a.sstat = x.sstat /\ a.spos = x.spos /\ a.sack = x.sack /\ a.sresumable = x.sresumable
      /\ a.ackoffset = x.ackoffset
  BY DEF ReadInto, SameSender
<1>3. x.spos = x.rpos + Len(x.data) /\ Len(x.data) \in Nat BY <1>0 DEF Running
<1>4. a.sstat = "DONE" => a.began /\ a.rpos = size
  <2> SUFFICES ASSUME a.sstat = "DONE" PROVE a.rpos = size BY <1>1
  <2>1. x.rpos = size BY <1>2 DEF Acknowledged
  <2> QED BY <1>0, <1>1, <1>3, <2>1
<1>5. CASE "huge" \in features
  <2>1. Len(x.data) <= 1 /\ (x.acks # <<>> => Len(x.acks) = 1 /\ x.data = <<>> /\ x.spos = x.rpos)
    BY <1>5 DEF Acknowledged, AcksOfHuge
  <2>2. Len(a.data) <= 1 BY <1>1, <1>3, <2>1
  <2>3. CASE k = 0
    <3>1. a.acks = x.acks BY <2>3 DEF ReadInto
    <3>2. x.data = <<>> => a.data = <<>>
      <4> SUFFICES ASSUME x.data = <<>> PROVE a.data = <<>> OBVIOUS
      <4>1. Len(a.data) = 0 BY <1>1, <2>3
      <4> QED BY <1>0, <4>1, EmptySeq
    <3>3. a.rpos = x.rpos BY <1>0, <1>1, <2>3
    <3> QED BY <1>2, <1>4, <1>5, <2>1, <2>2, <3>1, <3>2, <3>3 DEF Acknowledged, AcksOfHuge
  <2>4. CASE k # 0
    <3> DEFINE l == Len(x.data)
    <3>0. l \in Nat /\ l <= 1 /\ k <= l BY <1>3, <2>1
    <3> HIDE DEF l
    <3>9. k = 1 /\ l = 1 BY <2>4, <3>0
    <3>1. k = 1 /\ Len(x.data) = 1 BY <3>9 DEF l
    <3>2. x.acks = <<>> BY <2>1, <3>1
    <3>3. Len(a.data) = 0 BY <1>1, <3>1
    <3>4. a.data = <<>> BY <1>0, <3>3, EmptySeq
    <3>5. a.spos = a.rpos BY <1>0, <1>1, <1>2, <1>3, <3>1
    <3>7. a.acks # <<>> => Len(a.acks) = 1
      <4>1. CASE a.acks = x.acks BY <3>2, <4>1
      <4>2. CASE a.acks = Append(x.acks, a.rpos % AckMod) BY <3>2, <4>2
      <4> QED BY <4>1, <4>2 DEF ReadInto
    <3> QED BY <1>4, <1>5, <2>2, <3>4, <3>5, <3>7 DEF Acknowledged, AcksOfHuge
  <2> QED BY <2>3, <2>4
<1>6. CASE "huge" \notin features
  <2>1. AcksOfSmall(x) BY <1>6 DEF Acknowledged
  <2>2. size < AckMod BY <1>6, Sizes
  <2>3. x.sresumable <= x.rpos BY DEF Running
  <2>4. \A i \in 1..Len(x.acks) : x.sresumable <= x.acks[i] /\ x.acks[i] <= a.rpos
    <3> SUFFICES ASSUME NEW i \in 1..Len(x.acks)
                 PROVE x.sresumable <= x.acks[i] /\ x.acks[i] <= a.rpos
      OBVIOUS
    <3> DEFINE v == x.acks[i]
    <3>1. v \in Nat BY <1>0, SMTT(30)
    <3>2. x.sresumable <= v /\ v <= x.rpos BY <2>1 DEF AcksOfSmall
    <3> HIDE DEF v
    <3>3. x.sresumable <= v /\ v <= a.rpos BY <1>0, <1>1, <3>1, <3>2
    <3> QED BY <3>3 DEF v
  <2>5. \A i \in 1..Len(a.acks) : a.sresumable <= a.acks[i] /\ a.acks[i] <= a.rpos
    <3>1. CASE a.acks = x.acks BY <1>2, <2>4, <3>1
    <3>2. CASE a.acks = Append(x.acks, a.rpos % AckMod)
      <4>1. a.rpos \in Nat /\ a.rpos < AckMod BY <1>0, <1>1, <1>3, <2>2, SMTT(30)
      <4>2. a.rpos % AckMod = a.rpos BY <4>1, AckFacts, Zenon
      <4>3. a.acks = Append(x.acks, a.rpos) BY <3>2, <4>2, Zenon
      <4>6. a.rpos \in 0..(AckMod - 1) BY <4>1, Sizes
      <4>4. \A i \in 1..Len(a.acks) : IF i = Len(x.acks) + 1 THEN a.acks[i] = a.rpos
                                      ELSE i \in 1..Len(x.acks) /\ a.acks[i] = x.acks[i]
        BY <1>0, <4>3, <4>6, AppendFacts, SMTT(30)
      <4>5. x.sresumable <= a.rpos BY <1>0, <1>1, <2>3
      <4> QED BY <1>2, <2>4, <4>1, <4>4, <4>5
    <3> QED BY <3>1, <3>2 DEF ReadInto
  <2> QED BY <1>2, <1>4, <1>6, <2>1, <2>5 DEF Acknowledged, AcksOfSmall
<1> QED BY <1>5, <1>6

(* Reading keeps the whole invariant: the transfer's own part of it,       *)
(* that of the others, whose files are different ones, and the directory's.*)
LEMMA ReadGood ==
  ASSUME NEW xs, Good(xs, files), NEW t \in Transfer, xs[t].rstat = "ACTIVE",
         NEW y, FileOpened(xs[t], y), NEW k, k \in Nat, k <= Len(xs[t].data), NEW b,
         NEW a, ReadInto(xs[t], y, k, b, a), NEW fs2, fs2 = Written(xs[t], y.destfile, b)
  PROVE  Good([xs EXCEPT ![t] = a], fs2)
<1> DEFINE x == xs[t]
           d == y.destfile
           old == OldPart(x, d)
           ys == [xs EXCEPT ![t] = a]
<1>1. /\ Basic(x) /\ x \in TransferType /\ a \in TransferType
      /\ Agreed => Aligned(t, x, files) /\ Running(x)
      /\ ExactAcks => Acknowledged(x)
  BY DEF Good, Fits, Basic, ReadInto, Aligned
<1>2. /\ fs2 = [m \in DOMAIN fs2 |-> fs2[m]]
      /\ DOMAIN fs2 = DOMAIN files \cup {d} /\ d \in DOMAIN fs2
      /\ fs2[d] = old \o b
      /\ \A n \in DOMAIN files \ {d} : n \in DOMAIN fs2 /\ fs2[n] = files[n]
  <2>1. fs2 = Written(x, d, b) OBVIOUS
  <2>2. Extended(x, d, b, fs2) BY <2>1, WrittenFacts, Zenon
  <2> QED BY <2>2, Zenon DEF Extended
<1>3. /\ old \in Seq(1..size)
      /\ Agreed => IsPart(old) /\ Len(old) = y.rpos /\ y.rpos = x.rpos
  BY OldPartFacts
<1> HIDE DEF old
<1>4. /\ x.data \in Seq(1..size) /\ a.data \in Seq(1..size) /\ b \in Seq(1..size) /\ Len(b) = k
      /\ x.spos \in Nat /\ x.spos <= size /\ x.rpos \in Nat /\ size \in Nat
      /\ y.rpos \in Nat /\ Len(x.data) \in Nat
  <2>1. /\ x.data \in Seq(1..size) /\ a.data \in Seq(1..size)
        /\ x.spos \in Nat /\ x.spos <= size /\ x.rpos \in Nat /\ size \in Nat
    BY <1>1, Fields, Sizes
  <2>2. y \in TransferType BY DEF FileOpened
  <2>3. y.rpos \in Nat BY <2>2, Fields
  <2>4. b \in Seq(1..size) /\ Len(b) = k BY DEF ReadInto
  <2> QED BY <2>1, <2>3, <2>4
<1>5. ys \in [Transfer -> TransferType] /\ ys[t] = a /\ \A u \in Transfer \ {t} : ys[u] = xs[u]
  BY <1>1 DEF Good
<1>6. x # NoTransfer
  <2>1. NoTransfer.rstat = "NONE" BY DEF NoTransfer
  <2> QED BY <2>1
<1>7. /\ a.destfile = d /\ a.began /\ a.rpos = y.rpos + k /\ a.rstat = "ACTIVE"
      /\ Len(a.data) = Len(x.data) - k /\ (\A i \in 1..Len(a.data) : a.data[i] = x.data[k + i])
      /\ \A i \in 1..k : b[i] = x.data[i]
  BY DEF ReadInto
<1> HIDE DEF ys
<1>8. Basic(a)
  <2>1. a.fp /\ a.fp = a.began /\ a.toS = x.toS /\ a.toR = x.toR /\ a.sstat = x.sstat /\ a.spos = x.spos
        /\ a.wiotag = x.wiotag /\ a.sthrottled = x.sthrottled
    <3>1. a.fp \in BOOLEAN /\ a.began \in BOOLEAN /\ a.fp /\ a.began BY <1>1, Fields DEF ReadInto
    <3> QED BY <3>1 DEF ReadInto, SameSender
  <2>2. x.data = <<>> /\ x.acks = <<>> => a.data = <<>> /\ a.acks = <<>>
    <3> SUFFICES ASSUME x.data = <<>>, x.acks = <<>> PROVE a.data = <<>> /\ a.acks = <<>> OBVIOUS
    <3>1. k = 0 /\ Len(a.data) = 0 BY <1>4, <1>7
    <3>2. a.data = <<>> BY <1>4, <3>1, EmptySeq
    <3> QED BY <3>1, <3>2 DEF ReadInto
  <2> QED BY <1>1, <1>7, <2>1, <2>2 DEF Basic
<1>9. ASSUME Agreed
      PROVE /\ IsPart(old \o b) /\ Len(old \o b) = a.rpos /\ a.rpos <= a.spos /\ Running(a)
            /\ \A i \in 1..Len(x.toS) : x.toS[i].cmd = "PASV"
  <2>1. /\ x.spos = x.rpos + Len(x.data) /\ \A i \in 1..Len(x.data) : x.data[i] = x.rpos + i
    BY <1>1, <1>9 DEF Running
  <2>2. Len(old) = x.rpos /\ y.rpos = x.rpos BY <1>3, <1>9
  <2>3. Len(old) + Len(b) <= size BY <1>4, <2>1, <2>2
  <2>4. \A i \in 1..Len(b) : b[i] = Len(old) + i
    <3> SUFFICES ASSUME NEW i \in 1..Len(b) PROVE b[i] = Len(old) + i OBVIOUS
    <3>1. i \in 1..k BY <1>4
    <3>2. i \in 1..Len(x.data) BY <1>4, <3>1, InLonger
    <3>3. b[i] = x.rpos + i BY <1>7, <2>1, <3>1, <3>2
    <3> QED BY <2>2, <3>3
  <2>5. IsPart(old \o b) /\ Len(old \o b) = Len(old) + Len(b)
    BY <1>3, <1>4, <1>9, <2>3, <2>4, PartGrows
  <2>6. a.spos = x.spos /\ a.sresumable = x.sresumable /\ a.toR = x.toR /\ a.toS = x.toS
    BY DEF ReadInto, SameSender
  <2>7. a.spos = a.rpos + Len(a.data) /\ a.rpos <= a.spos
    <3> DEFINE l == Len(x.data)
               m == Len(a.data)
    <3>1. l \in Nat /\ k \in Nat /\ k <= l /\ m = l - k /\ x.spos = x.rpos + l BY <1>4, <1>7, <2>1
    <3>2. a.rpos = x.rpos + k /\ a.spos = x.spos BY <1>7, <2>2, <2>6
    <3> HIDE DEF l, m
    <3>3. a.spos = a.rpos + m /\ a.rpos <= a.spos BY <1>4, <3>1, <3>2
    <3> QED BY <3>3 DEF m
  <2>8. \A i \in 1..Len(a.data) : a.data[i] = a.rpos + i
    <3> SUFFICES ASSUME NEW i \in 1..Len(a.data) PROVE a.data[i] = a.rpos + i OBVIOUS
    <3>1. k + i \in 1..Len(x.data) BY <1>4, <1>7, AfterFirst
    <3>2. a.data[i] = x.rpos + (k + i) BY <1>7, <2>1, <3>1
    <3> QED BY <1>4, <1>7, <2>2, <3>2, SMTT(30)
  <2>9. /\ a.rsok # "closed" /\ a.toR = <<>> /\ \A i \in 1..Len(a.toS) : a.toS[i].cmd = "PASV"
        /\ a.sresumable = a.rresumable
        /\ a.rresumable # 0 => a.resume_sent
    BY <1>1, <1>9, <2>6 DEF Running, ReadInto
  <2>10. a.rresumable <= a.rpos
    <3>1. a.rresumable = x.rresumable /\ x.rresumable \in Nat BY <1>1, Fields DEF ReadInto
    <3>2. x.rresumable <= x.rpos BY <1>1, <1>9 DEF Running
    <3> QED BY <1>4, <1>7, <2>2, <3>1, <3>2
  <2>11. Running(a) BY <1>7, <2>7, <2>8, <2>9, <2>10 DEF Running
  <2>12. Len(old \o b) = a.rpos BY <1>4, <1>7, <2>2, <2>5
  <2> QED BY <2>5, <2>6, <2>7, <2>9, <2>11, <2>12
<1>10. ASSUME Agreed PROVE Aligned(t, a, fs2)
  <2>1. Aligned(t, x, files) BY <1>1, <1>10
  <2>2. /\ a.toR = x.toR /\ a.toS = x.toS /\ a.resume_sent = x.resume_sent
    BY DEF ReadInto, SameSender
  <2>3. Opening(a, fs2) BY <1>2, <1>7, <1>9, <1>10, <2>2 DEF Opening
  <2>4. PartIsThere(a, fs2) BY <1>7 DEF PartIsThere
  <2> QED BY <1>6, <1>7, <1>9, <1>10, <2>1, <2>2, <2>3, <2>4 DEF Aligned
<1>11. ASSUME ExactAcks PROVE Acknowledged(a)
  <2>1. Agreed /\ Running(x) /\ Acknowledged(x) /\ y.rpos = x.rpos
    BY <1>1, <1>3, <1>11 DEF ExactAcks
  <2> HIDE DEF x
  <2>2. ReadInto(x, y, k, b, a) /\ k <= Len(x.data) /\ x.rstat = "ACTIVE" BY DEF x
  <2> QED BY <1>1, <1>11, <2>1, <2>2, ReadAcks
<1>12. Fits(t, ys[t], fs2) BY <1>5, <1>8, <1>10, <1>11 DEF Fits
<1>13. ASSUME Agreed, NEW u \in Transfer \ {t}, xs[u].began
       PROVE  xs[u].destfile # d /\ xs[u].destfile \in DOMAIN files
  <2>1. xs[u].destfile \in DOMAIN files BY <1>13 DEF Good, Named
  <2>2. xs[u] # NoTransfer
    <3>1. ~NoTransfer.began BY DEF NoTransfer
    <3> QED BY <1>13, <3>1
  <2>3. ~x.resume_sent BY <1>6, <1>13, <2>2, Alone
  <2>4. CASE x.began /\ d = x.destfile BY <1>13, <2>1, <2>4 DEF Good, Named
  <2>5. CASE x.rresumable # 0 BY <1>1, <1>13, <2>3, <2>5 DEF Running
  <2>6. CASE d \notin DOMAIN files BY <2>1, <2>6
  <2> QED BY <2>4, <2>5, <2>6 DEF FileOpened
<1>14. ASSUME NEW u \in Transfer \ {t} PROVE Fits(u, xs[u], fs2)
  <2>1. Fits(u, xs[u], files) BY DEF Good
  <2>2. ASSUME Agreed PROVE Aligned(u, xs[u], fs2)
    <3>1. Aligned(u, xs[u], files) BY <2>1, <2>2 DEF Fits
    <3>2. Opening(xs[u], fs2)
      <4>1. CASE xs[u].began
        <5>1. fs2[xs[u].destfile] = files[xs[u].destfile] BY <1>2, <1>13, <2>2, <4>1
        <5> QED BY <3>1, <4>1, <5>1 DEF Aligned, Opening
      <4>2. CASE ~xs[u].began BY <3>1, <4>2 DEF Aligned, Opening
      <4> QED BY <4>1, <4>2
    <3>3. PartIsThere(xs[u], fs2)
      <4>1. xs[u] = NoTransfer \/ ~xs[u].resume_sent BY <1>6, <2>2, Alone
      <4>2. ~NoTransfer.resume_sent BY DEF NoTransfer
      <4>3. ~xs[u].resume_sent BY <4>1, <4>2
      <4> QED BY <4>3 DEF PartIsThere
    <3> QED BY <3>1, <3>2, <3>3 DEF Aligned
  <2> QED BY <2>1, <2>2 DEF Fits
<1>15. \A u \in Transfer : Fits(u, ys[u], fs2) BY <1>5, <1>12, <1>14
<1>16. Named(ys, fs2)
  <2>1. DOMAIN fs2 \in {{}} \cup {0..m : m \in Name} BY <1>2 DEF FileOpened
  <2>2. \A u \in Transfer : ys[u].began => ys[u].destfile \in DOMAIN fs2
    <3>1. \A u \in Transfer : xs[u].began => xs[u].destfile \in DOMAIN files BY DEF Good, Named
    <3> QED BY <1>2, <1>5, <1>7, <3>1
  <2>3. \A n \in DOMAIN fs2 \ {0} : \E u \in Transfer : ys[u].began /\ ys[u].destfile = n
    <3> SUFFICES ASSUME NEW n \in DOMAIN fs2 \ {0}
                 PROVE \E u \in Transfer : ys[u].began /\ ys[u].destfile = n
      OBVIOUS
    <3>1. CASE n = d BY <1>5, <1>7, <3>1
    <3>2. CASE n # d
      <4>1. n \in DOMAIN files \ {0} BY <1>2, <3>2
      <4>2. PICK u \in Transfer : xs[u].began /\ xs[u].destfile = n BY <4>1 DEF Good, Named
      <4>3. u # t
        <5> SUFFICES ASSUME u = t PROVE FALSE OBVIOUS
        <5>1. x.began /\ x.destfile # d BY <3>2, <4>2
        <5> QED BY <5>1 DEF FileOpened
      <4> QED BY <1>5, <4>2, <4>3
    <3> QED BY <3>1, <3>2
  <2>4. ASSUME Agreed, NEW u \in Transfer, NEW v \in Transfer, ys[u].began, ys[v].began, u # v
        PROVE  ys[u].destfile # ys[v].destfile
    <3>1. CASE u = t BY <1>5, <1>7, <1>13, <2>4, <3>1
    <3>2. CASE v = t BY <1>5, <1>7, <1>13, <2>4, <3>2
    <3>3. CASE u # t /\ v # t BY <1>5, <2>4, <3>3 DEF Good, Named
    <3> QED BY <3>1, <3>2, <3>3
  <2> QED BY <2>1, <2>2, <2>3, <2>4 DEF Named
<1>17. Filed(fs2)
  <2>1. old \o b \in Seq(1..size) BY <1>3, <1>4
  <2>2. ASSUME NEW n \in DOMAIN fs2
        PROVE  fs2[n] \in Seq(1..size) /\ (Agreed => IsPart(fs2[n]))
    <3>1. CASE n = d BY <1>2, <1>9, <2>1, <3>1
    <3>2. CASE n # d
      <4>1. n \in DOMAIN files /\ fs2[n] = files[n] BY <1>2, <2>2, <3>2
      <4> QED BY <4>1 DEF Good, Filed
    <3> QED BY <3>1, <3>2
  <2>3. fs2 = [m \in DOMAIN fs2 |-> fs2[m]] BY <1>2
  <2> QED BY <2>2, <2>3 DEF Filed
<1>18. Good(ys, fs2) BY <1>5, <1>15, <1>16, <1>17 DEF Good
<1> QED BY <1>18 DEF ys

(* The first k elements of a sequence, and what is left. *)
LEMMA CutFacts ==
  ASSUME NEW S, NEW s \in Seq(S), NEW l \in Nat, l = Len(s), NEW k \in Nat, k <= l
  PROVE  /\ SubSeq(s, 1, k) \in Seq(S) /\ Len(SubSeq(s, 1, k)) = k
         /\ \A i \in 1..k : SubSeq(s, 1, k)[i] = s[i]
         /\ SubSeq(s, k + 1, l) \in Seq(S) /\ Len(SubSeq(s, k + 1, l)) = l - k
         /\ \A i \in 1..(l - k) : SubSeq(s, k + 1, l)[i] = s[k + i]
<1>1. \A i \in 1..l : s[i] \in S OBVIOUS
<1>2. \A i \in 1..k : s[i] \in S BY <1>1, InLonger
<1>3. \A i \in (k + 1)..l : s[i] \in S
  <2> SUFFICES ASSUME NEW i \in (k + 1)..l PROVE s[i] \in S OBVIOUS
  <2>1. i \in 1..l OBVIOUS
  <2> QED BY <1>1, <2>1
<1>4. 1 \in Int /\ k \in Int /\ k + 1 \in Int /\ l \in Int OBVIOUS
<1>5. /\ SubSeq(s, 1, k) \in Seq(S) /\ Len(SubSeq(s, 1, k)) = (IF 1 <= k THEN k - 1 + 1 ELSE 0)
      /\ \A i \in 1..(k - 1 + 1) : SubSeq(s, 1, k)[i] = s[1 + i - 1]
  BY <1>2, <1>4, SubSeqProperties
<1>6. /\ SubSeq(s, k + 1, l) \in Seq(S)
      /\ Len(SubSeq(s, k + 1, l)) = (IF k + 1 <= l THEN l - (k + 1) + 1 ELSE 0)
      /\ \A i \in 1..(l - (k + 1) + 1) : SubSeq(s, k + 1, l)[i] = s[k + 1 + i - 1]
  BY <1>3, <1>4, SubSeqProperties
<1> DEFINE b == SubSeq(s, 1, k)
           q == SubSeq(s, k + 1, l)
           lb == Len(b)
           lq == Len(q)
<1>7. lb = (IF 1 <= k THEN k - 1 + 1 ELSE 0) /\ \A i \in 1..(k - 1 + 1) : b[i] = s[1 + i - 1] BY <1>5
<1>8. /\ lq = (IF k + 1 <= l THEN l - (k + 1) + 1 ELSE 0)
      /\ \A i \in 1..(l - (k + 1) + 1) : q[i] = s[k + 1 + i - 1]
  BY <1>6
<1> HIDE DEF b, q, lb, lq
<1>9. lb = k
  <2>1. CASE 1 <= k BY <1>7, <2>1
  <2>2. CASE ~(1 <= k)
    <3>1. k = 0 BY <2>2
    <3> QED BY <1>7, <2>2, <3>1
  <2> QED BY <2>1, <2>2
<1>10. \A i \in 1..k : b[i] = s[i]
  <2> SUFFICES ASSUME NEW i \in 1..k PROVE b[i] = s[i] OBVIOUS
  <2>1. i \in 1..(k - 1 + 1) /\ 1 + i - 1 = i OBVIOUS
  <2>2. b[i] = s[1 + i - 1] BY <1>7, <2>1
  <2> QED BY <2>1, <2>2
<1>11. lq = l - k
  <2>1. CASE k + 1 <= l BY <1>8, <2>1
  <2>2. CASE ~(k + 1 <= l)
    <3>1. l - k = 0 BY <2>2
    <3> QED BY <1>8, <2>2, <3>1
  <2> QED BY <2>1, <2>2
<1>12. \A i \in 1..(l - k) : q[i] = s[k + i]
  <2> SUFFICES ASSUME NEW i \in 1..(l - k) PROVE q[i] = s[k + i] OBVIOUS
  <2>1. i \in 1..(l - (k + 1) + 1) /\ k + 1 + i - 1 = k + i OBVIOUS
  <2>2. q[i] = s[k + 1 + i - 1] BY <1>8, <2>1
  <2> QED BY <2>1, <2>2
<1>13. b \in Seq(S) /\ q \in Seq(S) BY <1>5, <1>6 DEF b, q
<1> QED BY <1>9, <1>10, <1>11, <1>12, <1>13, Zenon DEF b, q, lb, lq

(* What one call of dcc_read leaves of the transfer, and whether it ends. *)
ReadAndAcked(x, y, k, b, z, a) == ReadInto(x, y, k, b, a) /\ (Complete(z) <=> a.rpos >= size)

(* A transfer that has the same receiver's part has read as much. *)
LEMMA ReadSame ==
  ASSUME NEW x, NEW y, NEW k, NEW b, NEW z, NEW a, ReadInto(x, y, k, b, z),
         a \in TransferType, SameSender(z, a),
         a.rstat = z.rstat, a.rresumable = z.rresumable, a.resume_sent = z.resume_sent,
         a.rsok = z.rsok, a.fp = z.fp, a.began = z.began, a.destfile = z.destfile,
         a.rpos = z.rpos, a.data = z.data,
         a.acks = x.acks \/ (k > 0 /\ a.acks = Append(x.acks, a.rpos % AckMod))
  PROVE  ReadInto(x, y, k, b, a)
<1>1. SameSender(x, a) BY Zenon DEF ReadInto, SameSender
<1>2. a.rstat = "ACTIVE" /\ a.rresumable = x.rresumable /\ a.resume_sent = x.resume_sent /\ a.rsok = x.rsok
  BY Zenon DEF ReadInto
<1>3. a.fp /\ a.began /\ a.destfile = y.destfile /\ a.rpos = y.rpos + k BY Zenon DEF ReadInto
<1>4. b \in Seq(1..size) /\ Len(b) = k /\ \A i \in 1..k : b[i] = x.data[i] BY Zenon DEF ReadInto
<1>5. Len(a.data) = Len(x.data) - k /\ \A i \in 1..Len(a.data) : a.data[i] = x.data[k + i]
  BY Zenon DEF ReadInto
<1> QED BY <1>1, <1>2, <1>3, <1>4, <1>5, Zenon DEF ReadInto

(* dcc_send_ack after k blocks. *)
LEMMA ReadAndAck ==
  ASSUME NEW xs, Good(xs, files), NEW t \in Transfer, xs[t].rstat = "ACTIVE",
         NEW y, FileOpened(xs[t], y), NEW k \in Nat, k <= Len(xs[t].data),
         NEW z, z = [y EXCEPT !.rpos = @ + k, !.data = SubSeq(@, k + 1, Len(@))],
         NEW a, a = IF k > 0 THEN dcc_send_ack(z) ELSE z
  PROVE  ReadAndAcked(xs[t], y, k, SubSeq(xs[t].data, 1, k), z, a)
<1> DEFINE x == xs[t]
           b == SubSeq(x.data, 1, k)
           q == SubSeq(x.data, k + 1, Len(x.data))
           p == y.rpos + k
           c == p % AckMod
           e == Append(x.acks, c)
<1>1. /\ x \in TransferType /\ y \in TransferType /\ y.data = x.data /\ y.acks = x.acks
      /\ SameSender(x, y)
  BY DEF Good, FileOpened
<1>2. x.data \in Seq(1..size) /\ x.acks \in Seq(0..(AckMod - 1)) /\ y.rpos \in Nat BY <1>1, Fields
<1>3. /\ b \in Seq(1..size) /\ Len(b) = k /\ \A i \in 1..k : b[i] = x.data[i]
      /\ q \in Seq(1..size) /\ Len(q) = Len(x.data) - k /\ \A i \in 1..(Len(x.data) - k) : q[i] = x.data[k + i]
  <2> DEFINE s == x.data
             l == Len(s)
             S == 1..size
  <2>1. l \in Nat /\ k <= l /\ s \in Seq(S) BY <1>2
  <2>2. b = SubSeq(s, 1, k) /\ q = SubSeq(s, k + 1, l) /\ l = Len(s) OBVIOUS
  <2> HIDE DEF s, l, q, b, S
  <2>3. /\ SubSeq(s, 1, k) \in Seq(S) /\ Len(SubSeq(s, 1, k)) = k
        /\ \A i \in 1..k : SubSeq(s, 1, k)[i] = s[i]
        /\ SubSeq(s, k + 1, l) \in Seq(S) /\ Len(SubSeq(s, k + 1, l)) = l - k
        /\ \A i \in 1..(l - k) : SubSeq(s, k + 1, l)[i] = s[k + i]
    BY <2>1, <2>2, CutFacts
  <2>4. /\ b \in Seq(S) /\ Len(b) = k /\ \A i \in 1..k : b[i] = s[i]
        /\ q \in Seq(S) /\ Len(q) = l - k /\ \A i \in 1..(l - k) : q[i] = s[k + i]
    BY <2>2, <2>3, Zenon
  <2> QED BY <2>4, Zenon DEF s, l, S
<1>4. Len(q) = Len(x.data) - k /\ \A i \in 1..Len(q) : q[i] = x.data[k + i]
  BY <1>3, Zenon
<1>5. p \in Nat /\ c \in 0..(AckMod - 1)
  <2>1. p \in Nat BY <1>2
  <2> HIDE DEF p
  <2> QED BY <2>1, AckFacts
<1>6. e \in Seq(0..(AckMod - 1)) /\ e = Append(x.acks, c) BY <1>2, <1>5
<1>7. z = [y EXCEPT !.rpos = p, !.data = q] BY <1>1
<1>8. c = p % AckMod /\ p = y.rpos + k OBVIOUS
<1> HIDE DEF b, q, p, c, e
<1>9. z \in TransferType BY <1>1, <1>3, <1>5, <1>7, ZenonT(60) DEF TransferType
<1>10. /\ SameSender(y, z) /\ z.rstat = y.rstat /\ z.rresumable = y.rresumable
       /\ z.resume_sent = y.resume_sent /\ z.rsok = y.rsok /\ z.fp = y.fp /\ z.began = y.began
       /\ z.destfile = y.destfile /\ z.rpos = p /\ z.data = q /\ z.acks = y.acks
  <2>1. SameSender(y, z) BY <1>1, <1>3, <1>5, <1>7 DEF TransferType, SameSender
  <2> QED BY <1>1, <1>3, <1>5, <1>7, <2>1 DEF TransferType
<1> HIDE DEF x
<1>11. ReadInto(x, y, k, b, z)
  <2>1. x.rstat = "ACTIVE" /\ FileOpened(x, y) BY DEF x
  <2>2. SameSender(x, z) BY <1>1, <1>10, Zenon DEF SameSender
  <2>3. z.rstat = "ACTIVE" /\ z.rresumable = x.rresumable /\ z.resume_sent = x.resume_sent /\ z.rsok = x.rsok
    BY <1>10, <2>1, Zenon DEF FileOpened
  <2>4. z.fp /\ z.began /\ z.destfile = y.destfile /\ z.rpos = y.rpos + k /\ z.acks = x.acks
    <3>1. y.fp /\ y.began BY <2>1 DEF FileOpened
    <3> QED BY <1>1, <1>8, <1>10, <3>1, Zenon
  <2>5. Len(z.data) = Len(x.data) - k /\ \A i \in 1..Len(z.data) : z.data[i] = x.data[k + i]
    BY <1>4, <1>10, Zenon
  <2> QED BY <1>3, <1>9, <2>2, <2>3, <2>4, <2>5, Zenon DEF ReadInto
<1>12. Complete(z) <=> p >= size BY <1>10 DEF Complete
<1>13. CASE k = 0
  <2>1. a = z BY <1>13
  <2>2. ReadAndAcked(x, y, k, b, z, a) BY <1>10, <1>11, <1>12, <2>1, Zenon DEF ReadAndAcked
  <2> QED BY <2>2, Zenon DEF x, b
<1>14. CASE k > 0 /\ z.ssok = "closed"
  <2>1. a = [z EXCEPT !.reset = TRUE] BY <1>14 DEF dcc_send_ack
  <2>2. a \in TransferType BY <1>9, <2>1, ZenonT(60) DEF TransferType
  <2>3. SameSender(z, a) BY <1>9, <2>1, ZenonT(60) DEF TransferType, SameSender
  <2>4. /\ a.rstat = z.rstat /\ a.rresumable = z.rresumable
        /\ a.resume_sent = z.resume_sent /\ a.rsok = z.rsok /\ a.fp = z.fp /\ a.began = z.began
        /\ a.destfile = z.destfile /\ a.rpos = z.rpos /\ a.data = z.data /\ a.acks = z.acks
    BY <1>9, <2>1 DEF TransferType
  <2>5. a.acks = x.acks BY <1>1, <1>10, <2>4, Zenon
  <2>6. ReadInto(x, y, k, b, a) BY <1>11, <2>2, <2>3, <2>4, <2>5, ReadSame, Zenon
  <2>7. ReadAndAcked(x, y, k, b, z, a) BY <1>10, <1>12, <2>4, <2>6, Zenon DEF ReadAndAcked
  <2> QED BY <2>7, Zenon DEF x, b
<1>15. CASE k > 0 /\ z.ssok # "closed"
  <2>1. a = [z EXCEPT !.acks = e]
    <3>1. a = [z EXCEPT !.acks = Append(z.acks, z.rpos % AckMod)] BY <1>15 DEF dcc_send_ack
    <3>2. Append(z.acks, z.rpos % AckMod) = e BY <1>1, <1>6, <1>8, <1>10
    <3> QED BY <3>1, <3>2
  <2>2. a \in TransferType BY <1>6, <1>9, <2>1, ZenonT(60) DEF TransferType
  <2>3. SameSender(z, a) BY <1>6, <1>9, <2>1, ZenonT(60) DEF TransferType, SameSender
  <2>4. /\ a.rstat = z.rstat /\ a.rresumable = z.rresumable
        /\ a.resume_sent = z.resume_sent /\ a.rsok = z.rsok /\ a.fp = z.fp /\ a.began = z.began
        /\ a.destfile = z.destfile /\ a.rpos = z.rpos /\ a.data = z.data /\ a.acks = e
    BY <1>6, <1>9, <2>1, ZenonT(60) DEF TransferType
  <2>5. a.acks = Append(x.acks, a.rpos % AckMod) BY <1>6, <1>8, <1>10, <2>4
  <2>6. ReadInto(x, y, k, b, a) BY <1>11, <1>15, <2>2, <2>3, <2>4, <2>5, ReadSame, Zenon
  <2>7. ReadAndAcked(x, y, k, b, z, a) BY <1>10, <1>12, <2>4, <2>6, Zenon DEF ReadAndAcked
  <2> QED BY <2>7, Zenon DEF x, b
<1>16. k = 0 \/ k > 0 OBVIOUS
<1> QED BY <1>13, <1>14, <1>15, <1>16

(* What dcc_read does: it opens the file, takes k blocks, and goes on, is  *)
(* done or fails.                                                          *)
ReadEnds(k, a, r) ==
    \/ r = a
    \/ k = 0 /\ r = dcc_close_receiver(a, "FAILED")
    \/ a.rpos >= size /\ r = dcc_close_receiver(a, "DONE")

ReadTakes(x, t, y, k, b, a, r) ==
    /\ FileOpened(x, y) /\ k \in Nat /\ k <= Len(x.data) /\ ReadInto(x, y, k, b, a)
    /\ files' = Written(x, y.destfile, b) /\ ReadEnds(k, a, r) /\ xfer' = [xfer EXCEPT ![t] = r]

(* The loop of dcc_read. *)
LEMMA ReadBlocksFacts ==
  ASSUME NEW xs, Good(xs, files), NEW t \in Transfer, xs[t].rstat = "ACTIVE", ReadBlocks(t, xs[t])
  PROVE  \E y, k, b, a, r : ReadTakes(xs[t], t, y, k, b, a, r)
<1> DEFINE x == xs[t]
           y == Opened(x)
           z(k) == [y EXCEPT !.rpos = @ + k, !.data = SubSeq(@, k + 1, Len(@))]
           a(k) == IF k > 0 THEN dcc_send_ack(z(k)) ELSE z(k)
<1>1. FileOpened(x, y)
  <2> HIDE DEF y
  <2>1. y = Opened(xs[t]) BY DEF y
  <2> QED BY <2>1, OpenedFacts
<1> HIDE DEF y
<1>2. PICK k \in 0..Len(x.data) :
        /\ xfer' = [xfer EXCEPT ![t] =
                     IF k > 0 /\ Complete(z(k)) THEN dcc_close_receiver(a(k), "DONE") ELSE a(k)]
        /\ files' = Written(x, y.destfile, SubSeq(x.data, 1, k))
  BY Zenon DEF ReadBlocks, y
<1>3. k \in Nat /\ k <= Len(x.data)
  <2>1. x.data \in Seq(1..size) BY Fields DEF Good
  <2> QED BY <1>2, <2>1
<1> DEFINE zk == z(k)
           ak == a(k)
           b == SubSeq(x.data, 1, k)
<1>4. zk = [y EXCEPT !.rpos = @ + k, !.data = SubSeq(@, k + 1, Len(@))] OBVIOUS
<1>5. ak = IF k > 0 THEN dcc_send_ack(zk) ELSE zk OBVIOUS
<1>6. /\ xfer' = [xfer EXCEPT ![t] =
                     IF k > 0 /\ Complete(zk) THEN dcc_close_receiver(ak, "DONE") ELSE ak]
      /\ files' = Written(x, y.destfile, b)
  BY <1>2
<1> HIDE DEF zk, ak, z, a
<1>7. ReadInto(x, y, k, b, ak) /\ (Complete(zk) <=> ak.rpos >= size)
  <2> HIDE DEF b
  <2>1. b = SubSeq(xs[t].data, 1, k) BY DEF b, x
  <2>2. FileOpened(xs[t], y) /\ k <= Len(xs[t].data) BY <1>1, <1>3 DEF x
  <2>3. ReadAndAcked(xs[t], y, k, b, zk, ak) BY <1>3, <1>4, <1>5, <2>1, <2>2, ReadAndAck, Zenon
  <2> QED BY <2>3 DEF ReadAndAcked, x
<1> DEFINE r == IF k > 0 /\ Complete(zk) THEN dcc_close_receiver(ak, "DONE") ELSE ak
<1>8. r = ak \/ (ak.rpos >= size /\ r = dcc_close_receiver(ak, "DONE"))
  <2>1. CASE k > 0 /\ Complete(zk) BY <1>7, <2>1, Zenon
  <2>2. CASE ~(k > 0 /\ Complete(zk)) BY <2>2, Zenon
  <2> QED BY <2>1, <2>2
<1>9. xfer' = [xfer EXCEPT ![t] = r] BY <1>6, Zenon
<1> HIDE DEF b, x, r
<1>10. ReadTakes(x, t, y, k, b, ak, r) BY <1>1, <1>3, <1>6, <1>7, <1>8, <1>9, Zenon DEF ReadTakes, ReadEnds
<1> QED BY <1>10, Zenon DEF x

(* The file is opened and nothing is read. *)
LEMMA ReadFailsFacts ==
  ASSUME NEW xs, Good(xs, files), NEW t \in Transfer, xs[t].rstat = "ACTIVE", ReadFails(t, xs[t])
  PROVE  \E y, k, b, a, r : ReadTakes(xs[t], t, y, k, b, a, r)
<1> DEFINE x == xs[t]
           y == Opened(x)
           e == <<>>
           r == dcc_close_receiver(y, "FAILED")
<1>1. FileOpened(x, y)
  <2> HIDE DEF y
  <2>1. y = Opened(xs[t]) BY DEF y
  <2> QED BY <2>1, OpenedFacts
<1>2. xfer' = [xfer EXCEPT ![t] = r] /\ files' = Written(x, y.destfile, e) BY Zenon DEF ReadFails
<1>3. e \in Seq(1..size) /\ Len(e) = 0 OBVIOUS
<1>4. x.rstat = "ACTIVE" /\ x \in TransferType BY DEF Good
<1> HIDE DEF y, r, e, x
<1>5. /\ y \in TransferType /\ y.data = x.data /\ y.acks = x.acks /\ SameSender(x, y)
      /\ y.rstat = "ACTIVE" /\ y.rresumable = x.rresumable /\ y.resume_sent = x.resume_sent
      /\ y.rsok = x.rsok /\ y.fp /\ y.began
  BY <1>1, <1>4 DEF FileOpened
<1>6. y.rpos \in Nat /\ x.data \in Seq(1..size) BY <1>4, <1>5, Fields
<1>7. /\ y.rpos = y.rpos + 0 /\ Len(y.data) = Len(x.data) - 0 /\ 0 \in Nat /\ 0 <= Len(x.data)
      /\ \A i \in 1..0 : e[i] = x.data[i]
  <2>1. Len(x.data) \in Nat BY <1>6
  <2> QED BY <1>5, <1>6, <2>1
<1>8. \A i \in 1..Len(y.data) : y.data[i] = x.data[0 + i]
  <2> DEFINE l == Len(y.data)
  <2>1. l \in Nat BY <1>5, <1>6
  <2> HIDE DEF l
  <2>2. \A i \in 1..l : 0 + i = i BY <2>1
  <2> QED BY <1>5, <2>2 DEF l
<1>9. ReadInto(x, y, 0, e, y) BY <1>3, <1>5, <1>7, <1>8, Zenon DEF ReadInto
<1>10. ReadTakes(x, t, y, 0, e, y, r) BY <1>1, <1>2, <1>7, <1>9, Zenon DEF ReadTakes, ReadEnds, r
<1> QED BY <1>10, Zenon DEF x

(* Whatever dcc_read does keeps the invariant.  xs is xfer, but perhaps    *)
(* for the throttling of transfer t.                                       *)
LEMMA ReadTakesGood ==
  ASSUME NEW xs, Good(xs, files), NEW t \in Transfer, xs[t].rstat = "ACTIVE",
         xfer \in [Transfer -> TransferType], xs = [xfer EXCEPT ![t] = xs[t]],
         NEW y, NEW k, NEW b, NEW a, NEW r, ReadTakes(xs[t], t, y, k, b, a, r)
  PROVE  Good(xfer', files')
<1> DEFINE fs2 == files'
           ys == [xs EXCEPT ![t] = a]
           x == xs[t]
<1>1. /\ FileOpened(x, y) /\ k \in Nat /\ k <= Len(x.data) /\ ReadInto(x, y, k, b, a)
      /\ fs2 = Written(x, y.destfile, b) /\ ReadEnds(k, a, r) /\ xfer' = [xfer EXCEPT ![t] = r]
  BY Zenon DEF ReadTakes
<1> HIDE DEF fs2
<1>2. Good(ys, fs2) BY <1>1, ReadGood, Zenon
<1>3. xs \in [Transfer -> TransferType] /\ a \in TransferType BY <1>1 DEF Good, ReadInto
<1>4. a.rstat = "ACTIVE" BY <1>1 DEF ReadInto
<1>5. ys[t] = a BY <1>3
<1> HIDE DEF x
<1>6. ASSUME NEW v PROVE [ys EXCEPT ![t] = v] = [xfer EXCEPT ![t] = v] /\ [xs EXCEPT ![t] = v] = [xfer EXCEPT ![t] = v]
  OBVIOUS
<1> HIDE DEF ys
<1>7. CASE r = a
  <2>1. xfer' = ys BY <1>1, <1>6, <1>7, Zenon DEF ys
  <2> QED BY <1>2, <2>1 DEF fs2
<1>8. CASE r = dcc_close_receiver(a, "FAILED")
  <2>1. Good([ys EXCEPT ![t] = dcc_close_receiver(ys[t], "FAILED")], fs2)
    BY <1>2, <1>4, <1>5, CloseReceiverGood
  <2>2. xfer' = [ys EXCEPT ![t] = dcc_close_receiver(ys[t], "FAILED")] BY <1>1, <1>5, <1>6, <1>8, Zenon
  <2> QED BY <2>1, <2>2 DEF fs2
<1>9. CASE r = dcc_close_receiver(a, "DONE")
  <2>1. Good([ys EXCEPT ![t] = dcc_close_receiver(ys[t], "DONE")], fs2)
    BY <1>2, <1>4, <1>5, CloseReceiverGood
  <2>2. xfer' = [ys EXCEPT ![t] = dcc_close_receiver(ys[t], "DONE")] BY <1>1, <1>5, <1>6, <1>9, Zenon
  <2> QED BY <2>1, <2>2 DEF fs2
<1> QED BY <1>1, <1>7, <1>8, <1>9 DEF ReadEnds

(* dcc_read is called for the socket. *)
LEMMA ReadStep == ASSUME IInv, NEW t \in Transfer, dcc_read(t) PROVE IInv'
<1>1. Good(xfer, files) /\ xfer \in [Transfer -> TransferType] BY DEF IInv, Good
<1>2. xfer[t].rstat = "ACTIVE" /\ (ReadBlocks(t, xfer[t]) \/ ReadFails(t, xfer[t])) BY Zenon DEF dcc_read
<1>3. features' = features BY <1>2 DEF ReadBlocks, ReadFails
<1>4. PICK y, k, b, a, r : ReadTakes(xfer[t], t, y, k, b, a, r)
  BY <1>1, <1>2, ReadBlocksFacts, ReadFailsFacts, Zenon
<1>5. xfer = [xfer EXCEPT ![t] = xfer[t]] BY <1>1
<1>6. Good(xfer', files') BY <1>1, <1>2, <1>4, <1>5, ReadTakesGood, Zenon
<1> QED BY <1>3, <1>6, Primed DEF IInv

(* The invariant holds when a transfer is not throttled any more. *)
LEMMA UnthrottledGood ==
  ASSUME Good(xfer, files), NEW t \in Transfer, xfer[t].rstat = "ACTIVE",
         NEW x, x = [xfer[t] EXCEPT !.rthrottled = FALSE],
         NEW xs, xs = [xfer EXCEPT ![t] = x]
  PROVE  Good(xs, files) /\ xs[t] = x /\ ReceiverUpdated(xfer[t], x, "ACTIVE", FALSE, xfer[t].rsok)
<1> DEFINE o == xfer[t]
<1>1. o \in TransferType /\ xfer \in [Transfer -> TransferType] BY DEF Good
<1>2. x = [o EXCEPT !.rstat = "ACTIVE", !.rthrottled = FALSE, !.rsok = o.rsok]
  BY <1>1 DEF TransferType
<1>3. "ACTIVE" \in Stat /\ FALSE \in BOOLEAN /\ o.rsok \in {"open", o.rsok} BY DEF Stat
<1>4. ReceiverUpdated(o, x, "ACTIVE", FALSE, o.rsok) BY <1>1, <1>2, <1>3, ReceiverUpdates, Zenon
<1>5. Good(xs, files) BY <1>4, ReceiverStatGood DEF ReceiverUpdated
<1>6. xs[t] = x BY <1>1
<1> QED BY <1>4, <1>5, <1>6

(* dcc_unthrottle calls dcc_read. *)
LEMMA UnthrottleReceiverStep == ASSUME IInv, NEW t \in Transfer, UnthrottleReceiver(t) PROVE IInv'
<1> DEFINE x == [xfer[t] EXCEPT !.rthrottled = FALSE]
           xs == [xfer EXCEPT ![t] = x]
<1>1. Good(xfer, files) /\ xfer \in [Transfer -> TransferType] BY DEF IInv, Good
<1>2. xfer[t].rstat = "ACTIVE" /\ (ReadBlocks(t, x) \/ ReadFails(t, x)) BY Zenon DEF UnthrottleReceiver
<1>3. features' = features BY <1>2 DEF ReadBlocks, ReadFails
<1>4. x = [xfer[t] EXCEPT !.rthrottled = FALSE] /\ xs = [xfer EXCEPT ![t] = x] OBVIOUS
<1> HIDE DEF x, xs
<1>5. Good(xs, files) /\ xs[t] = x /\ ReceiverUpdated(xfer[t], x, "ACTIVE", FALSE, xfer[t].rsok)
  BY <1>1, <1>2, <1>4, UnthrottledGood
<1>6. xs[t].rstat = "ACTIVE" BY <1>5 DEF ReceiverUpdated
<1>7. ReadBlocks(t, xs[t]) \/ ReadFails(t, xs[t]) BY <1>2, <1>5
<1>8. PICK y, k, b, a, r : ReadTakes(xs[t], t, y, k, b, a, r)
  BY <1>5, <1>6, <1>7, ReadBlocksFacts, ReadFailsFacts, Zenon
<1>9. xs = [xfer EXCEPT ![t] = xs[t]] BY <1>4, <1>5
<1>10. Good(xfer', files') BY <1>1, <1>5, <1>6, <1>8, <1>9, ReadTakesGood, Zenon
<1> QED BY <1>3, <1>10, Primed DEF IInv
---------------------------------------------------------------------------
(* The theorems. *)

(* At the start there are no transfers, and perhaps a part of the file. *)
LEMMA InitIInv == Init => IInv
<1> SUFFICES ASSUME Init PROVE IInv OBVIOUS
<1>1. PICK k \in Parts : files = [n \in (IF k = 0 THEN {} ELSE {0}) |-> [i \in 1..k |-> i]] BY DEF Init
<1>2. k \in Nat /\ k <= Size /\ Size \in Nat /\ size \in Nat \ {0} /\ Size <= size
  BY PartsAssumption, Sizes
<1> DEFINE p == [i \in 1..k |-> i]
           x == NoTransfer
<1>3. p \in Seq(1..size) /\ Len(p) = k /\ \A i \in 1..k : p[i] = i
  <2>1. p \in [1..k -> 1..size] BY <1>2
  <2> QED BY <1>2, <2>1
<1>4. IsPart(p) BY <1>2, <1>3 DEF IsPart
<1>5. files = [n \in DOMAIN files |-> files[n]] BY <1>1
<1>6. DOMAIN files = (IF k = 0 THEN {} ELSE {0}) /\ \A n \in DOMAIN files : files[n] = p BY <1>1
<1> HIDE DEF p
<1>7. Filed(files) BY <1>3, <1>4, <1>5, <1>6 DEF Filed
<1>8. x \in TransferType
  <2>1. 0 \in 0..size /\ 0 \in Name /\ "NONE" \in Stat BY Sizes DEF Name, Stat
  <2>2. <<>> \in Seq(1..size) /\ <<>> \in Seq(0..(AckMod - 1)) /\ <<>> \in Seq(ToReceiver) /\ <<>> \in Seq(ToSender)
    OBVIOUS
  <2> QED BY <2>1, <2>2 DEF NoTransfer, TransferType
<1>9. xfer = [t \in Transfer |-> x] BY DEF Init
<1>10. /\ x.sstat = "NONE" /\ x.spos = 0 /\ x.sack = 0 /\ x.sresumable = 0 /\ ~x.ackoffset
       /\ ~x.sthrottled /\ ~x.wiotag /\ x.rstat = "NONE" /\ x.rpos = 0 /\ x.rresumable = 0
       /\ ~x.resume_sent /\ ~x.rthrottled /\ ~x.fp /\ ~x.began /\ x.destfile = 0
       /\ x.ssok = "none" /\ x.rsok = "none" /\ ~x.reset
       /\ x.data = <<>> /\ x.acks = <<>> /\ x.toR = <<>> /\ x.toS = <<>>
  BY DEF NoTransfer
<1>11. Len(<<>>) = 0 /\ 1..0 = {} OBVIOUS
<1>12. Basic(x) BY <1>2, <1>8, <1>10, <1>11 DEF Basic
<1>13. ASSUME NEW t \in Transfer PROVE Aligned(t, x, files)
  <2>1. Early(x) BY <1>10, <1>11 DEF Early, NoRequest
  <2>2. Opening(x, files) /\ PartIsThere(x, files) BY <1>10 DEF Opening, PartIsThere
  <2> QED BY <1>10, <1>11, <2>1, <2>2 DEF Aligned
<1>14. Acknowledged(x)
  <2>1. AcksOfSmall(x) BY <1>2, <1>10, <1>11 DEF AcksOfSmall
  <2>2. AcksOfHuge(x) BY <1>10, <1>11 DEF AcksOfHuge
  <2> QED BY <1>10, <2>1, <2>2 DEF Acknowledged
<1>15. Named(xfer, files)
  <2>1. DOMAIN files \in {{}} \cup {0..m : m \in Name}
    <3>1. 0..0 = {0} /\ 0 \in Name BY Sizes DEF Name
    <3> QED BY <1>6, <3>1
  <2>2. \A t \in Transfer : ~xfer[t].began BY <1>9, <1>10
  <2>3. DOMAIN files \ {0} = {} BY <1>6
  <2> QED BY <2>1, <2>2, <2>3 DEF Named
<1> HIDE DEF x
<1>16. \A t \in Transfer : Fits(t, xfer[t], files) BY <1>9, <1>12, <1>13, <1>14 DEF Fits
<1>17. xfer \in [Transfer -> TransferType] BY <1>8, <1>9
<1>18. features \in Scenarios BY DEF Init
<1> QED BY <1>7, <1>15, <1>16, <1>17, <1>18 DEF IInv, Good

(* Every action keeps the invariant. *)
LEMMA NextIInv == IInv /\ [Next]_vars => IInv'
<1> SUFFICES ASSUME IInv, [Next]_vars PROVE IInv' OBVIOUS
<1>1. CASE UNCHANGED vars
  <2>1. xfer' = xfer /\ files' = files /\ features' = features BY <1>1 DEF vars
  <2>2. Good(xfer', files') BY <2>1 DEF IInv
  <2> QED BY <2>1, <2>2, Primed DEF IInv
<1>2. CASE Next
  <2>1. PICK t \in Transfer :
          \/ Handlers(t) \/ SenderSteps(t) \/ ReceiverSteps(t)
          \/ ThrottleSender(t) \/ ThrottleReceiver(t) \/ StallTimeout(t) \/ OfferTimeout(t)
          \/ dcc_send(t) \/ Resume(t) \/ dcc_get(t) \/ dcc_get_nick(t) \/ dcc_abort(t)
    BY <1>2 DEF Next
  <2>2. CASE Handlers(t)
    BY <2>2, HandleSendStep, HandleAcceptStep, HandleResumeStep, HandlePasvStep, AcceptStep,
       ConnectFinishedStep, Zenon DEF Handlers
  <2>3. CASE SenderSteps(t)
    BY <2>3, WriteStep, ReadAckStep, SenderErrorStep, UnthrottleSenderStep, Zenon DEF SenderSteps
  <2>4. CASE ReceiverSteps(t) BY <2>4, ReadStep, UnthrottleReceiverStep, Zenon DEF ReceiverSteps
  <2>5. CASE ThrottleSender(t) \/ ThrottleReceiver(t) \/ StallTimeout(t) \/ OfferTimeout(t) \/ dcc_abort(t)
    BY <2>5, ThrottleSenderStep, ThrottleReceiverStep, StallTimeoutStep, OfferTimeoutStep, AbortStep, Zenon
  <2>6. CASE dcc_send(t) \/ Resume(t) \/ dcc_get(t) \/ dcc_get_nick(t)
    BY <2>6, SendStep, ResumeStep, GetStep, GetNickStep, Zenon
  <2> QED BY <2>1, <2>2, <2>3, <2>4, <2>5, <2>6, Zenon
<1> QED BY <1>1, <1>2

(* The invariant holds throughout, whatever the two ends agree on. *)
THEOREM Invariant == Spec => []IInv
<1>1. Init => IInv BY InitIInv
<1>2. IInv /\ [Next]_vars => IInv' BY NextIInv
<1> QED BY <1>1, <1>2, PTL DEF Spec

(* Both ends' records, the messages and what is on its way stay in their   *)
(* ranges: no position passes the size of the file (dcc_send_data), and    *)
(* every file has one of the names that dcc_read can make.                 *)
THEOREM TypeCorrect == Spec => []TypeOK
<1>1. IInv => TypeOK
  <2> SUFFICES ASSUME IInv PROVE TypeOK OBVIOUS
  <2>1. DOMAIN files \subseteq Name
    <3>1. DOMAIN files \in {{}} \cup {0..m : m \in Name} BY DEF IInv, Good, Named
    <3> QED BY <3>1, Sizes DEF Name
  <2> QED BY <2>1 DEF IInv, Good, Filed, TypeOK
<1> QED BY <1>1, Invariant, PTL

(* Every file in the download directory is a beginning of the file         *)
(* offered, where both ends agree; and where acknowledgements are exact, a *)
(* sender that reports a transfer as complete (dcc_handle_new_ack) is      *)
(* right.                                                                  *)
THEOREM FilesAreRightAlways == Spec => []FilesAreRight
<1>1. IInv => FilesAreRight
  <2> SUFFICES ASSUME IInv PROVE FilesAreRight OBVIOUS
  <2>1. InOrder BY DEF InOrder, IInv, Good, Filed
  <2>2. DoneIsReceived
    <3> SUFFICES ASSUME ExactAcks, NEW t \in Transfer, xfer[t].sstat = "DONE"
                 PROVE  xfer[t].destfile \in DOMAIN files /\ Len(files[xfer[t].destfile]) = size
      BY DEF DoneIsReceived
    <3>1. Acknowledged(xfer[t]) /\ Agreed BY DEF IInv, Good, Fits, ExactAcks
    <3>2. xfer[t].began /\ xfer[t].rpos = size BY <3>1 DEF Acknowledged
    <3>3. xfer[t].destfile \in DOMAIN files BY <3>2 DEF IInv, Good, Named
    <3>4. Opening(xfer[t], files) BY <3>1 DEF IInv, Good, Fits, Aligned
    <3> QED BY <3>2, <3>3, <3>4 DEF Opening
  <2> QED BY <2>1, <2>2 DEF FilesAreRight
<1> QED BY <1>1, Invariant, PTL
---------------------------------------------------------------------------
(* What a step does that reads no blocks: the directory is left alone, a   *)
(* transfer keeps its file, and at one end at most it goes on, fails, is   *)
(* done or is removed.  A sender that has sent everything fails only       *)
(* because of the other end or a reset connection.                         *)
Unfinished == {"NONE", "QUEUED", "CONNECTING", "ACTIVE"}

SideMoves(s, s2) ==
    \/ s2 = s
    \/ s \in Unfinished /\ s2 \in Unfinished \cup {"FAILED", "ABORTED"}
    \/ s \in Finished /\ s2 = "REMOVED"

SenderMoves(x, y) == SideMoves(x.sstat, y.sstat) \/ (x.sstat = "ACTIVE" /\ y.sstat = "DONE")

Protected == Never({"throttle"}) \/ (Agreed /\ Never({"fastsend", "huge", "pieces"}))

NotAborted(x, y) ==
    Protected /\ x.spos = size /\ x.sstat = "ACTIVE" /\ y.sstat = "FAILED" =>
      x.reset \/ ReceiverLeft(x)

Moves(x, y) ==
    /\ y.began = x.began /\ y.destfile = x.destfile
    /\ \/ y.rstat = x.rstat /\ SenderMoves(x, y)
       \/ y.sstat = x.sstat /\ SideMoves(x.rstat, y.rstat)
    /\ NotAborted(x, y)

Quiet ==
    /\ files' = files /\ features' = features
    /\ \A u \in Transfer : Moves(xfer[u], xfer'[u])

(* A transfer that is left alone. *)
LEMMA MovesSelf == ASSUME NEW x PROVE Moves(x, x)
BY DEF Moves, SideMoves, NotAborted

(* A transfer keeps its file and the sender's state. *)
LEMMA ReceiverMoves ==
  ASSUME NEW x, NEW y, y.began = x.began, y.destfile = x.destfile, y.sstat = x.sstat,
         SideMoves(x.rstat, y.rstat)
  PROVE  Moves(x, y)
BY DEF Moves, NotAborted

(* One that changes the sender's state does not change the receiver's. *)
LEMMA SenderMovesFacts ==
  ASSUME NEW x, NEW y, SameReceiver(x, y), SenderMoves(x, y), NotAborted(x, y)
  PROVE  Moves(x, y)
BY DEF Moves, SameReceiver

(* An action that changes one transfer. *)
LEMMA StepQuiet ==
  ASSUME IInv, NEW t \in Transfer, NEW y, Step(t, y), Moves(xfer[t], y)
  PROVE  Quiet
<1>1. xfer \in [Transfer -> TransferType] BY DEF IInv, Good
<1>2. xfer' = [xfer EXCEPT ![t] = y] /\ files' = files /\ features' = features BY DEF Step
<1>3. xfer'[t] = y /\ \A u \in Transfer \ {t} : xfer'[u] = xfer[u] BY <1>1, <1>2
<1>4. \A u \in Transfer : Moves(xfer[u], xfer'[u]) BY <1>3, MovesSelf
<1> QED BY <1>2, <1>4 DEF Quiet

(* Closing the sender, not as a failure. *)
LEMMA CloseSenderMoves ==
  ASSUME NEW x \in TransferType, NEW stat \in Stat, SideMoves(x.sstat, stat),
         stat # "FAILED" \/ x.reset \/ ReceiverLeft(x)
  PROVE  Moves(x, dcc_close_sender(x, stat))
<1> DEFINE y == dcc_close_sender(x, stat)
<1>1. ClosedSender(x, stat, y) BY CloseSender, Zenon
<1> HIDE DEF y
<1>2. SameReceiver(x, y) /\ y.sstat = stat BY <1>1 DEF ClosedSender
<1>3. SenderMoves(x, y) /\ NotAborted(x, y) BY <1>2 DEF SenderMoves, NotAborted
<1>4. Moves(x, y) BY <1>2, <1>3, SenderMovesFacts
<1> QED BY <1>4 DEF y

(* Closing the receiver. *)
LEMMA CloseReceiverMoves ==
  ASSUME NEW x \in TransferType, NEW stat \in Stat, SideMoves(x.rstat, stat)
  PROVE  Moves(x, dcc_close_receiver(x, stat))
<1> DEFINE y == dcc_close_receiver(x, stat)
<1>1. ClosedReceiver(x, stat, y) BY CloseReceiver, Zenon
<1> HIDE DEF y
<1>2. y.began = x.began /\ y.destfile = x.destfile /\ y.sstat = x.sstat /\ y.rstat = stat
  BY <1>1 DEF ClosedReceiver, SameSender
<1>3. Moves(x, y) BY <1>2, ReceiverMoves
<1> QED BY <1>3 DEF y

(* SenderError. *)
LEMMA SenderErrorQuiet == ASSUME IInv, NEW t \in Transfer, SenderError(t) PROVE Quiet
<1> DEFINE x == xfer[t]
<1>1. x \in TransferType BY DEF IInv, Good
<1>2. x.sstat = "ACTIVE" /\ (x.reset \/ ReceiverLeft(x)) /\ Step(t, dcc_close_sender(x, "FAILED"))
  BY Zenon DEF SenderError
<1>3. "FAILED" \in Stat /\ SideMoves(x.sstat, "FAILED") BY <1>2 DEF Stat, SideMoves, Unfinished
<1>4. Moves(x, dcc_close_sender(x, "FAILED")) BY <1>1, <1>2, <1>3, CloseSenderMoves
<1> QED BY <1>2, <1>4, StepQuiet

(* dcc_send_data of a transfer z that differs from x at the sender. *)
LEMMA SendDataMoves ==
  ASSUME NEW x, NEW z \in TransferType, SameReceiver(x, z), z.sstat = "ACTIVE",
         x.sstat \in {"QUEUED", "CONNECTING", "ACTIVE"}, z.spos = x.spos,
         z.wiotag => fast /\ z.spos < size, z.sthrottled => May("throttle"),
         Protected /\ x.spos = size /\ x.sstat = "ACTIVE" =>
           z.sthrottled \/ ~(fast \/ z.sack >= z.spos % AckMod)
  PROVE  Moves(x, dcc_send_data(z))
<1> DEFINE y == dcc_send_data(z)
<1>1. /\ SenderStep(z, y) /\ y.sstat \in {"ACTIVE", "FAILED"}
      /\ y.sstat = "FAILED" => z.spos = size /\ ~z.sthrottled /\ (fast \/ z.sack >= z.spos % AckMod)
  BY SendData
<1> HIDE DEF y
<1>2. SameReceiver(x, y) BY <1>1 DEF SenderStep, SameReceiver
<1>3. SenderMoves(x, y) BY <1>1 DEF SenderMoves, SideMoves, Unfinished
<1>4. NotAborted(x, y) BY <1>1 DEF NotAborted
<1>5. Moves(x, y) BY <1>2, <1>3, <1>4, SenderMovesFacts
<1> QED BY <1>5 DEF y

(* dcc_write. *)
LEMMA WriteQuiet == ASSUME IInv, NEW t \in Transfer, dcc_write(t) PROVE Quiet
<1> DEFINE x == xfer[t]
<1>1. x.sstat = "ACTIVE" /\ x.wiotag /\ Step(t, dcc_send_data(x)) BY DEF dcc_write
<1>2. Basic(x) /\ x \in TransferType BY DEF IInv, Good, Fits
<1>3. x.spos < size /\ (x.wiotag => fast /\ x.spos < size) /\ (x.sthrottled => May("throttle"))
  BY <1>1, <1>2 DEF Basic
<1>4. x.spos # size BY <1>2, <1>3, Fields, Sizes
<1>5. SameReceiver(x, x) BY DEF SameReceiver
<1>6. Moves(x, dcc_send_data(x)) BY <1>1, <1>2, <1>3, <1>4, <1>5, SendDataMoves
<1> QED BY <1>1, <1>6, StepQuiet

(* A throttled sender has not all acknowledgements yet. *)
LEMMA UnthrottleSenderQuiet == ASSUME IInv, NEW t \in Transfer, UnthrottleSender(t) PROVE Quiet
<1> DEFINE x == xfer[t]
           z == [x EXCEPT !.sthrottled = FALSE]
<1>1. x.sstat = "ACTIVE" /\ x.sthrottled /\ Step(t, dcc_send_data(z)) BY DEF UnthrottleSender
<1>2. Basic(x) /\ x \in TransferType BY DEF IInv, Good, Fits
<1>3. (x.wiotag => fast /\ x.spos < size) /\ May("throttle") BY <1>1, <1>2 DEF Basic
<1>4. z \in TransferType BY <1>2 DEF TransferType
<1>5. SameReceiver(x, z) BY <1>2 DEF TransferType, SameReceiver
<1>6. z.sstat = x.sstat /\ z.spos = x.spos /\ z.wiotag = x.wiotag /\ z.sthrottled = FALSE /\ z.sack = x.sack
  BY <1>2 DEF TransferType
<1> HIDE DEF z
<1>7. ASSUME Protected, x.spos = size PROVE ~(fast \/ z.sack >= z.spos % AckMod)
  <2>1. ExactAcks /\ ~fast /\ "huge" \notin features
    BY <1>3, <1>7 DEF Protected, Never, ExactAcks, May, fast
  <2>2. Acknowledged(x) BY <2>1 DEF IInv, Good, Fits
  <2>3. x.sack < size BY <1>1, <2>1, <2>2 DEF Acknowledged, AcksOfSmall
  <2>4. size % AckMod = size /\ size \in Nat /\ x.sack \in Nat
    <3>1. size \in Nat /\ size < AckMod BY <2>1, Sizes
    <3>2. size % AckMod = size BY <3>1, AckFacts, Zenon
    <3> QED BY <1>2, <3>1, <3>2, Fields
  <2> QED BY <1>6, <1>7, <2>1, <2>3, <2>4
<1>8. Moves(x, dcc_send_data(z)) BY <1>1, <1>3, <1>4, <1>5, <1>6, <1>7, SendDataMoves
<1> QED BY <1>1, <1>8, StepQuiet

(* An acknowledgement never makes the sender fail. *)
LEMMA ReadAckQuiet == ASSUME IInv, NEW t \in Transfer, dcc_read_ack(t) PROVE Quiet
<1> DEFINE x == xfer[t]
<1>1. PICK a \in {Head(x.acks)} \cup (IF May("pieces") THEN 0..(AckMod - 1) ELSE {}) :
        Step(t, dcc_handle_new_ack([x EXCEPT !.acks = Tail(@)], a))
  BY DEF dcc_read_ack
<1>2. x.sstat = "ACTIVE" /\ x.acks # <<>> BY DEF dcc_read_ack
<1>3. Basic(x) /\ x \in TransferType BY DEF IInv, Good, Fits
<1>4. a \in 0..(AckMod - 1)
  <2>1. x.acks \in Seq(0..(AckMod - 1)) BY <1>3, Fields
  <2>2. Head(x.acks) \in 0..(AckMod - 1) BY <1>2, <2>1, TailFacts
  <2> QED BY <1>1, <2>2
<1> DEFINE y == dcc_handle_new_ack([x EXCEPT !.acks = Tail(x.acks)], a)
<1>5. Step(t, y) BY <1>1
<1>6. AckHandled(x, a, y) BY <1>2, <1>3, <1>4, NewAck
<1> HIDE DEF y, x
<1>7. SameReceiver(x, y) /\ y.sstat \in {"DONE", "ACTIVE"} BY <1>6 DEF AckHandled, SenderStep
<1>8. SenderMoves(x, y) /\ NotAborted(x, y) BY <1>2, <1>7 DEF SenderMoves, SideMoves, Unfinished, NotAborted
<1>9. Moves(x, y) BY <1>7, <1>8, SenderMovesFacts
<1> QED BY <1>5, <1>9, StepQuiet DEF x

(* ThrottleSender, ThrottleReceiver. *)
LEMMA ThrottleQuiet ==
  ASSUME IInv, NEW t \in Transfer, ThrottleSender(t) \/ ThrottleReceiver(t)
  PROVE  Quiet
<1> DEFINE x == xfer[t]
<1>1. x \in TransferType BY DEF IInv, Good
<1>2. ASSUME NEW y, y \in {[x EXCEPT !.sthrottled = TRUE], [x EXCEPT !.rthrottled = TRUE]}
      PROVE  Moves(x, y)
  <2>1. y.began = x.began /\ y.destfile = x.destfile /\ y.sstat = x.sstat /\ y.rstat = x.rstat
    BY <1>1, <1>2 DEF TransferType
  <2> QED BY <2>1, ReceiverMoves DEF SideMoves
<1>3. PICK y \in {[x EXCEPT !.sthrottled = TRUE], [x EXCEPT !.rthrottled = TRUE]} : Step(t, y)
  BY Zenon DEF ThrottleSender, ThrottleReceiver
<1> QED BY <1>2, <1>3, StepQuiet

(* The timeouts and the user's aborts. *)
LEMMA TimeoutQuiet ==
  ASSUME IInv, NEW t \in Transfer, StallTimeout(t) \/ OfferTimeout(t)
  PROVE  Quiet
<1> DEFINE x == xfer[t]
<1>1. x \in TransferType /\ "ABORTED" \in Stat BY DEF IInv, Good, Stat
<1>2. CASE x.sstat \in {"QUEUED", "ACTIVE"} /\ Step(t, dcc_close_sender(x, "ABORTED"))
  <2>1. SideMoves(x.sstat, "ABORTED") BY <1>2 DEF SideMoves, Unfinished
  <2> QED BY <1>1, <1>2, <2>1, CloseSenderMoves, StepQuiet
<1>3. CASE x.rstat = "ACTIVE" /\ Step(t, dcc_close_receiver(x, "ABORTED"))
  <2>1. SideMoves(x.rstat, "ABORTED") BY <1>3 DEF SideMoves, Unfinished
  <2> QED BY <1>1, <1>3, <2>1, CloseReceiverMoves, StepQuiet
<1> QED BY <1>2, <1>3 DEF StallTimeout, OfferTimeout

(* The user's aborts and removals. *)
LEMMA AbortQuiet == ASSUME IInv, NEW t \in Transfer, dcc_abort(t) PROVE Quiet
<1> DEFINE x == xfer[t]
           To(stat) == IF stat \in Finished THEN "REMOVED" ELSE "ABORTED"
<1>1. x \in TransferType /\ x.sstat \in Stat /\ x.rstat \in Stat BY Fields DEF IInv, Good
<1>2. ASSUME NEW s \in Stat, s \notin {"NONE", "REMOVED"}
      PROVE  SideMoves(s, To(s)) /\ To(s) \in Stat /\ To(s) # "FAILED"
  BY <1>2 DEF SideMoves, Stat, Unfinished, Finished
<1>3. CASE x.sstat \notin {"NONE", "REMOVED"} /\ Step(t, dcc_close_sender(x, To(x.sstat)))
  <2> DEFINE s == To(x.sstat)
  <2>1. SideMoves(x.sstat, s) /\ s \in Stat /\ s # "FAILED" BY <1>1, <1>2, <1>3
  <2>2. Step(t, dcc_close_sender(x, s)) BY <1>3
  <2> HIDE DEF s
  <2> QED BY <1>1, <2>1, <2>2, CloseSenderMoves, StepQuiet
<1>4. CASE x.rstat \notin {"NONE", "REMOVED"} /\ Step(t, dcc_close_receiver(x, To(x.rstat)))
  <2> DEFINE s == To(x.rstat)
  <2>1. SideMoves(x.rstat, s) /\ s \in Stat BY <1>1, <1>2, <1>4
  <2>2. Step(t, dcc_close_receiver(x, s)) BY <1>4
  <2> HIDE DEF s
  <2> QED BY <1>1, <2>1, <2>2, CloseReceiverMoves, StepQuiet
<1> QED BY <1>3, <1>4 DEF dcc_abort

(* A sender starts. *)
LEMMA StartSendingMoves ==
  ASSUME NEW x, Basic(x), x.sstat \in {"QUEUED", "CONNECTING"}
  PROVE  Moves(x, StartSending(x))
<1> DEFINE z == [x EXCEPT !.sstat = "ACTIVE", !.ssok = "open", !.wiotag = fast]
           f == fast
<1>0. x \in TransferType /\ f \in BOOLEAN /\ "ACTIVE" \in Stat BY DEF Basic, Stat, fast
<1>1. z = [x EXCEPT !.sstat = "ACTIVE", !.ssok = "open", !.wiotag = f] /\ StartSending(x) = dcc_send_data(z)
  BY DEF StartSending
<1> HIDE DEF z, f
<1>2. z \in TransferType BY <1>0, <1>1 DEF TransferType
<1>3. SameReceiver(x, z) BY <1>0, <1>1 DEF TransferType, SameReceiver
<1>4. z.sstat = "ACTIVE" /\ z.spos = x.spos /\ z.wiotag = f /\ z.sthrottled = x.sthrottled
  BY <1>0, <1>1 DEF TransferType
<1>5. (z.wiotag => fast /\ z.spos < size) /\ (z.sthrottled => May("throttle"))
  BY <1>4 DEF Basic, f
<1>6. Moves(x, dcc_send_data(z)) BY <1>2, <1>3, <1>4, <1>5, SendDataMoves
<1> QED BY <1>1, <1>6

(* The end that listens, and the one that connects. *)
LEMMA AcceptQuiet == ASSUME IInv, NEW t \in Transfer, dcc_accept(t) PROVE Quiet
<1> DEFINE x == xfer[t]
           y == [x EXCEPT !.rstat = "ACTIVE", !.rsok = "open"]
<1>1. Basic(x) /\ x \in TransferType BY DEF IInv, Good, Fits
<1>2. CASE x.sstat = "QUEUED" /\ Step(t, StartSending(x))
  BY <1>1, <1>2, StartSendingMoves, StepQuiet
<1>3. CASE x.rstat = "CONNECTING" /\ Step(t, y)
  <2>1. y.began = x.began /\ y.destfile = x.destfile /\ y.sstat = x.sstat /\ y.rstat = "ACTIVE"
    BY <1>1 DEF TransferType
  <2>2. SideMoves(x.rstat, y.rstat) BY <1>3, <2>1 DEF SideMoves, Unfinished
  <2>3. Moves(x, y) BY <2>1, <2>2, ReceiverMoves
  <2> QED BY <1>3, <2>3, StepQuiet
<1> QED BY <1>2, <1>3 DEF dcc_accept

(* dcc_connect_finished, at the end that connects. *)
LEMMA ConnectFinishedQuiet == ASSUME IInv, NEW t \in Transfer, dcc_connect_finished(t) PROVE Quiet
<1> DEFINE x == xfer[t]
           y == [x EXCEPT !.rstat = "ACTIVE", !.rsok = "open"]
           z == [x EXCEPT !.rstat = "FAILED"]
           w == [x EXCEPT !.sstat = "FAILED"]
<1>1. Basic(x) /\ x \in TransferType BY DEF IInv, Good, Fits
<1>2. CASE x.rstat = "CONNECTING" /\ (Step(t, y) \/ Step(t, z))
  <2>1. y.began = x.began /\ y.destfile = x.destfile /\ y.sstat = x.sstat /\ y.rstat = "ACTIVE"
    BY <1>1 DEF TransferType
  <2>2. z.began = x.began /\ z.destfile = x.destfile /\ z.sstat = x.sstat /\ z.rstat = "FAILED"
    BY <1>1 DEF TransferType
  <2>3. SideMoves(x.rstat, "ACTIVE") /\ SideMoves(x.rstat, "FAILED") BY <1>2 DEF SideMoves, Unfinished
  <2>4. Moves(x, y) /\ Moves(x, z) BY <2>1, <2>2, <2>3, ReceiverMoves
  <2> QED BY <1>2, <2>4, StepQuiet
<1>3. CASE x.sstat = "CONNECTING" /\ Step(t, StartSending(x))
  BY <1>1, <1>3, StartSendingMoves, StepQuiet
<1>4. CASE x.sstat = "CONNECTING" /\ Step(t, w)
  <2>1. SameReceiver(x, w) BY <1>1 DEF TransferType, SameReceiver
  <2>2. w.sstat = "FAILED" BY <1>1 DEF TransferType
  <2>3. SenderMoves(x, w) /\ NotAborted(x, w) BY <1>4, <2>2 DEF SenderMoves, SideMoves, Unfinished, NotAborted
  <2>4. Moves(x, w) BY <2>1, <2>3, SenderMovesFacts
  <2> QED BY <1>4, <2>4, StepQuiet
<1> QED BY <1>2, <1>3, <1>4 DEF dcc_connect_finished

(* dcc_send. *)
LEMMA SendQuiet == ASSUME IInv, NEW t \in Transfer, dcc_send(t) PROVE Quiet
<1> DEFINE x == xfer[t]
           q == <<[cmd |-> "SEND"]>>
           y == [x EXCEPT !.sstat = "QUEUED", !.toR = q]
<1>1. x = NoTransfer /\ Step(t, y) BY DEF dcc_send
<1>2. x \in TransferType BY DEF IInv, Good
<1> HIDE DEF q
<1>3. y.began = x.began /\ y.destfile = x.destfile /\ y.rstat = x.rstat /\ y.sstat = "QUEUED"
  BY <1>2 DEF TransferType
<1>4. x.sstat = "NONE" BY <1>1 DEF NoTransfer
<1>5. Moves(x, y) BY <1>3, <1>4 DEF Moves, SenderMoves, SideMoves, Unfinished, NotAborted
<1> QED BY <1>1, <1>5, StepQuiet

(* handle_dcc for DCC SEND. *)
LEMMA HandleSendQuiet == ASSUME IInv, NEW t \in Transfer, handle_dcc_send(t) PROVE Quiet
<1> DEFINE x == xfer[t]
           q == Tail(x.toR)
           y == [x EXCEPT !.rstat = "QUEUED", !.toR = q]
           r == update_is_resumable(t, y)
<1>1. x.toR # <<>> /\ Head(x.toR).cmd = "SEND" /\ Step(t, r) BY DEF handle_dcc_send, Receives
<1>2. Good(xfer, files) /\ Basic(x) /\ x \in TransferType BY DEF IInv, Good, Fits, Basic
<1>3. /\ q \in Seq(ToReceiver) /\ Len(x.toR) \in Nat \ {0} /\ Head(x.toR) = x.toR[1]
  BY <1>1, <1>2, Fields, TailFacts
<1>4. x.rstat = "NONE"
  <2>1. 1 \in 1..Len(x.toR) BY <1>3
  <2>2. \A i \in 1..Len(x.toR) : x.toR[i].cmd = "SEND" => i = 1 /\ x.rstat = "NONE"
    BY <1>2 DEF Basic
  <2> HIDE DEF q, x
  <2> QED BY <1>1, <1>3, <2>1, <2>2
<1>5. "QUEUED" \in Stat BY DEF Stat
<1> HIDE DEF q
<1>6. y \in TransferType BY <1>2, <1>3, <1>5 DEF TransferType
<1>7. y.sstat = x.sstat /\ y.rstat = "QUEUED" /\ y.began = x.began /\ y.destfile = x.destfile
  BY <1>2, <1>3 DEF TransferType
<1> HIDE DEF y
<1>8. Updated(y, r) BY <1>2, <1>6, UpdateResumable, Zenon
<1>9. r.sstat = x.sstat /\ r.rstat = "QUEUED" /\ r.began = x.began /\ r.destfile = x.destfile
  BY <1>7, <1>8 DEF Updated, SameSender
<1>10. SideMoves(x.rstat, r.rstat) BY <1>4, <1>9 DEF SideMoves, Unfinished
<1> HIDE DEF r
<1>11. Moves(x, r) BY <1>9, <1>10, ReceiverMoves
<1> QED BY <1>1, <1>11, StepQuiet

(* dcc_resume. *)
LEMMA ResumeQuiet == ASSUME IInv, NEW t \in Transfer, Resume(t) PROVE Quiet
<1> DEFINE x == xfer[t]
           u == update_is_resumable(t, x)
           q == Append(u.toS, [cmd |-> "RESUME", offset |-> u.rresumable])
           v == [u EXCEPT !.resume_sent = TRUE, !.toS = q]
           r == IF u.rstat = "QUEUED" /\ u.rresumable # 0 THEN v ELSE u
<1>1. x.rstat = "QUEUED" /\ Step(t, r) BY DEF Resume, dcc_resume
<1>2. Good(xfer, files) /\ x \in TransferType BY DEF IInv, Good
<1>3. Updated(x, u) BY <1>2, UpdateResumable, Zenon
<1> HIDE DEF u, q
<1>4. u \in TransferType /\ u.sstat = x.sstat /\ u.rstat = x.rstat /\ u.began = x.began /\ u.destfile = x.destfile
  BY <1>3 DEF Updated, SameSender
<1>5. v.sstat = u.sstat /\ v.rstat = u.rstat /\ v.began = u.began /\ v.destfile = u.destfile
  BY <1>4 DEF TransferType
<1> HIDE DEF v
<1>6. r.sstat = x.sstat /\ r.rstat = x.rstat /\ r.began = x.began /\ r.destfile = x.destfile
  BY <1>4, <1>5
<1> HIDE DEF r
<1>7. Moves(x, r) BY <1>6, ReceiverMoves DEF SideMoves
<1> QED BY <1>1, <1>7, StepQuiet

(* dcc_connect of a receiver. *)
LEMMA ConnectMoves ==
  ASSUME NEW x, x.rstat = "QUEUED", NEW z \in TransferType, z.sstat = x.sstat,
         z.began = x.began, z.destfile = x.destfile
  PROVE  Moves(x, dcc_connect_receiver(z))
<1> DEFINE r == dcc_connect_receiver(z)
<1>1. Connected(z, r) BY ConnectReceiver, Zenon
<1> HIDE DEF r
<1>2. r.sstat = x.sstat /\ r.rstat = "CONNECTING" /\ r.began = x.began /\ r.destfile = x.destfile
  BY <1>1 DEF Connected
<1>3. SideMoves(x.rstat, r.rstat) BY <1>2 DEF SideMoves, Unfinished
<1>4. Moves(x, r) BY <1>2, <1>3, ReceiverMoves
<1> QED BY <1>4 DEF r

(* dcc_get. *)
LEMMA GetQuiet == ASSUME IInv, NEW t \in Transfer, dcc_get(t) PROVE Quiet
<1> DEFINE x == xfer[t]
           z == [x EXCEPT !.rresumable = 0, !.rpos = 0]
<1>1. x.rstat = "QUEUED" /\ Step(t, dcc_connect_receiver(z)) BY DEF dcc_get
<1>2. x \in TransferType BY DEF IInv, Good
<1>3. Positioned(x, z, 0, 0)
  <2>1. 0 \in 0..size /\ 0 \in Nat BY Sizes
  <2> QED BY <1>2, <2>1, PositionUpdates, Zenon
<1> HIDE DEF z
<1>4. z \in TransferType /\ z.sstat = x.sstat /\ z.began = x.began /\ z.destfile = x.destfile
  BY <1>3 DEF Positioned, SameSender
<1>5. Moves(x, dcc_connect_receiver(z)) BY <1>1, <1>4, ConnectMoves
<1> QED BY <1>1, <1>5, StepQuiet

(* dcc_get_nick. *)
LEMMA GetNickQuiet == ASSUME IInv, NEW t \in Transfer, dcc_get_nick(t) PROVE Quiet
<1> DEFINE x == xfer[t]
           u == update_is_resumable(t, x)
           z == [u EXCEPT !.rpos = 0]
<1>1. x.rstat = "QUEUED" /\ Step(t, dcc_connect_receiver(z)) BY DEF dcc_get_nick
<1>2. Good(xfer, files) /\ x \in TransferType BY DEF IInv, Good
<1>3. Updated(x, u) BY <1>2, UpdateResumable, Zenon
<1> HIDE DEF u
<1>4. u \in TransferType /\ u.sstat = x.sstat /\ u.began = x.began /\ u.destfile = x.destfile
  BY <1>3 DEF Updated, SameSender
<1>5. z \in TransferType BY <1>4 DEF TransferType
<1>6. z.sstat = x.sstat /\ z.began = x.began /\ z.destfile = x.destfile BY <1>4 DEF TransferType
<1> HIDE DEF z
<1>7. Moves(x, dcc_connect_receiver(z)) BY <1>1, <1>5, <1>6, ConnectMoves
<1> QED BY <1>1, <1>7, StepQuiet

(* handle_dcc for DCC ACCEPT: perhaps another transfer connects. *)
LEMMA HandleAcceptQuiet == ASSUME IInv, NEW t \in Transfer, handle_dcc_accept(t) PROVE Quiet
<1> DEFINE x == xfer[t]
           y == [x EXCEPT !.toR = Tail(x.toR)]
           got == [xfer EXCEPT ![t] = y]
           u == CHOOSE v \in Accepting(t) : \A w \in Accepting(t) : w <= v
<1>1. /\ x.toR # <<>> /\ files' = files /\ features' = features
      /\ xfer' = IF Accepting(t) = {} THEN got ELSE [got EXCEPT ![u] = dcc_connect_receiver(@)]
  BY DEF handle_dcc_accept, Receives
<1>2. Basic(x) /\ xfer \in [Transfer -> TransferType] BY DEF IInv, Good, Fits
<1>3. Taken(x, y) BY <1>1, <1>2, TakeMessage, Zenon
<1> HIDE DEF y
<1>4. y \in TransferType /\ y.sstat = x.sstat /\ y.rstat = x.rstat /\ y.began = x.began /\ y.destfile = x.destfile
  BY <1>3 DEF Taken
<1>5. Moves(x, y) BY <1>4, ReceiverMoves DEF SideMoves
<1>6. got \in [Transfer -> TransferType] /\ got[t] = y /\ \A v \in Transfer \ {t} : got[v] = xfer[v]
  BY <1>2, <1>4
<1> HIDE DEF got
<1>7. CASE Accepting(t) = {}
  <2>1. \A v \in Transfer : Moves(xfer[v], xfer'[v]) BY <1>1, <1>5, <1>6, <1>7, MovesSelf
  <2> QED BY <1>1, <2>1 DEF Quiet
<1>8. CASE Accepting(t) # {}
  <2>1. u \in Accepting(t)
    <3>1. \E v \in Accepting(t) : \A w \in Accepting(t) : w <= v
      <4>1. Accepting(t) \subseteq 1..Offers BY DEF Accepting, Transfer
      <4>2. Offers \in Nat BY Sizes
      <4> QED BY <1>8, <4>1, <4>2, LargestExists, Zenon
    <3> QED BY <3>1, Zenon
  <2>2. u \in Transfer /\ xfer[u].rstat = "QUEUED" BY <2>1 DEF Accepting
  <2> HIDE DEF u
  <2> DEFINE r == dcc_connect_receiver(got[u])
  <2>3. got[u] \in TransferType /\ got[u].sstat = xfer[u].sstat /\ got[u].began = xfer[u].began
        /\ got[u].destfile = xfer[u].destfile
    <3>1. CASE u = t BY <1>4, <1>6, <3>1
    <3>2. CASE u # t BY <1>6, <2>2, <3>2
    <3> QED BY <3>1, <3>2
  <2>4. Moves(xfer[u], r) BY <2>2, <2>3, ConnectMoves
  <2>5. xfer' = [got EXCEPT ![u] = r] BY <1>1, <1>8
  <2> HIDE DEF r
  <2>6. xfer'[u] = r /\ \A v \in Transfer \ {u} : xfer'[v] = got[v] BY <1>6, <2>2, <2>5
  <2>7. ASSUME NEW v \in Transfer PROVE Moves(xfer[v], xfer'[v])
    <3>1. CASE v = u BY <2>4, <2>6, <3>1
    <3>2. CASE v # u /\ v = t BY <1>5, <1>6, <2>6, <3>2
    <3>3. CASE v # u /\ v # t BY <1>6, <2>6, <3>3, MovesSelf
    <3> QED BY <3>1, <3>2, <3>3
  <2> QED BY <1>1, <2>7 DEF Quiet
<1> QED BY <1>7, <1>8

(* handle_dcc for DCC RESUME. *)
LEMMA HandleResumeQuiet == ASSUME IInv, NEW t \in Transfer, handle_dcc_resume(t) PROVE Quiet
<1> DEFINE x == xfer[t]
           y == [x EXCEPT !.toS = Tail(x.toS)]
           off == Head(x.toS).offset
           q == Append(y.toR, [cmd |-> "ACCEPT"])
           z == [y EXCEPT !.sresumable = off]
           r == [y EXCEPT !.sresumable = off, !.spos = off, !.sack = off, !.toR = q]
<1>1. /\ x.toS # <<>>
      /\ Step(t, IF x.sstat = "REMOVED" THEN y ELSE IF off >= size THEN z ELSE r)
  BY DEF handle_dcc_resume
<1>2. Basic(x) BY DEF IInv, Good, Fits
<1>3. Heard(x, y) BY <1>1, <1>2, HearMessage, Zenon
<1> HIDE DEF y, off, q
<1>4. y \in TransferType /\ y.sstat = x.sstat /\ y.rstat = x.rstat /\ y.began = x.began /\ y.destfile = x.destfile
  BY <1>3 DEF Heard
<1>5. /\ z.sstat = y.sstat /\ z.rstat = y.rstat /\ z.began = y.began /\ z.destfile = y.destfile
      /\ r.sstat = y.sstat /\ r.rstat = y.rstat /\ r.began = y.began /\ r.destfile = y.destfile
  BY <1>4 DEF TransferType
<1> HIDE DEF z, r
<1>6. Moves(x, y) /\ Moves(x, z) /\ Moves(x, r) BY <1>4, <1>5, ReceiverMoves DEF SideMoves
<1> QED BY <1>1, <1>6, StepQuiet

(* handle_dcc for a passive offer that was accepted. *)
LEMMA HandlePasvQuiet == ASSUME IInv, NEW t \in Transfer, handle_dcc_pasv(t) PROVE Quiet
<1> DEFINE x == xfer[t]
           y == [x EXCEPT !.toS = Tail(x.toS)]
           r == [y EXCEPT !.sstat = "CONNECTING", !.ssok = "syn"]
<1>1. x.toS # <<>> /\ Step(t, IF x.sstat = "QUEUED" THEN r ELSE y) BY DEF handle_dcc_pasv
<1>2. Basic(x) BY DEF IInv, Good, Fits
<1>3. Heard(x, y) BY <1>1, <1>2, HearMessage, Zenon
<1> HIDE DEF y
<1>4. y \in TransferType /\ y.sstat = x.sstat /\ y.rstat = x.rstat /\ y.began = x.began /\ y.destfile = x.destfile
  BY <1>3 DEF Heard
<1>5. r.sstat = "CONNECTING" /\ r.rstat = y.rstat /\ r.began = y.began /\ r.destfile = y.destfile
  BY <1>4 DEF TransferType
<1> HIDE DEF r
<1>6. CASE x.sstat = "QUEUED"
  <2>1. Moves(x, r) BY <1>4, <1>5, <1>6 DEF Moves, SenderMoves, SideMoves, Unfinished, NotAborted
  <2> QED BY <1>1, <1>6, <2>1, StepQuiet
<1>7. CASE x.sstat # "QUEUED"
  <2>1. Moves(x, y) BY <1>4, ReceiverMoves DEF SideMoves
  <2> QED BY <1>1, <1>7, <2>1, StepQuiet
<1> QED BY <1>6, <1>7

(* What a step does that reads: one file grows, from what it held, and the *)
(* transfer that reads it goes on, is done when it has counted the last    *)
(* block, or fails and has written nothing.                                *)
Contents(d) == IF d \in DOMAIN files THEN files[d] ELSE <<>>

Grown(d) ==
    /\ d \in DOMAIN files'
    /\ \A n \in DOMAIN files \ {d} : n \in DOMAIN files' /\ files'[n] = files[n]
    /\ \E b \in Seq(1..size) : files'[d] = Contents(d) \o b

Reads(t) ==
    /\ features' = features /\ xfer[t].rstat = "ACTIVE"
    /\ \A u \in Transfer \ {t} : xfer'[u] = xfer[u]
    /\ xfer'[t].sstat = xfer[t].sstat /\ xfer'[t].began
    /\ xfer[t].began => xfer'[t].destfile = xfer[t].destfile
    /\ Grown(xfer'[t].destfile)
    /\ \/ xfer'[t].rstat = "ACTIVE"
       \/ xfer'[t].rstat = "DONE" /\ xfer'[t].rpos >= size
       \/ /\ xfer'[t].rstat = "FAILED"
          /\ files'[xfer'[t].destfile] = Contents(xfer'[t].destfile) \o <<>>

(* A sequence of no elements. *)
LEMMA NoBlocks == ASSUME NEW S, NEW b \in Seq(S), Len(b) = 0 PROVE b = <<>>
BY EmptySeq

(* What was in the file that is opened is all that it held. *)
LEMMA ContentsFacts ==
  ASSUME NEW x, NEW y, FileOpened(x, y)
  PROVE  OldPart(x, y.destfile) = Contents(y.destfile)
<1> DEFINE d == y.destfile
<1>1. CASE x.fp BY <1>1 DEF OldPart, Contents
<1>2. CASE x.rresumable # 0 BY <1>2 DEF OldPart, Contents
<1>3. CASE d \notin DOMAIN files BY <1>3 DEF OldPart, Contents
<1> QED BY <1>1, <1>2, <1>3 DEF FileOpened

(* The directory after a read. *)
LEMMA ReadGrows ==
  ASSUME NEW x, NEW t, NEW y, NEW k, NEW b, NEW a, NEW r, ReadTakes(x, t, y, k, b, a, r)
  PROVE  Grown(y.destfile) /\ files'[y.destfile] = Contents(y.destfile) \o b
<1> DEFINE fs2 == files'
           d == y.destfile
<1>1. /\ FileOpened(x, y) /\ ReadInto(x, y, k, b, a) /\ fs2 = Written(x, d, b) BY Zenon DEF ReadTakes
<1>2. OldPart(x, d) = Contents(d) BY <1>1, ContentsFacts
<1>3. b \in Seq(1..size) BY <1>1 DEF ReadInto
<1> HIDE DEF fs2
<1>4. Extended(x, d, b, fs2) BY <1>1, WrittenFacts, Zenon
<1>5. /\ d \in DOMAIN fs2 /\ fs2[d] = Contents(d) \o b
      /\ \A n \in DOMAIN files \ {d} : n \in DOMAIN fs2 /\ fs2[n] = files[n]
  BY <1>2, <1>4, Zenon DEF Extended
<1>6. Grown(d) BY <1>3, <1>5, Zenon DEF Grown, fs2
<1> QED BY <1>5, <1>6 DEF fs2

(* x is the transfer that reads, perhaps not throttled any more. *)
LEMMA ReadTakesReads ==
  ASSUME NEW t \in Transfer, xfer \in [Transfer -> TransferType], features' = features,
         xfer[t].rstat = "ACTIVE",
         NEW x, x.sstat = xfer[t].sstat, x.began = xfer[t].began, x.destfile = xfer[t].destfile,
         NEW y, NEW k, NEW b, NEW a, NEW r, ReadTakes(x, t, y, k, b, a, r)
  PROVE  Reads(t)
<1> DEFINE d == y.destfile
<1>1. /\ FileOpened(x, y) /\ ReadInto(x, y, k, b, a) /\ ReadEnds(k, a, r) /\ xfer' = [xfer EXCEPT ![t] = r]
  BY Zenon DEF ReadTakes
<1>2. Grown(d) /\ files'[d] = Contents(d) \o b BY ReadGrows
<1>3. /\ a \in TransferType /\ a.sstat = x.sstat /\ a.rstat = "ACTIVE" /\ a.began /\ a.destfile = d
      /\ b \in Seq(1..size) /\ Len(b) = k
  BY <1>1 DEF ReadInto, SameSender
<1>4. x.began => d = x.destfile BY <1>1 DEF FileOpened
<1>5. xfer'[t] = r /\ \A u \in Transfer \ {t} : xfer'[u] = xfer[u] BY <1>1
<1>6. ASSUME NEW stat \in Stat, r = dcc_close_receiver(a, stat)
      PROVE  r.sstat = x.sstat /\ r.began /\ r.destfile = d /\ r.rstat = stat /\ r.rpos = a.rpos
  <2>1. ClosedReceiver(a, stat, r) BY <1>3, <1>6, CloseReceiver, Zenon
  <2> QED BY <1>3, <2>1 DEF ClosedReceiver, SameSender
<1>7. "DONE" \in Stat /\ "FAILED" \in Stat BY DEF Stat
<1>8. /\ r.sstat = x.sstat /\ r.began /\ r.destfile = d
      /\ \/ r.rstat = "ACTIVE"
         \/ r.rstat = "DONE" /\ r.rpos >= size
         \/ r.rstat = "FAILED" /\ b = <<>>
  <2>1. CASE r = a BY <1>3, <2>1
  <2>2. CASE k = 0 /\ r = dcc_close_receiver(a, "FAILED")
    <3>1. b = <<>> BY <1>3, <2>2, NoBlocks
    <3> QED BY <1>6, <1>7, <2>2, <3>1
  <2>3. CASE a.rpos >= size /\ r = dcc_close_receiver(a, "DONE") BY <1>6, <1>7, <2>3
  <2> QED BY <1>1, <2>1, <2>2, <2>3 DEF ReadEnds
<1> HIDE DEF d
<1>9. /\ xfer'[t].sstat = xfer[t].sstat /\ xfer'[t].began /\ xfer'[t].destfile = d
      /\ xfer[t].began => d = xfer[t].destfile
      /\ \/ xfer'[t].rstat = "ACTIVE"
         \/ xfer'[t].rstat = "DONE" /\ xfer'[t].rpos >= size
         \/ xfer'[t].rstat = "FAILED" /\ files'[d] = Contents(d) \o <<>>
  BY <1>2, <1>4, <1>5, <1>8, Zenon
<1> QED BY <1>2, <1>5, <1>9, Zenon DEF Reads

(* dcc_read and dcc_unthrottle. *)
LEMMA ReadReads == ASSUME IInv, NEW t \in Transfer, dcc_read(t) PROVE Reads(t)
<1>1. Good(xfer, files) /\ xfer \in [Transfer -> TransferType] BY DEF IInv, Good
<1>2. xfer[t].rstat = "ACTIVE" /\ (ReadBlocks(t, xfer[t]) \/ ReadFails(t, xfer[t])) BY Zenon DEF dcc_read
<1>3. features' = features BY <1>2 DEF ReadBlocks, ReadFails
<1>4. PICK y, k, b, a, r : ReadTakes(xfer[t], t, y, k, b, a, r)
  BY <1>1, <1>2, ReadBlocksFacts, ReadFailsFacts, Zenon
<1> QED BY <1>1, <1>2, <1>3, <1>4, ReadTakesReads, Zenon

(* dcc_unthrottle of a receiver calls dcc_read. *)
LEMMA UnthrottleReceiverReads == ASSUME IInv, NEW t \in Transfer, UnthrottleReceiver(t) PROVE Reads(t)
<1> DEFINE x == [xfer[t] EXCEPT !.rthrottled = FALSE]
           xs == [xfer EXCEPT ![t] = x]
<1>1. Good(xfer, files) /\ xfer \in [Transfer -> TransferType] BY DEF IInv, Good
<1>2. xfer[t].rstat = "ACTIVE" /\ (ReadBlocks(t, x) \/ ReadFails(t, x)) BY Zenon DEF UnthrottleReceiver
<1>3. features' = features BY <1>2 DEF ReadBlocks, ReadFails
<1>4. x = [xfer[t] EXCEPT !.rthrottled = FALSE] /\ xs = [xfer EXCEPT ![t] = x] OBVIOUS
<1> HIDE DEF x, xs
<1>5. Good(xs, files) /\ xs[t] = x /\ ReceiverUpdated(xfer[t], x, "ACTIVE", FALSE, xfer[t].rsok)
  BY <1>1, <1>2, <1>4, UnthrottledGood
<1>6. xs[t].rstat = "ACTIVE" BY <1>5 DEF ReceiverUpdated
<1>7. ReadBlocks(t, xs[t]) \/ ReadFails(t, xs[t]) BY <1>2, <1>5
<1>8. PICK y, k, b, a, r : ReadTakes(xs[t], t, y, k, b, a, r)
  BY <1>5, <1>6, <1>7, ReadBlocksFacts, ReadFailsFacts, Zenon
<1>9. xs[t].sstat = xfer[t].sstat /\ xs[t].began = xfer[t].began /\ xs[t].destfile = xfer[t].destfile
  BY <1>5 DEF ReceiverUpdated, SameSender
<1> QED BY <1>1, <1>2, <1>3, <1>8, <1>9, ReadTakesReads, Zenon

(* Every step is one or the other. *)
LEMMA NextMoves ==
  ASSUME IInv, Next
  PROVE  Quiet \/ \E t \in Transfer : Reads(t)
<1>1. PICK t \in Transfer :
        \/ Handlers(t) \/ SenderSteps(t) \/ ReceiverSteps(t)
        \/ ThrottleSender(t) \/ ThrottleReceiver(t) \/ StallTimeout(t) \/ OfferTimeout(t)
        \/ dcc_send(t) \/ Resume(t) \/ dcc_get(t) \/ dcc_get_nick(t) \/ dcc_abort(t)
  BY DEF Next
<1>2. CASE Handlers(t)
  BY <1>2, HandleSendQuiet, HandleAcceptQuiet, HandleResumeQuiet, HandlePasvQuiet, AcceptQuiet,
     ConnectFinishedQuiet, Zenon DEF Handlers
<1>3. CASE SenderSteps(t)
  BY <1>3, WriteQuiet, ReadAckQuiet, SenderErrorQuiet, UnthrottleSenderQuiet, Zenon DEF SenderSteps
<1>4. CASE ReceiverSteps(t) BY <1>4, ReadReads, UnthrottleReceiverReads, Zenon DEF ReceiverSteps
<1>5. CASE ThrottleSender(t) \/ ThrottleReceiver(t) \/ StallTimeout(t) \/ OfferTimeout(t) \/ dcc_abort(t)
  BY <1>5, ThrottleQuiet, TimeoutQuiet, AbortQuiet, Zenon
<1>6. CASE dcc_send(t) \/ Resume(t) \/ dcc_get(t) \/ dcc_get_nick(t)
  BY <1>6, SendQuiet, ResumeQuiet, GetQuiet, GetNickQuiet, Zenon
<1> QED BY <1>1, <1>2, <1>3, <1>4, <1>5, <1>6, Zenon

(* A read only adds to the directory. *)
LEMMA ReadsGrow == ASSUME IInv, NEW t \in Transfer, Reads(t) PROVE OnlyGrows
<1> DEFINE d == xfer'[t].destfile
<1>1. Grown(d) BY DEF Reads
<1> HIDE DEF d
<1>2. PICK b \in Seq(1..size) : files'[d] = Contents(d) \o b BY <1>1 DEF Grown
<1> SUFFICES ASSUME NEW n \in DOMAIN files
             PROVE  /\ n \in DOMAIN files' /\ Len(files'[n]) >= Len(files[n])
                    /\ \A i \in 1..Len(files[n]) : files'[n][i] = files[n][i]
  BY Zenon DEF OnlyGrows
<1>3. files[n] \in Seq(1..size) BY DEF IInv, Good, Filed
<1>4. CASE n = d
  <2> DEFINE s == files[n]
             s2 == files'[n]
  <2>1. s2 = s \o b /\ n \in DOMAIN files' BY <1>1, <1>2, <1>4 DEF Grown, Contents
  <2>2. s \in Seq(1..size) BY <1>3
  <2> HIDE DEF s, s2
  <2>3. Len(s2) >= Len(s) /\ \A i \in 1..Len(s) : s2[i] = s[i] BY <1>2, <2>1, <2>2
  <2> QED BY <2>1, <2>3 DEF s, s2
<1>5. CASE n # d
  <2>1. n \in DOMAIN files' /\ files'[n] = files[n] BY <1>1, <1>5 DEF Grown
  <2>2. Len(files[n]) \in Nat BY <1>3
  <2> QED BY <2>1, <2>2
<1> QED BY <1>4, <1>5

(* No step undoes what was transferred, at either end: dcc_read makes a    *)
(* file longer or a new one, and a sender that has sent everything fails   *)
(* only when the other end has closed or the connection was reset.         *)
THEOREM NothingIsUndone == Spec => NothingUndone
<1>1. IInv /\ [Next]_vars => [OnlyGrows /\ SentIsNotAborted]_vars
  <2> SUFFICES ASSUME IInv, Next PROVE OnlyGrows /\ SentIsNotAborted OBVIOUS
  <2>1. CASE Quiet
    <3>1. OnlyGrows
      <4>1. files' = files BY <2>1 DEF Quiet
      <4>2. \A n \in DOMAIN files : Len(files[n]) \in Nat BY DEF IInv, Good, Filed
      <4> QED BY <4>1, <4>2 DEF OnlyGrows
    <3>2. \A t \in Transfer : NotAborted(xfer[t], xfer'[t]) BY <2>1 DEF Quiet, Moves
    <3> QED BY <3>1, <3>2, Zenon DEF SentIsNotAborted, NotAborted, Protected
  <2>2. CASE \E t \in Transfer : Reads(t)
    <3>1. PICK t \in Transfer : Reads(t) BY <2>2
    <3>2. \A u \in Transfer : xfer'[u].sstat = xfer[u].sstat BY <3>1 DEF Reads
    <3>3. SentIsNotAborted BY <3>2 DEF SentIsNotAborted
    <3> QED BY <3>1, <3>3, ReadsGrow
  <2> QED BY <2>1, <2>2, NextMoves
<1> QED BY <1>1, Invariant, PTL DEF Spec, NothingUndone
---------------------------------------------------------------------------
(* DccTransfer implements FileCopy. *)

(* What the invariant says of the files of transfers. *)
Kept(t) ==
    /\ Agreed /\ xfer[t].began =>
         /\ xfer[t].destfile \in DOMAIN files
         /\ files[xfer[t].destfile] \in Seq(1..size) /\ IsPart(files[xfer[t].destfile])
         /\ Len(files[xfer[t].destfile]) = xfer[t].rpos
    /\ ExactAcks /\ xfer[t].sstat = "DONE" => xfer[t].began /\ xfer[t].rpos = size

Apart ==
    Agreed => \A t, u \in Transfer :
      xfer[t].began /\ xfer[u].began /\ t # u => xfer[t].destfile # xfer[u].destfile

(* It follows from the invariant. *)
LEMMA KeptFacts == IInv => Apart /\ \A t \in Transfer : Kept(t)
<1> SUFFICES ASSUME IInv PROVE Apart /\ \A t \in Transfer : Kept(t) OBVIOUS
<1>1. Apart BY DEF IInv, Good, Named, Apart
<1>2. ASSUME NEW t \in Transfer PROVE Kept(t)
  <2>1. ASSUME Agreed, xfer[t].began
        PROVE /\ xfer[t].destfile \in DOMAIN files
              /\ files[xfer[t].destfile] \in Seq(1..size) /\ IsPart(files[xfer[t].destfile])
              /\ Len(files[xfer[t].destfile]) = xfer[t].rpos
    <3>1. xfer[t].destfile \in DOMAIN files BY <2>1 DEF IInv, Good, Named
    <3>2. Len(files[xfer[t].destfile]) = xfer[t].rpos BY <2>1 DEF IInv, Good, Fits, Aligned, Opening
    <3> QED BY <2>1, <3>1, <3>2 DEF IInv, Good, Filed
  <2>2. ASSUME ExactAcks, xfer[t].sstat = "DONE" PROVE xfer[t].began /\ xfer[t].rpos = size
    BY <2>2, SMTT(30) DEF IInv, Good, Fits, Acknowledged
  <2> QED BY <2>1, <2>2 DEF Kept
<1> QED BY <1>1, <1>2

(* The variables of FileCopy. *)
CopyIs == Seen(IF xfer[1].began THEN files[xfer[1].destfile] ELSE <<>>, <<>>)
BegunIs == Seen(xfer[1].began, FALSE)
ReceiverIs == Seen(Side(xfer[1].rstat), "busy")
SenderIs == Seen(Side(xfer[1].sstat), "busy")

(* A sequence that is a beginning of the file. *)
LEMMA PartIsBlocks ==
  ASSUME NEW s, s \in Seq(1..size), IsPart(s), NEW n \in Nat, n <= Len(s)
  PROVE  s \in Copy!From(n)
<1>1. Len(s) \in Nat /\ Len(s) <= size /\ size \in Nat BY Sizes DEF IsPart
<1>2. s = [i \in 1..Len(s) |-> i] BY DEF IsPart
<1>3. Len(s) \in n..size BY <1>1
<1> QED BY <1>2, <1>3 DEF Copy!From, Copy!Blocks

(* The stutters and the steps of FileCopy. *)
LEMMA CopyStutters ==
  ASSUME features' = features, CopyIs' = CopyIs, BegunIs' = BegunIs, ReceiverIs' = ReceiverIs, SenderIs' = SenderIs
  PROVE  UNCHANGED Copy!vars
<1>1. size' = size BY DEF size
<1> QED BY <1>1 DEF Copy!vars, CopyIs, BegunIs, ReceiverIs, SenderIs

(* A write of the abstract copy. *)
LEMMA CopyWrites ==
  ASSUME features' = features, SenderIs' = SenderIs, ReceiverIs = "busy", BegunIs' = TRUE,
         CopyIs' \in Copy!From(IF BegunIs THEN Len(CopyIs) ELSE 0),
         ReceiverIs' = "busy" \/ (ReceiverIs' = "done" /\ Len(CopyIs') = size)
  PROVE  Copy!Write
<1>1. size' = size BY DEF size
<1> QED BY <1>1 DEF Copy!Write, CopyIs, BegunIs, ReceiverIs, SenderIs

(* A failure of the abstract receiver. *)
LEMMA CopyReceiverFails ==
  ASSUME features' = features, SenderIs' = SenderIs, ReceiverIs = "busy", ReceiverIs' = "failed",
         \/ BegunIs' = BegunIs /\ CopyIs' = CopyIs
         \/ ~BegunIs /\ BegunIs' = TRUE /\ CopyIs' \in Copy!From(0)
  PROVE  Copy!ReceiverFails
<1>1. size' = size BY DEF size
<1> QED BY <1>1 DEF Copy!ReceiverFails, CopyIs, BegunIs, ReceiverIs, SenderIs

(* A failure of the abstract sender. *)
LEMMA CopySenderFails ==
  ASSUME features' = features, CopyIs' = CopyIs, BegunIs' = BegunIs, ReceiverIs' = ReceiverIs,
         SenderIs = "busy", SenderIs' = "failed"
  PROVE  Copy!SenderFails
<1>1. size' = size BY DEF size
<1> QED BY <1>1 DEF Copy!SenderFails, CopyIs, BegunIs, ReceiverIs, SenderIs

(* The abstract sender is done, with a whole copy. *)
LEMMA CopySenderDone ==
  ASSUME features' = features, CopyIs' = CopyIs, BegunIs' = BegunIs, ReceiverIs' = ReceiverIs,
         SenderIs = "busy", SenderIs' = "done", BegunIs, Len(CopyIs) = size
  PROVE  Copy!SenderDone
<1>1. size' = size BY DEF size
<1> QED BY <1>1 DEF Copy!SenderDone, CopyIs, BegunIs, ReceiverIs, SenderIs

(* A finished side of the abstract copy is removed. *)
LEMMA CopyRemoves ==
  ASSUME features' = features, CopyIs' = CopyIs, BegunIs' = BegunIs,
         \/ ReceiverIs \in {"done", "failed"} /\ ReceiverIs' = "removed" /\ SenderIs' = SenderIs
         \/ SenderIs \in {"done", "failed"} /\ SenderIs' = "removed" /\ ReceiverIs' = ReceiverIs
  PROVE  Copy!Remove
<1>1. size' = size BY DEF size
<1> QED BY <1>1 DEF Copy!Remove, CopyIs, BegunIs, ReceiverIs, SenderIs

(* Where the two ends do not agree or acknowledgements are not exact,      *)
(* FileCopy is not spoken of.                                              *)
LEMMA NotSeen ==
  ASSUME features' = features, ~ExactAcks
  PROVE  CopyIs' = CopyIs /\ BegunIs' = BegunIs /\ ReceiverIs' = ReceiverIs /\ SenderIs' = SenderIs
<1>1. ~ExactAcks' BY DEF ExactAcks, Agreed, Never
<1> QED BY <1>1 DEF CopyIs, BegunIs, ReceiverIs, SenderIs, Seen

(* Where they are, its variables are these. *)
LEMMA AllSeen ==
  ASSUME ExactAcks
  PROVE  /\ xfer[1].began => CopyIs = files[xfer[1].destfile]
         /\ ~xfer[1].began => CopyIs = <<>>
         /\ BegunIs = xfer[1].began
         /\ ReceiverIs = Side(xfer[1].rstat) /\ SenderIs = Side(xfer[1].sstat)
BY DEF CopyIs, BegunIs, ReceiverIs, SenderIs, Seen

(* How a side of the abstract copy moves. *)
LEMMA SideFacts ==
  /\ \A s \in Unfinished : Side(s) = "busy"
  /\ Side("DONE") = "done" /\ Side("FAILED") = "failed" /\ Side("ABORTED") = "failed" /\ Side("REMOVED") = "removed"
BY DEF Side, Unfinished

(* A move of the concrete state is a stutter, a failure or a removal of    *)
(* the abstract one.                                                       *)
LEMMA SideMovesFacts ==
  ASSUME NEW s, NEW s2, SideMoves(s, s2)
  PROVE  \/ Side(s2) = Side(s)
         \/ Side(s) = "busy" /\ Side(s2) = "failed"
         \/ Side(s) \in {"done", "failed"} /\ Side(s2) = "removed"
<1>1. CASE s2 = s BY <1>1
<1>2. CASE s \in Unfinished /\ s2 \in Unfinished \cup {"FAILED", "ABORTED"}
  BY <1>2, SideFacts, Zenon
<1>3. CASE s \in Finished /\ s2 = "REMOVED"
  <2>1. s \in {"DONE", "FAILED", "ABORTED"} BY <1>3 DEF Finished
  <2> QED BY <1>3, <2>1, SideFacts
<1> QED BY <1>1, <1>2, <1>3 DEF SideMoves

(* A step that reads nothing is a stutter, the end of one side or its      *)
(* removal.                                                                *)
LEMMA QuietCopies ==
  ASSUME ExactAcks, ExactAcks', Quiet, Kept(1)'
  PROVE  [Copy!Next]_(Copy!vars)
<1> DEFINE x == xfer[1]
           y == xfer'[1]
<1>1. features' = features /\ files' = files BY DEF Quiet
<1>2. 1 \in Transfer BY Sizes DEF Transfer
<1>3. Moves(x, y) BY <1>2 DEF Quiet
<1>4. y.began = x.began /\ y.destfile = x.destfile BY <1>3 DEF Moves
<1>5. /\ x.began => CopyIs = files[x.destfile]
      /\ ~x.began => CopyIs = <<>>
      /\ BegunIs = x.began /\ ReceiverIs = Side(x.rstat) /\ SenderIs = Side(x.sstat)
  BY AllSeen
<1>6. /\ y.began => CopyIs' = files'[y.destfile]
      /\ ~y.began => CopyIs' = <<>>
      /\ BegunIs' = y.began /\ ReceiverIs' = Side(y.rstat) /\ SenderIs' = Side(y.sstat)
  BY DEF CopyIs, BegunIs, ReceiverIs, SenderIs, Seen, Side
<1>7. CopyIs' = CopyIs /\ BegunIs' = BegunIs BY <1>1, <1>4, <1>5, <1>6
<1>8. CASE y.rstat = x.rstat /\ SideMoves(x.sstat, y.sstat)
  <2>1. ReceiverIs' = ReceiverIs BY <1>5, <1>6, <1>8
  <2>2. \/ SenderIs' = SenderIs
        \/ SenderIs = "busy" /\ SenderIs' = "failed"
        \/ SenderIs \in {"done", "failed"} /\ SenderIs' = "removed"
    BY <1>5, <1>6, <1>8, SideMovesFacts, Zenon
  <2> QED BY <1>1, <1>7, <2>1, <2>2, CopyStutters, CopySenderFails, CopyRemoves, Zenon DEF Copy!Next
<1>9. CASE y.sstat = x.sstat /\ SideMoves(x.rstat, y.rstat)
  <2>1. SenderIs' = SenderIs BY <1>5, <1>6, <1>9
  <2>2. \/ ReceiverIs' = ReceiverIs
        \/ ReceiverIs = "busy" /\ ReceiverIs' = "failed"
        \/ ReceiverIs \in {"done", "failed"} /\ ReceiverIs' = "removed"
    BY <1>5, <1>6, <1>9, SideMovesFacts, Zenon
  <2> QED BY <1>1, <1>7, <2>1, <2>2, CopyStutters, CopyReceiverFails, CopyRemoves, Zenon DEF Copy!Next
<1>10. CASE y.rstat = x.rstat /\ x.sstat = "ACTIVE" /\ y.sstat = "DONE"
  <2>1. ReceiverIs' = ReceiverIs BY <1>5, <1>6, <1>10
  <2>2. "ACTIVE" \in Unfinished BY DEF Unfinished
  <2>3. SenderIs = "busy" /\ SenderIs' = "done" BY <1>5, <1>6, <1>10, <2>2, SideFacts, Zenon
  <2>4. /\ Agreed' /\ y.began /\ y.rpos = size'
        /\ Len(files'[y.destfile]) = y.rpos
    <3>1. Agreed' BY DEF ExactAcks
    <3>2. y.began /\ y.rpos = size' BY <1>10 DEF Kept
    <3> QED BY <3>1, <3>2 DEF Kept
  <2>5. size' = size BY <1>1 DEF size
  <2>6. BegunIs /\ Len(CopyIs) = size
    <3>1. CopyIs = files'[y.destfile] BY <1>6, <1>7, <2>4
    <3> QED BY <1>4, <1>5, <2>4, <2>5, <3>1
  <2> QED BY <1>1, <1>7, <2>1, <2>3, <2>6, CopySenderDone, Zenon DEF Copy!Next
<1> QED BY <1>3, <1>8, <1>9, <1>10 DEF Moves, SenderMoves

(* Reading by another transfer is a stutter: its file is a different one.  *)
LEMMA OtherReads ==
  ASSUME ExactAcks, ExactAcks', NEW t \in Transfer, t # 1, Reads(t), Kept(1), Apart'
  PROVE  [Copy!Next]_(Copy!vars)
<1> DEFINE x == xfer[1]
           d == xfer'[t].destfile
<1>1. features' = features /\ xfer'[1] = x /\ xfer'[t].began /\ Grown(d)
  <2>1. 1 \in Transfer BY Sizes DEF Transfer
  <2> QED BY <2>1 DEF Reads
<1>2. /\ x.began => CopyIs = files[x.destfile]
      /\ ~x.began => CopyIs = <<>>
      /\ BegunIs = x.began /\ ReceiverIs = Side(x.rstat) /\ SenderIs = Side(x.sstat)
  BY AllSeen
<1>3. /\ x.began => CopyIs' = files'[x.destfile]
      /\ ~x.began => CopyIs' = <<>>
      /\ BegunIs' = x.began /\ ReceiverIs' = Side(x.rstat) /\ SenderIs' = Side(x.sstat)
  BY <1>1 DEF CopyIs, BegunIs, ReceiverIs, SenderIs, Seen, Side
<1>4. ASSUME x.began PROVE files'[x.destfile] = files[x.destfile]
  <2>1. Agreed /\ Agreed' BY DEF ExactAcks
  <2>2. x.destfile \in DOMAIN files BY <1>4, <2>1 DEF Kept
  <2>3. 1 \in Transfer' /\ t \in Transfer' BY Sizes DEF Transfer
  <2>4. x.destfile # d BY <1>1, <1>4, <2>1, <2>3 DEF Apart
  <2> QED BY <1>1, <2>2, <2>4 DEF Grown
<1>5. CopyIs' = CopyIs BY <1>2, <1>3, <1>4
<1>6. BegunIs' = BegunIs /\ ReceiverIs' = ReceiverIs /\ SenderIs' = SenderIs BY <1>2, <1>3
<1> QED BY <1>1, <1>5, <1>6, CopyStutters, Zenon

(* Reading by the transfer itself writes, or fails. *)
LEMMA OwnReads ==
  ASSUME ExactAcks, ExactAcks', Reads(1), Kept(1), Kept(1)'
  PROVE  Copy!Write \/ Copy!ReceiverFails
<1> DEFINE x == xfer[1]
           y == xfer'[1]
           d == y.destfile
           f == files'[d]
           o == Contents(d)
<1>1. /\ features' = features /\ x.rstat = "ACTIVE" /\ y.sstat = x.sstat /\ y.began
      /\ x.began => d = x.destfile
      /\ Grown(d)
      /\ \/ y.rstat = "ACTIVE"
         \/ y.rstat = "DONE" /\ y.rpos >= size
         \/ y.rstat = "FAILED" /\ f = o \o <<>>
  BY DEF Reads
<1>2. Agreed /\ Agreed' /\ size' = size /\ size \in Nat
  BY <1>1, Sizes DEF ExactAcks, size
<1>3. /\ x.began => CopyIs = files[x.destfile]
      /\ BegunIs = x.began /\ ReceiverIs = Side(x.rstat) /\ SenderIs = Side(x.sstat)
  BY AllSeen
<1>4. CopyIs' = f /\ BegunIs' = TRUE /\ ReceiverIs' = Side(y.rstat) /\ SenderIs' = Side(y.sstat)
  <2>1. CopyIs' = f BY <1>1 DEF CopyIs, Seen
  <2>2. BegunIs' = y.began BY DEF BegunIs, Seen
  <2>3. BegunIs' = TRUE
    <3>1. BegunIs' = TRUE <=> BegunIs' BY DEF BegunIs, Seen
    <3> QED BY <1>1, <2>2
  <2> QED BY <2>1, <2>3 DEF ReceiverIs, SenderIs, Seen, Side
<1>5. f \in Seq(1..size) /\ IsPart(f) /\ Len(f) = y.rpos
  <2>1. /\ f \in Seq(1..size') /\ Len(f) = y.rpos
        /\ Len(f) <= size' /\ \A i \in 1..Len(f) : f[i] = i
    BY <1>1, <1>2 DEF Kept, IsPart
  <2> QED BY <1>2, <2>1 DEF IsPart
<1>6. PICK b \in Seq(1..size) : f = o \o b BY <1>1 DEF Grown
<1>7. ASSUME x.began PROVE CopyIs = o /\ o \in Seq(1..size) /\ Len(o) \in Nat /\ Len(o) <= Len(f)
  <2>1. /\ x.destfile \in DOMAIN files /\ files[x.destfile] \in Seq(1..size)
    BY <1>2, <1>7 DEF Kept
  <2>2. o = files[x.destfile] BY <1>1, <1>7, <2>1 DEF Contents
  <2>3. CopyIs = o /\ o \in Seq(1..size) BY <1>3, <1>7, <2>1, <2>2
  <2> HIDE DEF o, f
  <2>4. Len(f) = Len(o) + Len(b) /\ Len(b) \in Nat /\ Len(o) \in Nat BY <1>6, <2>3
  <2> QED BY <2>3, <2>4
<1>8. "ACTIVE" \in Unfinished BY DEF Unfinished
<1>9. SenderIs' = SenderIs /\ ReceiverIs = "busy" BY <1>1, <1>3, <1>4, <1>8, SideFacts, Zenon
<1> HIDE DEF f, o, x, y, d
<1>10. CopyIs' \in Copy!From(IF BegunIs THEN Len(CopyIs) ELSE 0) /\ CopyIs' \in Copy!From(0)
  <2>1. Len(f) \in Nat BY <1>5
  <2>2. f \in Copy!From(0) BY <1>5, <2>1, PartIsBlocks
  <2>3. CASE x.began
    <3>1. f \in Copy!From(Len(o)) BY <1>5, <1>7, <2>3, PartIsBlocks
    <3> QED BY <1>3, <1>4, <1>7, <2>2, <2>3, <3>1, Zenon
  <2>4. CASE ~x.began
    <3>1. ~BegunIs BY <1>3, <2>4
    <3> QED BY <1>4, <2>2, <3>1, Zenon
  <2> QED BY <2>3, <2>4
<1>11. CASE y.rstat = "ACTIVE"
  <2>1. ReceiverIs' = "busy" BY <1>4, <1>8, <1>11, SideFacts, Zenon
  <2>2. Copy!Write BY <1>1, <1>4, <1>9, <1>10, <2>1, CopyWrites, Zenon
  <2> QED BY <2>2
<1>12. CASE y.rstat = "DONE" /\ y.rpos >= size
  <2>1. ReceiverIs' = "done" BY <1>4, <1>12, SideFacts, Zenon
  <2>2. Len(f) = size
    <3>1. Len(f) \in Nat /\ Len(f) <= size BY <1>5 DEF IsPart
    <3> QED BY <1>2, <1>5, <1>12, <3>1
  <2>3. Copy!Write BY <1>1, <1>4, <1>9, <1>10, <2>1, <2>2, CopyWrites, Zenon
  <2> QED BY <2>3
<1>13. CASE y.rstat = "FAILED" /\ f = o \o <<>>
  <2>1. ReceiverIs' = "failed" BY <1>4, <1>13, SideFacts, Zenon
  <2>2. CASE x.began
    <3>1. f = o BY <1>7, <1>13, <2>2
    <3>2. CopyIs' = CopyIs BY <1>4, <1>7, <2>2, <3>1
    <3>3. BegunIs = TRUE BY <1>3, <2>2
    <3>4. BegunIs' = BegunIs BY <1>4, <3>3
    <3> QED BY <1>1, <1>9, <2>1, <3>2, <3>4, CopyReceiverFails, Zenon
  <2>3. CASE ~x.began
    <3>1. ~BegunIs BY <1>3, <2>3
    <3> QED BY <1>1, <1>4, <1>9, <1>10, <2>1, <3>1, CopyReceiverFails, Zenon
  <2> QED BY <2>2, <2>3
<1> QED BY <1>1, <1>11, <1>12, <1>13

(* The first transfer copies the file as FileCopy says it: the copy only   *)
(* grows by the blocks that come next, and neither end is done before it   *)
(* is whole.                                                               *)
THEOREM Implements == Spec => CopiesFile
<1>1. Init => Copy!Init
  <2> SUFFICES ASSUME Init PROVE Copy!Init OBVIOUS
  <2>1. xfer[1] = NoTransfer
    <3>1. 1 \in Transfer BY Sizes DEF Transfer
    <3> QED BY <3>1 DEF Init
  <2>2. CopyIs = <<>> /\ BegunIs = FALSE /\ ReceiverIs = "busy" /\ SenderIs = "busy"
    BY <2>1 DEF NoTransfer, CopyIs, BegunIs, ReceiverIs, SenderIs, Seen, Side
  <2> QED BY <2>2, Sizes DEF Copy!Init, CopyIs, BegunIs, ReceiverIs, SenderIs
<1>2. IInv => Apart /\ \A t \in Transfer : Kept(t) BY KeptFacts
<1>3. IInv' => Apart' /\ (\A t \in Transfer : Kept(t))' BY <1>2, PTL
<1>4. IInv /\ IInv' /\ [Next]_vars => [Copy!Next]_(Copy!vars)
  <2> SUFFICES ASSUME IInv, IInv', [Next]_vars PROVE [Copy!Next]_(Copy!vars) OBVIOUS
  <2>1. 1 \in Transfer BY Sizes DEF Transfer
  <2>2. Kept(1) /\ Kept(1)' /\ Apart' BY <1>2, <1>3, <2>1
  <2>3. CASE UNCHANGED vars
    <3>1. xfer' = xfer /\ files' = files /\ features' = features BY <2>3 DEF vars
    <3>2. CopyIs' = CopyIs /\ BegunIs' = BegunIs /\ ReceiverIs' = ReceiverIs /\ SenderIs' = SenderIs
      BY <3>1 DEF CopyIs, BegunIs, ReceiverIs, SenderIs, Seen, Side, ExactAcks, Agreed, Never
    <3> QED BY <3>1, <3>2, CopyStutters, Zenon
  <2>4. CASE Next
    <3>1. Quiet \/ \E t \in Transfer : Reads(t) BY <2>4, NextMoves
    <3>2. features' = features BY <3>1 DEF Quiet, Reads
    <3>3. CASE ~ExactAcks BY <3>2, <3>3, NotSeen, CopyStutters, Zenon
    <3>4. CASE ExactAcks
      <4>1. ExactAcks' BY <3>2, <3>4 DEF ExactAcks, Agreed, Never
      <4>2. CASE Quiet BY <2>2, <3>4, <4>1, <4>2, QuietCopies, Zenon
      <4>3. CASE \E t \in Transfer : Reads(t)
        <5>1. PICK t \in Transfer : Reads(t) BY <4>3
        <5>2. CASE t = 1 BY <2>2, <3>4, <4>1, <5>1, <5>2, OwnReads, Zenon DEF Copy!Next
        <5>3. CASE t # 1 BY <2>2, <3>4, <4>1, <5>1, <5>3, OtherReads, Zenon
        <5> QED BY <5>2, <5>3
      <4> QED BY <3>1, <4>2, <4>3
    <3> QED BY <3>3, <3>4
  <2> QED BY <2>3, <2>4
<1> QED BY <1>1, <1>4, Invariant, PTL DEF Spec, CopiesFile, Copy!Spec
=============================================================================
