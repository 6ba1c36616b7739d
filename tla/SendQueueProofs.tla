-------------------------- MODULE SendQueueProofs --------------------------
(***************************************************************************)
(* Proofs about SendQueue for all lines, bursts and bounds: the type       *)
(* invariant, that a queued line is never left without a timer, the order  *)
(* in which lines leave, and the flood limit.                              *)
(***************************************************************************)
EXTENDS SendQueue, SequenceTheorems, TLAPS

Entry == [id: Nat, pri: Priorities, line: LineType]

(* RemoveAt, as QueueSend uses it, shifts the entries behind i forward. *)
LEMMA RemoveAtFacts ==
  ASSUME NEW S, NEW s \in Seq(S), NEW i \in 1..Len(s)
  PROVE  /\ RemoveAt(s, i) \in Seq(S)
         /\ Len(RemoveAt(s, i)) = Len(s) - 1
         /\ \A k \in 1..(Len(s) - 1) :
               RemoveAt(s, i)[k] = IF k < i THEN s[k] ELSE s[k + 1]
<1> DEFINE a == SubSeq(s, 1, i - 1)
           b == SubSeq(s, i + 1, Len(s))
<1>1. a \in Seq(S) /\ Len(a) = i - 1 /\ \A k \in 1..(i - 1) : a[k] = s[k]
  OBVIOUS
<1>2. b \in Seq(S) /\ Len(b) = Len(s) - i /\ \A k \in 1..(Len(s) - i) : b[k] = s[i + k]
  OBVIOUS
<1> HIDE DEF a, b
<1>3. a \o b \in Seq(S) /\ Len(a \o b) = Len(s) - 1
  <2>1. a \o b \in Seq(S) /\ Len(a \o b) = Len(a) + Len(b)
    BY <1>1, <1>2, ConcatProperties
  <2>2. Len(s) \in Nat OBVIOUS
  <2> QED BY <2>1, <2>2, <1>1, <1>2
<1>4. \A k \in 1..(Len(s) - 1) : (a \o b)[k] = IF k < i THEN s[k] ELSE s[k + 1]
  BY <1>1, <1>2
<1> QED BY <1>3, <1>4 DEF RemoveAt, a, b

(* A line's priority byte is one of the three that tcp_send_queue tries. *)
LEMMA PriorityType == \A l : Priority(l) \in Priorities
BY DEF Priority, Priorities

(* Penalties are positive numbers of seconds. *)
LEMMA PenaltyType == \A n \in Nat : Penalty(n) \in Nat
BY DEF Penalty

(* The clamped next_send is a time not before now. *)
LEMMA ClampedType == TypeOK => Clamped \in Nat /\ Clamped >= now /\ Clamped >= next_send
<1> SUFFICES ASSUME TypeOK PROVE Clamped \in Nat /\ Clamped >= now /\ Clamped >= next_send
  OBVIOUS
<1>1. now \in Nat /\ next_send \in Nat BY DEF TypeOK
<1> QED BY <1>1 DEF Clamped, MaxOf

-----------------------------------------------------------------------------
(* The queue is in submission order, and behind what was sent before. *)
InOrder ==
    /\ \A i, j \in 1..Len(outbound_queue) :
          i < j => outbound_queue[i].id < outbound_queue[j].id
    /\ \A i \in 1..Len(outbound_queue) :
          /\ outbound_queue[i].id < nextId
          /\ lastSent[outbound_queue[i].pri] < outbound_queue[i].id
    /\ \A p \in Priorities : lastSent[p] < nextId

(* Who looks after the queue, also while tcp_send_queue runs. *)
Attended ==
    /\ call = "none" /\ outbound_queue # <<>> => timers > 0
    /\ call = "timer" => timers > 0
    /\ call = "tcp_send_len" /\ ~noqueue => timers > 0
    /\ call # "none" => alive
    /\ ~alive => outbound_queue = <<>>

(* next_send accounts for everything sent since the last reset. *)
Accounted == epoch + spent <= next_send

(* Every entry has the priority of its line. *)
Ranked == \A i \in 1..Len(outbound_queue) :
             outbound_queue[i].pri = Priority(outbound_queue[i].line)

(* The inductive invariant. *)
IInv == TypeOK /\ InOrder /\ Attended /\ Accounted /\ Ranked

(* It holds of a new server. *)
LEMMA InitInv == Init => IInv
BY DEF Init, IInv, TypeOK, InOrder, Attended, Accounted, Ranked, Priorities

(* Type correctness is preserved by every step. *)
LEMMA TypeStep == TypeOK /\ Attended /\ [Next]_vars => TypeOK'
<1> SUFFICES ASSUME TypeOK, Attended, [Next]_vars PROVE TypeOK'
  OBVIOUS
<1> USE DEF TypeOK
<1>1. ASSUME NEW l \in Lines, SendUnqueued(l) PROVE TypeOK'
  BY <1>1 DEF SendUnqueued, Submit, env
<1>2. ASSUME NEW l \in Lines, SendQueued(l) PROVE TypeOK'
  <2>1. l \in LineType BY LinesAssumption
  <2>2. [id |-> nextId, pri |-> Priority(l), line |-> l] \in Entry
    BY <2>1, PriorityType DEF Entry
  <2>3. outbound_queue' \in Seq(Entry)
    BY <1>2, <2>2 DEF SendQueued, Entry
  <2>4. sendq_len' \in Int
    BY <1>2, <2>1 DEF SendQueued, LineType
  <2> QED BY <1>2, <2>3, <2>4 DEF SendQueued, Submit, env, Entry, NoQueue
<1>3. ASSUME NEW b \in Bursts, SendMultiline(b) PROVE TypeOK'
  <2>1. Penalty(b) \in Nat /\ Clamped \in Nat
    BY BurstsAssumption, PenaltyType, ClampedType
  <2>2. next_send' \in Nat /\ spent' \in Nat
    BY <1>3, <2>1 DEF SendMultiline
  <2> QED BY <1>3, <2>2 DEF SendMultiline, Submit, env
<1>4. CASE TimerFires BY <1>4 DEF TimerFires, env
<1>5. CASE QueueSend
  <2>1. PICK i \in 1..Len(outbound_queue) :
           /\ next_send' = (IF HeldBack THEN now ELSE Clamped)
                              + Penalty(outbound_queue[i].line.rest)
           /\ sendq_len' = sendq_len - SentBytes(outbound_queue[i].line)
           /\ prev_now' = now
           /\ outbound_queue' = RemoveAt(outbound_queue, i)
           /\ lastSent' = [lastSent EXCEPT ![outbound_queue[i].pri] = outbound_queue[i].id]
           /\ spent' = (IF HeldBack THEN 0 ELSE spent) + Penalty(outbound_queue[i].line.rest)
           /\ epoch' = IF HeldBack THEN now ELSE epoch
    BY <1>5 DEF QueueSend
  <2>2. outbound_queue[i] \in Entry
    <3>1. outbound_queue \in Seq(Entry) BY DEF Entry
    <3> QED BY <3>1, ElementOfSeq
  <2>3. Penalty(outbound_queue[i].line.rest) \in Nat
    BY <2>2, PenaltyType DEF Entry, LineType
  <2>4. outbound_queue' \in Seq(Entry)
    BY <2>1, RemoveAtFacts DEF Entry
  <2>5. sendq_len' \in Int
    <3>1. outbound_queue[i].line.len \in Nat BY <2>2 DEF Entry, LineType
    <3> QED BY <2>1, <3>1, SMTT(30) DEF SentBytes
  <2>6. lastSent' \in [Priorities -> Int]
    BY <2>1, <2>2 DEF Entry
  <2>7. next_send' \in Nat /\ spent' \in Nat /\ epoch' \in Nat
    <3>1. Clamped \in Nat BY ClampedType
    <3>2. CASE HeldBack
      <4>1. /\ next_send' = now + Penalty(outbound_queue[i].line.rest)
            /\ spent' = 0 + Penalty(outbound_queue[i].line.rest)
            /\ epoch' = now
        BY <2>1, <3>2, Zenon
      <4> QED BY <2>3, <4>1
    <3>3. CASE ~HeldBack
      <4>1. /\ next_send' = Clamped + Penalty(outbound_queue[i].line.rest)
            /\ spent' = spent + Penalty(outbound_queue[i].line.rest)
            /\ epoch' = epoch
        BY <2>1, <3>3, Zenon
      <4> QED BY <2>3, <3>1, <4>1, SMTT(30)
    <3> QED BY <3>2, <3>3
  <2> QED BY <1>5, <2>1, <2>4, <2>5, <2>6, <2>7 DEF QueueSend, env, Entry
<1>6. CASE QueueDone
  <2>1. timers' \in Nat
    BY <1>6 DEF QueueDone, TimersAfterDone, Attended
  <2> QED BY <1>6, <2>1 DEF QueueDone, env
<1>7. CASE QueueHold
  <2>1. timers' \in Nat
    BY <1>7 DEF QueueHold, TimersAfterHold
  <2>2. next_send' \in Nat
    BY <1>7, ClampedType DEF QueueHold
  <2> QED BY <1>7, <2>1, <2>2 DEF QueueHold, env
<1>8. CASE FlushQueue BY <1>8 DEF FlushQueue, env, server_flush_queue
<1>9. CASE EndOfMotd BY <1>9 DEF EndOfMotd, env
<1>10. CASE Disconnect
  <2>1. outbound_queue' \in Seq(Entry) /\ sendq_len' \in Int
    BY <1>10 DEF Disconnect, server_flush_queue
  <2> QED BY <1>10, <2>1 DEF Disconnect, env, Entry
<1>11. CASE Free
  <2>1. outbound_queue' \in Seq(Entry) /\ sendq_len' \in Int
    BY <1>11 DEF Free, server_flush_queue
  <2> QED BY <1>11, <2>1 DEF Free, Entry
<1>12. CASE ToggleThrottle BY <1>12 DEF ToggleThrottle
<1>13. CASE Tick BY <1>13 DEF Tick
<1>14. CASE ClockBack BY <1>14 DEF ClockBack
<1>15. CASE UNCHANGED vars BY <1>15 DEF vars
<1> QED BY <1>1, <1>2, <1>3, <1>4, <1>5, <1>6, <1>7, <1>8, <1>9, <1>10, <1>11, <1>12,
           <1>13, <1>14, <1>15 DEF Next

-----------------------------------------------------------------------------
(* The order of the queue is preserved: QueueSend removes the first entry  *)
(* of its priority, and a new line goes to the end with a new number.      *)
LEMMA InOrderStep == TypeOK /\ TypeOK' /\ InOrder /\ [Next]_vars => InOrder'
<1> SUFFICES ASSUME TypeOK, TypeOK', InOrder, [Next]_vars PROVE InOrder'
  OBVIOUS
<1>q. /\ outbound_queue \in Seq(Entry) /\ nextId \in Nat /\ Len(outbound_queue) \in Nat
      /\ lastSent \in [Priorities -> Int]
  BY SMTT(30) DEF TypeOK, Entry
<1>e. \A i \in 1..Len(outbound_queue) :
         /\ outbound_queue[i] \in Entry /\ outbound_queue[i].id \in Nat
         /\ outbound_queue[i].pri \in Priorities
  <2>1. \A i \in 1..Len(outbound_queue) : outbound_queue[i] \in Entry
    BY <1>q, ElementOfSeq
  <2> QED BY <2>1 DEF Entry
<1>1. CASE UNCHANGED <<outbound_queue, nextId, lastSent>>
  BY <1>1 DEF InOrder
<1>2. CASE UNCHANGED <<outbound_queue, lastSent>> /\ nextId' = nextId + 1
  BY <1>2, <1>q, <1>e DEF InOrder
<1>3. CASE outbound_queue' = <<>> /\ UNCHANGED <<nextId, lastSent>>
  BY <1>3 DEF InOrder
<1>4. ASSUME NEW l \in Lines, SendQueued(l) PROVE InOrder'
  <2> DEFINE e == [id |-> nextId, pri |-> Priority(l), line |-> l]
             n == Len(outbound_queue)
  <2>1. e \in Entry
    BY <1>q, LinesAssumption, PriorityType DEF Entry
  <2>2. /\ outbound_queue' = Append(outbound_queue, e)
        /\ nextId' = nextId + 1 /\ lastSent' = lastSent
    BY <1>4 DEF SendQueued, Submit
  <2>3. e.id = nextId /\ e.pri \in Priorities
    BY PriorityType
  <2> HIDE DEF e
  <2>4. /\ Len(outbound_queue') = n + 1
        /\ \A i \in 1..n : outbound_queue'[i] = outbound_queue[i]
        /\ outbound_queue'[n + 1] = e
    BY <2>1, <2>2, <1>q
  <2>5. \A i \in 1..(n + 1) : i \in 1..n \/ i = n + 1
    BY <1>q
  <2>6. \A i, j \in 1..Len(outbound_queue') :
           i < j => outbound_queue'[i].id < outbound_queue'[j].id
    <3> SUFFICES ASSUME NEW i \in 1..(n + 1), NEW j \in 1..(n + 1), i < j
                 PROVE  outbound_queue'[i].id < outbound_queue'[j].id
      BY <2>4
    <3>1. i \in 1..n BY <1>q
    <3>2. CASE j \in 1..n BY <2>4, <3>1, <3>2 DEF InOrder
    <3>3. CASE j = n + 1 BY <2>3, <2>4, <3>1, <3>3 DEF InOrder
    <3> QED BY <2>5, <3>2, <3>3
  <2>7. \A i \in 1..Len(outbound_queue') :
           /\ outbound_queue'[i].id < nextId'
           /\ lastSent'[outbound_queue'[i].pri] < outbound_queue'[i].id
    BY <2>2, <2>3, <2>4, <2>5, <1>q, <1>e DEF InOrder
  <2>8. \A p \in Priorities : lastSent'[p] < nextId'
    BY <2>2, <1>q DEF InOrder
  <2> QED BY <2>6, <2>7, <2>8 DEF InOrder
<1>5. CASE QueueSend
  <2>1. PICK i \in 1..Len(outbound_queue) :
           /\ IsNext(i)
           /\ outbound_queue' = RemoveAt(outbound_queue, i)
           /\ lastSent' = [lastSent EXCEPT ![outbound_queue[i].pri] = outbound_queue[i].id]
    BY <1>5 DEF QueueSend
  <2> DEFINE n == Len(outbound_queue)
             src(k) == IF k < i THEN k ELSE k + 1
  <2>2. nextId' = nextId BY <1>5 DEF QueueSend
  <2>3. /\ Len(outbound_queue') = n - 1
        /\ \A k \in 1..(n - 1) : outbound_queue'[k] = outbound_queue[src(k)]
    BY <2>1, <1>q, RemoveAtFacts
  <2>4. \A k \in 1..(n - 1) : src(k) \in 1..n /\ src(k) # i
    BY <1>q
  <2>5. \A j, k \in 1..(n - 1) : j < k => src(j) < src(k)
    BY <1>q
  <2> HIDE DEF src
  <2>6. \A j, k \in 1..Len(outbound_queue') :
           j < k => outbound_queue'[j].id < outbound_queue'[k].id
    BY <2>3, <2>4, <2>5 DEF InOrder
  <2>7. ASSUME NEW k \in 1..n, k # i PROVE lastSent'[outbound_queue[k].pri] < outbound_queue[k].id
    <3>1. CASE outbound_queue[k].pri = outbound_queue[i].pri
      <4>1. i < k BY <2>1, <2>7, <3>1, <1>e DEF IsNext, Priorities
      <4> QED BY <2>1, <3>1, <4>1, <1>q, <1>e DEF InOrder
    <3>2. CASE outbound_queue[k].pri # outbound_queue[i].pri
      BY <2>1, <3>2, <1>q, <1>e DEF InOrder
    <3> QED BY <3>1, <3>2
  <2>8. \A k \in 1..Len(outbound_queue') :
           /\ outbound_queue'[k].id < nextId'
           /\ lastSent'[outbound_queue'[k].pri] < outbound_queue'[k].id
    BY <2>2, <2>3, <2>4, <2>7 DEF InOrder
  <2>9. \A p \in Priorities : lastSent'[p] < nextId'
    BY <2>1, <2>2, <1>q, <1>e DEF InOrder
  <2> QED BY <2>6, <2>8, <2>9 DEF InOrder
<1>6. ASSUME NEW l \in Lines, SendUnqueued(l) PROVE InOrder'
  BY <1>6, <1>2 DEF SendUnqueued, Submit
<1>7. ASSUME NEW b \in Bursts, SendMultiline(b) PROVE InOrder'
  BY <1>7, <1>2 DEF SendMultiline, Submit
<1>8. CASE TimerFires \/ QueueDone \/ QueueHold \/ EndOfMotd \/ ToggleThrottle \/ Tick
              \/ ClockBack \/ UNCHANGED vars
  BY <1>8, <1>1 DEF TimerFires, QueueDone, QueueHold, EndOfMotd, ToggleThrottle, Tick,
                    ClockBack, vars
<1>9. CASE FlushQueue \/ Disconnect \/ Free
  BY <1>9, <1>3 DEF FlushQueue, Disconnect, Free, server_flush_queue
<1> QED BY <1>4, <1>5, <1>6, <1>7, <1>8, <1>9 DEF Next

(* Somebody keeps looking after the queue. *)
LEMMA AttendedStep == TypeOK /\ Attended /\ [Next]_vars => Attended'
<1> SUFFICES ASSUME TypeOK, Attended, [Next]_vars PROVE Attended'
  OBVIOUS
<1>t. timers \in Nat /\ call \in {"none", "tcp_send_len", "timer"}
  BY DEF TypeOK
<1> USE DEF Attended
<1>1. ASSUME NEW l \in Lines, SendUnqueued(l) PROVE Attended'
  BY <1>1 DEF SendUnqueued, Submit, env
<1>2. ASSUME NEW l \in Lines, SendQueued(l) PROVE Attended'
  BY <1>2, <1>t DEF SendQueued, Submit, env, NoQueue
<1>3. ASSUME NEW b \in Bursts, SendMultiline(b) PROVE Attended'
  BY <1>3 DEF SendMultiline, Submit, env
<1>4. CASE TimerFires BY <1>4, <1>t DEF TimerFires, env
<1>5. CASE QueueSend BY <1>5, <1>t DEF QueueSend, env
<1>6. CASE QueueDone BY <1>6, <1>t DEF QueueDone, env
<1>7. CASE QueueHold BY <1>7, <1>t DEF QueueHold, env, TimersAfterHold
<1>8. CASE FlushQueue BY <1>8 DEF FlushQueue, env, server_flush_queue
<1>9. CASE EndOfMotd BY <1>9 DEF EndOfMotd, env
<1>10. CASE Disconnect BY <1>10 DEF Disconnect, env, server_flush_queue
<1>11. CASE Free BY <1>11 DEF Free, server_flush_queue
<1>12. CASE ToggleThrottle BY <1>12 DEF ToggleThrottle
<1>13. CASE Tick BY <1>13 DEF Tick
<1>14. CASE ClockBack BY <1>14 DEF ClockBack
<1>15. CASE UNCHANGED vars BY <1>15 DEF vars
<1> QED BY <1>1, <1>2, <1>3, <1>4, <1>5, <1>6, <1>7, <1>8, <1>9, <1>10, <1>11, <1>12,
           <1>13, <1>14, <1>15 DEF Next

(* next_send keeps accounting for what was sent. *)
LEMMA AccountedStep == TypeOK /\ Accounted /\ [Next]_vars => Accounted'
<1> SUFFICES ASSUME TypeOK, Accounted, [Next]_vars PROVE Accounted'
  OBVIOUS
<1>t. /\ now \in Nat /\ next_send \in Nat /\ spent \in Nat /\ epoch \in Nat
      /\ Clamped \in Nat /\ Clamped >= next_send
  BY ClampedType DEF TypeOK
<1>1. CASE UNCHANGED <<next_send, spent, epoch>>
  BY <1>1 DEF Accounted
<1>2. ASSUME NEW b \in Bursts, SendMultiline(b) PROVE Accounted'
  <2>1. Penalty(b) \in Nat BY BurstsAssumption, PenaltyType
  <2>2. next_send' = Clamped + Penalty(b) /\ spent' = spent + Penalty(b) /\ epoch' = epoch
    BY <1>2 DEF SendMultiline
  <2> QED BY <2>1, <2>2, <1>t DEF Accounted
<1>3. CASE QueueSend
  <2>1. PICK i \in 1..Len(outbound_queue) :
           /\ next_send' = (IF HeldBack THEN now ELSE Clamped)
                              + Penalty(outbound_queue[i].line.rest)
           /\ spent' = (IF HeldBack THEN 0 ELSE spent) + Penalty(outbound_queue[i].line.rest)
           /\ epoch' = IF HeldBack THEN now ELSE epoch
    BY <1>3 DEF QueueSend
  <2>2. Penalty(outbound_queue[i].line.rest) \in Nat
    <3>1. outbound_queue \in Seq(Entry) BY DEF TypeOK, Entry
    <3>2. outbound_queue[i] \in Entry BY <3>1, ElementOfSeq
    <3> QED BY <3>2, PenaltyType DEF Entry, LineType
  <2>3. CASE HeldBack
    <3>1. /\ next_send' = now + Penalty(outbound_queue[i].line.rest)
          /\ spent' = 0 + Penalty(outbound_queue[i].line.rest)
          /\ epoch' = now
      BY <2>1, <2>3, Zenon
    <3> QED BY <2>2, <3>1, <1>t DEF Accounted
  <2>4. CASE ~HeldBack
    <3>1. /\ next_send' = Clamped + Penalty(outbound_queue[i].line.rest)
          /\ spent' = spent + Penalty(outbound_queue[i].line.rest)
          /\ epoch' = epoch
      BY <2>1, <2>4, Zenon
    <3> QED BY <2>2, <3>1, <1>t DEF Accounted
  <2> QED BY <2>3, <2>4
<1>4. CASE QueueHold
  <2>1. next_send' = Clamped /\ spent' = spent /\ epoch' = epoch
    BY <1>4 DEF QueueHold
  <2> QED BY <2>1, <1>t DEF Accounted
<1>5. ASSUME NEW l \in Lines, SendUnqueued(l) \/ SendQueued(l) PROVE Accounted'
  BY <1>5, <1>1 DEF SendUnqueued, SendQueued
<1>6. CASE TimerFires \/ QueueDone \/ FlushQueue \/ EndOfMotd \/ Disconnect \/ Free
              \/ ToggleThrottle \/ Tick \/ ClockBack \/ UNCHANGED vars
  BY <1>6, <1>1 DEF TimerFires, QueueDone, FlushQueue, EndOfMotd, Disconnect, Free,
                    ToggleThrottle, Tick, ClockBack, vars
<1> QED BY <1>2, <1>3, <1>4, <1>5, <1>6 DEF Next

(* The priority is given once, and entries are only taken out. *)
LEMMA RankedStep == TypeOK /\ Ranked /\ [Next]_vars => Ranked'
<1> SUFFICES ASSUME TypeOK, Ranked, [Next]_vars PROVE Ranked'
  OBVIOUS
<1>1. outbound_queue \in Seq(Entry) BY DEF TypeOK, Entry
<1>2. ASSUME NEW l \in Lines, SendQueued(l) PROVE Ranked'
  <2> DEFINE e == [id |-> nextId, pri |-> Priority(l), line |-> l]
  <2>1. e.pri = Priority(e.line) OBVIOUS
  <2>2. outbound_queue' = Append(outbound_queue, e) BY <1>2 DEF SendQueued
  <2> HIDE DEF e
  <2>3. /\ Len(outbound_queue') = Len(outbound_queue) + 1
        /\ \A k \in 1..Len(outbound_queue) : outbound_queue'[k] = outbound_queue[k]
        /\ outbound_queue'[Len(outbound_queue) + 1] = e
    BY <1>1, <2>2
  <2>4. ASSUME NEW k \in 1..Len(outbound_queue')
        PROVE  outbound_queue'[k].pri = Priority(outbound_queue'[k].line)
    <3>1. CASE k = Len(outbound_queue) + 1 BY <2>1, <2>3, <3>1
    <3>2. CASE k # Len(outbound_queue) + 1
      <4>1. k \in 1..Len(outbound_queue) BY <1>1, <2>3, <3>2
      <4> QED BY <2>3, <4>1 DEF Ranked
    <3> QED BY <3>1, <3>2
  <2> QED BY <2>4 DEF Ranked
<1>3. CASE QueueSend
  <2>1. PICK i \in 1..Len(outbound_queue) : outbound_queue' = RemoveAt(outbound_queue, i)
    BY <1>3 DEF QueueSend
  <2>2. /\ Len(outbound_queue') = Len(outbound_queue) - 1
        /\ \A k \in 1..(Len(outbound_queue) - 1) :
              outbound_queue'[k] = IF k < i THEN outbound_queue[k] ELSE outbound_queue[k + 1]
    BY <1>1, <2>1, RemoveAtFacts
  <2>3. ASSUME NEW k \in 1..Len(outbound_queue')
        PROVE  outbound_queue'[k].pri = Priority(outbound_queue'[k].line)
    <3>1. k \in 1..Len(outbound_queue) /\ k + 1 \in 1..Len(outbound_queue)
      BY <1>1, <2>2
    <3> QED BY <2>2, <3>1 DEF Ranked
  <2> QED BY <2>3 DEF Ranked
<1>4. CASE FlushQueue \/ Disconnect \/ Free
  <2>1. outbound_queue' = <<>> BY <1>4 DEF FlushQueue, Disconnect, Free, server_flush_queue
  <2> QED BY <2>1 DEF Ranked
<1>5. CASE UNCHANGED outbound_queue BY <1>5 DEF Ranked
<1>6. ASSUME NEW l \in Lines, SendUnqueued(l) PROVE UNCHANGED outbound_queue
  BY <1>6 DEF SendUnqueued
<1>7. ASSUME NEW b \in Bursts, SendMultiline(b) PROVE UNCHANGED outbound_queue
  BY <1>7 DEF SendMultiline
<1>8. CASE \/ TimerFires \/ QueueDone \/ QueueHold \/ EndOfMotd \/ ToggleThrottle \/ Tick
           \/ ClockBack \/ UNCHANGED vars
  <2>1. UNCHANGED outbound_queue
    BY <1>8 DEF TimerFires, QueueDone, QueueHold, EndOfMotd, ToggleThrottle, Tick, ClockBack, vars
  <2> QED BY <1>5, <2>1
<1> QED BY <1>2, <1>3, <1>4, <1>5, <1>6, <1>7, <1>8 DEF Next

-----------------------------------------------------------------------------
(* IInv is inductive. *)
THEOREM Invariance == Spec => []IInv
<1>1. IInv /\ [Next]_vars => IInv'
  BY TypeStep, InOrderStep, AttendedStep, AccountedStep, RankedStep DEF IInv
<1> QED BY <1>1, InitInv, PTL DEF Spec

(* Every state has the types TypeOK gives it, for all lines and bounds; in *)
(* particular no timer is removed that was not installed.                  *)
THEOREM TypeCorrect == Spec => []TypeOK
<1>1. IInv => TypeOK BY DEF IInv
<1> QED BY <1>1, Invariance, PTL

(* A queued line is never left without a running tcp_send_queue or a       *)
(* timer: tcp_send_len's test for an empty queue installs enough timers.   *)
THEOREM AlwaysTimerPending == Spec => []TimerPending
<1>1. IInv => TimerPending BY DEF IInv, Attended, TimerPending
<1> QED BY <1>1, Invariance, PTL

(* What a step may do to lastSent: only QueueSend changes it, for the      *)
(* priority of the entry that leaves.                                      *)
LEMMA OnlyQueueSendSends ==
  ASSUME [Next]_vars, lastSent' # lastSent PROVE QueueSend
BY DEF Next, SendUnqueued, SendQueued, SendMultiline, TimerFires, QueueDone, QueueHold,
       FlushQueue, EndOfMotd, Disconnect, Free, ToggleThrottle, Tick, ClockBack, vars

(* Lines of one priority leave in submission order. *)
LEMMA FifoStep == IInv /\ [Next]_vars => [FifoPerPriority]_vars
<1> SUFFICES ASSUME IInv, [Next]_vars, NEW p \in Priorities
             PROVE  lastSent'[p] >= lastSent[p]
  BY DEF FifoPerPriority
<1>1. outbound_queue \in Seq(Entry) /\ lastSent \in [Priorities -> Int]
  BY DEF IInv, TypeOK, Entry
<1>2. CASE lastSent' = lastSent BY <1>1, <1>2
<1>3. CASE lastSent' # lastSent
  <2>1. PICK i \in 1..Len(outbound_queue) :
           lastSent' = [lastSent EXCEPT ![outbound_queue[i].pri] = outbound_queue[i].id]
    BY <1>3, OnlyQueueSendSends DEF QueueSend
  <2>2. outbound_queue[i] \in Entry BY <1>1, ElementOfSeq
  <2>3. outbound_queue[i].id \in Nat /\ outbound_queue[i].pri \in Priorities
    BY <2>2 DEF Entry
  <2> QED BY <1>1, <2>1, <2>3 DEF IInv, InOrder
<1> QED BY <1>2, <1>3

(* No line passes one of higher priority: the entry that leaves is the one *)
(* the nested loops of tcp_send_queue reach first.                         *)
LEMMA HighestFirstStep == IInv /\ [Next]_vars => [HighestFirst]_vars
<1> SUFFICES ASSUME IInv, [Next]_vars, NEW p \in Priorities, lastSent'[p] # lastSent[p],
                    NEW j \in 1..Len(outbound_queue)
             PROVE  outbound_queue[j].pri <= p
  BY DEF HighestFirst
<1>1. outbound_queue \in Seq(Entry) /\ lastSent \in [Priorities -> Int]
  BY DEF IInv, TypeOK, Entry
<1>2. PICK i \in 1..Len(outbound_queue) :
         /\ IsNext(i)
         /\ lastSent' = [lastSent EXCEPT ![outbound_queue[i].pri] = outbound_queue[i].id]
  BY OnlyQueueSendSends DEF QueueSend
<1>3. outbound_queue[i] \in Entry /\ outbound_queue[j] \in Entry BY <1>1, ElementOfSeq
<1>4. outbound_queue[i].pri \in Priorities /\ outbound_queue[j].pri \in Priorities
  BY <1>3 DEF Entry
<1>5. p = outbound_queue[i].pri BY <1>1, <1>2, <1>4
<1>6. \/ outbound_queue[j].pri < outbound_queue[i].pri
      \/ outbound_queue[j].pri = outbound_queue[i].pri
  BY <1>2 DEF IsNext
<1> QED BY <1>4, <1>5, <1>6 DEF Priorities

(* Chat without tags leaves after every line of the protocol: it has a     *)
(* lower priority, which no line passes.                                   *)
LEMMA ChatYieldsStep == IInv /\ [Next]_vars => [ChatYields]_vars
<1> SUFFICES ASSUME IInv, [Next]_vars, NEW i \in 1..Len(outbound_queue),
                    IsChat(outbound_queue[i].line), ~outbound_queue[i].line.tagged,
                    lastSent' # lastSent,
                    lastSent'[outbound_queue[i].pri] = outbound_queue[i].id,
                    NEW j \in 1..Len(outbound_queue),
                    outbound_queue[j].line.cmd = "other"
             PROVE  FALSE
  BY DEF ChatYields
<1>1. outbound_queue \in Seq(Entry) /\ lastSent \in [Priorities -> Int]
  BY DEF IInv, TypeOK, Entry
<1>2. PICK k \in 1..Len(outbound_queue) :
         /\ IsNext(k)
         /\ lastSent' = [lastSent EXCEPT ![outbound_queue[k].pri] = outbound_queue[k].id]
  BY OnlyQueueSendSends DEF QueueSend
<1>3. /\ outbound_queue[i] \in Entry /\ outbound_queue[j] \in Entry
      /\ outbound_queue[k] \in Entry
  BY <1>1, ElementOfSeq
<1>4. outbound_queue[i].pri = 1 /\ outbound_queue[j].pri = 2
  BY DEF IInv, Ranked, Priority, IsChat
<1>5. lastSent[outbound_queue[i].pri] < outbound_queue[i].id
  BY DEF IInv, InOrder
<1>6. outbound_queue[k].pri = outbound_queue[i].pri
  BY <1>1, <1>2, <1>3, <1>5, SMTT(30) DEF Entry
<1>7. outbound_queue[j].pri <= outbound_queue[k].pri
  BY <1>2, <1>3 DEF IsNext, Entry, Priorities
<1> QED BY <1>4, <1>6, <1>7

(* The order in which lines leave the queue, for all lines and bounds. *)
THEOREM AlwaysInOrder == Spec => LeavesInOrder
<1>1. IInv /\ [Next]_vars => [FifoPerPriority /\ HighestFirst /\ ChatYields]_vars
  BY FifoStep, HighestFirstStep, ChatYieldsStep
<1> QED BY <1>1, Invariance, PTL DEF Spec, LeavesInOrder

(* The flood limit holds at every send, whatever is queued, flushed, sent  *)
(* as a burst or done to the clock: next_send never lags behind the        *)
(* penalties spent since the last reset, and a line leaves only while      *)
(* next_send is less than ten seconds ahead.                               *)
THEOREM AlwaysFloodLimit == Spec => FloodLimit
<1>1. IInv /\ [Next]_vars =>
        [\A p \in Priorities : lastSent'[p] # lastSent[p] /\ ~(HeldBack /\ Skewed) =>
            spent < (now - epoch) + Ahead]_vars
  <2> SUFFICES ASSUME IInv, [Next]_vars, NEW p \in Priorities, lastSent'[p] # lastSent[p],
                      ~(HeldBack /\ Skewed)
               PROVE  spent < (now - epoch) + Ahead
    OBVIOUS
  <2>1. now \in Nat /\ next_send \in Nat /\ spent \in Nat /\ epoch \in Nat
    BY DEF IInv, TypeOK
  <2>2. ~HeldBack BY OnlyQueueSendSends DEF QueueSend
  <2>3. Clamped \in Nat /\ Clamped >= next_send BY ClampedType DEF IInv
  <2>4. Clamped - now < Ahead BY <2>1, <2>2, <2>3 DEF HeldBack, Ahead
  <2>5. epoch + spent <= next_send BY DEF IInv, Accounted
  <2> QED BY <2>1, <2>3, <2>4, <2>5 DEF Ahead
<1> QED BY <1>1, Invariance, PTL DEF Spec, FloodLimit
=============================================================================
