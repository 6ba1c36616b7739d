----------------------------- MODULE SendQueue -----------------------------
(***************************************************************************)
(* The outgoing line queue of one server connection (src/common/server.c): *)
(* tcp_send_len queues a line, tcp_send_queue sends what the flood budget  *)
(* allows, and a 500 ms timer sends the rest later.  A draft/multiline     *)
(* batch goes around the queue and pays for itself afterwards.             *)
(*                                                                         *)
(* tcp_send_queue is a loop inside one callback of the single-threaded     *)
(* main loop.  It is modelled one iteration per step; while `call' says    *)
(* that the loop runs, nothing else can step, so the callback is atomic.   *)
(***************************************************************************)
EXTENDS Integers, Sequences, SequencesExt

CONSTANTS Lines,      \* the lines that may be sent, see LineType
          Bursts,     \* the sizes in bytes that a multiline batch may have
          MaxLines,   \* bound: lines submitted in one behaviour
          MaxNow,     \* bound: the clock's last second
          LastSubmit, \* bound: the last second at which a line is submitted
          MaxSkews    \* bound: how often the wall clock is set back

Commands == {"PRIVMSG", "NOTICE", "WHO", "CHATHISTORY", "MODE?", "MODE", "other"}

(* A line: its command ("MODE?" is a query, "MODE" a change), whether an   *)
(* "@..." tag block precedes the command, its length, and the length of    *)
(* the part that starts at its first space.                                *)
LineType == [cmd: Commands, tagged: BOOLEAN, len: Nat, rest: Nat]

ASSUME LinesAssumption == Lines \subseteq LineType
ASSUME BurstsAssumption == Bursts \subseteq Nat
ASSUME BoundsAssumption ==
    /\ MaxLines \in Nat /\ MaxNow \in Nat /\ MaxSkews \in Nat
    /\ LastSubmit \in Nat

VARIABLES
    now,            \* time (0)
    throttle,       \* prefs.hex_net_throttle
    alive,          \* is_server: the server is still in serv_list
    end_of_motd,    \* serv->end_of_motd
    outbound_queue, \* serv->outbound_queue: entries [id, pri, line]
    sendq_len,      \* serv->sendq_len
    next_send,      \* serv->next_send
    prev_now,       \* serv->prev_now
    timers,         \* how many 500 ms tcp_send_queue timers are installed
    call,           \* who called the running tcp_send_queue, or "none"
    noqueue,        \* the local of the tcp_send_len that called it
    skews,          \* how often the clock has been set back
    nextId,         \* history: number of the next submitted line
    lastSent,       \* history: per priority, the last line that left the queue
    spent,          \* history: penalty of all lines and batches since `epoch'
    epoch           \* history: when next_send was last reset for clock skew

env == <<now, throttle, alive, skews>>
vars == <<now, throttle, alive, end_of_motd, outbound_queue, sendq_len, next_send,
          prev_now, timers, call, noqueue, skews, nextId, lastSent, spent, epoch>>

Priorities == 0..2

MaxOf(a, b) == IF a < b THEN b ELSE a

(* Not in the code: only a NOTICE is chat. *)
Priority_NoticeOnly(l) ==
    IF l.cmd = "NOTICE" /\ ~l.tagged THEN 1
    ELSE IF (l.cmd \in {"WHO", "MODE?"} /\ ~l.tagged) \/ l.cmd = "CHATHISTORY" THEN 0
    ELSE 2

(* The priority byte.  The tests look at the first bytes of the line, so a *)
(* tag block hides every command but CHATHISTORY.                          *)
Priority(l) ==
    IF l.cmd \in {"PRIVMSG", "NOTICE"} /\ ~l.tagged THEN 1
    ELSE IF (l.cmd \in {"WHO", "MODE?"} /\ ~l.tagged) \/ l.cmd = "CHATHISTORY" THEN 0
    ELSE 2

(* The penalty in seconds that a line of this length adds to next_send. *)
Penalty(bytes) == 2 + bytes \div 120

(* A line is held back when next_send is this many seconds ahead. *)
Ahead == 10

TypeOK ==
    /\ now \in Nat /\ throttle \in BOOLEAN /\ alive \in BOOLEAN
    /\ end_of_motd \in BOOLEAN
    /\ outbound_queue \in Seq([id: Nat, pri: Priorities, line: LineType])
    /\ sendq_len \in Int /\ next_send \in Nat /\ prev_now \in Nat
    /\ timers \in Nat /\ call \in {"none", "tcp_send_len", "timer"}
    /\ noqueue \in BOOLEAN /\ skews \in Nat /\ nextId \in Nat
    /\ lastSent \in [Priorities -> Int] /\ spent \in Nat /\ epoch \in Nat

Init ==
    /\ now = 0 /\ throttle = TRUE /\ alive = TRUE /\ end_of_motd = FALSE
    /\ outbound_queue = <<>> /\ sendq_len = 0
    /\ next_send = 0 /\ prev_now = 0
    /\ timers = 0 /\ call = "none" /\ noqueue = FALSE /\ skews = 0
    /\ nextId = 0 /\ lastSent = [p \in Priorities |-> -1]
    /\ spent = 0 /\ epoch = 0

-----------------------------------------------------------------------------
Submit ==
    /\ call = "none" /\ alive
    /\ nextId < MaxLines /\ now <= LastSubmit
    /\ nextId' = nextId + 1

(* tcp_send_len without the throttle, or before the end of the MOTD: the   *)
(* line goes to the socket at once and leaves the queue alone.             *)
SendUnqueued(l) ==
    /\ Submit
    /\ ~throttle \/ ~end_of_motd
    /\ UNCHANGED <<env, end_of_motd, outbound_queue, sendq_len, next_send, prev_now,
                   timers, call, noqueue, lastSent, spent, epoch>>

NoQueue_AfterAppend == FALSE

(* tcp_send_len looks at the queue before it appends its line. *)
NoQueue == outbound_queue = <<>>

(* tcp_send_len with the throttle: append, then run tcp_send_queue. *)
SendQueued(l) ==
    /\ Submit
    /\ throttle /\ end_of_motd
    /\ noqueue' = NoQueue
    /\ outbound_queue' =
          Append(outbound_queue, [id |-> nextId, pri |-> Priority(l), line |-> l])
    /\ sendq_len' = sendq_len + l.len
    /\ call' = "tcp_send_len"
    /\ UNCHANGED <<env, end_of_motd, next_send, prev_now, timers, lastSent, spent, epoch>>

(* The timer runs tcp_send_queue; for a freed server it only goes away. *)
TimerFires ==
    /\ call = "none" /\ timers > 0
    /\ \/ alive /\ call' = "timer" /\ timers' = timers
       \/ ~alive /\ call' = call /\ timers' = timers - 1
    /\ UNCHANGED <<env, end_of_motd, outbound_queue, sendq_len, next_send, prev_now,
                   noqueue, nextId, lastSent, spent, epoch>>

-----------------------------------------------------------------------------
(* The entry the nested loops reach next: the first of the highest priority. *)
IsNext(i) ==
    /\ i \in 1..Len(outbound_queue)
    /\ \A j \in 1..Len(outbound_queue) :
          \/ outbound_queue[j].pri < outbound_queue[i].pri
          \/ outbound_queue[j].pri = outbound_queue[i].pri /\ i <= j

Clamped == MaxOf(next_send, now)
HeldBack_OffByOne == Clamped - now > Ahead
HeldBack == Clamped - now >= Ahead
Skewed == now < prev_now

SentBytes(l) == l.len

(* One line leaves: budget check with the clock-skew reset, penalty, send. *)
QueueSend ==
    /\ call # "none"
    /\ HeldBack => Skewed
    /\ \E i \in 1..Len(outbound_queue) :
          LET e == outbound_queue[i]
              base == IF HeldBack THEN now ELSE Clamped
              cost == Penalty(e.line.rest)
          IN /\ IsNext(i)
             /\ next_send' = base + cost
             /\ sendq_len' = sendq_len - SentBytes(e.line)
             /\ prev_now' = now
             /\ outbound_queue' = RemoveAt(outbound_queue, i)
             /\ lastSent' = [lastSent EXCEPT ![e.pri] = e.id]
             /\ spent' = (IF HeldBack THEN 0 ELSE spent) + cost
             /\ epoch' = IF HeldBack THEN now ELSE epoch
    /\ UNCHANGED <<env, end_of_motd, timers, call, noqueue, nextId>>

TimersAfterDone_Always == timers - 1
TimersAfterDone == IF call = "timer" THEN timers - 1 ELSE timers

(* tcp_send_queue returns 0: the queue is empty and a timer is removed. *)
QueueDone ==
    /\ call # "none"
    /\ outbound_queue = <<>>
    /\ timers' = TimersAfterDone
    /\ call' = "none"
    /\ UNCHANGED <<env, end_of_motd, outbound_queue, sendq_len, next_send, prev_now,
                   noqueue, nextId, lastSent, spent, epoch>>

TimersAfterHold_TimerEnds == IF call = "timer" THEN timers - 1 ELSE timers + 1
TimersAfterHold == IF call = "tcp_send_len" /\ noqueue THEN timers + 1 ELSE timers

(* tcp_send_queue returns 1: a timer stays, and tcp_send_len installs one  *)
(* if the queue was empty before its line.                                 *)
QueueHold ==
    /\ call # "none"
    /\ outbound_queue # <<>> /\ HeldBack /\ ~Skewed
    /\ next_send' = Clamped
    /\ timers' = TimersAfterHold
    /\ call' = "none"
    /\ UNCHANGED <<env, end_of_motd, outbound_queue, sendq_len, prev_now, noqueue,
                   nextId, lastSent, spent, epoch>>

-----------------------------------------------------------------------------
(* handle_multiline_batch: everything between tcp_batch_open_multiline and *)
(* tcp_batch_close goes to the socket at once; the close adds the penalty. *)
SendMultiline(bytes) ==
    /\ Submit
    /\ next_send' = Clamped + Penalty(bytes)
    /\ spent' = spent + Penalty(bytes)
    /\ UNCHANGED <<env, end_of_motd, outbound_queue, sendq_len, prev_now, timers, call,
                   noqueue, lastSent, epoch>>

server_flush_queue ==
    /\ outbound_queue' = <<>>
    /\ sendq_len' = 0

(* /flushq *)
FlushQueue ==
    /\ call = "none" /\ alive
    /\ server_flush_queue
    /\ UNCHANGED <<env, end_of_motd, next_send, prev_now, timers, call, noqueue,
                   nextId, lastSent, spent, epoch>>

(* 376 or 422: logged in *)
EndOfMotd ==
    /\ call = "none" /\ alive /\ ~end_of_motd
    /\ end_of_motd' = TRUE
    /\ UNCHANGED <<env, outbound_queue, sendq_len, next_send, prev_now, timers, call,
                   noqueue, nextId, lastSent, spent, epoch>>

(* server_disconnect, and server_connect to another server: the queue goes *)
(* but next_send, prev_now and the timers stay.                            *)
Disconnect ==
    /\ call = "none" /\ alive /\ end_of_motd
    /\ end_of_motd' = FALSE
    /\ server_flush_queue
    /\ UNCHANGED <<env, next_send, prev_now, timers, call, noqueue, nextId, lastSent,
                   spent, epoch>>

(* server_free: the timers outlive the server. *)
Free ==
    /\ call = "none" /\ alive
    /\ alive' = FALSE
    /\ end_of_motd' = FALSE
    /\ server_flush_queue
    /\ UNCHANGED <<now, throttle, skews, next_send, prev_now, timers, call, noqueue,
                   nextId, lastSent, spent, epoch>>

(* /set net_throttle *)
ToggleThrottle ==
    /\ call = "none" /\ now <= LastSubmit
    /\ throttle' = ~throttle
    /\ UNCHANGED <<now, alive, skews, end_of_motd, outbound_queue, sendq_len, next_send,
                   prev_now, timers, call, noqueue, nextId, lastSent, spent, epoch>>

Tick ==
    /\ call = "none" /\ now < MaxNow
    /\ now' = now + 1
    /\ UNCHANGED <<throttle, alive, skews, end_of_motd, outbound_queue, sendq_len,
                   next_send, prev_now, timers, call, noqueue, nextId, lastSent, spent,
                   epoch>>

(* The wall clock is set back. *)
ClockBack ==
    /\ call = "none" /\ skews < MaxSkews
    /\ \E t \in 0..(now - 1) : now' = t
    /\ skews' = skews + 1
    /\ UNCHANGED <<throttle, alive, end_of_motd, outbound_queue, sendq_len, next_send,
                   prev_now, timers, call, noqueue, nextId, lastSent, spent, epoch>>

Next ==
    \/ \E l \in Lines : SendUnqueued(l) \/ SendQueued(l)
    \/ \E b \in Bursts : SendMultiline(b)
    \/ TimerFires \/ QueueSend \/ QueueDone \/ QueueHold
    \/ FlushQueue \/ EndOfMotd \/ Disconnect \/ Free \/ ToggleThrottle
    \/ Tick \/ ClockBack

Spec == Init /\ [][Next]_vars

(* The main loop runs what is due; the clock goes on whatever the program  *)
(* does (strongly fair: Tick is disabled while a callback runs).           *)
Fairness ==
    /\ WF_vars(QueueSend \/ QueueDone \/ QueueHold)
    /\ WF_vars(TimerFires)
    /\ SF_vars(Tick)

FairSpec == Spec /\ Fairness

-----------------------------------------------------------------------------
(* A line in the queue always has somebody who will look at it again: a    *)
(* tcp_send_queue that runs now, or a timer.  tcp_send_len installs a      *)
(* timer only when it found the queue empty, and a timer that finds the    *)
(* queue empty removes itself, so this depends on the two agreeing.        *)
TimerPending ==
    (outbound_queue # <<>> /\ call = "none") => timers > 0

(* The flood limit: whenever a line leaves the queue (unless the clock was *)
(* set back and tcp_send_queue resets the budget), the penalties of all    *)
(* that was sent before it exceed the time that has passed since the last  *)
(* reset by less than ten seconds.                                         *)
FloodLimit ==
    [][\A p \in Priorities : lastSent'[p] # lastSent[p] /\ ~(HeldBack /\ Skewed) =>
          spent < (now - epoch) + Ahead]_vars

IsChat(l) == l.cmd \in {"PRIVMSG", "NOTICE"}

(* Lines of one priority leave in the order they were submitted. *)
FifoPerPriority == \A p \in Priorities : lastSent'[p] >= lastSent[p]

(* No line leaves while one of higher priority waits. *)
HighestFirst ==
    \A p \in Priorities : lastSent'[p] # lastSent[p] =>
        \A i \in 1..Len(outbound_queue) : outbound_queue[i].pri <= p

(* "privmsg and notice get a lower priority": no chat line leaves while a  *)
(* protocol line such as a PONG waits.  A tag block, as labeled-response   *)
(* adds it, hides the command from the test.                               *)
ChatYields ==
    \A i, j \in 1..Len(outbound_queue) :
        /\ IsChat(outbound_queue[i].line) /\ ~outbound_queue[i].line.tagged
        /\ lastSent' # lastSent /\ lastSent'[outbound_queue[i].pri] = outbound_queue[i].id
        => outbound_queue[j].line.cmd # "other"

(* The order in which lines leave the queue, across flushes, disconnects   *)
(* and timers: by priority, in the order of submission, and chat after the *)
(* protocol (tcp_send_len, tcp_send_queue).                                *)
LeavesInOrder == [][FifoPerPriority /\ HighestFirst /\ ChatYields]_vars

(* What is queued does not wait for ever: every line is sent or flushed. *)
QueueDrains == (outbound_queue # <<>>) ~> (outbound_queue = <<>>)
=============================================================================
