----------------------------- MODULE ChatHistory -----------------------------
(***************************************************************************)
(* draft/chathistory on one server (src/common/chathistory.c): the request *)
(* queue of a session, the catch-up after joining (LATEST for every        *)
(* channel, then BEFORE pages for the tab in front), batches processed in  *)
(* chunks from an idle callback, failures, tab switches, lost connections. *)
(*                                                                         *)
(* A target's messages are 1..last, and a message is its own msgid and     *)
(* timestamp.  Every session starts with DbOldest..DbNewest in its         *)
(* scrollback.  chathistory_start_background_fetch has no caller.          *)
(***************************************************************************)
EXTENDS Integers, Sequences, FiniteSets, SequencesExt

CONSTANTS SessList,      \* the sessions in the order of sess_list
          Dialogs,       \* those that are dialogs; the others are channels
          Scenarios,     \* what a behaviour may contain: see Scenario
          FuzzInterval,  \* CHATHISTORY_FUZZ_INTERVAL
          ChunkSize,     \* CHATHISTORY_CHUNK_SIZE
          StaleLimit,    \* all-duplicate pages that end a catch-up
          SanityLimit,   \* CHATHISTORY_SANITY_LIMIT
          FirstLast,     \* messages the server has at the start
          MaxLast,       \* bound: messages of a target
          MaxLost        \* bound: connections lost and channels left

Session == Range(SessList)
Channels == Session \ Dialogs
None == "none"

(* "scroll", "history": the user asks as well.  "fail": the server refuses *)
(* a request.  "forgets": the server no longer knows a msgid.  "end": it   *)
(* marks the oldest page.  "part": channels are left, and joined after the *)
(* others.  "close": a tab is closed during its catch-up.  "lost": the      *)
(* connection is lost.                                                     *)
AllFeatures == {"scroll", "history", "fail", "forgets", "end", "part", "close", "lost"}

(* The tabs there are at the start, the scrollback of each of them, the    *)
(* limit the server advertised (get_effective_limit), and what can happen. *)
Scenario == [tabs: SUBSET Session, scrollback: SUBSET (1..MaxLast), limit: 1..MaxLast,
             features: SUBSET AllFeatures]

ASSUME SessionAssumption == Dialogs \subseteq Session /\ None \notin Session
ASSUME LimitsAssumption == /\ FuzzInterval \in Nat /\ ChunkSize \in Nat \ {0}
                           /\ StaleLimit \in Nat /\ SanityLimit \in Nat
ASSUME BoundsAssumption == FirstLast \in Nat /\ MaxLast \in Nat /\ MaxLost \in Nat
ASSUME ScenariosAssumption == Scenarios \subseteq Scenario

VARIABLES scenario,  \* one of Scenarios; it does not change
          st,        \* the client: its server, its sessions, and what it sent
          last,      \* the newest message of each target
          lost       \* connections lost and channels left so far

vars == <<scenario, st, last, lost>>

Can(feature) == feature \in scenario.features

(* scrollback_get_oldest_msgid and scrollback_get_newest_msgid; 0 is none. *)
DbOldest == IF scenario.scrollback = {} THEN 0 ELSE Min(scenario.scrollback)
DbNewest == IF scenario.scrollback = {} THEN 0 ELSE Max(scenario.scrollback)

(* A chreq; "by" is the kind of its reference. *)
Request == [type: {"none", "latest", "before"}, by: {"*", "msgid", "timestamp"},
            ref: 0..MaxLast, priority: 0..2]
NoRequest == [type |-> "none", by |-> "*", ref |-> 0, priority |-> 0]
Garbage == [NoRequest EXCEPT !.type = "latest"]
CatchupPriority == 1
UserPriority == 2

(* A chathistory_chunk_state. *)
Chunk == [sess: Session, remaining: SUBSET (1..MaxLast), oldest: 1..MaxLast,
          count: 0..MaxLast, catchup: BOOLEAN, end: BOOLEAN]

SessionState ==
    [open: BOOLEAN, joined: BOOLEAN, active: Request, pending: Request, used_msgid: BOOLEAN,
     catchup: BOOLEAN, is_before: BOOLEAN, exhausted: BOOLEAN, stale: Nat, retrieved: Nat,
     lower_bound: 0..MaxLast, oldest: 0..MaxLast, known: SUBSET (1..MaxLast)]

(* A "targets" request has no session and no chreq. *)
Sent == [sess: Session \cup {None}, req: Request]

Client ==
    [connected: BOOLEAN, start_timer: BOOLEAN, before_timer: BOOLEAN, latest_pending: Nat,
     before_sess: Session \cup {None}, current: Session \cup {None},
     sess: [Session -> SessionState], chunks: Seq(Chunk), wire: Seq(Sent)]

TypeOK == /\ scenario \in Scenarios /\ st \in Client
          /\ last \in [Session -> 0..MaxLast] /\ lost \in 0..MaxLost

Init ==
    /\ scenario \in Scenarios
    /\ st = [connected |-> TRUE, start_timer |-> FALSE, before_timer |-> FALSE,
             latest_pending |-> 0, before_sess |-> None,
             current |-> SelectSeq(SessList, LAMBDA s : s \in scenario.tabs)[1],
             sess |-> [s \in Session |->
                [open |-> s \in scenario.tabs, joined |-> s \in Dialogs \cap scenario.tabs, 
                 active |-> NoRequest, pending |-> NoRequest, used_msgid |-> FALSE,
                 catchup |-> FALSE, is_before |-> FALSE, exhausted |-> FALSE, stale |-> 0,
                 retrieved |-> 0, lower_bound |-> 0, oldest |-> DbOldest,
                 known |-> scenario.scrollback]],
             chunks |-> <<>>, wire |-> <<>>]
    /\ last = [s \in Session |-> FirstLast] /\ lost = 0

-----------------------------------------------------------------------------
(* The request queue: one request is active, one may be pending. *)

loading(x) == x.active # NoRequest

same_request(a, b) == a.type = b.type /\ a.by = b.by /\ a.ref = b.ref

chathistory_dispatch_now(c, s, req) ==
    IF ~c.connected \/ ~c.sess[s].joined THEN c
    ELSE [c EXCEPT !.sess[s].active = req, !.sess[s].used_msgid = (req.by = "msgid"),
                   !.wire = Append(@, [sess |-> s, req |-> req])]

chathistory_submit(c, s, req) ==
    LET x == c.sess[s]
    IN IF same_request(x.active, req) \/ same_request(x.pending, req) THEN c
       ELSE IF ~loading(x) THEN chathistory_dispatch_now(c, s, req)
       ELSE IF x.pending = NoRequest \/ req.priority > x.pending.priority
            THEN [c EXCEPT !.sess[s].pending = req]
            ELSE c

chathistory_request_complete(c, s) ==
    LET done == [c EXCEPT !.sess[s].active = NoRequest, !.sess[s].pending = NoRequest]
        next == c.sess[s].pending
    IN IF next = NoRequest THEN done ELSE chathistory_dispatch_now(done, s, next)

(* chathistory_request_latest and chathistory_request_before. *)
request(c, s, type, by, ref) ==
    IF ~c.connected THEN c
    ELSE chathistory_submit(c, s, [type |-> type, by |-> by, ref |-> ref, priority |->
            IF c.sess[s].catchup THEN CatchupPriority ELSE UserPriority])

-----------------------------------------------------------------------------
(* Catching up. *)

finish_catchup(c, s) ==
    [c EXCEPT !.sess[s].catchup = FALSE, !.sess[s].is_before = FALSE,
              !.sess[s].stale = 0, !.sess[s].retrieved = 0,
              !.sess[s].oldest = IF DbOldest > 0 THEN DbOldest ELSE @,
              !.before_sess = IF @ = s THEN None ELSE @]

(* The reference of LATEST is what the scrollback ends with. *)
request_missed(c, s) ==
    IF DbNewest > 0 THEN request(c, s, "latest", "msgid", DbNewest)
    ELSE request(c, s, "latest", "*", 0)

chathistory_start_catchup(c, s) ==
    IF loading(c.sess[s]) \/ c.sess[s].catchup THEN c
    ELSE request_missed([c EXCEPT !.sess[s].catchup = TRUE], s)

send_deferred_latest(c, s) ==
    LET x == c.sess[s]
    IN IF \/ loading(x) \/ x.catchup \/ x.exhausted
          \/ s \in Dialogs \/ ~x.joined \/ ~x.open
       THEN c
       ELSE [request_missed(
               [c EXCEPT !.sess[s].catchup = TRUE, !.sess[s].is_before = FALSE,
                         !.sess[s].lower_bound = IF DbNewest > FuzzInterval
                                                 THEN DbNewest - FuzzInterval ELSE 0], s)
             EXCEPT !.latest_pending = @ + 1]

chathistory_check_before_catchup(c) ==
    LET b == c.before_sess
        t == c.current
        needed == /\ t # None /\ c.sess[t].catchup /\ ~c.sess[t].exhausted
                  /\ ~loading(c.sess[t])
        started == [c EXCEPT !.before_sess = t, !.sess[t].is_before = TRUE]
    IN IF ~c.connected \/ c.latest_pending > 0 \/ (b # None /\ loading(c.sess[b])) THEN c
       ELSE IF ~needed THEN [c EXCEPT !.before_sess = None]
       ELSE IF c.sess[t].oldest > 0 THEN request(started, t, "before", "msgid", c.sess[t].oldest)
       ELSE [finish_catchup(started, t) EXCEPT !.before_sess = None]

latest_done_Early(c) == chathistory_check_before_catchup([c EXCEPT !.latest_pending = 0])
latest_done_Unguarded(c) == [c EXCEPT !.latest_pending = @ - 1]
latest_done_Late(c) ==
    IF c.latest_pending > 0 THEN [c EXCEPT !.latest_pending = @ - 1]
    ELSE chathistory_check_before_catchup(c)

(* The last of the LATEST answers lets the pages begin. *)
latest_done(c) ==
    LET n == IF c.latest_pending > 0 THEN c.latest_pending - 1 ELSE 0
        d == [c EXCEPT !.latest_pending = n]
    IN IF n = 0 THEN chathistory_check_before_catchup(d) ELSE d

page_finishes(c, s) == chathistory_check_before_catchup(finish_catchup(c, s))

bridged_OffByPage(x, chunk) == x.exhausted \/ (x.lower_bound > 0 /\ chunk.oldest > x.lower_bound)

(* No older history, or the page reaches below the lower bound. *)
bridged(x, chunk) == x.exhausted \/ (x.lower_bound > 0 /\ chunk.oldest < x.lower_bound)

page_done(c, s, chunk) ==
    LET x == c.sess[s]
        stale == IF chunk.count = 0 THEN x.stale + 1 ELSE 0
        retrieved == x.retrieved + chunk.count
        going == [c EXCEPT !.sess[s].stale = stale, !.sess[s].retrieved = retrieved]
    IN IF bridged(x, chunk) THEN page_finishes(c, s)
       ELSE IF stale >= StaleLimit
            THEN page_finishes([c EXCEPT !.sess[s].exhausted = TRUE], s)
       ELSE IF retrieved >= SanityLimit THEN page_finishes(c, s)
       ELSE IF c.before_sess # s \/ c.current # s
            THEN chathistory_check_before_catchup([going EXCEPT !.before_sess = None])
       ELSE [going EXCEPT !.before_timer = TRUE]

finish_batch_processing(c, s, chunk) ==
    LET d == [chathistory_request_complete(c, s)
              EXCEPT !.sess[s].oldest = chunk.oldest,
                     !.sess[s].exhausted = @ \/ chunk.end]
    IN IF ~chunk.catchup THEN d
       ELSE IF d.sess[s].is_before THEN page_done(d, s, chunk)
       ELSE latest_done(d)

-----------------------------------------------------------------------------
(* Batches. *)

Newest(S, n) == {m \in S : Cardinality({k \in S : k > m}) < n}
Oldest(S, n) == {m \in S : Cardinality({k \in S : k < m}) < n}

(* Messages that are known already are not shown and not counted. *)
process_messages(c, chunk, msgs) ==
    <<[c EXCEPT !.sess[chunk.sess].known = @ \cup msgs,
                !.sess[chunk.sess].oldest = IF @ = 0 THEN chunk.oldest ELSE @],
      [chunk EXCEPT !.count = @ + Cardinality(msgs \ c.sess[chunk.sess].known),
                    !.remaining = @ \ msgs]>>

(* An unknown msgid is tried again as a timestamp. *)
retry_by_timestamp(c, s) == request(c, s, "latest", "timestamp", DbNewest)

empty_batch(c, s, end) ==
    LET x == c.sess[s]
        exhausted == x.exhausted \/ end
        d == [chathistory_request_complete(c, s) EXCEPT !.sess[s].exhausted = exhausted]
    IN IF ~x.catchup THEN [d EXCEPT !.sess[s].exhausted = TRUE]
       ELSE IF ~exhausted /\ x.used_msgid /\ DbNewest > 0 THEN retry_by_timestamp(d, s)
       ELSE latest_done(finish_catchup(d, s))

chathistory_process_batch(c, s, msgs, end) ==
    LET chunk == [sess |-> s, remaining |-> msgs,
                  oldest |-> CHOOSE m \in msgs : \A k \in msgs : m <= k, count |-> 0,
                  catchup |-> c.sess[s].catchup, end |-> end]
        done == process_messages(c, chunk, msgs)
    IN IF msgs = {} THEN empty_batch(c, s, end)
       ELSE IF Cardinality(msgs) <= ChunkSize THEN finish_batch_processing(done[1], s, done[2])
       ELSE [c EXCEPT !.chunks = Append(@, chunk)]

fail(c, s) ==
    LET x == c.sess[s]
        d == chathistory_request_complete(c, s)
    IN IF ~x.catchup THEN d
       ELSE IF x.used_msgid /\ DbNewest > 0 THEN retry_by_timestamp(d, s)
       ELSE finish_catchup(d, s)

-----------------------------------------------------------------------------
(* The answers to the requests, in the order in which they were sent, and  *)
(* what the client does with each.                                         *)

(* The messages a request asks for. *)
Asked(s, req) ==
    IF req.type = "latest" THEN Newest({m \in 1..last[s] : m > req.ref}, scenario.limit)
    ELSE Newest({m \in 1..last[s] : m < req.ref}, scenario.limit)

Answered == st.wire # <<>> /\ UNCHANGED <<scenario, last, lost>>
Received == [st EXCEPT !.wire = Tail(@)]

(* find_session_for_target finds no channel that was left or closed. *)
Found(s) == s # None /\ st.sess[s].open /\ st.sess[s].joined

ReadBatch ==
    /\ Answered
    /\ LET s == Head(st.wire).sess
           req == Head(st.wire).req
       IN /\ s # None
          /\ \E msgs \in {Asked(s, req)}
                \cup (IF Can("forgets") /\ req.by = "msgid" THEN {{}} ELSE {}) :
             \E end \in {FALSE} \cup (IF Can("end") /\ 1 \in msgs THEN {TRUE} ELSE {}) :
                st' = IF Found(s) THEN chathistory_process_batch(Received, s, msgs, end)
                      ELSE Received

(* The refusal names the target, or something else: then the first session *)
(* that waits for an answer is taken.                                      *)
chathistory_handle_fail ==
    /\ Answered /\ Can("fail")
    /\ LET s == Head(st.wire).sess
           waiting == {i \in DOMAIN SessList : /\ st.sess[SessList[i]].open
                                               /\ loading(st.sess[SessList[i]])}
           first == SessList[CHOOSE i \in waiting : \A j \in waiting : i <= j]
       IN \/ s # None /\ Found(s) /\ st' = fail(Received, s)
          \/ st' = IF waiting = {} THEN Received ELSE fail(Received, first)

(* The batch names dialogs with messages since the connection was lost. *)
chathistory_process_targets_batch ==
    /\ Answered /\ Head(st.wire).sess = None
    /\ \E named \in SUBSET {s \in Dialogs : st.sess[s].open} :
         st' = FoldLeft(chathistory_start_catchup, Received,
                        SelectSeq(SessList, LAMBDA s : s \in named))

(* One idle callback; several chunks take turns. *)
chunk_idle_cb ==
    /\ \E i \in DOMAIN st.chunks :
         LET chunk == st.chunks[i]
             done == process_messages(st, chunk, Oldest(chunk.remaining, ChunkSize))
         IN st' = IF done[2].remaining # {} THEN [done[1] EXCEPT !.chunks[i] = done[2]]
                  ELSE finish_batch_processing([done[1] EXCEPT !.chunks = RemoveAt(@, i)],
                                               chunk.sess, done[2])
    /\ UNCHANGED <<scenario, last, lost>>

-----------------------------------------------------------------------------
(* Timers. *)

chathistory_deferred_start_cb_FrontOnly ==
    /\ st.start_timer /\ st.current # None
    /\ st' = send_deferred_latest([st EXCEPT !.start_timer = FALSE, !.latest_pending = 0],
                                 st.current)
    /\ UNCHANGED <<scenario, last, lost>>

chathistory_deferred_start_cb ==
    /\ st.start_timer
    /\ LET c == [st EXCEPT !.start_timer = FALSE, !.latest_pending = 0]
           front == IF c.current = None THEN c ELSE send_deferred_latest(c, c.current)
           others == SelectSeq(SessList, LAMBDA s : s # c.current)
       IN st' = FoldLeft(send_deferred_latest, front, others)
    /\ UNCHANGED <<scenario, last, lost>>

chathistory_before_timer_cb ==
    /\ st.before_timer
    /\ st' = chathistory_check_before_catchup([st EXCEPT !.before_timer = FALSE])
    /\ UNCHANGED <<scenario, last, lost>>

-----------------------------------------------------------------------------
(* Channels and connections. *)

cancel_catchup_KeepsQueue(x) == [x EXCEPT !.catchup = FALSE]

chathistory_cancel_catchup(x) ==
    [x EXCEPT !.catchup = FALSE, !.active = NoRequest, !.pending = NoRequest]

clear_channel(x) == [chathistory_cancel_catchup(x) EXCEPT !.joined = FALSE]

(* Our own JOIN.  The server answered everything that was asked of it      *)
(* before.                                                                 *)
inbound_ujoin ==
    /\ st.connected
    /\ \E s \in Channels :
         /\ st.sess[s].open /\ ~st.sess[s].joined
         /\ \A i \in DOMAIN st.wire : st.wire[i].sess # s
         /\ \/ Can("part")
            \/ \A t \in Session : ~st.sess[t].catchup
         /\ st' = [st EXCEPT !.sess[s].joined = TRUE, !.start_timer = TRUE]
    /\ UNCHANGED <<scenario, last, lost>>

Part ==
    /\ Can("part") /\ st.connected /\ lost < MaxLost /\ lost' = lost + 1
    /\ \E s \in Channels : st.sess[s].joined /\ st' = [st EXCEPT !.sess[s] = clear_channel(@)]
    /\ UNCHANGED <<scenario, last>>

server_cleanup(c) ==
    [c EXCEPT !.connected = FALSE, !.start_timer = FALSE, !.before_timer = FALSE,
              !.latest_pending = 0, !.before_sess = None, !.wire = <<>>]

server_disconnect ==
    /\ Can("lost") /\ st.connected /\ lost < MaxLost /\ lost' = lost + 1
    /\ LET c == server_cleanup(st)
       IN st' = [c EXCEPT !.sess = [s \in Session |->
                    IF s \in Channels THEN clear_channel(c.sess[s]) ELSE c.sess[s]]]
    /\ UNCHANGED <<scenario, last>>

(* The next connection asks for the dialogs with missed messages. *)
Reconnect ==
    /\ ~st.connected
    /\ st' = [st EXCEPT !.connected = TRUE,
                        !.wire = <<[sess |-> None, req |-> NoRequest]>>]
    /\ UNCHANGED <<scenario, last, lost>>

(* A new message; a member of the channel sees it and knows its msgid. *)
NewMessage ==
    /\ \E s \in Session :
         /\ s \in scenario.tabs /\ last[s] < MaxLast /\ last' = [last EXCEPT ![s] = @ + 1]
         /\ st' = IF st.connected /\ st.sess[s].joined
                  THEN [st EXCEPT !.sess[s].known = @ \cup {last[s] + 1},
                                  !.sess[s].oldest = IF @ = 0 THEN last[s] + 1 ELSE @]
                  ELSE st
    /\ UNCHANGED <<scenario, lost>>

-----------------------------------------------------------------------------
(* The user. *)

chathistory_request_older ==
    /\ Can("scroll") /\ st.current # None
    /\ LET s == st.current
           x == st.sess[s]
       IN /\ ~x.exhausted /\ x.oldest > 0
          /\ st' = chathistory_submit(st, s, [type |-> "before", by |-> "msgid",
                                              ref |-> x.oldest, priority |-> UserPriority])
    /\ UNCHANGED <<scenario, last, lost>>

cmd_history ==
    /\ Can("history") /\ st.current # None
    /\ st' = request(st, st.current, "latest", "*", 0)
    /\ UNCHANGED <<scenario, last, lost>>

(* mg_switch_tab_cb; None is a tab of another server. *)
chathistory_notify_tab_switch ==
    /\ \E s \in Session \cup {None} :
         /\ s # st.current /\ (s # None => st.sess[s].open)
         /\ LET c == [st EXCEPT !.current = s]
            IN st' = IF s # None /\ c.before_sess # s /\ c.latest_pending = 0
                     THEN chathistory_check_before_catchup(c) ELSE c
    /\ UNCHANGED <<scenario, last, lost>>

(* The front end shows another tab before it closes this one.  Nothing     *)
(* resets chathistory_before_sess: what is read through it afterwards may  *)
(* look like a request in progress.                                        *)
session_free ==
    /\ \E s \in Session :
         /\ st.sess[s].open /\ st.current # s
         /\ Can("close") \/ ~st.sess[s].catchup
         /\ \E freed \in IF st.before_sess = s THEN {NoRequest, Garbage} ELSE {NoRequest} :
              st' = [st EXCEPT !.sess[s] = [clear_channel(@) EXCEPT !.open = FALSE,
                                                                   !.active = freed],
                               !.chunks = SelectSeq(@, LAMBDA k : k.sess # s)]
    /\ UNCHANGED <<scenario, last, lost>>

-----------------------------------------------------------------------------
Next == \/ ReadBatch \/ chathistory_handle_fail \/ chathistory_process_targets_batch
        \/ chunk_idle_cb \/ chathistory_deferred_start_cb \/ chathistory_before_timer_cb
        \/ inbound_ujoin \/ Part \/ server_disconnect \/ Reconnect \/ NewMessage
        \/ chathistory_request_older \/ cmd_history \/ chathistory_notify_tab_switch
        \/ session_free

Spec == Init /\ [][Next]_vars

(* The server answers, and the main loop runs idle callbacks and timers. *)
FairSpec ==
    /\ Spec
    /\ WF_vars(ReadBatch \/ chathistory_handle_fail \/ chathistory_process_targets_batch)
    /\ WF_vars(chunk_idle_cb)
    /\ WF_vars(chathistory_deferred_start_cb) /\ WF_vars(chathistory_before_timer_cb)

-----------------------------------------------------------------------------
(* Properties. *)

InFlight(s) == Cardinality({i \in DOMAIN st.wire : st.wire[i].sess = s})
InChunks(s) == Cardinality({i \in DOMAIN st.chunks : st.chunks[i].sess = s})

Never(S) == scenario.features \cap S = {}

(* Batches that take several idle callbacks; what is left of one goes on   *)
(* after the channel was left and joined again.                            *)
ChunksSurvive == scenario.limit > ChunkSize /\ ~Never({"part", "lost"})

(* A session that waits for an answer (history_loading) is waiting for     *)
(* exactly one: a request on its way, or a batch that is being processed.  *)
(* The queue of chathistory_submit is for that.  Not claimed when chunks   *)
(* survive or a refusal is taken for another session's, nor for a dialog   *)
(* when the connection is lost (server_disconnect resets channels only).   *)
OneAnswer ==
    Never({"fail"}) /\ ~ChunksSurvive =>
       \A s \in IF Can("lost") THEN Channels ELSE Session :
          st.sess[s].open /\ st.sess[s].joined =>
             InFlight(s) + InChunks(s) = IF loading(st.sess[s]) THEN 1 ELSE 0

(* No page of a channel's BEFORE catch-up is asked for until the LATEST    *)
(* requests of all the channels are answered.  The counter of              *)
(* chathistory_check_before_catchup also counts the answers to the user's  *)
(* requests, not the refusals, and starts again with a later JOIN.         *)
LatestFirst ==
    Never({"scroll", "history", "fail", "part"}) /\ ~ChunksSurvive =>
       \A s, t \in Channels :
          ~ /\ st.sess[s].is_before /\ st.sess[s].active.type = "before"
            /\ st.sess[t].catchup /\ ~st.sess[t].is_before
            /\ st.sess[t].active.type = "latest"

(* The requests of all the sessions follow one another: one at a time in a *)
(* session, LATEST before the pages (chathistory_submit,                   *)
(* chathistory_check_before_catchup).                                      *)
RequestsInOrder == OneAnswer /\ LatestFirst

(* A catch-up that ends on a connection that stays up leaves no message    *)
(* unknown between the scrollback and now (finish_batch_processing).  The  *)
(* user's requests move oldest_msgid, the cursor of the pages; a refusal,  *)
(* or a msgid the server forgot, ends the catch-up early.                  *)
NoGap ==
    Never({"scroll", "history", "fail", "forgets", "part"}) /\ ~ChunksSurvive =>
       \A s \in Session :
          /\ st.sess[s].catchup /\ ~st.sess[s].catchup'
          /\ st.connected' /\ st.sess[s].joined' /\ st.sess[s].open'
          => (DbNewest + 1)..last[s] \subseteq st.sess[s].known'

MissesMessages(s) ==
    /\ st.sess[s].open /\ st.sess[s].joined
    /\ ~((DbNewest + 1)..last[s] \subseteq st.sess[s].known)

(* When the deferred timer fires, every channel with missed messages is    *)
(* being caught up, but for one whose oldest message was reached before,   *)
(* on this or an earlier connection: send_deferred_latest skips those.  On *)
(* a first connection without user requests there are none.                *)
CatchupStarts ==
    chathistory_deferred_start_cb =>
       \A s \in Channels :
          MissesMessages(s) =>
             \/ st.sess[s].catchup' \/ loading(st.sess[s])'
             \/ /\ st.sess[s].exhausted
                /\ ~Never({"scroll", "history", "fail", "forgets", "part", "lost"})

(* Nothing of what was said meanwhile is missed: every channel is caught   *)
(* up, and to the end (chathistory_deferred_start_cb,                      *)
(* finish_batch_processing).                                               *)
NothingMissed == [][CatchupStarts /\ NoGap]_vars

(* The catch-up of the tab in front ends as long as it stays in front and  *)
(* its channel is not left, if the server answers every request and only   *)
(* the catch-up asks: chathistory_latest_pending is not lowered for a      *)
(* refusal or for a tab that is closed, and a LATEST answer marked as the  *)
(* end of history is followed neither by a page nor by finish_catchup.     *)
CatchupEnds ==
    \A s \in Session :
       /\ Never({"scroll", "history", "fail", "end", "part", "close"})
       /\ st.sess[s].catchup /\ st.current = s
       ~> ~st.sess[s].catchup \/ st.current # s
=============================================================================
