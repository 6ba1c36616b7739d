# HexChat in TLA+

A verification development for the engine of this HexChat fork
(`src/common/`): TLA+ modules of its connection handling, of the IRCv3 machinery
and the channels on top of it, of file transfers and of the plugin interface; TLC
configurations that check them on small instances; and TLAPS proofs of the main
safety properties for every instance.

HexChat is a single-threaded program around a GLib main loop. Every state change
happens in a callback: a socket watch, a timer, an idle callback, an answer to an
HTTP request, or a command of the user. What is hard is therefore not shared
memory but *order*: which callbacks are still installed when the state they were
installed for is gone, which answers arrive after their question was withdrawn,
and what a second connection inherits from the first. One `server` structure
lives through many connections and most of its fields are reset by hand, in
`server_cleanup`, `server_set_defaults` or nowhere.

## 1. The system and its parts

| Part (source) | State | Operations | Talks to | What makes it correct |
|---|---|---|---|---|
| Outgoing queue (`server.c`) | `outbound_queue`, `sendq_len`, `next_send`, `prev_now`, 500 ms timers | `tcp_send_len`, `tcp_send_queue`, flush, multiline bursts | everybody who writes a line; the clock | no line without a timer, FIFO per priority, flood limit, everything drains |
| Connection (`server.c`, `servlist.c`) | `connecting`, `connected`, `end_of_motd`, watches and tags, child process, reconnect timers, token refresh | `/server`, `/reconnect`, `/discon`, child and TLS answers, `server_read`, `auto_reconnect`, `servlist_cycle` | child process, OpenSSL, main loop, OAuth client | flags agree with installed sources, a disconnect stays one, a loss is retried |
| CAP, SASL, STS (`inbound.c`, `proto-irc.c`) | `have_*`, `waiting_on_cap`, `waiting_on_sasl`, `sent_capend`, SCRAM session, STS policy and port | CAP LS/ACK/NAK/NEW/DEL, AUTHENTICATE, 903 to 907, token refresh | IRC server, OAuth client, Connection (STS upgrade) | registers exactly once, not inside an exchange, over TLS where the policy asks for it |
| Labels, local echo, batches (`server.c`, `inbound.c`, `proto-irc.c`, `outbound.c`) | `pending_labels`, `active_batches`, sweep timer, pending text entries | labelled sends, echo, ACK, BATCH start/line/end, stale sweep | IRC server, front end | every message shown once and confirmed, tables do not grow |
| Chat history (`chathistory.c`) | per session an active and a pending request, catch-up state, cursor, `history_exhausted`; per server a count of LATEST requests and the session that pages | joins, LATEST, BEFORE pages, batches in chunks, FAIL, TARGETS, scrolling, tab switches | IRC server, scrollback store, idle callbacks and timers | one answer per request, no gap, the catch-up starts and ends |
| Channels and rejoining (`inbound.c`, `hexchat.c`, `outbound.c`, `server.c`) | per tab `channel`, `waitchannel`, `willjoinchannel`, `end_of_names`; `joindelay_tag` | `/join`, `/part`, `/cycle`, closing; JOIN, PART, KICK, NAMES; login, loss | Connection, Chat history | tabs and server agree; what was open is joined again, what was left is not |
| DCC (`dcc.c`) | `dcc_list`, per entry status, offsets, acks, watches, throttling; two speed sums, a one-second timer | offer, accept, proxy handshakes, send, ack, resume, chat, abort, timeout | peers, proxies, files | a file is a beginning of the one offered; done means received; what waits is watched, no watch outlives its transfer |
| Plugin interface (`plugin.c`, `plugin-timer.c`) | `hook_list`, deleted marks, timers, `plugin_list`, `timer_list` | hook, unhook, load, unload, emit, `/TIMER` | every text event, server line and command | nothing freed is used, each hook is called once and by priority, a removed one not at all |
| Notify list (`notify.c`) | per nick and server: online, last seen | ISON, WATCH, MONITOR answers | IRC server | online marks follow the server after a reconnect |
| User list (`userlist.c`, `tree.c`) | a channel's users, a search tree | NAMES, join, part, rename, mode | channels | the users the server has on the channel |
| Ignore and flood (`ignore.c`, `ctcp.c`) | masks, counters | match, count | inbound messages | limits at their boundary |
| Mode lines (`modes.c`) | none that lasts | splitting and parsing | channels | no line longer than the server's limit |
| Apple runtime (`src/fe-apple`) | engine thread, start and stop states | start, stop, post, callbacks | Swift shell | no event after stop |
| Stores, settings, text events, logging, icons, identd, front ends, bundled plugins | files, pictures, widgets | | | I/O; not modelled |

`PROJECT.json` lists all of these under `components` with what is and what is not
modelled, and under `hazards` the places in the code where something hard to test
can go wrong, each with the properties that watch it.

## 2. The modules

| Module | Models |
|---|---|
| `SendQueue`, `MCSendQueue`, `SendQueueProofs` | the outgoing queue, its instances, its proofs |
| `Connection`, `MCConnection`, `ConnectionProofs` | one `server` structure from `/server` to `server_free` |
| `CapNegotiation`, `MCCapNegotiation`, `CapNegotiationProofs` | negotiation on the successive connections of one server |
| `Labels`, `MCLabels`, `LabelsProofs` | labels, pending entries and batches |
| `ChatHistory`, `MCChatHistory` | the chat history of the sessions of one server |
| `Channels`, `MCChannels`, `ChannelsProofs` | the channel tabs of two servers, their members, and rejoining |
| `FileCopy` | abstract: what a file transfer promises |
| `DccTransfer`, `MCDccTransfer`, `DccTransferProofs` | a file sent by DCC, both clients; implements `FileCopy` |
| `DccList`, `MCDccList`, `DccListProofs` | the DCC entries of one client with their watches, proxies and limits |
| `PluginHooks`, `MCPluginHooks`, `PluginHooksProofs` | the hook list while callbacks change it, plugins and `/TIMER` |

Conventions:

* A C function that works on the `server` structure is an operator from a record
  to a record under its own name (`server_cleanup(s)`); an action is one callback
  of the main loop. Calls compose as in the code, so an action contains
  everything the handler does. `SendQueue` and `Labels`, whose functions touch
  few fields, use one variable per field instead.
* Definitions named `X_Something` next to `X` are plausible mistakes in `X`. No
  specification uses them; a check puts one in the place of `X` and expects a
  property to fail.
* Variables and fields marked *history* are not in the program; they record what
  a property has to speak about.
* Properties about the same thing are parts of one that is checked; the parts have
  names and comments of their own (`NothingStale` is the conjunction of
  `OneReconnectTimer`, `TagIsInstalled`, and so on).

### SendQueue

`tcp_send_len` appends a line and runs `tcp_send_queue`, a loop that sends what
the ten-second flood budget allows; a 500 ms timer runs it again. The loop is
modelled one iteration per step (`QueueSend`, `QueueDone`, `QueueHold`); while
`call` says that it runs no other step is possible, so the callback is atomic.
A line is its command, its length and whether a tag block stands in front of it,
which is all that the priority test and the penalty look at. `Penalty` and
`Ahead` have the code's numbers. `SendMultiline` goes around the queue and pays
afterwards. `ClockBack` is the wall clock being set back, which `prev_now`
detects. `Disconnect` and `Free` flush the queue but leave the timers.

### Connection

`serv` has the flags, the tags of the installed sources and, as sets, the
reconnect timers that exist: `recondelay_tag` is a number that may or may not
name one of them. A child process answers once (`ChildFailed`, `ChildSuccess`,
`ChildProxyFailed`), the TLS handshake likewise. `server_read` is taken line by
line (`ReadStart` ... `ReadBlocks`), since a handled line can replace the
connection it was read from; then `reading` is `"old"`. Timers with the short
delay of `/reconnect` may overtake longer ones (`Due`). Names resolved, bytes
sent and the choice of a server in a network are left out.

### CapNegotiation

The client's handlers write lines to `serv.out`; the IRC server (`Ircd...`, not
part of this repository) answers them in order and may refuse, abort, add and
withdraw. Connecting is one step here. `Caps` has one capability with an exchange
(`sasl`), one whose flag `server_set_defaults` clears (`server-time`) and one
whose flag it forgets (`labeled-response`). Mechanisms differ in how many steps
they take and in the state they keep, so all five login methods are there; the
bytes and the cryptography are not.

### Labels

A label stands for the message it was sent with. `screen` says how often its text
is shown and whether it is dimmed. Time is counted in sweep intervals, as ages of
labels and batches capped above their timeout, so that no clock grows. Between
the display of a message and `mark_pending_echo` the text event runs plugin
hooks; one that sends a command takes a label of its own, and the entry of the
message is then filed under that (feature `"hook"`).

### ChatHistory

A target's messages are `1..last`, a message is its own msgid and timestamp. The
client `st` has the sessions, the chunks that wait for an idle callback and
`wire`, the requests that the server has not answered; the server (not part of
this repository) answers in order, one batch or refusal each. The scrollback
store is a set of messages. A tab that is closed while
`chathistory_before_sess` points to it leaves that pointer dangling; what is read
through it is a free choice (`session_free`).

### Channels

`tabs` is `sess_list` as far as channels go: for each tab the channel it is on, the
one it waits for and the one it is to join. The user's commands and the answers of
the IRC server (not part of this repository) are separate steps with ordered lines
between them (`out`, `inq`), so commands cross kicks, refusals and losses.
`auto_reconnect`, `clear_channel` and `AutoJoin` are the loops over tabs that
rejoining consists of. The history variable `want` is what the user has asked for:
joined or favourite, not left, not closed, not refused, and not kicked from without
automatic rejoining. Each server has its own bans. A mark (`willjoinchannel`) stands
for a wanted channel until the login that uses it (`Ready`, `Marks`); the marks that
`auto_reconnect` leaves on the tabs of the other server, which is logged in, stand for
nothing. `Orderly` names the combinations of features in which what the user
wants is always clear, and `OnWanted` is about those. The user list of a tab is a set of nicks; the first NAMES line
after an end of names clears it.

### FileCopy and DccTransfer

`FileCopy` is the promise: a copy starts with nothing or with a part that
is there, only grows by the blocks that come next, and either end calls it done
only when it is whole. `DccTransfer` has the two clients of a DCC SEND with the
messages between them (SEND, RESUME, ACCEPT, the second SEND of a passive
transfer), the TCP stream of at most `SockBuf` blocks, the acknowledgements modulo
2^32 (`AckMod`), throttled watches, timeouts, aborts and a full disk. A second
person may offer the same file into the same directory. The refinement mapping
takes the receiver's file, whether it has opened it, and the two statuses.

### DccList

Where `DccTransfer` follows one file, this module has all entries of one client:
files and chats, offered and received, through the four kinds of proxy. For each it
keeps the two watches by the name of their callback, whether a socket is open, the
throttling flags and the speed. `Fire` runs the callback of a watch with any of its
outcomes. The timer `dcc_check_timeouts` walks the list one entry per step
(`Visit`), since a text event in between can run a plugin hook that removes
entries; when it does, `walk` may name a freed one.

### PluginHooks

`p` has the hook list, the hooks that are marked deleted, the sources of the main
loop, the plugins and a call stack: one frame per `plugin_hook_run` or
`plugin_timeout_cb` whose callback is running, with where the walk will go on.
Callbacks add and remove hooks, cause further events, close the tab, unload
plugins, and return with any of the codes. What is touched after it was freed is
recorded in the history field `used`.

## 3. Scenarios

All modules but `SendQueue` and `FileCopy` have a constant `Scenarios` and a
variable that takes one of them at the start and keeps it: the set of unusual
things that may happen in that behaviour (and, for `ChatHistory`, the tabs, the
scrollback and the server's limit). So one run covers the full model, and a
property can say exactly what it depends on: `Never(S)` holds in behaviours where
nothing in `S` can happen. A property without such a condition holds with
everything at once. Where a condition stands, leaving it out gives a
counterexample, and that counterexample is a behaviour of the code:

* **Connection.** `servlist_cycle` overwrites `recondelay_tag`, so a timer that is
  there already becomes an orphan that nobody removes. One can be there after
  `/reconnect` during an attempt or when `server_read` goes on with the lines of
  the old socket after an STS upgrade (`OneReconnectTimer`, `DisconSticks`,
  `NoFreedCycle`; `servlist_cycle_cb` does not ask `is_server`). The same old
  lines can set `end_of_motd` for the new attempt (`MotdMeansConnected`). A cycle
  timer that connects nothing, since the network was deleted or a token has to be
  refreshed first, leaves `recondelay_tag` set (`TagIsInstalled`). After a failed
  `fork` or `pipe`, `connecting` is set without a child, and ending the attempt
  kills process 0 or a left-over number (`NoStrayKill`), and nobody retries
  (`LostIsRetried`). Two token refreshes share one stashed host; a refresh that
  is answered after `/discon` connects again (`DisconSticks`).
* **CapNegotiation.** `oauth_sasl_retry_cb` knows the server but not the
  connection, so a late answer writes into the next one (`EndOnce`,
  `NoEndInSasl`); the retry opens no exchange for its payload and a payload may
  cross an abort (`PayloadInExchange`); 905 and 906 leave the SCRAM session
  (`ScramFresh`); only CAP LS and CAP NAK look at the STS upgrade, the SASL
  numerics write CAP END on the plain connection (`StsFirst`);
  `sts_upgrade_port`, `waiting_on_sasl` and some `have_*` flags outlive their
  connection (`NoNeedlessUpgrade`, `Registers`, `FlagsCurrent`).
* **Labels.** An echo that comes after its label was swept is shown again; one
  inside a labeled-response batch has no label of its own; of a paste that needs
  several batches only the first one's echo is known (`ShownOnce`). The sweep
  drops a label and leaves its entry dimmed (`DimmedIsPending`). A plugin hook that
  sends a command while a message is displayed makes `mark_pending_echo` take the
  command's label: the command's answer confirms the message, and its own echo is
  shown again (`ConfirmedByItsAnswer`, `ShownOnce`, `DimmedIsPending`).
* **ChatHistory.** The user's scrolling and the catch-up share the cursor
  `oldest_msgid`, so a queued BEFORE of the user can make the catch-up skip its
  gap (`NoGap`), and its answer is taken for a LATEST answer (`LatestFirst`). A
  refusal does not lower `chathistory_latest_pending`, nor does the answer for a
  closed tab (`CatchupEnds`); a LATEST answer marked as the end of history is
  followed neither by a page nor by `finish_catchup`. A JOIN during the catch-up
  restarts the count (`LatestFirst`). Chunks go on after a part or a reconnect
  and complete the next request (`OneAnswer`); a dialog's request is not reset
  when its connection is lost (`OneAnswer`). Once `history_exhausted` is set no
  later reconnect asks for missed messages (`CatchupStarts`).
* **Channels** (`OnWanted`). `auto_reconnect` marks the channels that are open in
  tabs; one that is just being joined again is open in none, so a second loss
  before the answer forgets it. The loop marks the tabs of *all* servers, so a
  channel left on the other server comes back when that one reconnects later, and
  the marks survive `/discon`. If nothing is marked the favourites are joined, also
  ones the user had left. During the join delay a marked tab may be used for
  another channel. A `/part` that crosses a kick is undone by the automatic rejoin,
  a `/join` while the client still believes it is on the channel sends nothing, and
  a tab closed before its JOIN is answered comes back. Without the preference
  `irc_reconnect_rejoin` nothing is joined again, as it says.
* **DccTransfer.** Accepting after a resume request was sent, or `/DCC GET nick`
  with automatic resuming off, and two transfers that resume the same part, let the
  two ends start at different positions (`Agreed`). An acknowledgement that is read
  in two pieces is taken for two; above 4 GB acknowledgements wrap, which matters
  where more than one block is under way (`ExactAcks`). A sender that was throttled
  at the end of the file reads once more when it is released, and aborts
  (`SentIsNotAborted`, `Delivers`): with fast sending, above 4 GB, and when an
  acknowledgement was taken for more than it says, as after a RESUME that comes
  when blocks are under way already (`ackoffset`).
* **DccList.** A throttled chat is not woken again (`WaitsAreWatched`); its speed is
  added to a sum and never taken away (`SumsAreExact`, `ThrottlingEnds`). A Wingate
  proxy that hangs up leaves a watch for writing on a finished entry
  (`FinishedIsSilent`). A nick change can make two chats with one peer (`OneChat`).
  A hook of a text event that removes entries can free the one the timer goes on
  with (`WalkIsLive`).
* **PluginHooks.** With nested events the inner run frees hooks that are marked,
  also the one the outer run goes on with, so removing hooks is safe only outside
  nested events (`FlatRemovals`). A callback that unloads its own plugin, deletes
  its own `/TIMER`, or closes the tab of the event leaves the code above it with
  freed memory (`NothingFreedIsUsed`). `HOOK_SERVER` hooks are compared with
  `HOOK_PRINT_ATTRS` hooks on insertion, so the order of server hooks is lost when
  both kinds are used (`ByPriority`).

## 4. Runs

| Run | Result | Shows |
|---|---|---|
| `send_queue` | pass | lines of three priorities, bursts, flushes, reconnects and a clock set back: no line without a timer (`TimerPending`), the order of leaving (`LeavesInOrder`), the flood limit, and everything drains |
| `connection` | pass | flags and sources agree (`SourcesMatch`), nothing of an earlier attempt is left to act (`NothingStale`), connections come up from their own attempt, `/discon` sticks, a loss is retried |
| `connection_discon` | violation | after `/reconnect` during an attempt, `/discon` leaves a timer that connects again |
| `cap` | pass | CAP END is written when it is due (`EndIsDue`), nothing is taken over from an earlier connection or exchange (`NothingCarriedOver`), a connection that stays up registers; every login method |
| `cap_stuck` | violation | a connection lost during SASL leaves `waiting_on_sasl`; the next one, without sasl, never sends CAP END |
| `labels` | pass | the sweep timer is installed while it is needed, a message has one entry (`OneEntry`) which only its own answer confirms, all labels and batches go away |
| `history` | pass | requests follow one another (`RequestsInOrder`), no channel is left out and no gap stays (`NothingMissed`) |
| `history_ends` | pass | `CatchupEnds` where the server answers |
| `channels` | pass | tabs and user lists are the server's once it has answered everything (`TabsMatch`), and the client is on the channels the user wants (`OnWanted`) |
| `dcc_transfer` | pass | files are beginnings of the file offered and done means received (`FilesAreRight`), no step undoes anything (`NothingUndone`), accepted transfers complete (`Delivers`), and the transfer implements `FileCopy` (`CopiesFile`) |
| `dcc_list` | pass | watches, timer and sums are those of the entries (`ListIsTended`), pointers lead to the right one (`RightEntry`), throttling ends |
| `plugin_hooks` | pass | `NothingFreedIsUsed`, each hook of an event once and by priority (`RunsInOrder`), no call of what was removed and a source for each timer (`CallsAreDue`) |

The violations are the places where a comment of the code says otherwise;
`findings` in `PROJECT.json` quotes it.

Deadlock is checked for `cap`, `cap_stuck` and `labels`. The other instances may
stop: the clock and the submissions of `SendQueue` are bounded, as are the events
of `Channels` and the hooks of `PluginHooks`; a freed server does nothing, a
history that is read is read, and a finished transfer stays finished.

### Bounds, and why they are enough

* `SendQueue`: `MaxLines` 4, so the ten-second budget is exceeded with a line of
  each priority and another one waiting; `MaxNow` 16 lets everything drain after
  one step back of the clock; `LastSubmit` 1 keeps submissions at the start.
* `Connection`: `MaxTimers` 4 reconnect timers per behaviour (an orphan, its
  successor and two more attempts), `MaxRefreshes` 2, the least number that
  shares a stashed host.
* `CapNegotiation`: connections are unbounded; `MaxLate` 1 refresh outlives its
  connection.
* `Labels`: `MaxLabels` 2, which is a paste of two batches or a message and a
  command; the timeouts 4 and 8 are those of the code (60 s, 120 s) in intervals
  of the sweep.
* `ChatHistory`: `MaxLast` 4 messages with one in the scrollback is a LATEST
  answer, a page that fills the gap and a page that overlaps; limits 1 and 2
  with `ChunkSize` 1 are batches handled at once and in two idle callbacks;
  `MaxLost` 1 part or lost connection; two channels, or a channel and a dialog.
  `FuzzInterval` is 0: a positive one only asks for one more overlapping page.
* `Channels`: two servers, two channels and `MaxEvents` 7 things that users and
  faults do (lines under way and answers are not counted): connect, two joins, two
  losses or kicks and two parts or closed tabs. Tabs need no bound of their own.
* `DccTransfer`: `Size` 4 blocks and `SockBuf` 2, so that blocks, acknowledgements
  and a part to resume meet; `Parts` {0, 2} starts without the file or with half
  of it; `AckMod` 5 with `HugeSize` 6 wraps once; `Offers` 2.
* `DccList`: `Entries` 2 are a pair to compare or to walk over, `MaxCps` 2 with
  `Limit` 1 is a speed below, at and above the limit.
* `PluginHooks`: `MaxHooks` 3 is one that runs, one where the walk goes on and one
  more; `MaxDepth` 2 is an event inside an event.

### Fairness

The main loop runs what is due: timers (`TimerFires`, `TimerNext`,
`stale_sweep_cb`, the history timers), idle callbacks (`chunk_idle_cb`) and
sockets that are readable (`Read`). The child process and the handshake have
timeouts (`ChildNext`, `SslNext`), an HTTP request for a token is answered or
fails (`OauthNext`, `oauth_sasl_retry_cb`), `server_read` returns
(`ReadBlocks`). Time passes (`Tick`, strongly fair in `SendQueue`, where it waits
while a callback runs; in `DccList` it is the one-second timer). In `DccTransfer`
messages arrive, watches fire and a speed limit is not exceeded for ever. The IRC
server is assumed to answer only where the
property is about getting an answer (`Registers`, `CatchupEnds`). Nothing is
assumed of the user.

## 5. Proofs

All theorems hold for every value of the constants that satisfies the
assumptions of the module (that bounds are natural numbers and scenarios sets of
features); TLC evaluates these in every run.

* `SendQueueProofs`. The inductive invariant is
  `TypeOK /\ InOrder /\ Attended /\ Accounted /\ Ranked`. `TimerPending` alone is
  not inductive: while `tcp_send_queue` runs there may be no timer yet, and whether
  one will be installed depends on the caller and on `noqueue`; `Attended` says
  so. `InOrder` (the queue is in submission order and behind what was sent), the
  choice of `IsNext`, and `Ranked` (an entry's priority is that of its line) give
  the three parts of `AlwaysInOrder`, one lemma each (`FifoStep`,
  `HighestFirstStep`, `ChatYieldsStep`); `Accounted` (`epoch + spent <= next_send`)
  and the guard of `QueueSend` give `AlwaysFloodLimit`; also `TypeCorrect`,
  `AlwaysTimerPending` and `Invariance`.
* `ConnectionProofs`. `TypeOK /\ SourcesMatch` is inductive. Each function of the
  code has a lemma that says what it keeps of a consistent record and that it
  does not bring a connection up; actions compose them. What earlier attempts leave
  behind is a second invariant on top of it, `NoLeftovers`, whose parts depend on
  different features: `Delayed` (at most one reconnect timer, the one of the tag, and
  none beside an attempt, a connection or a freed server), `Tagged` (a tag names a
  timer), `Cycles` (a cycle timer has a network to connect), `Forks` (an attempt has a
  child, nothing else is killed), login state only with a connection, `Reads` (what
  is read comes from the present connection) and `Down` (nothing is on its way for a
  user who wants no connection). `NothingStale` alone is not inductive: that
  `remove_recondelay` leaves no timer needs `Delayed`, and a tag is right after
  `servlist_cycle_cb` only because its timer had a network. `DisconSticks` follows from
  `Down`. Every function has a second lemma (`...Tidy`) for these. Theorems:
  `Invariance`, `TypeCorrect`, `AlwaysSourcesMatch`, `AlwaysUpThroughAttempt`,
  `NoLeftoversAlways`, `AlwaysNothingStale`, `AlwaysDisconSticks`.
* `PluginHooksProofs`. The inductive invariant has a named part for each thing that
  can go wrong: `Listed` (the list holds every hook once), `Timely` (the main loop's
  timers are those that are hooked), `Framed` (a frame of the call stack names hooks
  that it found, and a timer's callback is at the bottom), `Flat` (why
  `FlatRemovals` is enough: either no event interrupts another run, or no hook is
  ever marked), `Ahead` (what a run has not called yet is at or behind the place
  where it goes on, what it has called is before it: neither half of
  `EachHookOnce` is inductive without it), `Careful` and `Sorted`. Lemmas say what
  insertion by priority, marking and freeing do to positions in the list
  (`KeptFacts`, `MinFacts`, and one lemma per function). Theorems: `TypeCorrect`,
  `SafeToGoOn` (`NothingFreedIsUsed`), `RunsAreInOrder` (`RunsInOrder`),
  `CallsComeDue` (`CallsAreDue`). An earlier guard of `ByPriority` allowed text hooks
  with attributes beside server hooks; the proof failed there, and TLC finds the
  counterexample with four hooks where three had not been enough.
* `DccTransferProofs`. The inductive invariant `IInv` says of every transfer what its
  stage allows (`Basic`, `Aligned`) and of the directory that it has what the
  transfers count (`Named`, `Filed`). `Early` follows a resume request to the sender
  and back, since only its outcome makes the two ends start at the same block;
  `Running` says that the blocks in the sockets are those between the two
  positions, and `Opening` that the file has as many blocks as the receiver counts:
  without these `InOrder` says nothing of the next block. `Acknowledged` says what
  an acknowledgement under way is worth: in a small file a position the receiver has
  reached (`AcksOfSmall`), above 2^32 blocks only that nothing else is under way
  (`AcksOfHuge`). `Named` keeps two transfers out of one file: `dcc_read` finds a free
  name, and within the names there are, since each name is taken by another
  transfer (`FreeNameFacts`, by the pigeonhole principle). One lemma per action says what it does to one transfer
  (`...Step`), and `NextMoves` sorts the steps into those that leave the files alone
  (`Quiet`) and one read (`Reads`); `NothingIsUndone` and the simulation of
  `FileCopy` (`Implements`) use only that. Theorems: `Invariant`,
  `TypeCorrect`, `FilesAreRightAlways`, `NothingIsUndone`, `Implements`. The proof of
  `SentIsNotAborted` did not go through with its first guard: a RESUME that comes when
  blocks are under way already makes acknowledgements count from its offset, so a
  sender can be throttled at the end of the file without any other feature. The
  property has this condition (`Agreed`) now.
* `DccListProofs`. Neither `ListIsTended` nor `RightEntry` is inductive: which callback
  can run next, and what it does, depends on the watches, the status and the
  position within the exchange with a proxy together. The inductive invariant
  `IInv` has `Good` for the entries, with these parts. `AllSound`: an entry that
  waits has exactly one watch, for writing or for reading as its position says
  (`Waiting`, `Writes`, `Reads`), one that runs has that of its type (`Running`),
  and a finished one has none unless a Wingate proxy hung up. `Summed`: the sums
  are the speeds of what runs; where there are chats, whose speed is never taken
  away, the sum of receiving is at least that. `Listed`, `Timed`, `Served`,
  `Paired`, `Known`: the list names the entries once each, the timer runs while
  there are any, their servers exist, chats have different peers, and numbers above
  those given out are free. Every operator that works on one entry is described by
  the entry it makes (`To`, and `Done` when that is sound) or that it
  removed (`Gone`), with its share of the sums; `GoodTo`, `GoneGood` and `MadeGood`
  bring that back to the whole client, so that a callback costs one lemma
  (`TraverseFacts`, `ReadFacts`, ...). `Total` is a recursive function; that changing
  one entry changes it by the difference (`TotalChange`) is proved with the
  smallest position where it would not. The definitions of the model that the proof
  follows got names of their own (`Calculated`, `Renamed`, `remove_iotag`, ...); its
  behaviours are the same, and the run finds the same number of states as before.
  Theorems: `TypeCorrect`, `AlwaysListIsTended`, `AlwaysRightEntry`.
* The one form of induction used is that a set of numbers has a smallest
  element (`SmallestExists`), from the library's theorem that `<` is well-founded.
  It stands in each module that needs it.
* `LabelsProofs`. `SweepArmed` is inductive by itself, from three facts about the
  keys of the tables: `AlwaysSweepArmed`. `OneEntry` is not: whether an echo
  confirms an entry depends on the lines before it on its way and on the sweep. The
  inductive invariant `IInv` follows a label from the send to the answer:
  `Unanswered` (nothing is on its way for a label that the server still has),
  `Ordered` (a label is answered once, and the lines of a batch follow its start),
  `Fresh` (what is on its way has not aged: `Tick` waits for it unless answers are
  "late"), `HasEntry` and `Dimmed` (a message leads to its entry, and a dimmed entry
  has a line to come that closes it), `Once`, and, also for late answers, `Numbered`
  and `OwnEntries`, which alone give `AlwaysConfirmedByItsAnswer`. All senders
  are instances of `Sent`, all lines that are read of `Heard`, all answers of
  `Answered`, with one lemma each. Theorems: `Invariant`, `TypeCorrect`,
  `AlwaysOneEntry`, `AlwaysConfirmedByItsAnswer`.
* `CapNegotiationProofs`. `EndOnce` says nothing of a CAP END that a line still on
  its way will cause, and `FlagsCurrent` nothing of the flags before everything is
  read, so neither is inductive. `IInv` speaks of the lines on their way both ways.
  `Flags`: the last line that switches a capability says what the server has.
  Before the registration, `Opening` (at most one line can lead to an exchange,
  and while it is on its way `waiting_on_sasl` is set or CAP LS is still being
  read), `Exchanging` (a running exchange is waited for), `Asking` (CAP LS comes
  first, and its lines in order) and `Ending` (CAP END after all that).
  `InStep`: there is one line of an exchange at a time, and when it arrives both ends
  are at the same step of the same mechanism; the payload and the SCRAM session
  follow. `Plain`, `Port` and `Unannounced` tie the STS port to the policy of the
  present server, `Method` says what each login method rules out. Each handler has a
  lemma per part, and all of the server's answers are instances of `Took`. Theorems:
  `Invariant`, `TypeCorrect`, `AlwaysEndIsDue`, `NeverCarriedOver`. The model did not
  have to change.
* `ChannelsProofs`. `TabsMatch` compares a tab with the server only when nothing is
  under way, so it is far from inductive. `IInv` says what the lines under way are
  for: `Leads` runs them over the view that a tab gives of its channel (nothing, or
  the members and whether their list is complete, as `Effect` changes it line by
  line) and ends at a view in `Fitting`: the members the server has, with the list
  complete. A tab that was closed is behind until the server has read its PART; the
  other views allow no delay, since nothing but an answer takes a tab off its
  channel while the connection is up. `Unique` and `OnlyIn` are the first two parts
  of `TabsMatch`. Lemmas say what replacing, prepending and removing a tab do to
  views and uniqueness (`PutFacts`, `PrependFacts`, `RemoveFacts`), what a handler
  makes of a line (`ShownRead`, `KickRead`), and what an answer appends
  (`LeadsOn`, `NamesLead`, `HereLeads`, `ElsewhereLeads`); `LeadsFromOff` is why a
  closed tab does no harm: lines for a channel without a tab lead to the same end,
  or to nothing. Steps are then instances of `TalkStep` (the client writes),
  `ServedStep` (lines are read), `SpokenStep` (the server acts) and `GoneStep`.
  `ChannelsAssumption` says that no channel has the name of the empty string
  (`"none"`) and that the favourites are finitely many channels. The order in
  which `AutoJoin` names the channels was that of the tabs, by `SelectSeq`, of which
  the library has no theorems; it is an unspecified order now, and no property
  depends on it. Theorems: `Invariant`, `TypeCorrect`, `AlwaysTabsMatch`.
* `ChannelsProofs`, what the user wants. `OnWanted`, too, speaks only of the moments
  when nothing is under way. `WInv` says of each server, for any other moment, why a
  channel is wanted (`Held`). Logged in (`Sought`): it is wanted exactly if we shall
  be on it when the server has read what is on its way to it (`Hope`: a JOIN with no
  PART behind it, or we are on it and no PART is under way), but for channels that
  ban us, and for a refusal or a kick the client has yet to read; with automatic
  rejoining after kicks, every channel that a tab is on, or that is asked for, stays
  wanted. Before that and in the join delay (`Waiting`): what is wanted is what the
  tabs are marked with, or the favourites, and nothing is under way. `Lawful` ties
  members, refusals and kicks to the bans and features. The proof needs `IInv`: only
  where each channel has one tab, and the view of it is led to what the server has,
  does closing or marking "the" tab of a channel mean what it should. There is a
  lemma per action (`ConnectWants` to `LostWants`); `LostMarks` is the reason why
  the order in `auto_reconnect` (mark, then clear) is right. Theorems: `Wants`,
  `AlwaysOnWanted`. Looking for the invariant showed that `OnWanted` was false for
  combinations of features no scenario had: the bans were those of both servers, stale
  marks counted as wanted, and favourites with a loss on the second server were not
  excluded. The model and `Orderly` were corrected.

Only model-checked: liveness (`QueueDrains`, `LostIsRetried`, `Registers`,
`Drains`, `CatchupEnds`, `Delivers`, `ThrottlingEnds`), which is out of the
prover's reach, and everything about `ChatHistory` (`TypeOK`, `RequestsInOrder`,
`NothingMissed`). All other safety properties that the runs check are theorems.

## 6. What is left out

Contents of messages, formatting, logging, files, pictures and user interfaces.
In the modelled parts:

* `Connection`: which server of a network is selected.
* `CapNegotiation`: SCRAM's arithmetic and the expiry of STS policies.
* `Labels`: connections without echo-message or labeled-response.
* `ChatHistory`: AFTER, AROUND and BETWEEN requests, the background fetch that
  nothing starts, and scrollback with times but no msgids.
* `Channels`: channel keys, forwarding to another channel, bouncers that join by
  themselves, the WHO after joining, prefixes, accounts, away states and nick
  changes, and the search tree of the user list.
* `DccTransfer`, `DccList`: addresses and port ranges, the text of the requests,
  file permissions, and the conversion of chat lines.
* `PluginHooks`: the names of commands and events (all hooks of a type are for the
  same one), `HOOK_FD` (handled like a timer) and what plugins do otherwise.

The notify list, ignore and flood protection, mode lines and the Apple runtime have
state of their own and could be modelled in the same way; they are listed as not
modelled. The scrollback store, the OAuth client, icons, the WebSocket server,
settings, text events and the front ends are input and output around the modelled
parts; the vendored compressor and the translations are not the program's own
logic. They make up most of the repository's lines, so the models cover a small
share of the lines and the larger part of the protocol state.

## 7. Plan

1. Proofs: `RequestsInOrder` of `ChatHistory`.
2. *Notify* and *Flood*: online marks through reconnects, counters at their
   boundary; mode lines as operators against a reference definition; the selection
   of a network's server.
3. *AppleRuntime*: start, stop and events between two threads.
4. More abstract specifications: "a connection registers once" above
   `CapNegotiation`, "a message is pending, then confirmed" above `Labels`, "a
   session asks and is answered" above the request queue of `ChatHistory`.
