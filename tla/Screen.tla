------------------------------- MODULE Screen -------------------------------
(***************************************************************************)
(* What the reader sees of one room.  The plugin sends requests over a     *)
(* socket, a thread of the daemon answers them one by one, and whatever is *)
(* stored meanwhile is published to every reader as an event over the same *)
(* sockets (ipc.rs).  A reply to `messages` replaces what the timeline     *)
(* shows, an event is merged into it (kmatrix_ipc.lua, main.lua).  That    *)
(* the daemon stops when its last reader leaves is module Daemon's.        *)
(***************************************************************************)
EXTENDS Naturals, Sequences, FiniteSets

CONSTANTS
  Conns,       \* sockets, in the order they are used
  Rows,        \* messages of the room, in its order
  First,       \* the one that is stored when the screen opens
  Limit,       \* MESSAGE_LIMIT
  Recent,      \* rows do_load_older publishes
  Page,        \* rows do_load_older stores at most
  WindowMax,   \* MESSAGE_WINDOW_MAX
  Cap,         \* lines a socket holds before a writer waits
  MaxVersion,  \* bound on the texts one row has
  MaxStores,   \* bound on sync batches, edits and repairs
  MaxIds,      \* bound on requests over one socket
  MaxOpens,    \* bound on timelines opened
  ScreenFaults \* what may go wrong: "slow", "suspend", "request", "store"

ASSUME ScreenAssumption ==
  /\ Conns \subseteq Nat \ {0} /\ Rows \subseteq Nat /\ First \in Rows
  /\ {Limit, Recent, Page, WindowMax, Cap, MaxVersion, MaxIds, MaxOpens} \subseteq Nat \ {0}
  /\ MaxStores \in Nat /\ Limit <= WindowMax
  /\ ScreenFaults \subseteq {"slow", "suspend", "request", "store"}

VARIABLES
  (* the daemon *)
  stored,   \* the version of each row in the store, 0 where there is none
  batch,    \* rows the sync thread has stored and not yet published
  stores,   \* batches and repairs so far
  handler,  \* a connection's thread: the request it is at, and what it has read
  bus,      \* Bus.clients
  (* sockets *)
  up,       \* requests not yet read
  down,     \* lines not yet read; a cut one has no end
  shut,     \* the daemon has closed its end
  (* the plugin *)
  used,     \* sockets opened so far
  conn,     \* the socket of self.ipc, 0 for none
  pending,  \* requests that wait for their answer
  nextId,
  timeline, \* the timeline on show: its number, 0 for none
  opens,    \* timelines opened so far
  shown,    \* the version of each row it shows
  window, loading,
  asleep,
  (* history *)
  overtaken \* rows of which something older was told last, or the newest not

daemon == <<stored, batch, stores, handler, bus>>
net    == <<up, down, shut>>
link   == <<used, conn, pending, nextId>>
view   == <<timeline, opens, shown, window, loading>>
screenVars == <<daemon, net, link, view, asleep, overtaken>>

NoRows  == [r \in Rows |-> 0]
Idle    == [at |-> "idle", id |-> 0, cmd |-> "none", rows |-> NoRows, added |-> 0]

Held(f) == {r \in Rows : f[r] # 0}

(* recent_messages.                                                        *)
recent_messages(f, n) ==
  [r \in Rows |-> IF Cardinality({s \in Held(f) : s > r}) < n THEN f[r] ELSE 0]

(* appendMessages: new rows are added, rows that moved on are rewritten.   *)
Merged(f, g) == [r \in Rows |-> IF g[r] # 0 THEN g[r] ELSE f[r]]

ScreenInit ==
  /\ stored = [NoRows EXCEPT ![First] = 1]
  /\ batch = NoRows /\ stores = 0
  /\ handler = [c \in Conns |-> Idle]
  /\ bus = {}
  /\ up = [c \in Conns |-> <<>>] /\ down = [c \in Conns |-> <<>>]
  /\ shut = {}
  /\ used = 0 /\ conn = 0 /\ pending = {} /\ nextId = 1
  /\ timeline = 0 /\ opens = 0 /\ shown = NoRows /\ window = Limit /\ loading = FALSE
  /\ asleep = FALSE
  /\ overtaken = {}

-----------------------------------------------------------------------------
(* Writing to the sockets.                                                 *)
Reply(h) == [kind |-> "reply", id |-> h.id, cmd |-> h.cmd, rows |-> h.rows, added |-> h.added]
Event(f) == [kind |-> "event", id |-> 0, cmd |-> "none", rows |-> f, added |-> 0]
CutLine  == [kind |-> "cut",   id |-> 0, cmd |-> "none", rows |-> NoRows, added |-> 0]

(* The plugin has closed its end: what is written goes nowhere.            *)
Gone(c) == c <= used /\ c # conn

Full(c) == Len(down[c]) >= Cap

Sent(c, l) == IF Gone(c) THEN down[c] ELSE Append(down[c], l)

(* A line that carries f for the rows in R is written while `left` is      *)
(* still to be published.                                                  *)
Told(f, R, left) ==
  overtaken' = {r \in Rows :
    IF r \in R THEN f[r] # stored[r] /\ left[r] # stored[r] ELSE r \in overtaken}

(* Bus::publish: one after the other under the clients' lock; a reader     *)
(* that does not read for BUS_WRITE_TIMEOUT is dropped, and part of the    *)
(* line may be left in its socket.                                         *)
publish(f, left) ==
  /\ "slow" \in ScreenFaults \/ \A c \in bus : ~ Full(c)
  /\ \E torn \in SUBSET {c \in bus : Full(c)} :
       down' = [c \in Conns |->
                  IF c \in bus /\ ~ Full(c) THEN Sent(c, Event(f))
                  ELSE IF c \in torn THEN Append(down[c], CutLine) ELSE down[c]]
  /\ bus' = {c \in bus : ~ Full(c)}
  /\ Told(f, Held(f), left)

-----------------------------------------------------------------------------
(* The sync thread.                                                        *)
Newest == CHOOSE r \in Held(stored) : \A s \in Held(stored) : s <= r

(* What the store now has and `told` does not tell.                        *)
Untold(told) ==
  overtaken' = overtaken \cup {r \in Rows : stored'[r] # stored[r] /\ told[r] # stored'[r]}

(* process_sync stores a new message and publishes, as its last act and    *)
(* after requests of its own, what it made of the event.  The row has the  *)
(* text of an edit that was recorded first instead.                        *)
sync_store ==
  /\ stores < MaxStores /\ batch = NoRows
  /\ Newest + 1 \in Rows
  /\ \E text \in {1, 2} :
       /\ text <= MaxVersion
       /\ stored' = [stored EXCEPT ![Newest + 1] = text]
  /\ batch' = [NoRows EXCEPT ![Newest + 1] = 1]
  /\ stores' = stores + 1
  /\ Untold(batch')
  /\ UNCHANGED <<handler, bus, net, link, view, asleep>>

(* Some row has a new text.                                                *)
Rewritten ==
  /\ stores < MaxStores /\ stores' = stores + 1
  /\ \E r \in Held(stored) :
       stored[r] < MaxVersion /\ stored' = [stored EXCEPT ![r] = @ + 1]

(* record_if_edit: an edit is no message, and nothing of it is published.  *)
record_if_edit ==
  /\ batch = NoRows
  /\ Rewritten
  /\ Untold(NoRows)
  /\ UNCHANGED <<batch, handler, bus, net, link, view, asleep>>

sync_publish ==
  /\ batch # NoRows
  /\ publish(batch, NoRows)
  /\ batch' = NoRows
  /\ UNCHANGED <<stored, stores, handler, up, shut, link, view, asleep>>

-----------------------------------------------------------------------------
(* client_loop: one thread for each connection, one request at a time.     *)
(* The next request, if it is `cmd`.                                       *)
Asked(c, cmd) == handler[c].at = "idle" /\ up[c] # <<>> /\ Head(up[c]).cmd = cmd

Taken(c) == up' = [up EXCEPT ![c] = Tail(@)]

Doing(c, at) == [Idle EXCEPT !.at = at, !.id = Head(up[c]).id, !.cmd = Head(up[c]).cmd]

(* A room key or a profile found while a room is opened, or a room key     *)
(* while older rows are loaded, rewrites rows and publishes nothing.       *)
Repairs == UNCHANGED <<stored, stores>> \/ Rewritten

(* dispatch of `messages`: repair_room, then the rows.                     *)
messages(c) ==
  /\ Asked(c, "messages") /\ Taken(c)
  /\ Repairs
  /\ handler' = [handler EXCEPT ![c] =
       [Doing(c, "answer") EXCEPT !.rows = recent_messages(stored', Head(up[c]).limit)]]
  /\ Untold(NoRows)
  /\ UNCHANGED <<batch, bus, down, shut, link, view, asleep>>

(* The rows cannot be read: the timeline keeps what it shows, and what     *)
(* this answer was to bring it is told to nobody.                          *)
messages_fails(c) ==
  /\ "store" \in ScreenFaults
  /\ Asked(c, "messages") /\ Taken(c)
  /\ Repairs
  /\ handler' = [handler EXCEPT ![c] = [Doing(c, "answer") EXCEPT !.cmd = "none"]]
  /\ overtaken' = Rows
  /\ UNCHANGED <<batch, bus, down, shut, link, view, asleep>>

(* do_load_older: a page is stored, unless the start is known to be        *)
(* reached,                                                                *)
Oldest == CHOOSE r \in Held(stored) : \A s \in Held(stored) : r <= s

Older == {r \in Rows : Oldest - Page <= r /\ r < Oldest}

load_older_store(c) ==
  /\ Asked(c, "load_older") /\ Taken(c)
  /\ stored' = [r \in Rows |-> IF r \in Older THEN 1 ELSE stored[r]]
  /\ \E where \in IF Older = {} THEN {"stored", "answer"} ELSE {"stored"} :
       handler' = [handler EXCEPT ![c] = [Doing(c, where) EXCEPT !.added = Cardinality(Older)]]
  /\ UNCHANGED <<batch, stores, bus, down, shut, link, view, asleep, overtaken>>

(* the room keys the backup has are tried on the room,                     *)
load_older_restore(c) ==
  /\ handler[c].at = "stored"
  /\ Repairs
  /\ handler' = [handler EXCEPT ![c].at = IF handler[c].added = 0 THEN "answer" ELSE "restored"]
  /\ Untold(NoRows)
  /\ UNCHANGED <<batch, bus, net, link, view, asleep>>

(* the newest rows are read,                                               *)
load_older_read(c) ==
  /\ handler[c].at = "restored"
  /\ handler' = [handler EXCEPT ![c].at = "publish", ![c].rows = recent_messages(stored, Recent)]
  /\ UNCHANGED <<stored, batch, stores, bus, net, link, view, asleep, overtaken>>

(* and published, before the request is answered.                          *)
load_older_publish(c) ==
  /\ handler[c].at = "publish"
  /\ publish(handler[c].rows, batch)
  /\ handler' = [handler EXCEPT ![c].at = "answer", ![c].rows = NoRows]
  /\ UNCHANGED <<stored, batch, stores, up, shut, link, view, asleep>>

load_older_fails_silently(c) ==  \* faulty: the error is only logged
  /\ "request" \in ScreenFaults
  /\ Asked(c, "load_older") /\ Taken(c)
  /\ UNCHANGED handler
  /\ UNCHANGED <<stored, batch, stores, bus, down, shut, link, view, asleep, overtaken>>

load_older_fails(c) ==
  /\ "request" \in ScreenFaults
  /\ Asked(c, "load_older") /\ Taken(c)
  /\ handler' = [handler EXCEPT ![c] = [Doing(c, "answer") EXCEPT !.cmd = "none"]]
  /\ UNCHANGED <<stored, batch, stores, bus, down, shut, link, view, asleep, overtaken>>

status(c) ==
  /\ Asked(c, "status") /\ Taken(c)
  /\ handler' = [handler EXCEPT ![c] = Doing(c, "answer")]
  /\ UNCHANGED <<stored, batch, stores, bus, down, shut, link, view, asleep, overtaken>>

(* `hello` is answered before its sender is counted among the readers.     *)
Answered(c, h) ==
  /\ ~ Full(c)
  /\ down' = [down EXCEPT ![c] = Sent(c, Reply(h))]

hello(c) ==
  /\ Asked(c, "hello") /\ Taken(c)
  /\ handler' = [handler EXCEPT ![c] = Doing(c, "add")]
  /\ Answered(c, Doing(c, "add"))
  /\ UNCHANGED <<stored, batch, stores, bus, shut, link, view, asleep, overtaken>>

bus_add(c) ==
  /\ handler[c].at = "add"
  /\ bus' = bus \cup {c}
  /\ handler' = [handler EXCEPT ![c] = Idle]
  /\ UNCHANGED <<stored, batch, stores, net, link, view, asleep, overtaken>>

Covered(f) == {r \in Rows : \E s \in Held(f) : s <= r}

reply(c) ==
  /\ handler[c].at = "answer"
  /\ Answered(c, handler[c])
  /\ handler' = [handler EXCEPT ![c] = Idle]
  /\ IF Gone(c) THEN UNCHANGED overtaken
     ELSE Told(handler[c].rows, Covered(handler[c].rows), batch)
  /\ UNCHANGED <<stored, batch, stores, bus, up, shut, link, view, asleep>>

(* handle_client's end: the plugin hung up, or an answer could not be      *)
(* written in time.                                                        *)
handler_ends(c) ==
  /\ \/ handler[c].at = "idle" /\ up[c] = <<>> /\ Gone(c)
     \/ handler[c].at = "answer" /\ (Gone(c) \/ ("slow" \in ScreenFaults /\ Full(c)))
  /\ handler' = [handler EXCEPT ![c] = [Idle EXCEPT !.at = "ended"]]
  /\ bus' = bus \ {c} /\ shut' = shut \cup {c}
  /\ UNCHANGED <<stored, batch, stores, up, down, link, view, asleep, overtaken>>

-----------------------------------------------------------------------------
(* The plugin: one thread, which polls the socket.                         *)
Ask(id, cmd, limit) == [id |-> id, cmd |-> cmd, limit |-> limit]
Wait(id, cmd)       == [id |-> id, cmd |-> cmd, timeline |-> timeline]

(* IPC:request, with `gone` no longer waiting.                             *)
request_same_id(cmd, limit, gone) ==  \* faulty: the id is not advanced
  /\ up' = [up EXCEPT ![conn] = Append(@, Ask(nextId, cmd, limit))]
  /\ pending' = (pending \ gone) \cup {Wait(nextId, cmd)}
  /\ UNCHANGED <<used, conn, nextId>>

request(cmd, limit, gone) ==
  /\ up' = [up EXCEPT ![conn] = Append(@, Ask(nextId, cmd, limit))]
  /\ pending' = (pending \ gone) \cup {Wait(nextId, cmd)}
  /\ nextId' = nextId + 1
  /\ UNCHANGED <<used, conn>>

(* IPC:connect and, behind it, refreshStatus, which openMatrix and onResume *)
(* go on from differently.                                                 *)
Connects(then) ==
  /\ conn = 0 /\ used + 1 \in Conns
  /\ used' = used + 1 /\ conn' = used + 1
  /\ up' = [up EXCEPT ![used + 1] = <<Ask(1, "hello", 0), Ask(2, "status", 0)>>]
  /\ pending' = {Wait(1, "hello"), Wait(2, then)}
  /\ nextId' = 3

openMatrix ==
  /\ ~ asleep /\ timeline = 0
  /\ Connects("status")
  /\ UNCHANGED <<daemon, down, shut, view, asleep, overtaken>>

openTimeline ==
  /\ ~ asleep /\ timeline = 0 /\ opens < MaxOpens
  /\ nextId <= MaxIds
  /\ opens' = opens + 1 /\ timeline' = opens + 1
  /\ shown' = NoRows /\ window' = Limit /\ loading' = FALSE
  /\ IF conn = 0 THEN UNCHANGED <<up, link>>
     ELSE /\ up' = [up EXCEPT ![conn] = Append(@, Ask(nextId, "messages", Limit))]
          /\ pending' = pending \cup {[id |-> nextId, cmd |-> "messages", timeline |-> opens + 1]}
          /\ nextId' = nextId + 1
          /\ UNCHANGED <<used, conn>>
  /\ UNCHANGED <<daemon, down, shut, asleep, overtaken>>

closeTimeline ==
  /\ ~ asleep /\ timeline # 0
  /\ timeline' = 0 /\ shown' = NoRows /\ window' = Limit /\ loading' = FALSE
  /\ UNCHANGED <<daemon, net, link, opens, asleep, overtaken>>

loadOlderMessages ==
  /\ ~ asleep /\ timeline # 0 /\ ~ loading
  /\ conn # 0 /\ window < WindowMax
  /\ nextId <= MaxIds
  /\ request("load_older", 0, {})
  /\ loading' = TRUE
  /\ UNCHANGED <<daemon, down, shut, timeline, opens, shown, window, asleep, overtaken>>

(* handleLine.                                                             *)
NoAnswer(gone) == pending' = pending \ gone /\ UNCHANGED <<up, used, conn, nextId>>

on_event(f) ==
  /\ shown' = IF timeline = 0 THEN shown ELSE Merged(shown, f)
  /\ UNCHANGED <<up, link, timeline, opens, window, loading>>

on_status_only(p) ==  \* faulty: nothing is read again after a resume
  NoAnswer({p}) /\ UNCHANGED view

on_status(p) ==
  /\ IF timeline = 0 THEN NoAnswer({p}) ELSE request("messages", window, {p})
  /\ UNCHANGED view

requestMessages(p, l) ==
  /\ shown' = IF timeline = 0 \/ l.cmd = "none" THEN shown ELSE l.rows
  /\ NoAnswer({p})
  /\ UNCHANGED <<timeline, opens, window, loading>>

Smaller_first(m, n) == m  \* faulty: no upper limit

Smaller(m, n) == IF m < n THEN m ELSE n

(* An error, the room was closed meanwhile or the start of it reached:     *)
(* only the flag of the timeline that asked is cleared.                    *)
on_older(p, l) ==
  LET mine == p.timeline = timeline  wide == Smaller(window + l.added, WindowMax) IN
  /\ loading' = (loading /\ ~ mine)
  /\ \/ /\ mine /\ timeline # 0 /\ l.cmd # "none"
        /\ window' = wide /\ request("messages", wide, {p})
     \/ /\ ~ mine \/ timeline = 0 \/ l.cmd = "none" \/ l.added = 0
        /\ NoAnswer({p}) /\ UNCHANGED window
  /\ UNCHANGED <<timeline, opens, shown>>

on_reply(l) ==
  \/ \E p \in pending :
       /\ p.id = l.id
       /\ CASE p.cmd = "resume"     -> on_status(p)
            [] p.cmd = "messages"   -> requestMessages(p, l)
            [] p.cmd = "load_older" -> on_older(p, l)
            [] OTHER                -> NoAnswer({p}) /\ UNCHANGED view
  \/ /\ \A p \in pending : p.id # l.id
     /\ UNCHANGED <<up, link, view>>

(* waitEvent: one line; the start of a cut one and the next cannot be      *)
(* decoded together.                                                       *)
waitEvent ==
  /\ ~ asleep /\ conn # 0
  /\ LET q == down[conn] IN
       \/ /\ q # <<>> /\ Head(q).kind # "cut"
          /\ IF Head(q).kind = "event" THEN on_event(Head(q).rows) ELSE on_reply(Head(q))
          /\ down' = [down EXCEPT ![conn] = Tail(@)]
       \/ /\ Len(q) > 1 /\ Head(q).kind = "cut"
          /\ down' = [down EXCEPT ![conn] = Tail(Tail(@))]
          /\ UNCHANGED <<up, link, view>>
  /\ UNCHANGED <<daemon, shut, asleep, overtaken>>

Closes ==
  /\ conn' = 0 /\ pending' = {} /\ nextId' = 1
  /\ up' = up
  /\ down' = [down EXCEPT ![conn] = <<>>]
  /\ UNCHANGED <<used, shut, daemon, timeline, opens, shown, window, overtaken>>

(* IPC:fail: every callback is told.                                       *)
fail ==
  /\ ~ asleep /\ conn # 0 /\ conn \in shut
  /\ Len(down[conn]) <= 1 /\ (down[conn] # <<>> => Head(down[conn]).kind = "cut")
  /\ loading' = (loading /\ \A p \in pending : p.cmd = "load_older" => p.timeline # timeline)
  /\ Closes
  /\ UNCHANGED asleep

(* onSuspend: teardownConnection, in which no callback is told.            *)
onSuspend ==
  /\ "suspend" \in ScreenFaults
  /\ ~ asleep /\ conn # 0 /\ used + 1 \in Conns
  /\ asleep' = TRUE
  /\ Closes
  /\ UNCHANGED loading

onResume ==
  /\ asleep /\ asleep' = FALSE
  /\ Connects("resume")
  /\ UNCHANGED <<daemon, down, shut, view, overtaken>>

-----------------------------------------------------------------------------
client_loop(c) ==
  \/ hello(c) \/ bus_add(c) \/ status(c) \/ messages(c) \/ messages_fails(c)
  \/ load_older_store(c) \/ load_older_restore(c) \/ load_older_read(c)
  \/ load_older_publish(c) \/ load_older_fails(c) \/ reply(c) \/ handler_ends(c)

sync == sync_store \/ record_if_edit \/ sync_publish
user == openMatrix \/ openTimeline \/ closeTimeline \/ loadOlderMessages
ipc  == waitEvent \/ fail

ScreenNext == (\E c \in Conns : client_loop(c)) \/ sync \/ user \/ ipc \/ onSuspend \/ onResume

ScreenSpec == ScreenInit /\ [][ScreenNext]_screenVars

ScreenFairSpec ==
  /\ ScreenSpec
  /\ \A c \in Conns : WF_screenVars(client_loop(c))
  /\ WF_screenVars(sync_publish) /\ WF_screenVars(ipc)

-----------------------------------------------------------------------------
(* Type correctness of the store, the threads, the lines and the screen.   *)
Versions == [Rows -> 0..MaxVersion]
Cmds     == {"none", "hello", "status", "messages", "load_older"}
Lines    == [kind : {"reply", "event", "cut"}, id : Nat, cmd : Cmds, rows : Versions, added : Nat]

ScreenTypeOK ==
  /\ stored \in Versions /\ batch \in Versions /\ shown \in Versions
  /\ stores \in 0..MaxStores
  /\ handler \in [Conns -> [at : {"idle", "add", "stored", "restored", "publish",
                                  "answer", "ended"},
                            id : Nat, cmd : Cmds, rows : Versions, added : Nat]]
  /\ bus \subseteq Conns /\ shut \subseteq Conns
  /\ up \in [Conns -> Seq([id : Nat, cmd : Cmds, limit : Nat])]
  /\ down \in [Conns -> Seq(Lines)]
  /\ used \in Nat /\ conn \in {0, used}
  /\ pending \subseteq [id : Nat, cmd : Cmds \cup {"resume"}, timeline : 0..MaxOpens]
  /\ nextId \in Nat
  /\ timeline \in 0..opens /\ opens \in 0..MaxOpens
  /\ window \in 1..WindowMax /\ loading \in BOOLEAN /\ asleep \in BOOLEAN
  /\ overtaken \subseteq Rows

(* When nothing is on its way, what a timeline shows to a subscribed       *)
(* reader is the last that was told of it, and it shows the newest Limit   *)
(* rows that came by sync: what was published while it was away, before it *)
(* was counted or between two requests is not missing.  What was told last *)
(* is the newest version, but for rows that were told out of order         *)
(* (Bus::publish and reply take no common lock), whose newest version is   *)
(* an edit or a repair nobody has read since, or that could not be read.   *)
Settled ==
  /\ timeline # 0 /\ conn \in bus
  /\ pending = {} /\ down[conn] = <<>>
  /\ batch = NoRows
  /\ \A c \in Conns : handler[c].at \notin {"stored", "restored", "publish", "answer"}

Synced == {r \in Held(recent_messages(stored, Limit)) : r >= First}

ScreenIsCurrent ==
  Settled => \A r \in (Synced \cup Held(shown)) \ overtaken : shown[r] = stored[r]

(* A callback is never called with the answer to another request, though   *)
(* every connection numbers its requests from 1 (kmatrix_ipc.lua connect). *)
Answers(p) == {IF p.cmd = "resume" THEN "status" ELSE p.cmd, "none"}

OwnAnswers ==
  conn # 0 => \A i \in DOMAIN down[conn] : \A p \in pending :
    LET l == down[conn][i] IN l.kind = "reply" /\ l.id = p.id => l.cmd \in Answers(p)

(* No request is forgotten (client_loop answers even what it cannot parse, *)
(* so that no caller waits for ever): it is on its way, being served, or   *)
(* answered on a line that can be read; or the reader has been dropped, or *)
(* its connection is closed and will fail.                                 *)
Dropped ==
  /\ conn # 0 /\ conn \notin bus
  /\ handler[conn].at # "add" /\ \A i \in DOMAIN up[conn] : up[conn][i].cmd # "hello"

NoRequestForgotten ==
  conn # 0 /\ ~ Dropped /\ conn \notin shut => \A p \in pending :
    \/ \E i \in DOMAIN up[conn] : up[conn][i].id = p.id
    \/ handler[conn].id = p.id
    \/ \E i \in DOMAIN down[conn] : down[conn][i].kind = "reply" /\ down[conn][i].id = p.id

(* What the source says and the code does not do (README, section 5).      *)
(* A callback gets the response, or a synthetic failure when the daemon is *)
(* gone (kmatrix_ipc.lua request): loading older messages ends.            *)
LoadingEnds == loading ~> ~ loading

(* main.lua appendMessages: "the daemon resends an event under its own id  *)
(* after another client edited it".                                        *)
EditsReachTheScreen ==
  \A r \in Rows :
    (timeline # 0 /\ conn \in bus /\ shown[r] # 0 /\ shown[r] # stored[r])
      ~> (timeline = 0 \/ conn \notin bus \/ shown[r] \in {0, stored[r]})

(* What a dropped reader misses it reads again when it reconnects          *)
(* (ipc.rs Bus::add): the reader does come to know.                        *)
DroppedReaderReconnects == Dropped ~> ~ Dropped
=============================================================================
