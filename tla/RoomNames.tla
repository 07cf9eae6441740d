------------------------------ MODULE RoomNames ------------------------------
(***************************************************************************)
(* The sync thread's loop (main.rs sync_loop) and what it does to the list *)
(* of rooms: between two polls a pass of the sweep that names rooms stored *)
(* under older rules (backfill_room_names), then the rooms of a batch      *)
(* (process_sync), then a wait that a kick ends.  A client logs in and out *)
(* under it, and it may be stopped anywhere.  A room's name is told apart  *)
(* by where it comes from: nowhere (its id), its m.room.name, the partner  *)
(* of a direct chat, or its people (heroes, members, an alias).  Waits     *)
(* have no length.                                                         *)
(***************************************************************************)
EXTENDS Naturals, FiniteSets

CONSTANTS
  Rooms,      \* room ids, in their order
  Old,        \* rooms stored before the naming rules were bumped
  Direct,     \* rooms m.direct knows the partner of
  Crowd,      \* rooms with more speakers than SMALL_ROOM
  Batch,      \* NAME_BATCH
  MaxLogins,  \* bound on logins
  MaxStarts,  \* bound on starts of the daemon
  Faults      \* what may go wrong: "request", "store"

ASSUME RoomNamesAssumption ==
  /\ Rooms \subseteq Nat \ {0} /\ IsFiniteSet(Rooms)
  /\ Old \subseteq Rooms /\ Direct \subseteq Rooms /\ Crowd \subseteq Rooms
  /\ Batch \in Nat \ {0} /\ MaxLogins \in Nat \ {0} /\ MaxStarts \in Nat \ {0}
  /\ Faults \subseteq {"request", "store"}

VARIABLES
  (* the store *)
  name,       \* what each room is called: where its name comes from
  known,      \* rooms with a remembered member
  cursor,     \* room_names_cursor, 0 for none
  swept,      \* room_names_schema is NAME_SCHEMA
  row,        \* the session saved
  (* memory *)
  api, session, wake,
  (* a client *)
  at, logins,
  (* the sync thread *)
  pc,
  me,         \* the login captured at the top of the loop
  names_done,
  todo,       \* the batch: rooms to look at, and their names when it was read
  reached, done,
  resp,       \* rooms of the answer still to be stored
  starts,
  carries     \* rooms with an m.room.name, at the homeserver

store  == <<name, known, cursor, swept, row>>
memory == <<api, session, wake>>
client == <<at, logins>>
pass   == <<todo, reached, done>>
thread == <<pc, me, names_done, pass, resp>>
vars   == <<store, memory, client, thread, starts, carries>>

Stored == {r \in Rooms : name[r] # "absent"}

NoBatch == [r \in {} |-> "id"]

(* A store of the last schema with a login, opened by the daemon.          *)
Init ==
  /\ carries \in SUBSET Rooms
  /\ name \in [Rooms -> {"absent", "id", "given", "people"}]
  /\ Stored = Old
  /\ \A r \in Rooms : name[r] = "given" => r \in carries
  /\ known \in SUBSET Old
  /\ cursor = 0 /\ swept = FALSE /\ row = 1
  /\ api = 1 /\ session = 1 /\ wake = FALSE
  /\ at = "idle" /\ logins = 1
  /\ pc = "top" /\ me = 0 /\ names_done = FALSE
  /\ todo = NoBatch /\ reached = 0 /\ done = FALSE
  /\ resp = {} /\ starts = 1

-----------------------------------------------------------------------------
(* Shared::kick: the flag outlives a notification nobody waits for.        *)
kick_notify == wake' = (pc = "sleep")  \* faulty: the flag is not kept

kick == wake' = TRUE

(* do_login: the store is cleared and the session saved, then Shared.api,  *)
(* Status.session and the kick.                                            *)
cleared ==
  /\ name' = [r \in Rooms |-> "absent"] /\ known' = {}
  /\ cursor' = 0 /\ swept' = FALSE

Client(from, to) == at = from /\ at' = to

do_login ==
  /\ Client("idle", "api")
  /\ logins < MaxLogins /\ logins' = logins + 1
  /\ cleared /\ row' = logins + 1
  /\ UNCHANGED <<memory, thread, starts, carries>>

login_api ==
  /\ Client("api", "session")
  /\ api' = logins
  /\ UNCHANGED <<store, session, wake, logins, thread, starts, carries>>

(* The store fails do_login: where the session cannot be saved nothing but *)
(* the cleared store is left; where the crypto state cannot be made the    *)
(* new login is saved and Shared.api has it, but Status.session is the old *)
(* one and nobody kicks.                                                   *)
login_unsaved ==
  /\ "store" \in Faults
  /\ at = "idle"
  /\ logins < MaxLogins /\ logins' = logins + 1
  /\ cleared /\ row' = 0
  /\ UNCHANGED <<at, memory, thread, starts, carries>>

login_fails ==
  /\ "store" \in Faults
  /\ Client("session", "idle")
  /\ UNCHANGED <<store, memory, logins, thread, starts, carries>>

login_session ==
  /\ Client("session", "kick")
  /\ session' = logins
  /\ UNCHANGED <<store, api, wake, logins, thread, starts, carries>>

login_kick ==
  /\ Client("kick", "idle")
  /\ kick
  /\ UNCHANGED <<store, api, session, logins, thread, starts, carries>>

do_logout ==
  /\ Client("idle", "clear")
  /\ api # 0 /\ api' = 0
  /\ UNCHANGED <<store, session, wake, logins, thread, starts, carries>>

logout_clear ==
  /\ Client("clear", "out")
  /\ cleared /\ row' = 0
  /\ UNCHANGED <<memory, logins, thread, starts, carries>>

logout_session ==
  /\ Client("out", "idle")
  /\ session' = 0
  /\ UNCHANGED <<store, api, wake, logins, thread, starts, carries>>

sync_now ==
  /\ ~ wake /\ kick
  /\ UNCHANGED <<store, api, session, client, thread, starts, carries>>

-----------------------------------------------------------------------------
(* sync_loop.                                                              *)
Goto(from, to) == pc = from /\ pc' = to

top ==
  /\ \/ api # 0 /\ session # 0 /\ me' = api
        /\ Goto("top", IF names_done THEN "poll" ELSE "list")
     \/ (api = 0 \/ session = 0) /\ me' = 0 /\ Goto("top", "wait")
  /\ UNCHANGED <<store, memory, client, names_done, pass, resp, starts, carries>>

(* wait_for_kick: the flag is looked at and the wait begun under one lock. *)
wait_for_kick ==
  /\ Goto("wait", IF wake THEN "top" ELSE "sleep")
  /\ wake' = FALSE
  /\ UNCHANGED <<store, api, session, client, me, names_done, pass, resp, starts, carries>>

(* A kick, or the interval is over.                                        *)
wakes ==
  /\ Goto("sleep", "top")
  /\ wake' = FALSE
  /\ UNCHANGED <<store, api, session, client, me, names_done, pass, resp, starts, carries>>

-----------------------------------------------------------------------------
(* backfill_room_names.                                                    *)
Least(S) == CHOOSE r \in S : \A s \in S : r <= s

Ahead_again == {r \in Stored : r >= cursor}  \* faulty: the last room once more

Ahead_any == {r \in Rooms : r > cursor}  \* faulty: rooms that are not there

Ahead == {r \in Stored : r > cursor}

(* The first NAME_BATCH of the rooms ahead.                                *)
Next_batch == {r \in Ahead : Cardinality({s \in Ahead : s <= r}) <= Batch}

(* m.direct is asked for first; without it the pass makes no progress.     *)
list_fails ==
  /\ "request" \in Faults
  /\ Goto("list", "poll")
  /\ names_done' = FALSE
  /\ UNCHANGED <<store, memory, client, me, pass, resp, starts, carries>>

list ==
  /\ Goto("list", "name")
  /\ todo' = [r \in Next_batch |-> name[r]]
  /\ done' = (Cardinality(Ahead) <= Batch)
  /\ reached' = 0
  /\ UNCHANGED <<store, memory, client, me, names_done, resp, starts, carries>>

At(r) == pc = "name" /\ DOMAIN todo # {} /\ r = Least(DOMAIN todo)

Rest(r) == [s \in DOMAIN todo \ {r} |-> todo[s]]

(* Unnamed, direct, or small and never looked at.                          *)
Considered(r) == todo[r] = "id" \/ r \in Direct \/ (r \notin known /\ r \notin Crowd)

(* Members without a name of their own leave nothing to remember.          *)
remember_members(r) == known' \in {known, known \cup {r}}

pass_over(r) ==
  /\ At(r) /\ ~ Considered(r)
  /\ reached' = r /\ todo' = Rest(r)
  /\ UNCHANGED <<store, memory, client, pc, me, names_done, done, resp, starts, carries>>

room_name(r) == r \in carries

(* The name the room carries, unless it seems to have none; its partner;   *)
(* its members.                                                            *)
Wanted(r) ==
  IF todo[r] # "id" /\ room_name(r) THEN "given"
  ELSE IF r \in Direct THEN "partner" ELSE "people"

name_room(r) ==
  /\ At(r) /\ Considered(r)
  /\ remember_members(r)
  /\ name' = IF r \in Stored /\ todo[r] # Wanted(r) THEN [name EXCEPT ![r] = Wanted(r)] ELSE name
  /\ reached' = r /\ todo' = Rest(r)
  /\ UNCHANGED <<cursor, swept, row, memory, client, pc, me, names_done, done,
                 resp, starts, carries>>

(* A failed look-up ends the pass at the last room dealt with.             *)
look_up_fails_over(r) ==  \* faulty: that the radio is off is forgotten
  /\ "request" \in Faults
  /\ At(r) /\ Considered(r)
  /\ todo' = NoBatch /\ pc' = "mark"
  /\ UNCHANGED <<store, memory, client, me, names_done, reached, done, resp, starts, carries>>

look_up_fails(r) ==
  /\ "request" \in Faults
  /\ At(r) /\ Considered(r)
  /\ todo' = NoBatch /\ done' = FALSE /\ pc' = "mark"
  /\ UNCHANGED <<store, memory, client, me, names_done, reached, resp, starts, carries>>

looked ==
  /\ DOMAIN todo = {} /\ Goto("name", "mark")
  /\ UNCHANGED <<store, memory, client, me, names_done, pass, resp, starts, carries>>

mark ==
  /\ Goto("mark", "poll")
  /\ cursor' = IF reached # 0 THEN reached ELSE cursor
  /\ swept' = (swept \/ done)
  /\ names_done' = done
  /\ done' = FALSE /\ reached' = 0
  /\ UNCHANGED <<name, known, row, memory, client, me, todo, resp, starts, carries>>

(* An error of the store ends the sweep for this run; it may come between  *)
(* the two writes of name_room.  A stop there leaves the same store, and a *)
(* login there clears both.                                                *)
sweep_error ==
  /\ "store" \in Faults
  /\ pc \in {"list", "name", "mark"} /\ pc' = "poll"
  /\ names_done' = TRUE
  /\ \/ UNCHANGED known
     \/ \E r \in Rooms : At(r) /\ Considered(r) /\ remember_members(r)
  /\ todo' = NoBatch /\ done' = FALSE /\ reached' = 0
  /\ UNCHANGED <<name, cursor, swept, row, memory, client, me, resp, starts, carries>>

-----------------------------------------------------------------------------
(* sync_once and, of process_sync, the rooms.                              *)
(* The poll is one request; any rooms may have something new.              *)
poll ==
  /\ Goto("poll", "rooms")
  /\ resp' \in SUBSET Rooms
  /\ UNCHANGED <<store, memory, client, me, names_done, pass, starts, carries>>

sync_fails ==
  /\ "request" \in Faults
  /\ pc \in {"poll", "rooms"} /\ pc' = "wait"
  /\ resp' = {}
  /\ UNCHANGED <<store, memory, client, me, names_done, pass, starts, carries>>

(* An m.room.name counts only in the batch's state, not in its timeline.   *)
From(r, inState) ==
  IF inState THEN {"given"}
  ELSE IF name[r] \in {"absent", "id"} THEN {"id", "people"}
  ELSE {name[r]}

sync_room(r) ==
  /\ pc = "rooms" /\ resp # {} /\ r = Least(resp)
  /\ \E inState \in IF r \in carries THEN BOOLEAN ELSE {FALSE} :
       \E n \in From(r, inState) : name' = [name EXCEPT ![r] = n]
  /\ remember_members(r)
  /\ resp' = resp \ {r}
  /\ UNCHANGED <<cursor, swept, row, memory, client, pc, me, names_done, pass,
                 starts, carries>>

batch_done ==
  /\ resp = {} /\ Goto("rooms", "top")
  /\ UNCHANGED <<store, memory, client, me, names_done, pass, resp, starts, carries>>

-----------------------------------------------------------------------------
(* run: the daemon was stopped anywhere and is started again.              *)
start ==
  /\ starts < MaxStarts /\ starts' = starts + 1
  /\ api' = row /\ session' = row /\ wake' = FALSE
  /\ at' = "idle"
  /\ pc' = "top" /\ me' = 0 /\ names_done' = swept
  /\ todo' = NoBatch /\ reached' = 0 /\ done' = FALSE /\ resp' = {}
  /\ UNCHANGED <<store, logins, carries>>

(* Somebody names a room.                                                  *)
rename ==
  /\ \E r \in Rooms \ carries : carries' = carries \cup {r}
  /\ UNCHANGED <<store, memory, client, thread, starts>>

-----------------------------------------------------------------------------
client_steps ==
  \/ do_login \/ login_api \/ login_session \/ login_kick
  \/ login_unsaved \/ login_fails
  \/ do_logout \/ logout_clear \/ logout_session \/ sync_now

Finishes == login_api \/ login_session \/ login_kick \/ logout_clear \/ logout_session

backfill_room_names ==
  \/ list_fails \/ list \/ looked \/ mark \/ sweep_error
  \/ \E r \in Rooms : pass_over(r) \/ name_room(r) \/ look_up_fails(r)

sync_once == poll \/ sync_fails \/ batch_done \/ \E r \in Rooms : sync_room(r)

sync_loop == top \/ wait_for_kick \/ wakes \/ backfill_room_names \/ sync_once

Next == client_steps \/ sync_loop \/ start \/ rename

Spec == Init /\ [][Next]_vars

(* The threads run, and a request that is made again and again is answered *)
(* in the end.                                                             *)
FairSpec ==
  /\ Spec
  /\ WF_vars(sync_loop) /\ WF_vars(Finishes)
  /\ SF_vars(list) /\ SF_vars(\E r \in Rooms : name_room(r))

-----------------------------------------------------------------------------
(* Type correctness of the store, the memory and the thread's locals.      *)
Names == {"id", "given", "people", "partner"}
Logins == 0 .. MaxLogins

TypeOK ==
  /\ name \in [Rooms -> Names \cup {"absent"}]
  /\ known \subseteq Rooms /\ cursor \in Rooms \cup {0} /\ swept \in BOOLEAN
  /\ {row, api, session, me, logins} \subseteq Logins
  /\ wake \in BOOLEAN
  /\ at \in {"idle", "api", "session", "kick", "clear", "out"}
  /\ pc \in {"top", "wait", "sleep", "list", "name", "mark", "poll", "rooms"}
  /\ names_done \in BOOLEAN /\ done \in BOOLEAN
  /\ DOMAIN todo \subseteq Rooms /\ \A r \in DOMAIN todo : todo[r] \in Names
  /\ reached \in Rooms \cup {0} /\ resp \subseteq Rooms
  /\ starts \in 1 .. MaxStarts
  /\ carries \subseteq Rooms

(* A kick is not lost between the look at the flag and the wait: the       *)
(* thread never sleeps out its interval on a login that has been replaced  *)
(* (main.rs do_login, kick, wait_for_kick).  One that failed with its      *)
(* crypto state kicks nobody; it leaves Status.session behind Shared.api.  *)
NoSleepThroughLogin ==
  pc = "sleep" /\ ~ wake /\ at = "idle" /\ api # 0 /\ session = api => me = api

(* The sweep's cursor and its mark never run ahead of the work, whatever   *)
(* requests fail and wherever the daemon is stopped: as long as the login  *)
(* it began in lasts, every direct chat it found is called by the name it  *)
(* carries or by its partner, and no room at all by its id (main.rs        *)
(* backfill_room_names).                                                   *)
Dealt(r) ==
  /\ name[r] # "id"
  /\ r \in Direct => name[r] \in {"given", "partner"}

SweepSkipsNothing ==
  logins = 1 /\ row = 1 => \A r \in Old : swept \/ r <= cursor => Dealt(r)

(* The sweep ends, though it stops at every failed request and starts over *)
(* behind its cursor, or an error of the store ends it (main.rs            *)
(* sync_loop).  A room that can never be read holds it up for good, which  *)
(* the fairness leaves out.                                                *)
SweepEnds == <>[](names_done \/ api = 0 \/ session = 0)

(* The sweep covers the list once per schema (main.rs, above               *)
(* backfill_room_names): a store that says so holds no direct chat named   *)
(* after its members.                                                      *)
SweepCovers ==
  swept => \A r \in Stored \cap Direct : name[r] \in {"given", "partner"}
=============================================================================
