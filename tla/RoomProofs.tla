----------------------------- MODULE RoomProofs -----------------------------
(***************************************************************************)
(* Proofs about a room's name in the list and about what a screen shows of *)
(* it, for any rooms, messages, sockets and bounds.                        *)
(*                                                                         *)
(* RoomNames.  That no login is slept through rests on what the flag says  *)
(* about the login the thread last looked at (Heard).  That the sweep      *)
(* skips nothing rests on its batch being the first rooms ahead of the     *)
(* cursor, taken in their order: what lies below a room still to be looked *)
(* at is dealt with or in the batch itself (Below).                        *)
(*                                                                         *)
(* Screen.  What is on its way over the socket in use is, in order, the    *)
(* requests the plugin waits for (Link).  A reader that is not yet counted *)
(* or has been away will still read the room again (Reasks), and apart     *)
(* from such a reader the last line on its way that sets a row, or the     *)
(* screen, has the newest version of it, or the sync thread is still to    *)
(* publish that (Sees).                                                    *)
(***************************************************************************)
EXTENDS RoomNames, Screen, FiniteSetTheorems, WellFoundedInduction, TLAPS

-----------------------------------------------------------------------------
(* RoomNames.                                                              *)
(* A login under way is newer than the session in memory, until it sets    *)
(* that; a logout under way has taken the api away.                        *)
Halves ==
  /\ logins \in Nat \ {0} /\ session <= logins /\ row <= logins
  /\ at = "api" => session < logins
  /\ at = "session" => session < logins /\ api = logins
  /\ at \in {"clear", "out"} => api = 0

(* Past the top of its loop and without a kick, the thread has the login   *)
(* that memory has both halves of.                                         *)
Heard == pc # "top" /\ ~ wake /\ at = "idle" /\ api # 0 /\ session = api => me = api

(* The login the store was opened with lasts.                              *)
Kept == logins = 1 /\ row = 1

Passed == \A r \in Old : swept \/ r <= cursor => Dealt(r)

(* The batch under way: its names are the store's, and it has no holes.    *)
Current == \A r \in DOMAIN todo : r \in Stored /\ todo[r] = name[r]

Below == \A r \in Old : (\E t \in DOMAIN todo : r < t) => Dealt(r) \/ r \in DOMAIN todo

Reached == \A r \in Old : r <= reached => Dealt(r)

Complete == done => \A r \in Old : Dealt(r) \/ r \in DOMAIN todo

SweepInv ==
  Kept =>
    /\ Old \subseteq Stored
    /\ Passed
    /\ pc = "name" => Current /\ Below
    /\ pc \in {"name", "mark"} => Reached /\ Complete
    /\ pc = "mark" => DOMAIN todo = {}

-----------------------------------------------------------------------------
(* Sets of rooms: the least of them, and the first few of them.            *)
LEMMA LeastIsLeast ==
  ASSUME NEW S \in SUBSET Nat, IsFiniteSet(S), S # {}
  PROVE  Least(S) \in S /\ \A s \in S : Least(S) <= s
<1> DEFINE Upto(r) == {s \in S : s <= r}
           Segments == {Upto(r) : r \in S}
<1>1. Segments \subseteq FiniteSubsetsOf(S) /\ Segments # {}
  <2>1. ASSUME NEW r \in S PROVE Upto(r) \in FiniteSubsetsOf(S)
    <3>1. Upto(r) \in SUBSET S
      OBVIOUS
    <3> HIDE DEF Upto
    <3> QED BY <3>1, FS_Subset DEF FiniteSubsetsOf
  <2> QED BY <2>1
<1>2. PICK U \in Segments : \A V \in Segments : <<V, U>> \notin StrictSubsetOrdering(S)
  <2> HIDE DEF Segments
  <2> QED BY ONLY <1>1, FS_StrictSubsetOrderingWellFounded, WFMin
<1>3. PICK r \in S : U = Upto(r)
  OBVIOUS
<1>4. ASSUME NEW s \in S, ~ (r <= s) PROVE FALSE
  <2>1. s \in Nat /\ r \in Nat /\ s < r
    BY <1>4
  <2>2. Upto(s) \subseteq Upto(r) /\ r \notin Upto(s) /\ r \in Upto(r)
    <3>1. ASSUME NEW t \in S, t <= s PROVE t <= r
      <4>1. t \in Nat
        OBVIOUS
      <4> QED BY <2>1, <3>1, <4>1
    <3>2. ~ (r <= s) /\ r <= r
      BY <1>4, <2>1
    <3> QED BY <3>1, <3>2
  <2>3. <<Upto(s), Upto(r)>> \in StrictSubsetOrdering(S)
    BY <2>2 DEF StrictSubsetOrdering
  <2> QED BY <1>2, <1>3, <2>3
<1> QED BY <1>4 DEF Least

LEMMA FirstFew ==
  ASSUME TypeOK
  PROVE  /\ Next_batch \subseteq Ahead
         /\ \A r \in Next_batch, s \in Ahead : s < r => s \in Next_batch
         /\ Cardinality(Ahead) <= Batch => Ahead \subseteq Next_batch
<1> USE RoomNamesAssumption
<1> DEFINE Upto(r) == {s \in Ahead : s <= r}
<1>1. Ahead \subseteq Rooms /\ IsFiniteSet(Ahead)
  BY FS_Subset DEF Ahead, Stored
<1>2. ASSUME NEW A \in SUBSET Ahead, NEW B \in SUBSET A
      PROVE  Cardinality(B) <= Cardinality(A) /\ Cardinality(B) \in Nat /\ Cardinality(A) \in Nat
  <2>1. IsFiniteSet(A)
    BY <1>1, FS_Subset
  <2>2. IsFiniteSet(B)
    BY <2>1, FS_Subset
  <2> QED BY <2>1, <2>2, FS_Subset, FS_CardinalityType
<1>3. ASSUME NEW r \in Next_batch, NEW s \in Ahead, s < r PROVE s \in Next_batch
  <2>1. r \in Ahead /\ Cardinality(Upto(r)) <= Batch
    BY DEF Next_batch
  <2>2. Upto(s) \in SUBSET Upto(r) /\ Upto(r) \in SUBSET Ahead
    <3>1. r \in Nat /\ s \in Nat
      BY <1>1, <2>1
    <3>2. ASSUME NEW t \in Ahead, t <= s PROVE t <= r
      <4>1. t \in Nat
        BY <1>1
      <4> QED BY <1>3, <3>1, <3>2, <4>1
    <3> QED BY <3>2
  <2>3. Cardinality(Upto(s)) <= Cardinality(Upto(r)) /\ Cardinality(Upto(s)) \in Nat
        /\ Cardinality(Upto(r)) \in Nat
    <3> HIDE DEF Upto
    <3> QED BY <1>2, <2>2
  <2>4. Cardinality(Upto(s)) <= Batch
    <3> HIDE DEF Upto
    <3> QED BY <2>1, <2>3
  <2> QED BY <2>4 DEF Next_batch
<1>4. ASSUME Cardinality(Ahead) <= Batch, NEW r \in Ahead PROVE r \in Next_batch
  <2>1. Upto(r) \in SUBSET Ahead
    OBVIOUS
  <2>2. Cardinality(Upto(r)) <= Cardinality(Ahead) /\ Cardinality(Upto(r)) \in Nat
        /\ Cardinality(Ahead) \in Nat
    <3> HIDE DEF Upto
    <3> QED BY <1>2, <2>1
  <2>3. Cardinality(Upto(r)) <= Batch
    <3> HIDE DEF Upto
    <3> QED BY <1>4, <2>2
  <2> QED BY <2>3 DEF Next_batch
<1> QED BY <1>3, <1>4 DEF Next_batch

-----------------------------------------------------------------------------
(* Type correctness.                                                       *)
TodoOK == DOMAIN todo \subseteq Rooms /\ \A r \in DOMAIN todo : todo[r] \in Names

LEMMA InitType == Init => TypeOK /\ Halves
<1> SUFFICES ASSUME Init PROVE TypeOK /\ Halves
  OBVIOUS
<1> USE RoomNamesAssumption
<1>1. name \in [Rooms -> Names \cup {"absent"}]
  BY DEF Init, Names
<1>2. DOMAIN todo = {}
  BY DEF Init, NoBatch
<1>3. carries \subseteq Rooms /\ known \subseteq Rooms
  BY DEF Init
<1>4. wake \in BOOLEAN /\ swept \in BOOLEAN /\ names_done \in BOOLEAN /\ done \in BOOLEAN
  <2>1. wake = FALSE /\ swept = FALSE /\ names_done = FALSE /\ done = FALSE
    BY DEF Init
  <2> QED BY <2>1
<1>5. /\ cursor = 0 /\ reached = 0 /\ resp = {}
      /\ {row, api, session, me, logins} \subseteq Logins
      /\ at = "idle" /\ pc = "top" /\ starts \in 1 .. MaxStarts
      /\ session = 1 /\ row = 1 /\ logins = 1
  BY DEF Init, Logins
<1> QED BY <1>1, <1>2, <1>3, <1>4, <1>5 DEF TypeOK, Halves

LEMMA ClearedType ==
  ASSUME cleared
  PROVE  /\ name' \in [Rooms -> Names \cup {"absent"}]
         /\ known' \subseteq Rooms /\ cursor' \in Rooms \cup {0} /\ swept' \in BOOLEAN
BY DEF cleared

LEMMA NoBatchType ==
  ASSUME todo' = NoBatch
  PROVE  TodoOK' /\ DOMAIN todo' = {}
BY DEF NoBatch, TodoOK

LEMMA RestType ==
  ASSUME TypeOK, NEW r, todo' = Rest(r)
  PROVE  /\ TodoOK' /\ DOMAIN todo' = DOMAIN todo \ {r}
         /\ \A s \in DOMAIN todo' : todo'[s] = todo[s]
BY DEF TypeOK, Rest, TodoOK

LEMMA TypeStep == TypeOK /\ Halves /\ [Next]_vars => TypeOK' /\ Halves'
<1> SUFFICES ASSUME TypeOK, Halves, [Next]_vars PROVE TypeOK' /\ Halves'
  OBVIOUS
<1> USE RoomNamesAssumption
<1>1. CASE do_login \/ login_unsaved \/ logout_clear
  <2>0. {row, api, session, logins} \subseteq Nat
    BY DEF TypeOK, Logins
  <2>1. /\ cleared /\ UNCHANGED <<memory, thread, starts, carries>>
        /\ row' \in Logins /\ logins' \in Logins \ {0} /\ row' <= logins'
        /\ \/ at' \in {"api", "idle"} /\ logins' = logins + 1
           \/ at = "clear" /\ at' = "out" /\ logins' = logins
    BY <1>1 DEF do_login, login_unsaved, logout_clear, Client, TypeOK, Halves, Logins
  <2>2. Halves'
    BY <2>0, <2>1 DEF memory, Halves
  <2>3. /\ name' \in [Rooms -> Names \cup {"absent"}]
        /\ known' \subseteq Rooms /\ cursor' \in Rooms \cup {0} /\ swept' \in BOOLEAN
    BY <2>1, ClearedType
  <2> QED BY <2>1, <2>2, <2>3 DEF memory, thread, pass, TypeOK, Logins
<1>2. CASE \/ login_api \/ login_fails \/ login_session \/ login_kick
           \/ do_logout \/ logout_session \/ sync_now
  <2>0. {row, api, session, logins} \subseteq Nat
    BY DEF TypeOK, Logins
  <2>1. /\ UNCHANGED <<store, logins, thread, starts, carries>>
        /\ api' \in Logins /\ session' \in Logins
        /\ at' \in {"idle", "api", "session", "kick", "clear", "out"}
    BY <1>2 DEF login_api, login_fails, login_session, login_kick, do_logout, logout_session,
                sync_now, Client, client, memory, kick, TypeOK, Halves, Logins
  <2>2. wake' \in BOOLEAN
    BY <1>2 DEF login_api, login_fails, login_session, login_kick, do_logout, logout_session,
                sync_now, memory, kick, TypeOK
  <2>3. /\ session' \in {session, logins, 0}
        /\ at' = "api" => at = "api" /\ session' = session
        /\ at' = "session" => /\ session' = session
                             /\ \/ at = "api" /\ api' = logins
                                \/ at = "session" /\ api' = api
        /\ at' \in {"clear", "out"} => \/ at \in {"clear", "out"} /\ api' = api
                                      \/ api' = 0
    <3>1. CASE login_api \/ login_fails \/ login_session \/ login_kick
      BY <3>1 DEF login_api, login_fails, login_session, login_kick, Client, memory
    <3>2. CASE do_logout \/ logout_session
      BY <3>2 DEF do_logout, logout_session, Client
    <3>3. CASE sync_now
      BY <3>3 DEF sync_now, client
    <3> QED BY <1>2, <3>1, <3>2, <3>3
  <2>4. Halves'
    <3>1. row' = row /\ logins' = logins
      BY <2>1 DEF store
    <3> QED BY <2>0, <2>3, <3>1 DEF Halves
  <2> QED BY <2>1, <2>2, <2>4 DEF store, thread, pass, TypeOK
<1>3. CASE top \/ wait_for_kick \/ wakes
  <2>1. /\ UNCHANGED <<store, api, session, client, names_done, pass, resp, starts, carries>>
        /\ me' \in Logins /\ pc' \in {"top", "wait", "sleep", "list", "poll"}
    BY <1>3 DEF top, wait_for_kick, wakes, Goto, memory, TypeOK, Logins
  <2>2. wake' \in BOOLEAN
    BY <1>3 DEF top, wait_for_kick, wakes, memory, TypeOK
  <2> QED BY <2>1, <2>2 DEF store, client, pass, TypeOK, Halves
<1>4. CASE list
  <2>1. Next_batch \subseteq Stored /\ Stored \subseteq Rooms
    BY DEF Next_batch, Ahead, Stored
  <2>2. TodoOK'
    BY <1>4, <2>1 DEF list, TodoOK, TypeOK, Stored
  <2>3. done' \in BOOLEAN /\ reached' = 0
    BY <1>4 DEF list
  <2> QED BY <1>4, <2>2, <2>3 DEF list, Goto, store, memory, client, TypeOK, TodoOK, Halves
<1>5. ASSUME NEW r \in Rooms, pass_over(r) PROVE TypeOK' /\ Halves'
  <2>1. TodoOK'
    <3>1. todo' = Rest(r)
      BY <1>5 DEF pass_over
    <3> QED BY <3>1, RestType
  <2> QED BY <1>5, <2>1 DEF pass_over, store, memory, client, TypeOK, TodoOK, Halves
<1>6. ASSUME NEW r \in Rooms, name_room(r) PROVE TypeOK' /\ Halves'
  <2>1. name' \in [Rooms -> Names \cup {"absent"}] /\ known' \subseteq Rooms
    BY <1>6 DEF name_room, remember_members, Wanted, Names, TypeOK
  <2>2. TodoOK'
    <3>1. todo' = Rest(r)
      BY <1>6 DEF name_room
    <3> QED BY <3>1, RestType
  <2> QED BY <1>6, <2>1, <2>2 DEF name_room, memory, client, TypeOK, TodoOK, Halves
<1>7. ASSUME \/ sweep_error \/ list_fails \/ looked \/ mark
             \/ \E r \in Rooms : look_up_fails(r)
      PROVE  TypeOK' /\ Halves'
  <2>1. UNCHANGED <<name, row, memory, client, me, resp, starts, carries>> /\ known' \subseteq Rooms
    BY <1>7 DEF remember_members, TypeOK, sweep_error, list_fails, looked, mark, look_up_fails, store
  <2>2. TodoOK'
    <3>1. todo' = NoBatch \/ todo' = todo
      BY <1>7 DEF sweep_error, list_fails, looked, mark, look_up_fails, pass
    <3> QED BY <3>1, NoBatchType DEF TodoOK, TypeOK
  <2>3. /\ pc' \in {"poll", "mark"} /\ cursor' \in Rooms \cup {0} /\ reached' \in Rooms \cup {0}
    BY <1>7 DEF sweep_error, list_fails, looked, mark, look_up_fails, Goto, pass, store, TypeOK
  <2>4. swept' \in BOOLEAN
    BY <1>7 DEF sweep_error, list_fails, looked, mark, look_up_fails, pass, store, TypeOK
  <2>5. names_done' \in BOOLEAN /\ done' \in BOOLEAN
    BY <1>7 DEF sweep_error, list_fails, looked, mark, look_up_fails, pass, store, TypeOK
  <2> QED BY <2>1, <2>2, <2>3, <2>4, <2>5 DEF memory, client, TypeOK, TodoOK, Halves
<1>8. CASE poll \/ sync_fails \/ batch_done
  <2>1. /\ UNCHANGED <<store, memory, client, me, names_done, pass, starts, carries>>
        /\ pc' \in {"rooms", "wait", "top"} /\ resp' \subseteq Rooms
    BY <1>8 DEF poll, sync_fails, batch_done, Goto, TypeOK
  <2> QED BY <2>1 DEF store, memory, client, pass, TypeOK, Halves
<1>9. ASSUME NEW r \in Rooms, sync_room(r) PROVE TypeOK' /\ Halves'
  <2>1. name' \in [Rooms -> Names \cup {"absent"}]
    BY <1>9 DEF sync_room, From, Names, TypeOK
  <2>2. known' \subseteq Rooms /\ resp' \subseteq Rooms
    BY <1>9 DEF sync_room, remember_members, TypeOK
  <2> QED BY <1>9, <2>1, <2>2 DEF sync_room, memory, client, pass, TypeOK, Halves
<1>10. CASE start
  <2>1. wake' \in BOOLEAN /\ names_done' \in BOOLEAN /\ done' \in BOOLEAN
    <3>1. wake' = FALSE /\ names_done' = swept /\ done' = FALSE
      BY <1>10 DEF start
    <3> QED BY <3>1 DEF TypeOK
  <2> QED BY <1>10, <2>1, NoBatchType DEF start, store, TypeOK, TodoOK, Halves, Logins
<1>11. CASE rename
  BY <1>11 DEF rename, store, memory, client, thread, pass, TypeOK, Halves
<1>12. CASE UNCHANGED vars
  BY <1>12 DEF vars, store, memory, client, thread, pass, TypeOK, Halves
<1> QED
  BY <1>1, <1>2, <1>3, <1>4, <1>5, <1>6, <1>7, <1>8, <1>9, <1>10, <1>11, <1>12
  DEF Next, client_steps, sync_loop, backfill_room_names, sync_once

-----------------------------------------------------------------------------
(* The flag.                                                               *)
LEMMA HeardStep == TypeOK /\ Halves /\ Heard /\ [Next]_vars => Heard'
<1> SUFFICES ASSUME TypeOK, Halves, Heard, [Next]_vars PROVE Heard'
  OBVIOUS
<1> USE DEF Heard
<1>1. CASE client_steps
  <2>1. UNCHANGED <<pc, me>>
    BY <1>1 DEF client_steps, do_login, login_unsaved, login_api, login_fails, login_session,
       login_kick, do_logout, logout_clear, logout_session, sync_now, thread
  <2>2. CASE login_fails
    <3>1. session' < api'
      BY <2>2 DEF login_fails, Client, memory, Halves
    <3>2. session' \in Nat /\ api' \in Nat
      BY <2>2 DEF login_fails, memory, TypeOK, Logins
    <3> QED BY <3>1, <3>2
  <2>3. CASE login_unsaved
    BY <2>1, <2>3 DEF login_unsaved, memory
  <2>4. CASE ~ login_fails /\ ~ login_unsaved
    <3>1. \/ at' # "idle" \/ wake' \/ api' = 0
      BY <1>1, <2>4 DEF client_steps, do_login, login_api, login_session, login_kick, do_logout,
         logout_clear, logout_session, sync_now, Client, kick, Halves
    <3> QED BY <2>1, <3>1
  <2> QED BY <2>2, <2>3, <2>4
<1>2. CASE top \/ wait_for_kick \/ wakes
  BY <1>2 DEF top, wait_for_kick, wakes, Goto, memory, client, Halves
<1>3. CASE backfill_room_names \/ sync_once
  <2>1. /\ UNCHANGED <<memory, client, me>> /\ pc # "top"
    BY <1>3 DEF backfill_room_names, sync_once, list_fails, list, looked, mark, sweep_error,
       pass_over, name_room, look_up_fails, poll, sync_fails, batch_done, sync_room, Goto, At
  <2> QED BY <2>1 DEF memory, client
<1>4. CASE start
  BY <1>4 DEF start
<1>5. CASE rename \/ UNCHANGED vars
  BY <1>5 DEF rename, vars, memory, client, thread
<1> QED BY <1>1, <1>2, <1>3, <1>4, <1>5 DEF Next, sync_loop

-----------------------------------------------------------------------------
(* The sweep.                                                              *)
LEMMA InitSweep == Init => SweepInv /\ Heard
<1> SUFFICES ASSUME Init PROVE SweepInv /\ Heard
  OBVIOUS
<1>1. Old \subseteq Stored /\ pc = "top" /\ swept = FALSE /\ cursor = 0
  BY DEF Init
<1>2. Passed
  BY <1>1, RoomNamesAssumption DEF Passed
<1> QED BY <1>1, <1>2 DEF SweepInv, Heard

(* What neither writes the store nor moves the sweep leaves it as it was.  *)
LEMMA SweepUntouched ==
  ASSUME SweepInv, UNCHANGED <<name, cursor, swept>>, Kept' => Kept,
         pc' \in {"name", "mark"} => pc' = pc /\ UNCHANGED pass
  PROVE  SweepInv'
<1> SUFFICES ASSUME Kept' PROVE SweepInv'
  BY DEF SweepInv
<1>1. Stored' = Stored
  BY DEF Stored
<1>2. Passed'
  BY DEF Passed, Dealt, SweepInv
<1>3. ASSUME pc' \in {"name", "mark"}
      PROVE  /\ pc' = "name" => Current' /\ Below'
             /\ Reached' /\ Complete'
             /\ pc' = "mark" => DOMAIN todo' = {}
  <2>1. pc' = pc /\ todo' = todo /\ reached' = reached /\ done' = done
    BY <1>3 DEF pass
  <2>2. \A r \in Old : Dealt(r)' <=> Dealt(r)
    BY DEF Dealt
  <2>3. Current => Current'
    BY <1>1, <2>1 DEF Current
  <2>4. (Below => Below') /\ (Reached => Reached') /\ (Complete => Complete')
    BY <2>1, <2>2 DEF Below, Reached, Complete
  <2> QED BY <1>3, <2>1, <2>3, <2>4 DEF SweepInv
<1> QED BY <1>1, <1>2, <1>3 DEF SweepInv

(* Of the room at hand the rooms below it are dealt with.                  *)
LEMMA AtFacts ==
  ASSUME TypeOK, SweepInv, Kept, NEW r \in Rooms, At(r)
  PROVE  /\ pc = "name" /\ r \in DOMAIN todo /\ r \in Stored /\ todo[r] = name[r]
         /\ \A s \in Old : s < r => Dealt(s)
<1> USE RoomNamesAssumption
<1>1. DOMAIN todo \in SUBSET Nat /\ IsFiniteSet(DOMAIN todo) /\ DOMAIN todo # {}
  BY FS_Subset DEF TypeOK, At
<1>2. r \in DOMAIN todo /\ \A s \in DOMAIN todo : r <= s
  BY <1>1, LeastIsLeast DEF At
<1>3. ASSUME NEW s \in Old, s < r PROVE Dealt(s)
  <2>1. s \in Nat /\ r \in Nat /\ ~ (r <= s)
    BY <1>3
  <2>2. Dealt(s) \/ s \in DOMAIN todo
    BY <1>2, <1>3 DEF SweepInv, Below, At
  <2> QED BY <1>2, <2>1, <2>2
<1> QED BY <1>2, <1>3 DEF SweepInv, Current, At

(* A room passed over or named: dealt with, and off the batch.             *)
LEMMA RoomDone ==
  ASSUME TypeOK, SweepInv, Kept, NEW r \in Rooms, At(r),
         r \in Old => Dealt(r)',
         \A s \in Rooms \ {r} : name'[s] = name[s],
         r \in Stored',
         todo' = Rest(r), reached' = r, UNCHANGED <<pc, done, cursor, swept>>
  PROVE  SweepInv'
<1> USE RoomNamesAssumption
<1>1. /\ pc = "name" /\ r \in DOMAIN todo
      /\ \A s \in Old : s < r => Dealt(s)
  BY AtFacts
<1>2. DOMAIN todo' = DOMAIN todo \ {r} /\ \A s \in DOMAIN todo' : todo'[s] = todo[s]
  BY RestType
<1>3. \A s \in Old : Dealt(s) => Dealt(s)'
  BY DEF Dealt
<1>4. \A s \in Stored : s \in Stored'
  BY DEF Stored
<1>5. Passed'
  BY <1>3 DEF SweepInv, Passed
<1>6. Current'
  BY <1>1, <1>2, <1>4 DEF SweepInv, Current, TypeOK
<1>7. Reached'
  <2>1. ASSUME NEW s \in Old, s <= r PROVE Dealt(s)'
    <3>1. s < r \/ s = r
      <4>1. s \in Nat /\ r \in Nat
        OBVIOUS
      <4> QED BY <2>1, <4>1
    <3> QED BY <1>1, <1>3, <3>1
  <2> QED BY <2>1 DEF Reached
<1>8. Below' /\ Complete'
  <2>1. ASSUME NEW s \in Old, Dealt(s) \/ s \in DOMAIN todo
        PROVE  Dealt(s)' \/ s \in DOMAIN todo'
    BY <1>2, <1>3, <2>1
  <2>2. Below /\ Complete
    BY <1>1 DEF SweepInv
  <2>3. Below'
    BY <1>2, <2>1, <2>2 DEF Below
  <2>4. Complete'
    BY <2>1, <2>2 DEF Complete
  <2> QED BY <2>3, <2>4
<1>9. Old \subseteq Stored'
  BY <1>4 DEF SweepInv
<1> QED BY <1>1, <1>5, <1>6, <1>7, <1>8, <1>9 DEF SweepInv

LEMMA SweepStep == TypeOK /\ Halves /\ SweepInv /\ [Next]_vars => SweepInv'
<1> SUFFICES ASSUME TypeOK, Halves, SweepInv, [Next]_vars PROVE SweepInv'
  OBVIOUS
<1> USE RoomNamesAssumption
<1>1. CASE client_steps
  <2>1. CASE do_login \/ login_unsaved \/ logout_clear
    <3>1. ~ Kept'
      BY <2>1 DEF do_login, login_unsaved, logout_clear, Kept, Halves
    <3> QED BY <3>1 DEF SweepInv
  <2>2. CASE \/ login_api \/ login_fails \/ login_session \/ login_kick
             \/ do_logout \/ logout_session \/ sync_now
    <3>1. UNCHANGED <<store, logins, thread>>
      BY <2>2 DEF login_api, login_fails, login_session, login_kick, do_logout, logout_session, sync_now,
                  client
    <3> QED BY <3>1, SweepUntouched DEF store, thread, pass, Kept
  <2> QED BY <1>1, <2>1, <2>2 DEF client_steps
<1>2. CASE \/ top \/ wait_for_kick \/ wakes \/ list_fails \/ sweep_error
           \/ poll \/ sync_fails \/ batch_done \/ start \/ rename \/ UNCHANGED vars
  <2>1. UNCHANGED <<name, cursor, swept, row, logins>>
    BY <1>2 DEF top, wait_for_kick, wakes, list_fails, sweep_error, poll, sync_fails,
       batch_done, start, rename, vars, store, client
  <2>2. pc' \in {"name", "mark"} => pc' = pc /\ UNCHANGED pass
    BY <1>2 DEF top, wait_for_kick, wakes, list_fails, sweep_error, poll, sync_fails,
       batch_done, start, rename, vars, thread, Goto
  <2> QED BY <2>1, <2>2, SweepUntouched DEF Kept
<1>3. CASE list
  <2> SUFFICES ASSUME Kept PROVE SweepInv'
    BY <1>3 DEF SweepInv, Kept, list, store, client
  <2>1. /\ UNCHANGED <<name, cursor, swept>> /\ pc' = "name" /\ reached' = 0
        /\ todo' = [r \in Next_batch |-> name[r]]
        /\ done' = (Cardinality(Ahead) <= Batch)
    BY <1>3 DEF list, store, Goto
  <2>2. /\ Next_batch \subseteq Ahead
        /\ \A r \in Next_batch, s \in Ahead : s < r => s \in Next_batch
        /\ Cardinality(Ahead) <= Batch => Ahead \subseteq Next_batch
    BY FirstFew
  <2>3. Stored' = Stored /\ Old \subseteq Stored
    BY <2>1 DEF Stored, SweepInv
  <2>4. \A r \in Old : Dealt(r)' <=> Dealt(r)
    BY <2>1 DEF Dealt
  <2>5. \A r \in Old : Dealt(r) \/ r \in Ahead
    <3>1. ASSUME NEW r \in Old PROVE r <= cursor \/ r > cursor
      BY DEF TypeOK
    <3> QED BY <2>3, <3>1 DEF Ahead, SweepInv, Passed
  <2>6. Passed'
    BY <2>1, <2>4 DEF SweepInv, Passed
  <2>7. Current'
    BY <2>1, <2>2, <2>3 DEF Current, Ahead
  <2>8. Below'
    BY <2>1, <2>2, <2>4, <2>5 DEF Below
  <2>9. Reached'
    <3>1. \A r \in Old : ~ (r <= 0)
      OBVIOUS
    <3> QED BY <2>1, <3>1 DEF Reached
  <2>10. Complete'
    BY <2>1, <2>2, <2>4, <2>5 DEF Complete
  <2> QED BY <2>1, <2>3, <2>6, <2>7, <2>8, <2>9, <2>10 DEF SweepInv
<1>4. ASSUME NEW r \in Rooms, pass_over(r) PROVE SweepInv'
  <2> SUFFICES ASSUME Kept PROVE SweepInv'
    BY <1>4 DEF SweepInv, Kept, pass_over, store, client
  <2>1. /\ At(r) /\ ~ Considered(r) /\ UNCHANGED <<name, cursor, swept, pc, done>>
        /\ todo' = Rest(r) /\ reached' = r
    BY <1>4 DEF pass_over, store
  <2>2. r \in Stored /\ todo[r] = name[r]
    BY <2>1, AtFacts
  <2>3. Dealt(r)' /\ r \in Stored'
    BY <2>1, <2>2 DEF Considered, Dealt, Stored
  <2> QED BY <2>1, <2>3, RoomDone
<1>5. ASSUME NEW r \in Rooms, name_room(r) PROVE SweepInv'
  <2> SUFFICES ASSUME Kept PROVE SweepInv'
    BY <1>5 DEF SweepInv, Kept, name_room, client
  <2>1. /\ At(r) /\ UNCHANGED <<cursor, swept, pc, done>>
        /\ todo' = Rest(r) /\ reached' = r
    BY <1>5 DEF name_room
  <2>2. r \in Stored /\ todo[r] = name[r]
    BY <2>1, AtFacts
  <2>3. name'[r] = Wanted(r) /\ \A s \in Rooms \ {r} : name'[s] = name[s]
    BY <1>5, <2>2 DEF name_room, TypeOK
  <2>4. Dealt(r)' /\ r \in Stored'
    BY <2>3 DEF Wanted, Dealt, Stored
  <2> QED BY <2>1, <2>3, <2>4, RoomDone
<1>6. ASSUME NEW r \in Rooms, look_up_fails(r) PROVE SweepInv'
  <2> SUFFICES ASSUME Kept PROVE SweepInv'
    BY <1>6 DEF SweepInv, Kept, look_up_fails, store, client
  <2>1. /\ UNCHANGED <<name, cursor, swept, reached>>
        /\ done' = FALSE /\ pc' = "mark" /\ pc = "name" /\ todo' = NoBatch
    BY <1>6 DEF look_up_fails, At, store
  <2>2. DOMAIN todo' = {}
    BY <2>1, NoBatchType
  <2>3. Passed' /\ Reached' /\ Complete' /\ Stored' = Stored
    BY <2>1 DEF SweepInv, Passed, Reached, Complete, Dealt, Stored
  <2> QED BY <2>1, <2>2, <2>3 DEF SweepInv
<1>7. CASE looked
  <2> SUFFICES ASSUME Kept PROVE SweepInv'
    BY <1>7 DEF SweepInv, Kept, looked, store, client
  <2>1. /\ UNCHANGED <<name, cursor, swept, todo, reached, done>>
        /\ pc = "name" /\ pc' = "mark" /\ DOMAIN todo = {}
    BY <1>7 DEF looked, Goto, store, pass
  <2>2. Passed' /\ Reached' /\ Complete' /\ Stored' = Stored
    BY <2>1 DEF SweepInv, Passed, Reached, Complete, Dealt, Stored
  <2> QED BY <2>1, <2>2 DEF SweepInv
<1>8. CASE mark
  <2> SUFFICES ASSUME Kept PROVE SweepInv'
    BY <1>8 DEF SweepInv, Kept, mark, client
  <2>1. /\ UNCHANGED name /\ pc = "mark" /\ pc' = "poll"
        /\ cursor' = cursor \/ cursor' = reached
        /\ swept' = (swept \/ done)
    BY <1>8 DEF mark, Goto
  <2>2. Reached /\ Complete /\ Passed /\ DOMAIN todo = {}
    BY <2>1 DEF SweepInv
  <2>3. \A r \in Old : Dealt(r)' <=> Dealt(r)
    BY <2>1 DEF Dealt
  <2>4. Passed'
    BY <2>1, <2>2, <2>3 DEF Passed, Reached, Complete
  <2> QED BY <2>1, <2>4 DEF SweepInv, Stored
<1>9. ASSUME NEW r \in Rooms, sync_room(r) PROVE SweepInv'
  <2> SUFFICES ASSUME Kept PROVE SweepInv'
    BY <1>9 DEF SweepInv, Kept, sync_room, client
  <2>1. /\ pc' = "rooms" /\ UNCHANGED <<cursor, swept>>
        /\ \E b \in BOOLEAN : \E n \in From(r, b) : name' = [name EXCEPT ![r] = n]
    BY <1>9 DEF sync_room
  <2>2. PICK n \in Names : /\ name' = [name EXCEPT ![r] = n]
                           /\ name[r] \in {"absent", "id"} \/ n = "given" \/ n = name[r]
    BY <2>1 DEF From, Names, TypeOK
  <2>3. \A s \in Stored : s \in Stored' /\ (Dealt(s) => Dealt(s)')
    BY <2>2 DEF Stored, Dealt, TypeOK, Names
  <2>4. Passed'
    BY <2>1, <2>3 DEF SweepInv, Passed
  <2> QED BY <2>1, <2>3, <2>4 DEF SweepInv
<1> QED
  BY <1>1, <1>2, <1>3, <1>4, <1>5, <1>6, <1>7, <1>8, <1>9
  DEF Next, sync_loop, backfill_room_names, sync_once

-----------------------------------------------------------------------------
IInv == TypeOK /\ Halves /\ Heard /\ SweepInv

LEMMA Invariance == Spec => []IInv
<1>1. Init => IInv
  BY InitType, InitSweep DEF IInv
<1>2. IInv /\ [Next]_vars => IInv'
  BY TypeStep, HeardStep, SweepStep DEF IInv
<1> QED BY <1>1, <1>2, PTL DEF Spec

(* The table of rooms, the sweep's cursor and batch, and the places of the *)
(* client and of sync_loop are well typed.                                 *)
THEOREM RoomNamesTypeCorrect == Spec => []TypeOK
<1>1. IInv => TypeOK
  BY DEF IInv
<1> QED BY <1>1, Invariance, PTL

(* The sync thread never sleeps out its interval on a login that has been  *)
(* replaced: Shared::kick leaves the flag for wait_for_kick, whenever it   *)
(* comes.                                                                  *)
THEOREM NeverSleepsThroughLogin == Spec => []NoSleepThroughLogin
<1>1. IInv => NoSleepThroughLogin
  BY DEF IInv, Heard, NoSleepThroughLogin
<1> QED BY <1>1, Invariance, PTL

(* For any set of rooms and size of batch, backfill_room_names never moves *)
(* its cursor over, nor calls the list swept with, a room it has not       *)
(* named, whatever look-up fails and wherever the daemon is stopped.       *)
THEOREM SweepSkipsNothingAlways == Spec => []SweepSkipsNothing
<1>1. IInv => SweepSkipsNothing
  BY DEF IInv, SweepInv, Kept, Passed, SweepSkipsNothing
<1> QED BY <1>1, Invariance, PTL

(* The batch under way and what has been dealt with lie ahead of the       *)
(* cursor, also where a login has set it back since.                       *)
Onward ==
  pc \in {"name", "mark"} =>
    (reached = 0 \/ reached > cursor) /\ \A r \in DOMAIN todo : r > cursor

LEMMA OnwardStep == TypeOK /\ Onward /\ [Next]_vars => Onward'
<1> SUFFICES ASSUME TypeOK, Onward, [Next]_vars PROVE Onward'
  OBVIOUS
<1>t. cursor \in Nat /\ reached \in Nat /\ DOMAIN todo \subseteq Nat
  <2>1. /\ cursor \in Rooms \cup {0} /\ reached \in Rooms \cup {0} /\ DOMAIN todo \subseteq Rooms
        /\ \A r \in Rooms : r \in Nat
    BY RoomNamesAssumption DEF TypeOK
  <2> QED BY <2>1
<1>1. CASE do_login \/ login_unsaved \/ logout_clear
  <2>1. cursor' = 0 /\ UNCHANGED <<pc, todo, reached>>
    BY <1>1 DEF do_login, login_unsaved, logout_clear, cleared, thread, pass
  <2> QED BY <1>t, <2>1 DEF Onward
<1>2. CASE \/ login_api \/ login_fails \/ login_session \/ login_kick \/ do_logout
           \/ logout_session \/ sync_now \/ rename \/ UNCHANGED vars
  <2>1. UNCHANGED <<cursor, pc, todo, reached>>
    BY <1>2 DEF login_api, login_fails, login_session, login_kick, do_logout, logout_session, sync_now, rename,
                vars, store, thread, pass
  <2> QED BY <2>1 DEF Onward
<1>3. CASE list
  <2>1. reached' = 0 /\ cursor' = cursor /\ DOMAIN todo' = Next_batch
    BY <1>3 DEF list, store
  <2> QED BY <2>1 DEF Onward, Next_batch, Ahead
<1>4. ASSUME NEW r \in Rooms, pass_over(r) \/ name_room(r) PROVE Onward'
  <2>1. /\ r \in DOMAIN todo /\ pc = "name" /\ reached' = r /\ cursor' = cursor /\ todo' = Rest(r)
    <3>1. At(r) /\ reached' = r /\ cursor' = cursor /\ todo' = Rest(r)
      BY <1>4 DEF pass_over, name_room, store
    <3>2. Least(DOMAIN todo) \in DOMAIN todo
      <4>1. DOMAIN todo \in SUBSET Nat /\ IsFiniteSet(DOMAIN todo) /\ DOMAIN todo # {}
        BY <1>t, <3>1, FS_Subset, RoomNamesAssumption DEF TypeOK, At
      <4> QED BY <4>1, LeastIsLeast
    <3> QED BY <3>1, <3>2 DEF At
  <2>2. DOMAIN todo' = DOMAIN todo \ {r}
    BY <2>1, RestType
  <2> QED BY <2>1, <2>2 DEF Onward
<1>5. ASSUME NEW r \in Rooms, look_up_fails(r) PROVE Onward'
  <2>1. pc = "name" /\ reached' = reached /\ cursor' = cursor /\ DOMAIN todo' = {}
    BY <1>5, NoBatchType DEF look_up_fails, At, store
  <2> QED BY <2>1 DEF Onward
<1>6. CASE looked
  BY <1>6 DEF looked, Goto, store, pass, Onward
<1>7. CASE \/ top \/ wait_for_kick \/ wakes \/ list_fails \/ mark \/ sweep_error
           \/ poll \/ sync_fails \/ batch_done \/ start
  <2>1. pc' \notin {"name", "mark"}
    BY <1>7 DEF top, wait_for_kick, wakes, list_fails, mark, sweep_error, poll, sync_fails,
                batch_done, start, Goto
  <2> QED BY <2>1 DEF Onward
<1>8. ASSUME NEW r \in Rooms, sync_room(r) PROVE Onward'
  BY <1>8 DEF sync_room, pass, Onward
<1> QED BY <1>1, <1>2, <1>3, <1>4, <1>5, <1>6, <1>7, <1>8
        DEF Next, client_steps, sync_loop, backfill_room_names, sync_once

(* Only clearing the store, by a login or a logout, sets the sweep back:   *)
(* neither a stop nor an error nor a pass begun in an earlier login moves  *)
(* room_names_cursor back or takes the mark away (main.rs                  *)
(* backfill_room_names).                                                   *)
SweepOnlyAdvances == [][cursor' < cursor \/ (swept /\ ~ swept') => cleared]_vars

(* SweepOnlyAdvances holds of every behaviour.                             *)
THEOREM SweepOnlyAdvancesAlways == Spec => SweepOnlyAdvances
<1>1. Init => Onward
  BY DEF Init, Onward
<1>2. IInv /\ Onward /\ [Next]_vars => [cursor' < cursor \/ (swept /\ ~ swept') => cleared]_vars
  <2> SUFFICES ASSUME TypeOK, Onward, Next, ~ cleared
               PROVE  ~ (cursor' < cursor) /\ (swept => swept')
    BY DEF IInv
  <2>1. cursor \in Nat /\ reached \in Nat
    BY RoomNamesAssumption DEF TypeOK
  <2>2. CASE mark
    <3>1. pc = "mark" /\ cursor' = IF reached # 0 THEN reached ELSE cursor
      BY <2>2 DEF mark, Goto
    <3>2. ~ (cursor' < cursor)
      BY <2>1, <3>1 DEF Onward
    <3>3. swept => swept'
      BY <2>2 DEF mark
    <3> QED BY <3>2, <3>3
  <2>3. CASE ~ mark
    <3>1. cursor' = cursor /\ swept' = swept
      BY <2>3 DEF Next, client_steps, sync_loop, backfill_room_names, sync_once, do_login, login_api,
         login_unsaved, login_fails, login_session, login_kick, do_logout, logout_clear, logout_session, sync_now, top,
         wait_for_kick, wakes, list_fails, list, looked, sweep_error, pass_over, name_room,
         look_up_fails, poll, sync_fails, batch_done, sync_room, start, rename, store
    <3> QED BY <2>1, <3>1
  <2> QED BY <2>2, <2>3
<1> QED BY <1>1, <1>2, Invariance, OnwardStep, PTL DEF Spec, IInv, SweepOnlyAdvances

-----------------------------------------------------------------------------
(* Screen.                                                                 *)
Asks    == [id : Nat, cmd : Cmds, limit : Nat]
Threads == [at : {"idle", "add", "stored", "restored", "publish", "answer", "ended"},
            id : Nat, cmd : Cmds, rows : Versions, added : Nat]
Waits   == [id : Nat, cmd : Cmds \cup {"resume"}, timeline : 0..MaxOpens]

(* One connection: u is what the plugin has sent and d what it has not     *)
(* read, h the daemon's thread, P what the plugin waits for, n the number  *)
(* of its next request.                                                    *)
Busy(h) == h.at \in {"stored", "restored", "publish", "answer"}

IsReply(d, i) == d[i].kind = "reply"

(* Requests are answered in the order of their numbers.                    *)
Ordered(u, h, d, n) ==
  /\ \A i \in 1..Len(u) :
       /\ u[i].id \in 1..n - 1
       /\ \A j \in 1..Len(u) : i < j => u[i].id < u[j].id
       /\ Busy(h) => h.id < u[i].id
  /\ Busy(h) => h.id \in 1..n - 1
  /\ \A i \in 1..Len(d) : IsReply(d, i) =>
       /\ d[i].id \in 1..n - 1
       /\ \A j \in 1..Len(d) : i < j /\ IsReply(d, j) => d[i].id < d[j].id
       /\ \A j \in 1..Len(u) : d[i].id < u[j].id
       /\ Busy(h) => d[i].id < h.id

(* What is on its way is somebody's request, or the answer to it.          *)
Failing == {"load_older", "messages"}

Owner(P, id, cmd) ==
  \E p \in P : p.id = id /\ cmd \in Answers(p) /\ (cmd = "none" => p.cmd \in Failing)

Owed(u, h, d, P, n) ==
  /\ \A i \in 1..Len(u) : Owner(P, u[i].id, u[i].cmd) /\ u[i].cmd # "none"
  /\ Busy(h) => Owner(P, h.id, h.cmd)
  /\ \A i \in 1..Len(d) : IsReply(d, i) => Owner(P, d[i].id, d[i].cmd)
  /\ \A p \in P : p.id \in 1..n - 1
  /\ \A p, q \in P : p.id = q.id => p = q

(* `hello` comes first, and whose line was cut is no reader.               *)
NotYet(u, h) == h.at = "add" \/ \E i \in 1..Len(u) : u[i].cmd = "hello"

Greets(u, h, d, reader) ==
  /\ \A i \in 1..Len(u) : u[i].cmd = "hello" => i = 1 /\ h.at = "idle"
  /\ reader => ~ NotYet(u, h)
  /\ \A i \in 1..Len(d) : d[i].kind = "cut" => ~ reader /\ ~ NotYet(u, h)

Line(u, h, d, P, n, reader) ==
  Ordered(u, h, d, n) /\ Owed(u, h, d, P, n) /\ Greets(u, h, d, reader)

Found(u, h, d, p) ==
  \/ \E i \in 1..Len(u) : u[i].id = p.id
  \/ Busy(h) /\ h.id = p.id
  \/ \E i \in 1..Len(d) : IsReply(d, i) /\ d[i].id = p.id

Here(u, h, d, P) == \A p \in P : Found(u, h, d, p)

LEMMA AppendFacts ==
  ASSUME NEW S, NEW s \in Seq(S), NEW e \in S, NEW a, a = Append(s, e)
  PROVE  /\ a \in Seq(S) /\ Len(a) = Len(s) + 1 /\ Len(s) \in Nat
         /\ \A i \in 1..Len(s) : i \in 1..Len(a) /\ a[i] = s[i]
         /\ a[Len(s) + 1] = e
OBVIOUS

LEMMA TailFacts ==
  ASSUME NEW S, NEW s \in Seq(S), s # <<>>, NEW t, t = Tail(s)
  PROVE  /\ Head(s) \in S /\ Head(s) = s[1] /\ Len(s) \in Nat \ {0} /\ 1 \in 1..Len(s)
         /\ t \in Seq(S) /\ Len(t) = Len(s) - 1 /\ Len(t) \in Nat
         /\ \A i \in 1..Len(t) : i + 1 \in 1..Len(s) /\ t[i] = s[i + 1]
         /\ \A i \in 1..Len(s) : i # 1 => i - 1 \in 1..Len(t) /\ t[i - 1] = s[i]
OBVIOUS

LEMMA Longer ==
  ASSUME NEW S, NEW s \in Seq(S), Len(s) > 1
  PROVE  s # <<>> /\ Tail(s) \in Seq(S) /\ Tail(s) # <<>>
<1>1. s # <<>> /\ Len(s) \in Nat
  OBVIOUS
<1>2. Tail(s) \in Seq(S) /\ Len(Tail(s)) = Len(s) - 1
  BY <1>1, TailFacts
<1>3. Len(Tail(s)) # 0
  BY <1>1, <1>2
<1>4. Tail(s) # <<>>
  <2> SUFFICES ASSUME NEW t, t = Tail(s), Len(t) # 0 PROVE t # <<>>
    BY <1>3
  <2> QED OBVIOUS
<1> QED BY <1>1, <1>2, <1>4

-----------------------------------------------------------------------------
(* The thread takes the next request.                                      *)
LEMMA Takes ==
  ASSUME NEW u \in Seq(Asks), NEW h \in Threads, NEW d \in Seq(Lines), NEW P \in SUBSET Waits,
         NEW n \in Nat, NEW reader, Line(u, h, d, P, n, reader),
         h.at = "idle", u # <<>>, Head(u).cmd # "hello",
         NEW k \in Threads, Busy(k), k.id = Head(u).id,
         k.cmd = Head(u).cmd \/ (k.cmd = "none" /\ Head(u).cmd \in Failing)
  PROVE  /\ Line(Tail(u), k, d, P, n, reader)
         /\ Here(u, h, d, P) => Here(Tail(u), k, d, P)
         /\ ~ NotYet(u, h) /\ ~ NotYet(Tail(u), k)
<1> DEFINE m == Head(u)
<1> SUFFICES ASSUME NEW t, t = Tail(u)
             PROVE  /\ Line(t, k, d, P, n, reader)
                    /\ Here(u, h, d, P) => Here(t, k, d, P)
                    /\ ~ NotYet(u, h) /\ ~ NotYet(t, k)
  OBVIOUS
<1>1. /\ m \in Asks /\ m = u[1] /\ 1 \in 1..Len(u) /\ Len(u) \in Nat
      /\ t \in Seq(Asks) /\ Len(t) \in Nat
      /\ \A i \in 1..Len(t) : i + 1 \in 1..Len(u) /\ t[i] = u[i + 1]
      /\ \A i \in 1..Len(u) : i # 1 => i - 1 \in 1..Len(t) /\ t[i - 1] = u[i]
  BY TailFacts
<1>2. ~ Busy(h)
  BY DEF Busy
<1>3. Ordered(t, k, d, n)
  <2>1. \A i \in 1..Len(t) :
          /\ t[i].id \in 1..n - 1
          /\ \A j \in 1..Len(t) : i < j => t[i].id < t[j].id
          /\ k.id < t[i].id
    <3>1. ASSUME NEW i \in 1..Len(t)
          PROVE  /\ t[i].id \in 1..n - 1
                 /\ \A j \in 1..Len(t) : i < j => t[i].id < t[j].id
                 /\ k.id < t[i].id
      <4>1. /\ t[i] = u[i + 1] /\ i + 1 \in 1..Len(u) /\ 1 < i + 1
            /\ \A j \in 1..Len(t) : i < j => i + 1 < j + 1 /\ t[j] = u[j + 1] /\ j + 1 \in 1..Len(u)
        BY <1>1
      <4> QED BY <1>1, <4>1 DEF Line, Ordered
    <3> QED BY <3>1
  <2>2. k.id \in 1..n - 1
    BY <1>1 DEF Line, Ordered
  <2>3. \A i \in 1..Len(d) : IsReply(d, i) =>
          /\ \A j \in 1..Len(t) : d[i].id < t[j].id
          /\ d[i].id < k.id
    BY <1>1 DEF Line, Ordered
  <2> QED BY <2>1, <2>2, <2>3 DEF Line, Ordered
<1>4. Owed(t, k, d, P, n)
  <2>1. Owner(P, m.id, m.cmd)
    BY <1>1 DEF Line, Owed
  <2>2. Owner(P, k.id, k.cmd)
    <3>1. CASE k.cmd = m.cmd
      BY <2>1, <3>1
    <3>2. CASE k.cmd = "none" /\ m.cmd \in Failing
      <4>1. PICK p \in P : p.id = k.id /\ m.cmd \in Answers(p)
        BY <2>1 DEF Owner
      <4>2. p.cmd \in Failing /\ "none" \in Answers(p)
        BY <3>2, <4>1 DEF Answers, Failing
      <4> QED BY <3>2, <4>1, <4>2 DEF Owner
    <3> QED BY <3>1, <3>2
  <2>3. \A i \in 1..Len(t) : Owner(P, t[i].id, t[i].cmd) /\ t[i].cmd # "none"
    BY <1>1 DEF Line, Owed
  <2> QED BY <2>2, <2>3 DEF Line, Owed
<1>5. ~ NotYet(u, h) /\ ~ NotYet(t, k)
  BY <1>1 DEF NotYet, Line, Greets, Busy
<1>6. Greets(t, k, d, reader)
  BY <1>5 DEF Greets, NotYet, Line
<1>7. ASSUME Here(u, h, d, P), NEW p \in P PROVE Found(t, k, d, p)
  <2>1. CASE \E i \in 1..Len(u) : u[i].id = p.id
    <3>1. PICK i \in 1..Len(u) : u[i].id = p.id
      BY <2>1
    <3>2. CASE i = 1
      BY <1>1, <3>1, <3>2 DEF Found
    <3>3. CASE i # 1
      BY <1>1, <3>1, <3>3 DEF Found
    <3> QED BY <3>2, <3>3
  <2> QED BY <1>2, <1>7, <2>1 DEF Here, Found
<1> QED BY <1>3, <1>4, <1>5, <1>6, <1>7 DEF Line, Here

(* `hello` is taken and answered at once.                                  *)
LEMMA Greeted ==
  ASSUME NEW u \in Seq(Asks), NEW h \in Threads, NEW d \in Seq(Lines), NEW P \in SUBSET Waits,
         NEW n \in Nat, NEW reader, Line(u, h, d, P, n, reader),
         h.at = "idle", u # <<>>, Head(u).cmd = "hello",
         NEW k \in Threads, k.at = "add",
         NEW l \in Lines, l.kind = "reply", l.id = Head(u).id, l.cmd = "hello"
  PROVE  /\ Line(Tail(u), k, Append(d, l), P, n, reader)
         /\ Here(u, h, d, P) => Here(Tail(u), k, Append(d, l), P)
         /\ NotYet(u, h)
<1> DEFINE m == Head(u)
<1> SUFFICES ASSUME NEW t, t = Tail(u), NEW e, e = Append(d, l)
             PROVE  /\ Line(t, k, e, P, n, reader)
                    /\ Here(u, h, d, P) => Here(t, k, e, P)
                    /\ NotYet(u, h)
  OBVIOUS
<1>1. /\ m \in Asks /\ m = u[1] /\ 1 \in 1..Len(u) /\ Len(u) \in Nat
      /\ t \in Seq(Asks) /\ Len(t) \in Nat
      /\ \A i \in 1..Len(t) : i + 1 \in 1..Len(u) /\ t[i] = u[i + 1]
      /\ \A i \in 1..Len(u) : i # 1 => i - 1 \in 1..Len(t) /\ t[i - 1] = u[i]
  BY TailFacts
<1>2. /\ e \in Seq(Lines) /\ Len(e) = Len(d) + 1 /\ Len(d) \in Nat
      /\ \A i \in 1..Len(d) : i \in 1..Len(e) /\ e[i] = d[i]
      /\ e[Len(d) + 1] = l
  BY AppendFacts
<1>3. ~ Busy(h) /\ ~ Busy(k)
  BY DEF Busy
<1>n. NotYet(u, h) /\ ~ reader /\ \A i \in 1..Len(d) : d[i].kind # "cut"
  <2>1. NotYet(u, h)
    BY <1>1 DEF NotYet
  <2> QED BY <2>1 DEF Line, Greets
<1>4. Ordered(t, k, e, n)
  <2>1. ASSUME NEW i \in 1..Len(t)
        PROVE  /\ t[i].id \in 1..n - 1
               /\ \A j \in 1..Len(t) : i < j => t[i].id < t[j].id
               /\ l.id < t[i].id
    <3>1. /\ t[i] = u[i + 1] /\ i + 1 \in 1..Len(u) /\ 1 < i + 1
          /\ \A j \in 1..Len(t) : i < j => i + 1 < j + 1 /\ t[j] = u[j + 1] /\ j + 1 \in 1..Len(u)
      BY <1>1
    <3> QED BY <1>1, <3>1 DEF Line, Ordered
  <2>2. l.id \in 1..n - 1 /\ \A i \in 1..Len(d) : IsReply(d, i) => d[i].id < l.id
    BY <1>1 DEF Line, Ordered
  <2>3. ASSUME NEW i \in 1..Len(e), IsReply(e, i)
        PROVE  /\ e[i].id \in 1..n - 1
               /\ \A j \in 1..Len(e) : i < j /\ IsReply(e, j) => e[i].id < e[j].id
               /\ \A j \in 1..Len(t) : e[i].id < t[j].id
    <3>1. CASE i \in 1..Len(d)
      <4>1. e[i] = d[i] /\ IsReply(d, i)
        BY <1>2, <2>3, <3>1 DEF IsReply
      <4>2. \A j \in 1..Len(t) : d[i].id < t[j].id
        BY <1>1, <3>1, <4>1 DEF Line, Ordered
      <4>3. ASSUME NEW j \in 1..Len(e), i < j, IsReply(e, j) PROVE d[i].id < e[j].id
        <5>1. CASE j \in 1..Len(d)
          BY <1>2, <3>1, <4>1, <4>3, <5>1 DEF Line, Ordered, IsReply
        <5>2. CASE j = Len(d) + 1
          BY <1>2, <2>2, <3>1, <4>1, <5>2
        <5> QED BY <1>2, <5>1, <5>2
      <4> QED BY <3>1, <4>1, <4>2, <4>3 DEF Line, Ordered
    <3>2. CASE i = Len(d) + 1
      <4>1. \A j \in 1..Len(e) : ~ (i < j)
        BY <1>2, <3>2
      <4> QED BY <1>2, <2>1, <2>2, <3>2, <4>1
    <3> QED BY <1>2, <3>1, <3>2
  <2> QED BY <1>3, <2>1, <2>3 DEF Ordered
<1>5. Owed(t, k, e, P, n)
  <2>1. Owner(P, l.id, l.cmd)
    BY <1>1 DEF Line, Owed
  <2>2. \A i \in 1..Len(t) : Owner(P, t[i].id, t[i].cmd) /\ t[i].cmd # "none"
    BY <1>1 DEF Line, Owed
  <2>3. ASSUME NEW i \in 1..Len(e), IsReply(e, i) PROVE Owner(P, e[i].id, e[i].cmd)
    <3>1. CASE i \in 1..Len(d)
      BY <1>2, <2>3, <3>1 DEF Line, Owed, IsReply
    <3>2. CASE i = Len(d) + 1
      BY <1>2, <2>1, <3>2
    <3> QED BY <1>2, <3>1, <3>2
  <2> QED BY <1>3, <2>2, <2>3 DEF Line, Owed
<1>6. Greets(t, k, e, reader)
  <2>1. \A i \in 1..Len(t) : t[i].cmd # "hello"
    BY <1>1 DEF Line, Greets
  <2>2. \A i \in 1..Len(e) : e[i].kind # "cut"
    <3>1. \A i \in 1..Len(e) : i \in 1..Len(d) \/ i = Len(d) + 1
      BY <1>2
    <3> QED BY <1>2, <1>n, <3>1
  <2> QED BY <1>n, <2>1, <2>2 DEF Greets
<1>7. ASSUME Here(u, h, d, P), NEW p \in P PROVE Found(t, k, e, p)
  <2>1. CASE \E i \in 1..Len(u) : u[i].id = p.id
    <3>1. PICK i \in 1..Len(u) : u[i].id = p.id
      BY <2>1
    <3>2. CASE i = 1
      <4>1. Len(d) + 1 \in 1..Len(e) /\ IsReply(e, Len(d) + 1) /\ e[Len(d) + 1].id = p.id
        BY <1>1, <1>2, <3>1, <3>2 DEF IsReply
      <4> QED BY <4>1 DEF Found
    <3>3. CASE i # 1
      BY <1>1, <3>1, <3>3 DEF Found
    <3> QED BY <3>2, <3>3
  <2>2. CASE \E i \in 1..Len(d) : IsReply(d, i) /\ d[i].id = p.id
    BY <1>2, <2>2 DEF Found, IsReply
  <2> QED BY <1>3, <1>7, <2>1, <2>2 DEF Here, Found
<1> QED BY <1>4, <1>5, <1>6, <1>7, <1>n DEF Line, Here

(* The thread goes on with its request.                                    *)
LEMMA GoesOn ==
  ASSUME NEW u, NEW h, NEW d, NEW P, NEW n, NEW reader, Line(u, h, d, P, n, reader),
         Busy(h), NEW k, Busy(k), k.id = h.id, k.cmd = h.cmd
  PROVE  /\ Line(u, k, d, P, n, reader)
         /\ Here(u, h, d, P) => Here(u, k, d, P)
         /\ ~ NotYet(u, h) /\ ~ NotYet(u, k)
<1>1. h.at # "idle" /\ k.at # "idle" /\ h.at # "add" /\ k.at # "add"
  BY DEF Busy
<1>2. Ordered(u, k, d, n) /\ Owed(u, k, d, P, n)
  BY DEF Line, Ordered, Owed
<1>3. Greets(u, k, d, reader) /\ ~ NotYet(u, h) /\ ~ NotYet(u, k)
  BY <1>1 DEF Line, Greets, NotYet
<1>4. Here(u, h, d, P) => Here(u, k, d, P)
  BY DEF Here, Found
<1> QED BY <1>2, <1>3, <1>4 DEF Line

(* It is done with `hello`, or ends, with the request it has.              *)
LEMMA Subscribes ==
  ASSUME NEW u, NEW h, NEW d, NEW P, NEW n, NEW reader, Line(u, h, d, P, n, reader),
         h.at = "add", NEW k, k.at = "idle"
  PROVE  /\ Line(u, k, d, P, n, TRUE)
         /\ Here(u, h, d, P) => Here(u, k, d, P)
         /\ NotYet(u, h) /\ ~ NotYet(u, k)
<1>1. ~ Busy(h) /\ ~ Busy(k) /\ NotYet(u, h)
  BY DEF Busy, NotYet
<1>2. Ordered(u, k, d, n) /\ Owed(u, k, d, P, n)
  BY <1>1 DEF Line, Ordered, Owed
<1>3. Greets(u, k, d, TRUE) /\ ~ NotYet(u, k)
  BY <1>1 DEF Line, Greets, NotYet
<1>4. Here(u, h, d, P) => Here(u, k, d, P)
  BY <1>1 DEF Here, Found
<1> QED BY <1>1, <1>2, <1>3, <1>4 DEF Line

LEMMA Ends ==
  ASSUME NEW u, NEW h, NEW d, NEW P, NEW n, NEW reader, Line(u, h, d, P, n, reader),
         h.at = "answer", NEW k, k.at = "ended"
  PROVE  Line(u, k, d, P, n, FALSE)
<1>1. ~ Busy(k) /\ ~ NotYet(u, h) /\ \A i \in 1..Len(u) : u[i].cmd # "hello"
  BY DEF Busy, NotYet, Line, Greets
<1>2. Ordered(u, k, d, n) /\ Owed(u, k, d, P, n)
  BY <1>1 DEF Line, Ordered, Owed
<1>3. Greets(u, k, d, FALSE)
  BY <1>1 DEF Greets, NotYet
<1> QED BY <1>2, <1>3 DEF Line

(* A line that is no reply is written; one that is cut drops the reader.   *)
LEMMA Publishes ==
  ASSUME NEW u, NEW h, NEW d \in Seq(Lines), NEW P, NEW n, NEW reader, NEW after,
         Line(u, h, d, P, n, reader),
         NEW l \in Lines,
         \/ l.kind = "event" /\ after = reader
         \/ l.kind = "cut" /\ reader /\ ~ after
  PROVE  /\ Line(u, h, Append(d, l), P, n, after)
         /\ Here(u, h, d, P) => Here(u, h, Append(d, l), P)
<1> SUFFICES ASSUME NEW e, e = Append(d, l)
             PROVE  /\ Line(u, h, e, P, n, after)
                    /\ Here(u, h, d, P) => Here(u, h, e, P)
  OBVIOUS
<1>1. /\ e \in Seq(Lines) /\ Len(e) = Len(d) + 1 /\ Len(d) \in Nat
      /\ \A i \in 1..Len(d) : i \in 1..Len(e) /\ e[i] = d[i]
      /\ e[Len(d) + 1] = l
  BY AppendFacts
<1>2. \A i \in 1..Len(e) : IsReply(e, i) => i \in 1..Len(d) /\ e[i] = d[i] /\ IsReply(d, i)
  <2>1. ~ IsReply(e, Len(d) + 1)
    BY <1>1 DEF IsReply
  <2>2. \A i \in 1..Len(e) : i \in 1..Len(d) \/ i = Len(d) + 1
    BY <1>1
  <2> QED BY <1>1, <2>1, <2>2 DEF IsReply
<1>3. Ordered(u, h, e, n) /\ Owed(u, h, e, P, n)
  BY <1>2 DEF Line, Ordered, Owed
<1>4. Greets(u, h, e, after)
  <2>1. CASE l.kind = "event" /\ after = reader
    <3>1. \A i \in 1..Len(e) : e[i].kind = "cut" => i \in 1..Len(d) /\ e[i] = d[i]
      <4>1. \A i \in 1..Len(e) : i \in 1..Len(d) \/ i = Len(d) + 1
        BY <1>1
      <4> QED BY <1>1, <2>1, <4>1
    <3> QED BY <2>1, <3>1 DEF Line, Greets
  <2>2. CASE l.kind = "cut" /\ reader /\ ~ after
    BY <2>2 DEF Line, Greets
  <2> QED BY <2>1, <2>2
<1>5. Here(u, h, d, P) => Here(u, h, e, P)
  BY <1>1 DEF Here, Found, IsReply
<1> QED BY <1>3, <1>4, <1>5 DEF Line

LEMMA Drops ==
  ASSUME NEW u, NEW h, NEW d, NEW P, NEW n, NEW reader, Line(u, h, d, P, n, reader)
  PROVE  Line(u, h, d, P, n, FALSE)
BY DEF Line, Greets

(* The request is answered.                                                *)
LEMMA Replies ==
  ASSUME NEW u \in Seq(Asks), NEW h \in Threads, NEW d \in Seq(Lines), NEW P, NEW n, NEW reader,
         Line(u, h, d, P, n, reader), h.at = "answer",
         NEW l \in Lines, l.kind = "reply", l.id = h.id, l.cmd = h.cmd,
         NEW k, k.at = "idle"
  PROVE  /\ Line(u, k, Append(d, l), P, n, reader)
         /\ Here(u, h, d, P) => Here(u, k, Append(d, l), P)
         /\ ~ NotYet(u, h) /\ ~ NotYet(u, k)
<1> SUFFICES ASSUME NEW e, e = Append(d, l)
             PROVE  /\ Line(u, k, e, P, n, reader)
                    /\ Here(u, h, d, P) => Here(u, k, e, P)
                    /\ ~ NotYet(u, h) /\ ~ NotYet(u, k)
  OBVIOUS
<1>1. /\ e \in Seq(Lines) /\ Len(e) = Len(d) + 1 /\ Len(d) \in Nat
      /\ \A i \in 1..Len(d) : i \in 1..Len(e) /\ e[i] = d[i]
      /\ e[Len(d) + 1] = l
  BY AppendFacts
<1>2. Busy(h) /\ ~ Busy(k)
  BY DEF Busy
<1>3. /\ l.id \in 1..n - 1 /\ \A i \in 1..Len(d) : IsReply(d, i) => d[i].id < l.id
  BY <1>2 DEF Line, Ordered
<1>o. \A j \in 1..Len(u) : l.id < u[j].id
  BY <1>2 DEF Line, Ordered
<1>4. Ordered(u, k, e, n)
  <2>1. ASSUME NEW i \in 1..Len(e), IsReply(e, i)
        PROVE  /\ e[i].id \in 1..n - 1
               /\ \A j \in 1..Len(e) : i < j /\ IsReply(e, j) => e[i].id < e[j].id
               /\ \A j \in 1..Len(u) : e[i].id < u[j].id
    <3>1. CASE i \in 1..Len(d)
      <4>1. e[i] = d[i] /\ IsReply(d, i)
        BY <1>1, <2>1, <3>1 DEF IsReply
      <4>2. ASSUME NEW j \in 1..Len(e), i < j, IsReply(e, j) PROVE d[i].id < e[j].id
        <5>1. CASE j \in 1..Len(d)
          BY <1>1, <3>1, <4>1, <4>2, <5>1 DEF Line, Ordered, IsReply
        <5>2. CASE j = Len(d) + 1
          BY <1>1, <1>3, <3>1, <4>1, <5>2
        <5> QED BY <1>1, <5>1, <5>2
      <4> QED BY <3>1, <4>1, <4>2 DEF Line, Ordered
    <3>2. CASE i = Len(d) + 1
      <4>1. \A j \in 1..Len(e) : ~ (i < j)
        BY <1>1, <3>2
      <4> QED BY <1>1, <1>3, <1>o, <3>2, <4>1
    <3> QED BY <1>1, <3>1, <3>2
  <2> QED BY <1>2, <2>1 DEF Line, Ordered
<1>5. Owed(u, k, e, P, n)
  <2>1. ASSUME NEW i \in 1..Len(e), IsReply(e, i) PROVE Owner(P, e[i].id, e[i].cmd)
    <3>1. CASE i \in 1..Len(d)
      BY <1>1, <2>1, <3>1 DEF Line, Owed, IsReply
    <3>2. CASE i = Len(d) + 1
      BY <1>1, <1>2, <3>2 DEF Line, Owed
    <3> QED BY <1>1, <3>1, <3>2
  <2> QED BY <1>2, <2>1 DEF Line, Owed
<1>6. /\ \A i \in 1..Len(u) : u[i].cmd # "hello"
      /\ ~ NotYet(u, h) /\ ~ NotYet(u, k)
  BY DEF Line, Greets, NotYet
<1>7. Greets(u, k, e, reader)
  <2>1. \A i \in 1..Len(e) : e[i].kind = "cut" => i \in 1..Len(d) /\ e[i] = d[i]
    <3>1. \A i \in 1..Len(e) : i \in 1..Len(d) \/ i = Len(d) + 1
      BY <1>1
    <3> QED BY <1>1, <3>1
  <2> QED BY <1>6, <2>1 DEF Line, Greets
<1>8. ASSUME Here(u, h, d, P), NEW p \in P PROVE Found(u, k, e, p)
  <2>1. CASE h.id = p.id
    <3>1. Len(d) + 1 \in 1..Len(e) /\ IsReply(e, Len(d) + 1) /\ e[Len(d) + 1].id = p.id
      BY <1>1, <2>1 DEF IsReply
    <3> QED BY <3>1 DEF Found
  <2>2. CASE \E i \in 1..Len(d) : IsReply(d, i) /\ d[i].id = p.id
    BY <1>1, <2>2 DEF Found, IsReply
  <2> QED BY <1>8, <2>1, <2>2 DEF Here, Found
<1> QED BY <1>4, <1>5, <1>6, <1>7, <1>8 DEF Line, Here

-----------------------------------------------------------------------------
(* The plugin asks.                                                        *)
LEMMA Requests ==
  ASSUME NEW u \in Seq(Asks), NEW h \in Threads, NEW d \in Seq(Lines), NEW P \in SUBSET Waits,
         NEW n \in Nat \ {0}, NEW reader, Line(u, h, d, P, n, reader),
         NEW a \in Asks, a.id = n, a.cmd \notin {"none", "hello"},
         NEW p \in Waits, p.id = n, p.cmd = a.cmd
  PROVE  /\ Line(Append(u, a), h, d, P \cup {p}, n + 1, reader)
         /\ Here(u, h, d, P) => Here(Append(u, a), h, d, P \cup {p})
         /\ NotYet(Append(u, a), h) => NotYet(u, h)
<1> SUFFICES ASSUME NEW v, v = Append(u, a), NEW Q, Q = P \cup {p}
             PROVE  /\ Line(v, h, d, Q, n + 1, reader)
                    /\ Here(u, h, d, P) => Here(v, h, d, Q)
                    /\ NotYet(v, h) => NotYet(u, h)
  OBVIOUS
<1>1. /\ v \in Seq(Asks) /\ Len(v) = Len(u) + 1 /\ Len(u) \in Nat
      /\ \A i \in 1..Len(u) : i \in 1..Len(v) /\ v[i] = u[i]
      /\ v[Len(u) + 1] = a
  BY AppendFacts
<1>2. \A i \in 1..Len(v) : i \in 1..Len(u) \/ i = Len(u) + 1
  BY <1>1
<1>3. Ordered(v, h, d, n + 1)
  <2>1. ASSUME NEW i \in 1..Len(v)
        PROVE  /\ v[i].id \in 1..n
               /\ \A j \in 1..Len(v) : i < j => v[i].id < v[j].id
               /\ Busy(h) => h.id < v[i].id
    <3>1. CASE i \in 1..Len(u)
      <4>1. v[i] = u[i] /\ u[i].id \in 1..n - 1 /\ (Busy(h) => h.id < u[i].id)
        BY <1>1, <3>1 DEF Line, Ordered
      <4>2. ASSUME NEW j \in 1..Len(v), i < j PROVE u[i].id < v[j].id
        <5>1. CASE j \in 1..Len(u)
          BY <1>1, <3>1, <4>2, <5>1 DEF Line, Ordered
        <5>2. CASE j = Len(u) + 1
          BY <1>1, <4>1, <5>2
        <5> QED BY <1>2, <5>1, <5>2
      <4> QED BY <4>1, <4>2
    <3>2. CASE i = Len(u) + 1
      <4>1. \A j \in 1..Len(v) : ~ (i < j)
        BY <1>1, <3>2
      <4>2. Busy(h) => h.id \in 1..n - 1
        BY DEF Line, Ordered
      <4> QED BY <1>1, <3>2, <4>1, <4>2
    <3> QED BY <1>2, <3>1, <3>2
  <2>2. ASSUME NEW i \in 1..Len(d), IsReply(d, i)
        PROVE  d[i].id \in 1..n /\ \A j \in 1..Len(v) : d[i].id < v[j].id
    <3>1. d[i].id \in 1..n - 1 /\ \A j \in 1..Len(u) : d[i].id < u[j].id
      BY <2>2 DEF Line, Ordered
    <3> QED BY <1>1, <1>2, <3>1
  <2>3. Busy(h) => h.id \in 1..n
    BY DEF Line, Ordered
  <2>4. (n + 1) - 1 = n
    OBVIOUS
  <2> QED BY <2>1, <2>2, <2>3, <2>4 DEF Line, Ordered
<1>4. Owed(v, h, d, Q, n + 1)
  <2>1. \A id, cmd : Owner(P, id, cmd) => Owner(Q, id, cmd)
    BY DEF Owner
  <2>2. Owner(Q, a.id, a.cmd)
    BY DEF Owner, Answers, Asks, Cmds
  <2>3. \A i \in 1..Len(v) : Owner(Q, v[i].id, v[i].cmd) /\ v[i].cmd # "none"
    BY <1>1, <1>2, <2>1, <2>2 DEF Line, Owed
  <2>4. \A q \in P : q.id \in 1..n - 1 /\ q.id \in 1..n /\ q.id # n
    BY DEF Line, Owed
  <2>5. (\A q \in Q : q.id \in 1..(n + 1) - 1) /\ \A q, r \in Q : q.id = r.id => q = r
    BY <2>4 DEF Line, Owed
  <2> QED BY <2>1, <2>3, <2>5 DEF Line, Owed
<1>5. Greets(v, h, d, reader) /\ (NotYet(v, h) => NotYet(u, h))
  <2>1. \A i \in 1..Len(v) : v[i].cmd = "hello" => i \in 1..Len(u) /\ u[i].cmd = "hello"
    BY <1>1, <1>2
  <2> QED BY <2>1 DEF Line, Greets, NotYet
<1>6. ASSUME Here(u, h, d, P), NEW q \in Q PROVE Found(v, h, d, q)
  <2>1. CASE q = p
    <3>1. Len(u) + 1 \in 1..Len(v) /\ v[Len(u) + 1].id = q.id
      BY <1>1, <2>1
    <3> QED BY <3>1 DEF Found
  <2>2. CASE q \in P
    BY <1>1, <1>6, <2>2 DEF Here, Found
  <2> QED BY <2>1, <2>2
<1> QED BY <1>3, <1>4, <1>5, <1>6 DEF Line, Here

(* It reads a line.                                                        *)
LEMMA Reads ==
  ASSUME NEW u, NEW h, NEW d \in Seq(Lines), NEW P, NEW n, NEW reader,
         Line(u, h, d, P, n, reader), d # <<>>
  PROVE  /\ Line(u, h, Tail(d), P, n, reader)
         /\ Head(d).kind # "reply" /\ Here(u, h, d, P) => Here(u, h, Tail(d), P)
<1> SUFFICES ASSUME NEW e, e = Tail(d)
             PROVE  /\ Line(u, h, e, P, n, reader)
                    /\ Head(d).kind # "reply" /\ Here(u, h, d, P) => Here(u, h, e, P)
  OBVIOUS
<1>1. /\ Head(d) = d[1] /\ e \in Seq(Lines) /\ Len(d) \in Nat /\ Len(e) \in Nat
      /\ \A i \in 1..Len(e) : i + 1 \in 1..Len(d) /\ e[i] = d[i + 1]
      /\ \A i \in 1..Len(d) : i # 1 => i - 1 \in 1..Len(e) /\ e[i - 1] = d[i]
  BY TailFacts
<1>2. Ordered(u, h, e, n)
  <2>1. ASSUME NEW i \in 1..Len(e), IsReply(e, i)
        PROVE  /\ e[i].id \in 1..n - 1
               /\ \A j \in 1..Len(e) : i < j /\ IsReply(e, j) => e[i].id < e[j].id
               /\ \A j \in 1..Len(u) : e[i].id < u[j].id
               /\ Busy(h) => e[i].id < h.id
    <3>1. /\ e[i] = d[i + 1] /\ i + 1 \in 1..Len(d) /\ IsReply(d, i + 1)
          /\ \A j \in 1..Len(e) : i < j => i + 1 < j + 1 /\ e[j] = d[j + 1] /\ j + 1 \in 1..Len(d)
      BY <1>1, <2>1 DEF IsReply
    <3>2. /\ d[i + 1].id \in 1..n - 1
          /\ \A j \in 1..Len(u) : d[i + 1].id < u[j].id
          /\ Busy(h) => d[i + 1].id < h.id
          /\ \A j \in 1..Len(d) : i + 1 < j /\ IsReply(d, j) => d[i + 1].id < d[j].id
      BY <3>1 DEF Line, Ordered
    <3>3. ASSUME NEW j \in 1..Len(e), i < j, IsReply(e, j) PROVE e[i].id < e[j].id
      BY <3>1, <3>2, <3>3 DEF IsReply
    <3> QED BY <3>1, <3>2, <3>3
  <2> QED BY <2>1 DEF Line, Ordered
<1>3. Owed(u, h, e, P, n)
  BY <1>1 DEF Line, Owed, IsReply
<1>4. Greets(u, h, e, reader)
  BY <1>1 DEF Line, Greets
<1>5. ASSUME Head(d).kind # "reply", Here(u, h, d, P), NEW p \in P PROVE Found(u, h, e, p)
  <2>1. \A i \in 1..Len(d) : IsReply(d, i) => i # 1
    BY <1>1, <1>5 DEF IsReply
  <2>2. CASE \E i \in 1..Len(d) : IsReply(d, i) /\ d[i].id = p.id
    <3>1. PICK i \in 1..Len(d) : IsReply(d, i) /\ d[i].id = p.id
      BY <2>2
    <3>2. i - 1 \in 1..Len(e) /\ IsReply(e, i - 1) /\ e[i - 1].id = p.id
      BY <1>1, <2>1, <3>1 DEF IsReply
    <3> QED BY <3>2 DEF Found
  <2> QED BY <1>5, <2>2 DEF Here, Found
<1> QED BY <1>2, <1>3, <1>4, <1>5 DEF Line, Here

(* The answer to p.                                                        *)
LEMMA Gets ==
  ASSUME NEW u \in Seq(Asks), NEW h \in Threads, NEW d \in Seq(Lines), NEW P \in SUBSET Waits,
         NEW n \in Nat, NEW reader,
         Line(u, h, d, P, n, reader), d # <<>>, Head(d).kind = "reply",
         NEW p \in P, p.id = Head(d).id
  PROVE  /\ Line(u, h, Tail(d), P \ {p}, n, reader)
         /\ Here(u, h, d, P) => Here(u, h, Tail(d), P \ {p})
<1> SUFFICES ASSUME NEW e, e = Tail(d), NEW Q, Q = P \ {p}
             PROVE  /\ Line(u, h, e, Q, n, reader)
                    /\ Here(u, h, d, P) => Here(u, h, e, Q)
  OBVIOUS
<1>1. /\ Head(d) = d[1] /\ 1 \in 1..Len(d)
      /\ e \in Seq(Lines) /\ Len(d) \in Nat /\ Len(e) \in Nat
      /\ \A i \in 1..Len(e) : i + 1 \in 1..Len(d) /\ e[i] = d[i + 1]
      /\ \A i \in 1..Len(d) : i # 1 => i - 1 \in 1..Len(e) /\ e[i - 1] = d[i]
  BY TailFacts
<1>2. Ordered(u, h, e, n) /\ Owed(u, h, e, P, n) /\ Greets(u, h, e, reader)
  BY Reads DEF Line
<1>3. \A id \in Nat : \A cmd : Owner(P, id, cmd) /\ p.id < id => Owner(Q, id, cmd)
  BY DEF Owner, Waits
<1>4. \A q \in P : q.id = p.id => q = p
  BY DEF Line, Owed
<1>5. IsReply(d, 1) /\ p.id = d[1].id /\ p.id \in Nat
  BY <1>1 DEF IsReply, Waits
<1>6. Owed(u, h, e, Q, n)
  <2>1. ASSUME NEW i \in 1..Len(u) PROVE Owner(Q, u[i].id, u[i].cmd) /\ u[i].cmd # "none"
    <3>1. p.id < u[i].id /\ u[i].id \in Nat
      BY <1>1, <1>5 DEF Line, Ordered, Asks
    <3> QED BY <1>3, <3>1 DEF Line, Owed
  <2>2. Busy(h) => Owner(Q, h.id, h.cmd)
    <3>1. Busy(h) => p.id < h.id /\ h.id \in Nat
      BY <1>1, <1>5 DEF Line, Ordered, Threads
    <3> QED BY <1>3, <3>1 DEF Line, Owed
  <2>3. ASSUME NEW i \in 1..Len(e), IsReply(e, i) PROVE Owner(Q, e[i].id, e[i].cmd)
    <3>1. e[i] = d[i + 1] /\ i + 1 \in 1..Len(d) /\ IsReply(d, i + 1) /\ 1 < i + 1
      BY <1>1, <2>3 DEF IsReply
    <3>2. p.id < e[i].id /\ e[i].id \in Nat
      BY <1>1, <1>5, <3>1 DEF Line, Ordered, Lines
    <3>3. Owner(P, e[i].id, e[i].cmd)
      BY <3>1 DEF Line, Owed
    <3> QED BY <1>3, <3>2, <3>3
  <2> QED BY <2>1, <2>2, <2>3 DEF Line, Owed
<1>7. ASSUME Here(u, h, d, P), NEW q \in Q PROVE Found(u, h, e, q)
  <2>1. q \in P /\ q.id # p.id
    BY <1>4
  <2>2. CASE \E i \in 1..Len(d) : IsReply(d, i) /\ d[i].id = q.id
    <3>1. PICK i \in 1..Len(d) : IsReply(d, i) /\ d[i].id = q.id
      BY <2>2
    <3>2. i # 1
      BY <1>5, <2>1, <3>1
    <3> QED BY <1>1, <3>1, <3>2 DEF Found, IsReply
  <2> QED BY <1>7, <2>1, <2>2 DEF Here, Found
<1> QED BY <1>2, <1>6, <1>7 DEF Line, Here

(* A connection just made.                                                 *)
LEMMA Opens ==
  ASSUME NEW p \in Waits, p.id = 1, p.cmd = "hello",
         NEW q \in Waits, q.id = 2, q.cmd \in {"status", "resume"},
         NEW h, h.at = "idle",
         NEW u, u = <<Ask(1, "hello", 0), Ask(2, "status", 0)>>
  PROVE  Line(u, h, <<>>, {p, q}, 3, FALSE) /\ Here(u, h, <<>>, {p, q})
<1>1. /\ Len(u) = 2 /\ u[1].id = 1 /\ u[1].cmd = "hello" /\ u[2].id = 2 /\ u[2].cmd = "status"
      /\ 1 \in 1..Len(u) /\ 2 \in 1..Len(u) /\ \A i \in 1..Len(u) : i = 1 \/ i = 2
      /\ Len(<<>>) = 0 /\ ~ Busy(h)
  BY DEF Ask, Busy
<1>2. Ordered(u, h, <<>>, 3)
  BY <1>1 DEF Ordered
<1>3. Owner({p, q}, 1, "hello") /\ Owner({p, q}, 2, "status")
  BY DEF Owner, Answers
<1>4. Owed(u, h, <<>>, {p, q}, 3)
  BY <1>1, <1>3 DEF Owed
<1>5. Greets(u, h, <<>>, FALSE)
  BY <1>1 DEF Greets
<1>6. Here(u, h, <<>>, {p, q})
  BY <1>1 DEF Here, Found
<1> QED BY <1>2, <1>4, <1>5, <1>6 DEF Line

-----------------------------------------------------------------------------
(* The store, the threads and the screen: types, and what goes with them.  *)
Opened ==
  /\ conn # 0 => conn \in Conns
  /\ nextId # 0
  /\ \A c \in Conns : c > used =>
       /\ up[c] = <<>> /\ down[c] = <<>> /\ handler[c].at = "idle"
       /\ c \notin bus /\ c \notin shut

Handlers == \A c \in Conns :
  /\ handler[c].at \in {"idle", "ended"} => handler[c].rows = NoRows
  /\ handler[c].at = "ended" => c \in shut
  /\ handler[c].at \in {"stored", "restored", "publish"} => handler[c].cmd = "load_older"
  /\ handler[c].at \in {"stored", "restored"} => handler[c].rows = NoRows
  /\ handler[c].at = "answer" /\ handler[c].cmd # "messages" => handler[c].rows = NoRows

Base == ScreenTypeOK /\ Opened /\ Handlers /\ First \in Held(stored)

LEMMA NoRowsType ==
  /\ NoRows \in Versions /\ Idle \in Threads /\ CutLine \in Lines
  /\ \A f \in Versions : Event(f) \in Lines
  /\ \A h \in Threads : Reply(h) \in Lines
  /\ \A f \in Versions, n \in Nat : recent_messages(f, n) \in Versions
<1> USE ScreenAssumption
<1>1. NoRows \in Versions
  BY DEF NoRows, Versions
<1>2. Idle \in Threads /\ CutLine \in Lines
  BY <1>1 DEF Idle, Threads, CutLine, Lines, Cmds
<1>3. \A f \in Versions : Event(f) \in Lines
  BY DEF Event, Lines, Cmds
<1>4. \A h \in Threads : Reply(h) \in Lines
  BY DEF Reply, Lines, Threads
<1>5. \A f \in Versions, n \in Nat : recent_messages(f, n) \in Versions
  BY DEF recent_messages, Versions
<1> QED BY <1>1, <1>2, <1>3, <1>4, <1>5

(* The thread of a socket nobody has opened does nothing.                  *)
LEMMA OnlyOpened ==
  ASSUME Base, NEW c \in Conns, client_loop(c)
  PROVE  c <= used
<1>1. c \in Nat /\ used \in Nat
  BY ScreenAssumption DEF Base, ScreenTypeOK
<1>2. SUFFICES ASSUME c > used PROVE FALSE
  BY <1>1
<1>3. up[c] = <<>> /\ handler[c].at = "idle" /\ ~ Gone(c)
  BY <1>1, <1>2 DEF Base, Opened, Gone
<1> QED BY <1>3 DEF client_loop, hello, bus_add, status, messages, messages_fails, load_older_store, load_older_restore, load_older_read,
        load_older_publish, load_older_fails, reply, handler_ends, Asked

(* The thread of c goes on to k, and nothing else moves but the bus.       *)
LEMMA ThreadGoesOn ==
  ASSUME Base, NEW c \in Conns, c <= used, NEW k \in Threads,
         handler' = [handler EXCEPT ![c] = k],
         k.at \in {"idle", "ended"} => k.rows = NoRows,
         k.at = "ended" => c \in shut',
         k.at \in {"stored", "restored", "publish"} => k.cmd = "load_older",
         k.at \in {"stored", "restored"} => k.rows = NoRows,
         k.at = "answer" /\ k.cmd # "messages" => k.rows = NoRows,
         stored' \in Versions, First \in Held(stored'), batch' \in Versions, stores' \in 0..MaxStores,
         bus' \subseteq bus \cup {c}, shut \subseteq shut', shut' \subseteq shut \cup {c},
         up' \in [Conns -> Seq(Asks)], \A e \in Conns : e # c => up'[e] = up[e],
         down' \in [Conns -> Seq(Lines)],
         \A e \in Conns : e # c => down'[e] = down[e] \/ e \in bus,
         overtaken' \subseteq Rows, UNCHANGED <<link, view, asleep>>
  PROVE  Base'
<1>1. ScreenTypeOK'
  BY DEF Base, ScreenTypeOK, Threads, Asks, link, view
<1>2. Opened'
  <2>1. ASSUME NEW e \in Conns, e > used
        PROVE  /\ up'[e] = <<>> /\ down'[e] = <<>> /\ handler'[e].at = "idle"
               /\ e \notin bus' /\ e \notin shut'
    <3>1. e # c
      BY <2>1, ScreenAssumption DEF Base, ScreenTypeOK
    <3> QED BY <2>1, <3>1 DEF Base, Opened, ScreenTypeOK
  <2> QED BY <2>1 DEF Base, Opened, link
<1>3. Handlers'
  <2>1. \A e \in Conns : handler'[e] = IF e = c THEN k ELSE handler[e]
    BY DEF Base, ScreenTypeOK
  <2> QED BY <2>1 DEF Base, Handlers
<1> QED BY <1>1, <1>2, <1>3 DEF Base

(* The least and the greatest of a set of numbers.                         *)
LEMMA BelowFinite ==
  ASSUME NEW n \in Nat, NEW S \in SUBSET (0..n)
  PROVE  IsFiniteSet(S)
<1>1. \A s \in S : s <= n
  OBVIOUS
<1>2. S \in SUBSET Nat
  OBVIOUS
<1> QED BY <1>1, <1>2, FS_BoundedSetOfNaturals

LEMMA LeastExists ==
  ASSUME NEW S \in SUBSET Nat, IsFiniteSet(S), S # {}
  PROVE  \E r \in S : \A s \in S : r <= s
BY LeastIsLeast

LEMMA GreatestExists ==
  ASSUME NEW S \in SUBSET Nat, S # {}, NEW n \in Nat, \A s \in S : s <= n
  PROVE  \E r \in S : \A s \in S : s <= r
<1> DEFINE B == {k \in 0..n : \A s \in S : s <= k}
<1>1. B \in SUBSET Nat /\ B # {} /\ IsFiniteSet(B)
  <2>1. n \in B /\ B \in SUBSET (0..n) /\ B \in SUBSET Nat
    OBVIOUS
  <2> HIDE DEF B
  <2> QED BY <2>1, BelowFinite
<1>2. PICK k \in B : \A j \in B : k <= j
  <2> HIDE DEF B
  <2> QED BY <1>1, LeastExists
<1>3. ASSUME k \notin S PROVE FALSE
  <2>1. PICK s \in S : TRUE
    OBVIOUS
  <2>2. \A t \in S : t \in Nat /\ t <= k /\ t # k
    BY <1>3
  <2>4. k \in 0..n
    OBVIOUS
  <2>3. k - 1 \in B
    <3>1. \A t \in S : t <= k - 1
      BY <2>2, <2>4
    <3>2. k - 1 \in 0..n
      BY <2>1, <2>2, <2>4
    <3> QED BY <3>1, <3>2
  <2> QED BY <1>2, <2>3, <2>4
<1> QED BY <1>3

(* The page before the oldest stored row: none of it is stored.            *)
LEMMA OlderFacts ==
  ASSUME stored \in Versions, First \in Held(stored)
  PROVE  /\ Cardinality(Older) \in Nat /\ Older \subseteq Rows
         /\ \A r \in Older : stored[r] = 0 /\ r < First
         /\ \A r \in Older, s \in Held(stored) : r < s
<1> USE ScreenAssumption
<1>0. First \in Nat /\ Page \in Nat /\ Held(stored) \subseteq Nat /\ Rows \subseteq Nat
  BY DEF Held
<1>1. PICK m \in Held(stored) : \A s \in Held(stored) : m <= s
  <2> DEFINE S == {s \in Held(stored) : s <= First}
  <2>1. S \in SUBSET (0..First) /\ S \in SUBSET Nat /\ First \in S
    BY <1>0
  <2>2. IsFiniteSet(S)
    <3> HIDE DEF S
    <3> QED BY <1>0, <2>1, BelowFinite
  <2>3. PICK m \in S : \A s \in S : m <= s
    <3> HIDE DEF S
    <3> QED BY <2>1, <2>2, LeastExists
  <2>4. ASSUME NEW s \in Held(stored) PROVE m <= s
    <3>0. s \in Nat /\ m \in Nat
      BY <1>0, <2>1
    <3>1. s \in Nat /\ m \in Nat /\ m <= First
      BY <3>0
    <3>2. CASE s <= First
      BY <2>3, <3>2
    <3>3. CASE ~ (s <= First)
      BY <1>0, <3>1, <3>3
    <3> QED BY <3>2, <3>3
  <2> QED BY <2>4
<1>2. Oldest \in Held(stored) /\ \A s \in Held(stored) : Oldest <= s
  BY <1>1 DEF Oldest
<1>3. Older \in SUBSET Rows /\ \A r \in Older : r < Oldest /\ r \in Nat /\ Oldest \in Nat
  BY <1>0, <1>2 DEF Older
<1>4. IsFiniteSet(Older)
  <2>1. Older \in SUBSET (0..Oldest)
    BY <1>3
  <2>2. Oldest \in Nat
    BY <1>0, <1>2
  <2> QED BY <2>1, <2>2, BelowFinite
<1>5. ASSUME NEW r \in Older, NEW s \in Held(stored) PROVE r < s
  <2>1. r < Oldest /\ Oldest <= s /\ r \in Nat /\ Oldest \in Nat /\ s \in Nat
    BY <1>0, <1>2, <1>3
  <2> QED BY <2>1
<1>6. ASSUME NEW r \in Older PROVE stored[r] = 0 /\ r < First
  <2>1. r \notin Held(stored)
    BY <1>0, <1>3, <1>5
  <2> QED BY <1>3, <1>5, <2>1 DEF Held
<1> QED BY <1>3, <1>4, <1>5, <1>6, FS_CardinalityType

-----------------------------------------------------------------------------
(* The plugin's connection, if it has one.                                 *)
Fine(u, h, d, P, n, reader, closed) ==
  /\ Line(u, h, d, P, n, reader)
  /\ ~ closed /\ (reader \/ NotYet(u, h)) => Here(u, h, d, P)

Link == conn # 0 =>
  Fine(up[conn], handler[conn], down[conn], pending, nextId, conn \in bus, conn \in shut)

LEMMA FineStays ==
  ASSUME NEW u, NEW h, NEW d, NEW P, NEW n, NEW reader, NEW closed, NEW after, NEW shutting,
         Fine(u, h, d, P, n, reader, closed), after => reader, closed => shutting
  PROVE  Fine(u, h, d, P, n, after, shutting)
<1>1. Line(u, h, d, P, n, after)
  BY DEF Fine, Line, Greets
<1>2. CASE after
  BY <1>1, <1>2 DEF Fine
<1>3. CASE ~ after
  BY <1>1, <1>3 DEF Fine
<1> QED BY <1>2, <1>3

LEMMA LinkStays ==
  ASSUME Link, UNCHANGED link,
         conn # 0 => /\ up'[conn] = up[conn] /\ handler'[conn] = handler[conn]
                     /\ down'[conn] = down[conn]
                     /\ conn \in bus' => conn \in bus
                     /\ conn \in shut => conn \in shut'
  PROVE  Link'
<1> SUFFICES ASSUME conn # 0
             PROVE  Fine(up[conn], handler[conn], down[conn], pending, nextId,
                         conn \in bus', conn \in shut')
  BY DEF Link, link
<1> QED BY DEF Link, Fine, Line, Greets

LEMMA PublishFacts ==
  ASSUME Base, NEW f \in Versions, NEW left, publish(f, left)
  PROVE  /\ down' \in [Conns -> Seq(Lines)] /\ bus' \subseteq bus /\ overtaken' \subseteq Rows
         /\ \A e \in Conns : e \notin bus => down'[e] = down[e] /\ e \notin bus'
         /\ \A e \in bus : ~ Full(e) => e \in bus' /\ down'[e] = Sent(e, Event(f))
         /\ \A e \in bus : Full(e) =>
              e \notin bus' /\ (down'[e] = down[e] \/ down'[e] = Append(down[e], CutLine))
<1> USE DEF Base, ScreenTypeOK
<1>1. PICK torn \in SUBSET {c \in bus : Full(c)} :
        down' = [c \in Conns |-> IF c \in bus /\ ~ Full(c) THEN Sent(c, Event(f))
                                 ELSE IF c \in torn THEN Append(down[c], CutLine) ELSE down[c]]
  BY DEF publish
<1>2. bus' = {c \in bus : ~ Full(c)} /\ overtaken' \subseteq Rows
  BY DEF publish, Told
<1>3. Event(f) \in Lines /\ CutLine \in Lines
  BY NoRowsType
<1>4. ASSUME NEW e \in Conns
      PROVE  /\ Sent(e, Event(f)) \in Seq(Lines)
             /\ Append(down[e], CutLine) \in Seq(Lines) /\ down[e] \in Seq(Lines)
  BY <1>3 DEF Sent
<1>5. down' \in [Conns -> Seq(Lines)]
  BY <1>1, <1>4
<1> QED BY <1>1, <1>2, <1>5

LEMMA PublishLink ==
  ASSUME Base, Link, NEW f \in Versions, NEW left, publish(f, left), conn # 0
  PROVE  Fine(up[conn], handler[conn], down'[conn], pending, nextId, conn \in bus', conn \in shut)
<1> USE DEF Base, ScreenTypeOK
<1>1. conn \in Conns
  BY DEF Opened
<1>2. down[conn] \in Seq(Lines) /\ Event(f) \in Lines /\ CutLine \in Lines /\ ~ Gone(conn)
  BY NoRowsType DEF Opened, Gone
<1>3. Fine(up[conn], handler[conn], down[conn], pending, nextId, conn \in bus, conn \in shut)
  BY DEF Link
<1>4. Event(f).kind = "event" /\ CutLine.kind = "cut"
  BY DEF Event, CutLine
<1>5. CASE conn \in bus /\ ~ Full(conn)
  <2>1. conn \in bus' /\ down'[conn] = Append(down[conn], Event(f))
    BY <1>2, <1>5, PublishFacts DEF Sent
  <2>2. Line(up[conn], handler[conn], Append(down[conn], Event(f)), pending, nextId, TRUE)
    <3>1. Line(up[conn], handler[conn], down[conn], pending, nextId, TRUE)
      BY <1>3, <1>5 DEF Fine, Line, Greets
    <3> QED BY <1>2, <1>4, <3>1, Publishes
  <2>3. conn \notin shut => Here(up[conn], handler[conn], Append(down[conn], Event(f)), pending)
    BY <1>2, <1>3, <1>4, <1>5, Publishes DEF Fine
  <2> QED BY <2>1, <2>2, <2>3 DEF Fine, Line, Greets
<1>6. CASE conn \in bus /\ Full(conn)
  <2>1. conn \notin bus' /\ (down'[conn] = down[conn] \/ down'[conn] = Append(down[conn], CutLine))
    BY <1>6, PublishFacts
  <2>2. Line(up[conn], handler[conn], down[conn], pending, nextId, TRUE)
    BY <1>3, <1>6 DEF Fine, Line, Greets
  <2>3. Line(up[conn], handler[conn], Append(down[conn], CutLine), pending, nextId, FALSE)
    BY <1>2, <1>4, <2>2, Publishes
  <2>4. Line(up[conn], handler[conn], down[conn], pending, nextId, FALSE)
    BY <2>2, Drops
  <2>5. ~ NotYet(up[conn], handler[conn])
    BY <2>2 DEF Line, Greets
  <2> QED BY <2>1, <2>3, <2>4, <2>5 DEF Fine, Line, Greets
<1>7. CASE conn \notin bus
  <2>1. down'[conn] = down[conn] /\ conn \notin bus'
    BY <1>7, PublishFacts DEF Opened
  <2> QED BY <1>3, <1>7, <2>1, FineStays
<1> QED BY <1>5, <1>6, <1>7

-----------------------------------------------------------------------------
(* The daemon's threads.                                                   *)
LEMMA TakenType ==
  ASSUME Base, NEW c \in Conns, up[c] # <<>>, Taken(c)
  PROVE  /\ up' \in [Conns -> Seq(Asks)] /\ up'[c] = Tail(up[c])
         /\ \A e \in Conns : e # c => up'[e] = up[e]
         /\ Head(up[c]) \in Asks /\ up[c] \in Seq(Asks)
<1>1. up \in [Conns -> Seq(Asks)]
  BY DEF Base, ScreenTypeOK, Asks
<1>2. Tail(up[c]) \in Seq(Asks) /\ Head(up[c]) \in Asks
  BY <1>1, TailFacts
<1> QED BY <1>1, <1>2 DEF Taken

LEMMA DoingType ==
  ASSUME Base, NEW c \in Conns, up[c] # <<>>, Taken(c),
         NEW st \in {"idle", "add", "stored", "restored", "publish", "answer", "ended"}
  PROVE  /\ Doing(c, st) \in Threads /\ Doing(c, st).at = st
         /\ Doing(c, st).id = Head(up[c]).id /\ Doing(c, st).cmd = Head(up[c]).cmd
         /\ Doing(c, st).rows = NoRows
<1>1. Head(up[c]) \in Asks
  BY TakenType
<1> QED BY <1>1, NoRowsType DEF Doing, Idle, Asks, Threads

LEMMA AnsweredType ==
  ASSUME Base, NEW c \in Conns, NEW h \in Threads, Answered(c, h)
  PROVE  /\ down' \in [Conns -> Seq(Lines)]
         /\ \A e \in Conns : e # c => down'[e] = down[e]
         /\ c = conn => down'[c] = Append(down[c], Reply(h))
         /\ Reply(h) \in Lines /\ down[c] \in Seq(Lines)
<1>1. Reply(h) \in Lines /\ down \in [Conns -> Seq(Lines)]
  BY NoRowsType DEF Base, ScreenTypeOK
<1> QED BY <1>1 DEF Answered, Sent, Gone

LEMMA RepairsType ==
  ASSUME Base, Repairs
  PROVE  stored' \in Versions /\ First \in Held(stored') /\ stores' \in 0..MaxStores
<1> USE ScreenAssumption DEF Base, ScreenTypeOK
<1>1. CASE UNCHANGED <<stored, stores>>
  BY <1>1 DEF Held
<1>2. CASE Rewritten
  <2>1. PICK r \in Held(stored) : stored[r] < MaxVersion /\ stored' = [stored EXCEPT ![r] = @ + 1]
    BY <1>2 DEF Rewritten
  <2>2. stored[r] \in Nat /\ stored[r] + 1 \in 0..MaxVersion /\ stored[r] + 1 # 0 /\ r \in Rows
    BY <2>1 DEF Versions, Held
  <2>3. stored' \in Versions /\ \A s \in Rows : stored'[s] = IF s = r THEN stored[r] + 1 ELSE stored[s]
    BY <2>1, <2>2 DEF Versions
  <2>4. stores' \in 0..MaxStores
    BY <1>2 DEF Rewritten
  <2> QED BY <2>2, <2>3, <2>4 DEF Held
<1> QED BY <1>1, <1>2 DEF Repairs

LEMMA ThreadBase ==
  ASSUME Base, NEW c \in Conns, client_loop(c)
  PROVE  Base'
<1> USE ScreenAssumption
<1>t. /\ stored \in Versions /\ batch \in Versions /\ stores \in 0..MaxStores
      /\ handler \in [Conns -> Threads] /\ bus \subseteq Conns /\ shut \subseteq Conns
      /\ up \in [Conns -> Seq(Asks)] /\ down \in [Conns -> Seq(Lines)] /\ overtaken \subseteq Rows
      /\ c <= used /\ First \in Held(stored) /\ handler[c] \in Threads
      /\ Idle \in Threads /\ Idle.at = "idle" /\ Idle.rows = NoRows /\ NoRows \in Versions
  BY OnlyOpened, NoRowsType DEF Base, ScreenTypeOK, Threads, Asks, Idle
<1>1. CASE hello(c)
  <2>1. up[c] # <<>> /\ Taken(c) /\ Answered(c, Doing(c, "add"))
    BY <1>1 DEF hello, Asked
  <2> QED BY <1>1, <1>t, <2>1, TakenType, DoingType, AnsweredType, ThreadGoesOn DEF hello
<1>2. CASE bus_add(c)
  BY <1>2, <1>t, ThreadGoesOn DEF bus_add, net
<1>3. CASE status(c)
  <2>1. up[c] # <<>> /\ Taken(c) /\ Head(up[c]).cmd = "status"
    BY <1>3 DEF status, Asked
  <2> QED BY <1>3, <1>t, <2>1, TakenType, DoingType, ThreadGoesOn DEF status
<1>4. CASE messages(c)
  <2>1. up[c] # <<>> /\ Taken(c) /\ Head(up[c]).cmd = "messages" /\ Repairs
    BY <1>4 DEF messages, Asked
  <2> DEFINE k == [Doing(c, "answer") EXCEPT !.rows = recent_messages(stored', Head(up[c]).limit)]
  <2>2. Head(up[c]).limit \in Nat /\ stored' \in Versions
    BY <1>t, <2>1, TakenType, RepairsType DEF Asks
  <2>3. k \in Threads /\ k.at = "answer" /\ k.cmd = "messages"
    <3>1. recent_messages(stored', Head(up[c]).limit) \in Versions
      BY <2>2, NoRowsType
    <3>2. Doing(c, "answer") \in Threads /\ Doing(c, "answer").at = "answer" /\ Doing(c, "answer").cmd = "messages"
      BY <2>1, DoingType
    <3> QED BY <3>1, <3>2 DEF Threads
  <2>4. handler' = [handler EXCEPT ![c] = k] /\ overtaken' \subseteq Rows
    BY <1>4, <1>t DEF messages, Untold
  <2> HIDE DEF k
  <2> QED BY <1>4, <1>t, <2>1, <2>3, <2>4, TakenType, RepairsType, ThreadGoesOn DEF messages
<1>4f. CASE messages_fails(c)
  <2>1. up[c] # <<>> /\ Taken(c) /\ Repairs
    BY <1>4f DEF messages_fails, Asked
  <2> DEFINE k == [Doing(c, "answer") EXCEPT !.cmd = "none"]
  <2>2. k \in Threads /\ k.at = "answer" /\ k.rows = NoRows
    <3>1. /\ Doing(c, "answer") \in Threads /\ Doing(c, "answer").at = "answer"
          /\ Doing(c, "answer").rows = NoRows
      BY <2>1, DoingType
    <3> QED BY <3>1 DEF Threads, Cmds
  <2>3. handler' = [handler EXCEPT ![c] = k] /\ overtaken' \subseteq Rows
    BY <1>4f DEF messages_fails
  <2> HIDE DEF k
  <2> QED BY <1>4f, <1>t, <2>1, <2>2, <2>3, TakenType, RepairsType, ThreadGoesOn DEF messages_fails
<1>5. CASE load_older_store(c)
  <2>1. up[c] # <<>> /\ Taken(c) /\ Head(up[c]).cmd = "load_older"
    BY <1>5 DEF load_older_store, Asked
  <2>p. PICK st \in {"stored", "answer"} :
          handler' = [handler EXCEPT ![c] = [Doing(c, st) EXCEPT !.added = Cardinality(Older)]]
    BY <1>5 DEF load_older_store
  <2> DEFINE k == [Doing(c, st) EXCEPT !.added = Cardinality(Older)]
  <2>2. k \in Threads /\ k.at = st /\ k.cmd = "load_older" /\ k.rows = NoRows
    <3>1. /\ Doing(c, st) \in Threads /\ Doing(c, st).at = st
          /\ Doing(c, st).cmd = "load_older" /\ Doing(c, st).rows = NoRows
      BY <2>1, DoingType
    <3>2. Cardinality(Older) \in Nat
      BY <1>t, OlderFacts
    <3> QED BY <3>1, <3>2 DEF Threads
  <2>3. handler' = [handler EXCEPT ![c] = k]
    BY <2>p
  <2>4. stored' \in Versions /\ First \in Held(stored')
    <3>1. stored' = [r \in Rows |-> IF r \in Older THEN 1 ELSE stored[r]]
      BY <1>5 DEF load_older_store
    <3> QED BY <1>t, <3>1 DEF Versions, Held
  <2> HIDE DEF k
  <2> QED BY <1>5, <1>t, <2>1, <2>2, <2>3, <2>4, TakenType, ThreadGoesOn DEF load_older_store
<1>5r. CASE load_older_restore(c)
  <2>1. PICK st \in {"answer", "restored"} :
          handler' = [handler EXCEPT ![c] = [handler[c] EXCEPT !.at = st]]
    BY <1>5r, <1>t DEF load_older_restore
  <2> DEFINE k == [handler[c] EXCEPT !.at = st]
  <2>2. handler[c].at = "stored" /\ Repairs /\ overtaken' \subseteq Rows
    BY <1>5r, <1>t DEF load_older_restore, Untold
  <2>3. handler[c].cmd = "load_older" /\ handler[c].rows = NoRows
    BY <2>2 DEF Base, Handlers
  <2>4. k \in Threads /\ k.at = st /\ k.cmd = "load_older" /\ k.rows = NoRows
    BY <1>t, <2>3 DEF Threads
  <2>5. handler' = [handler EXCEPT ![c] = k]
    BY <2>1
  <2> HIDE DEF k
  <2> QED BY <1>5r, <1>t, <2>2, <2>4, <2>5, RepairsType, ThreadGoesOn DEF load_older_restore, net
<1>6. CASE load_older_read(c)
  <2> DEFINE k == [handler[c] EXCEPT !.at = "publish", !.rows = recent_messages(stored, Recent)]
  <2>1. handler' = [handler EXCEPT ![c] = k]
    BY <1>6, <1>t DEF load_older_read
  <2>2. k \in Threads /\ k.at = "publish" /\ k.cmd = "load_older"
    BY <1>6, <1>t, NoRowsType DEF load_older_read, Threads, Base, Handlers
  <2> HIDE DEF k
  <2> QED BY <1>6, <1>t, <2>1, <2>2, ThreadGoesOn DEF load_older_read, net
<1>7. CASE load_older_publish(c)
  <2> DEFINE k == [handler[c] EXCEPT !.at = "answer", !.rows = NoRows]
  <2>1. handler' = [handler EXCEPT ![c] = k]
    BY <1>7, <1>t DEF load_older_publish
  <2>2. k \in Threads /\ k.at = "answer" /\ k.rows = NoRows /\ handler[c].rows \in Versions
    BY <1>t, NoRowsType DEF Threads
  <2>3. publish(handler[c].rows, batch)
    BY <1>7 DEF load_older_publish
  <2> HIDE DEF k
  <2>4. /\ down' \in [Conns -> Seq(Lines)] /\ bus' \subseteq bus /\ overtaken' \subseteq Rows
        /\ \A e \in Conns : e \notin bus => down'[e] = down[e]
    BY <2>2, <2>3, PublishFacts
  <2> QED BY <1>7, <1>t, <2>1, <2>2, <2>4, ThreadGoesOn DEF load_older_publish
<1>8. CASE load_older_fails(c)
  <2>1. up[c] # <<>> /\ Taken(c)
    BY <1>8 DEF load_older_fails, Asked
  <2> DEFINE k == [Doing(c, "answer") EXCEPT !.cmd = "none"]
  <2>2. k \in Threads /\ k.at = "answer" /\ k.rows = NoRows
    <3>1. /\ Doing(c, "answer") \in Threads /\ Doing(c, "answer").at = "answer"
          /\ Doing(c, "answer").rows = NoRows
      BY <2>1, DoingType
    <3> QED BY <3>1 DEF Threads, Cmds
  <2>3. handler' = [handler EXCEPT ![c] = k]
    BY <1>8 DEF load_older_fails
  <2> HIDE DEF k
  <2> QED BY <1>8, <1>t, <2>1, <2>2, <2>3, TakenType, ThreadGoesOn DEF load_older_fails
<1>9. CASE reply(c)
  <2>1. Answered(c, handler[c]) /\ overtaken' \subseteq Rows
    BY <1>9, <1>t DEF reply, Told
  <2> QED BY <1>9, <1>t, <2>1, AnsweredType, ThreadGoesOn DEF reply
<1>10. CASE handler_ends(c)
  <2> DEFINE k == [Idle EXCEPT !.at = "ended"]
  <2>1. k \in Threads /\ k.at = "ended" /\ k.rows = NoRows
    BY <1>t DEF Threads
  <2>2. handler' = [handler EXCEPT ![c] = k] /\ shut' = shut \cup {c} /\ bus' = bus \ {c}
    BY <1>10 DEF handler_ends
  <2> HIDE DEF k
  <2> QED BY <1>10, <1>t, <2>1, <2>2, ThreadGoesOn DEF handler_ends
<1> QED BY <1>1, <1>2, <1>3, <1>4, <1>4f, <1>5, <1>5r, <1>6, <1>7, <1>8, <1>9, <1>10 DEF client_loop

LEMMA ThreadLink ==
  ASSUME Base, Link, NEW c \in Conns, client_loop(c)
  PROVE  Link'
<1> SUFFICES ASSUME conn # 0
             PROVE  Fine(up'[conn], handler'[conn], down'[conn], pending, nextId,
                         conn \in bus', conn \in shut')
  <2>1. UNCHANGED link
    BY DEF client_loop, hello, bus_add, status, messages, messages_fails, load_older_store, load_older_restore, load_older_read,
           load_older_publish, load_older_fails, reply, handler_ends
  <2> QED BY <2>1 DEF Link, link
<1> DEFINE u == up[conn]  h == handler[conn]  d == down[conn]
<1>t. /\ conn \in Conns /\ u \in Seq(Asks) /\ h \in Threads /\ d \in Seq(Lines)
      /\ pending \in SUBSET Waits /\ nextId \in Nat /\ ~ Gone(conn)
      /\ handler \in [Conns -> Threads] /\ handler[c] \in Threads
      /\ up \in [Conns -> Seq(Asks)] /\ down \in [Conns -> Seq(Lines)]
      /\ Idle \in Threads /\ Idle.at = "idle"
  BY NoRowsType DEF Base, ScreenTypeOK, Threads, Asks, Waits, Opened, Gone, Idle
<1>f. /\ Line(u, h, d, pending, nextId, conn \in bus)
      /\ conn \notin shut /\ (conn \in bus \/ NotYet(u, h)) => Here(u, h, d, pending)
  BY DEF Link, Fine
<1> HIDE DEF u, h, d
<1>s. ASSUME NEW k \in Threads, c = conn, u # <<>>, Taken(c), h.at = "idle", Head(u).cmd # "hello",
             handler' = [handler EXCEPT ![c] = k], Busy(k), k.id = Head(u).id,
             k.cmd = Head(u).cmd \/ (k.cmd = "none" /\ Head(u).cmd \in Failing),
             UNCHANGED <<bus, down, shut>>
      PROVE  Fine(up'[conn], handler'[conn], down'[conn], pending, nextId, conn \in bus', conn \in shut')
  <2>1. up'[conn] = Tail(u) /\ handler'[conn] = k /\ down'[conn] = d
    BY <1>s, <1>t DEF Taken, u, d
  <2>2. /\ Line(Tail(u), k, d, pending, nextId, conn \in bus)
        /\ Here(u, h, d, pending) => Here(Tail(u), k, d, pending)
        /\ ~ NotYet(Tail(u), k)
    <3> SUFFICES ASSUME NEW reader, reader = (conn \in bus)
                 PROVE  /\ Line(Tail(u), k, d, pending, nextId, reader)
                        /\ Here(u, h, d, pending) => Here(Tail(u), k, d, pending)
                        /\ ~ NotYet(Tail(u), k)
      OBVIOUS
    <3>1. Line(u, h, d, pending, nextId, reader)
      BY <1>f
    <3> QED BY <1>s, <1>t, <3>1, Takes
  <2>3. conn \in bus' <=> conn \in bus
    BY <1>s
  <2>4. conn \in shut' <=> conn \in shut
    BY <1>s
  <2>5. Line(Tail(u), k, d, pending, nextId, conn \in bus')
    BY <2>2, <2>3 DEF Line, Greets
  <2> QED BY <1>f, <2>1, <2>2, <2>3, <2>4, <2>5 DEF Fine
<1>o. ASSUME c # conn, up'[conn] = u, handler'[conn] = h, down'[conn] = d,
             conn \in bus' <=> conn \in bus, conn \in shut' <=> conn \in shut
      PROVE  Fine(up'[conn], handler'[conn], down'[conn], pending, nextId, conn \in bus', conn \in shut')
  <2>1. Line(u, h, d, pending, nextId, conn \in bus')
    BY <1>f, <1>o DEF Line, Greets
  <2> QED BY <1>f, <1>o, <2>1 DEF Fine
<1>k. \A x : handler' = [handler EXCEPT ![c] = x] =>
        handler'[c] = x /\ (c # conn => handler'[conn] = h)
  BY <1>t DEF h
<1>a. /\ Taken(c) /\ c # conn => up'[conn] = u
      /\ \A x \in Threads : Answered(c, x) /\ c # conn => down'[conn] = d
  BY <1>t DEF Taken, Answered, u, d
<1>1. CASE hello(c)
  <2>1. /\ Asked(c, "hello") /\ Taken(c) /\ Answered(c, Doing(c, "add"))
        /\ handler' = [handler EXCEPT ![c] = Doing(c, "add")] /\ UNCHANGED <<bus, shut>>
    BY <1>1 DEF hello
  <2>2. up[c] # <<>> /\ Head(up[c]).cmd = "hello" /\ handler[c].at = "idle"
    BY <2>1 DEF Asked
  <2>3. /\ Doing(c, "add") \in Threads /\ Doing(c, "add").at = "add"
        /\ Doing(c, "add").id = Head(up[c]).id /\ Doing(c, "add").cmd = Head(up[c]).cmd
    BY <2>1, <2>2, DoingType
  <2>4. CASE c # conn
    BY <1>o, <1>k, <1>a, <2>1, <2>3, <2>4
  <2>5. CASE c = conn
    <3> DEFINE k == Doing(c, "add")  l == Reply(k)
    <3>1. /\ up'[conn] = Tail(u) /\ handler'[conn] = k /\ down'[conn] = Append(d, l) /\ l \in Lines
          /\ l.kind = "reply" /\ l.id = Head(u).id /\ l.cmd = "hello"
          /\ h.at = "idle" /\ u # <<>> /\ Head(u).cmd = "hello" /\ k.at = "add" /\ k \in Threads
      BY <1>t, <1>k, <2>1, <2>2, <2>3, <2>5, TakenType, AnsweredType DEF u, d, h, Reply
    <3> HIDE DEF k, l
    <3>2. /\ Line(Tail(u), k, Append(d, l), pending, nextId, conn \in bus)
          /\ Here(u, h, d, pending) => Here(Tail(u), k, Append(d, l), pending)
          /\ NotYet(u, h)
      <4> SUFFICES ASSUME NEW reader, reader = (conn \in bus)
                   PROVE  /\ Line(Tail(u), k, Append(d, l), pending, nextId, reader)
                          /\ Here(u, h, d, pending) => Here(Tail(u), k, Append(d, l), pending)
                          /\ NotYet(u, h)
        OBVIOUS
      <4>1. Line(u, h, d, pending, nextId, reader)
        BY <1>f
      <4> QED BY <1>t, <3>1, <4>1, Greeted
    <3>3. (conn \in bus' <=> conn \in bus) /\ (conn \in shut' <=> conn \in shut)
      BY <2>1
    <3>4. Line(Tail(u), k, Append(d, l), pending, nextId, conn \in bus')
      BY <3>2, <3>3 DEF Line, Greets
    <3> QED BY <1>f, <3>1, <3>2, <3>3, <3>4 DEF Fine
  <2> QED BY <2>4, <2>5
<1>2. CASE bus_add(c)
  <2>1. /\ handler[c].at = "add" /\ handler' = [handler EXCEPT ![c] = Idle]
        /\ bus' = bus \cup {c} /\ UNCHANGED <<up, down, shut>>
    BY <1>2 DEF bus_add, net
  <2>2. CASE c # conn
    BY <1>o, <1>k, <2>1, <2>2 DEF u, d
  <2>3. CASE c = conn
    <3>1. up'[conn] = u /\ handler'[conn] = Idle /\ down'[conn] = d /\ conn \in bus' /\ h.at = "add"
      BY <1>k, <2>1, <2>3 DEF u, d, h
    <3>2. /\ Line(u, Idle, d, pending, nextId, TRUE)
          /\ Here(u, h, d, pending) => Here(u, Idle, d, pending)
          /\ NotYet(u, h)
      <4> SUFFICES ASSUME NEW reader, reader = (conn \in bus)
                   PROVE  /\ Line(u, Idle, d, pending, nextId, TRUE)
                          /\ Here(u, h, d, pending) => Here(u, Idle, d, pending)
                          /\ NotYet(u, h)
        OBVIOUS
      <4>1. Line(u, h, d, pending, nextId, reader)
        BY <1>f
      <4> QED BY <1>t, <3>1, <4>1, Subscribes
    <3>3. Line(u, Idle, d, pending, nextId, conn \in bus')
      BY <3>1, <3>2 DEF Line, Greets
    <3>4. conn \in shut' <=> conn \in shut
      BY <2>1
    <3> QED BY <1>f, <3>1, <3>2, <3>3, <3>4 DEF Fine
  <2> QED BY <2>2, <2>3
<1>3. CASE status(c)
  <2>1. /\ Asked(c, "status") /\ Taken(c)
        /\ handler' = [handler EXCEPT ![c] = Doing(c, "answer")] /\ UNCHANGED <<bus, down, shut>>
    BY <1>3 DEF status
  <2>2. up[c] # <<>> /\ Head(up[c]).cmd = "status" /\ handler[c].at = "idle"
    BY <2>1 DEF Asked
  <2>3. /\ Doing(c, "answer") \in Threads /\ Busy(Doing(c, "answer"))
        /\ Doing(c, "answer").id = Head(up[c]).id /\ Doing(c, "answer").cmd = Head(up[c]).cmd
    BY <2>1, <2>2, DoingType DEF Busy
  <2>4. CASE c # conn
    BY <1>o, <1>k, <1>a, <2>1, <2>4 DEF d
  <2>5. CASE c = conn
    BY <1>s, <2>1, <2>2, <2>3, <2>5 DEF u, h
  <2> QED BY <2>4, <2>5
<1>4. CASE messages(c)
  <2> DEFINE k == [Doing(c, "answer") EXCEPT !.rows = recent_messages(stored', Head(up[c]).limit)]
  <2>1. /\ Asked(c, "messages") /\ Taken(c) /\ Repairs
        /\ handler' = [handler EXCEPT ![c] = k] /\ UNCHANGED <<bus, down, shut>>
    BY <1>4 DEF messages
  <2>2. up[c] # <<>> /\ Head(up[c]).cmd = "messages" /\ handler[c].at = "idle"
    BY <2>1 DEF Asked
  <2>3. k \in Threads /\ Busy(k) /\ k.id = Head(up[c]).id /\ k.cmd = Head(up[c]).cmd
    <3>1. recent_messages(stored', Head(up[c]).limit) \in Versions
      BY <2>1, <2>2, TakenType, RepairsType, NoRowsType DEF Asks
    <3>2. /\ Doing(c, "answer") \in Threads /\ Doing(c, "answer").at = "answer"
          /\ Doing(c, "answer").id = Head(up[c]).id /\ Doing(c, "answer").cmd = Head(up[c]).cmd
      BY <2>1, <2>2, DoingType
    <3> QED BY <3>1, <3>2 DEF Threads, Busy
  <2> HIDE DEF k
  <2>4. CASE c # conn
    BY <1>o, <1>k, <1>a, <2>1, <2>4 DEF d
  <2>5. CASE c = conn
    BY <1>s, <2>1, <2>2, <2>3, <2>5 DEF u, h
  <2> QED BY <2>4, <2>5
<1>4f. CASE messages_fails(c)
  <2> DEFINE k == [Doing(c, "answer") EXCEPT !.cmd = "none"]
  <2>1. /\ Asked(c, "messages") /\ Taken(c)
        /\ handler' = [handler EXCEPT ![c] = k] /\ UNCHANGED <<bus, down, shut>>
    BY <1>4f DEF messages_fails
  <2>2. up[c] # <<>> /\ Head(up[c]).cmd = "messages" /\ handler[c].at = "idle"
    BY <2>1 DEF Asked
  <2>3. k \in Threads /\ Busy(k) /\ k.id = Head(up[c]).id /\ k.cmd = "none"
    <3>1. /\ Doing(c, "answer") \in Threads /\ Doing(c, "answer").at = "answer"
          /\ Doing(c, "answer").id = Head(up[c]).id
      BY <2>1, <2>2, DoingType
    <3> QED BY <3>1 DEF Threads, Busy, Cmds
  <2> HIDE DEF k
  <2>4. CASE c # conn
    BY <1>o, <1>k, <1>a, <2>1, <2>4 DEF d
  <2>5. CASE c = conn
    BY <1>s, <2>1, <2>2, <2>3, <2>5 DEF u, h, Failing
  <2> QED BY <2>4, <2>5
<1>5. CASE load_older_store(c)
  <2>p. PICK st \in {"stored", "answer"} :
          handler' = [handler EXCEPT ![c] = [Doing(c, st) EXCEPT !.added = Cardinality(Older)]]
    BY <1>5 DEF load_older_store
  <2> DEFINE k == [Doing(c, st) EXCEPT !.added = Cardinality(Older)]
  <2>1. /\ Asked(c, "load_older") /\ Taken(c)
        /\ handler' = [handler EXCEPT ![c] = k] /\ UNCHANGED <<bus, down, shut>>
    BY <1>5, <2>p DEF load_older_store
  <2>2. up[c] # <<>> /\ Head(up[c]).cmd = "load_older" /\ handler[c].at = "idle"
    BY <2>1 DEF Asked
  <2>3. k \in Threads /\ Busy(k) /\ k.id = Head(up[c]).id /\ k.cmd = Head(up[c]).cmd
    <3>1. Cardinality(Older) \in Nat
      BY OlderFacts DEF Base, ScreenTypeOK
    <3>2. /\ Doing(c, st) \in Threads /\ Doing(c, st).at = st
          /\ Doing(c, st).id = Head(up[c]).id /\ Doing(c, st).cmd = Head(up[c]).cmd
      BY <2>1, <2>2, DoingType
    <3> QED BY <3>1, <3>2 DEF Threads, Busy
  <2> HIDE DEF k
  <2>4. CASE c # conn
    BY <1>o, <1>k, <1>a, <2>1, <2>4 DEF d
  <2>5. CASE c = conn
    BY <1>s, <2>1, <2>2, <2>3, <2>5 DEF u, h
  <2> QED BY <2>4, <2>5
<1>5r. CASE load_older_restore(c)
  <2>p. PICK st \in {"answer", "restored"} :
          handler' = [handler EXCEPT ![c] = [handler[c] EXCEPT !.at = st]]
    BY <1>5r, <1>t DEF load_older_restore
  <2> DEFINE k == [handler[c] EXCEPT !.at = st]
  <2>1. /\ handler[c].at = "stored" /\ handler' = [handler EXCEPT ![c] = k]
        /\ UNCHANGED <<up, down, shut, bus>>
    BY <1>5r, <1>t, <2>p DEF load_older_restore, net
  <2>2. Busy(handler[c]) /\ Busy(k) /\ k.id = handler[c].id /\ k.cmd = handler[c].cmd
    BY <1>t, <2>1 DEF Busy, Threads
  <2> HIDE DEF k
  <2>3. CASE c # conn
    BY <1>o, <1>k, <2>1, <2>3 DEF u, d
  <2>4. CASE c = conn
    <3>1. up'[conn] = u /\ handler'[conn] = k /\ down'[conn] = d /\ (conn \in shut' <=> conn \in shut)
      BY <1>k, <2>1, <2>4 DEF u, d
    <3>2. /\ Line(u, k, d, pending, nextId, conn \in bus)
          /\ Here(u, h, d, pending) => Here(u, k, d, pending)
          /\ ~ NotYet(u, k)
      <4> SUFFICES ASSUME NEW reader, reader = (conn \in bus)
                   PROVE  /\ Line(u, k, d, pending, nextId, reader)
                          /\ Here(u, h, d, pending) => Here(u, k, d, pending)
                          /\ ~ NotYet(u, k)
        OBVIOUS
      <4>1. Line(u, h, d, pending, nextId, reader) /\ h = handler[c]
        BY <1>f, <2>4 DEF h
      <4> QED BY <2>2, <4>1, GoesOn
    <3>3. Line(u, k, d, pending, nextId, conn \in bus')
      BY <2>1, <3>2 DEF Line, Greets
    <3>4. conn \in bus' <=> conn \in bus
      BY <2>1
    <3> QED BY <1>f, <3>1, <3>2, <3>3, <3>4 DEF Fine
  <2> QED BY <2>3, <2>4
<1>6. CASE load_older_read(c)
  <2> DEFINE k == [handler[c] EXCEPT !.at = "publish", !.rows = recent_messages(stored, Recent)]
  <2>1. /\ handler[c].at = "restored" /\ handler' = [handler EXCEPT ![c] = k]
        /\ UNCHANGED <<up, down, shut, bus>>
    BY <1>6, <1>t DEF load_older_read, net
  <2>2. Busy(handler[c]) /\ Busy(k) /\ k.id = handler[c].id /\ k.cmd = handler[c].cmd
    BY <1>t, <2>1 DEF Busy, Threads
  <2> HIDE DEF k
  <2>3. CASE c # conn
    BY <1>o, <1>k, <2>1, <2>3 DEF u, d
  <2>4. CASE c = conn
    <3>1. up'[conn] = u /\ handler'[conn] = k /\ down'[conn] = d /\ (conn \in shut' <=> conn \in shut)
      BY <1>k, <2>1, <2>4 DEF u, d
    <3>2. /\ Line(u, k, d, pending, nextId, conn \in bus)
          /\ Here(u, h, d, pending) => Here(u, k, d, pending)
          /\ ~ NotYet(u, k)
      <4> SUFFICES ASSUME NEW reader, reader = (conn \in bus)
                   PROVE  /\ Line(u, k, d, pending, nextId, reader)
                          /\ Here(u, h, d, pending) => Here(u, k, d, pending)
                          /\ ~ NotYet(u, k)
        OBVIOUS
      <4>1. Line(u, h, d, pending, nextId, reader) /\ h = handler[c]
        BY <1>f, <2>4 DEF h
      <4> QED BY <2>2, <4>1, GoesOn
    <3>3. Line(u, k, d, pending, nextId, conn \in bus')
      BY <2>1, <3>2 DEF Line, Greets
    <3>4. conn \in bus' <=> conn \in bus
      BY <2>1
    <3> QED BY <1>f, <3>1, <3>2, <3>3, <3>4 DEF Fine
  <2> QED BY <2>3, <2>4
<1>7. CASE load_older_publish(c)
  <2> DEFINE k == [handler[c] EXCEPT !.at = "answer", !.rows = NoRows]
  <2>1. /\ handler[c].at = "publish" /\ handler' = [handler EXCEPT ![c] = k]
        /\ publish(handler[c].rows, batch) /\ UNCHANGED <<up, shut>>
    BY <1>7, <1>t DEF load_older_publish
  <2>2. Busy(handler[c]) /\ Busy(k) /\ k.id = handler[c].id /\ k.cmd = handler[c].cmd
    BY <1>t, <2>1 DEF Busy, Threads
  <2> HIDE DEF k
  <2>3. Fine(u, h, down'[conn], pending, nextId, conn \in bus', conn \in shut)
    BY <1>t, <2>1, PublishLink DEF u, h, Threads
  <2>s. conn \in shut' <=> conn \in shut
    BY <2>1
  <2>4. CASE c # conn
    <3>1. up'[conn] = u /\ handler'[conn] = h
      BY <1>k, <2>1, <2>4 DEF u
    <3> QED BY <2>3, <2>s, <3>1 DEF Fine
  <2>5. CASE c = conn
    <3>1. up'[conn] = u /\ handler'[conn] = k
      BY <1>k, <2>1, <2>5 DEF u
    <3>2. /\ Line(u, k, down'[conn], pending, nextId, conn \in bus')
          /\ Here(u, h, down'[conn], pending) => Here(u, k, down'[conn], pending)
          /\ ~ NotYet(u, k)
      <4> SUFFICES ASSUME NEW reader, reader = (conn \in bus'), NEW e, e = down'[conn]
                   PROVE  /\ Line(u, k, e, pending, nextId, reader)
                          /\ Here(u, h, e, pending) => Here(u, k, e, pending)
                          /\ ~ NotYet(u, k)
        OBVIOUS
      <4>1. Line(u, h, e, pending, nextId, reader) /\ h = handler[c]
        BY <2>3, <2>5 DEF h, Fine
      <4> QED BY <2>2, <4>1, GoesOn
    <3>3. ~ NotYet(u, h)
      BY <1>f, <2>2, <2>5, GoesOn DEF h, NotYet, Line, Greets, Busy
    <3> QED BY <2>3, <2>s, <3>1, <3>2, <3>3 DEF Fine
  <2> QED BY <2>4, <2>5
<1>8. CASE load_older_fails(c)
  <2> DEFINE k == [Doing(c, "answer") EXCEPT !.cmd = "none"]
  <2>1. /\ Asked(c, "load_older") /\ Taken(c)
        /\ handler' = [handler EXCEPT ![c] = k] /\ UNCHANGED <<bus, down, shut>>
    BY <1>8 DEF load_older_fails
  <2>2. up[c] # <<>> /\ Head(up[c]).cmd = "load_older" /\ handler[c].at = "idle"
    BY <2>1 DEF Asked
  <2>3. k \in Threads /\ Busy(k) /\ k.id = Head(up[c]).id /\ k.cmd = "none"
    <3>1. /\ Doing(c, "answer") \in Threads /\ Doing(c, "answer").at = "answer"
          /\ Doing(c, "answer").id = Head(up[c]).id
      BY <2>1, <2>2, DoingType
    <3> QED BY <3>1 DEF Threads, Busy, Cmds
  <2> HIDE DEF k
  <2>4. CASE c # conn
    BY <1>o, <1>k, <1>a, <2>1, <2>4 DEF d
  <2>5. CASE c = conn
    BY <1>s, <2>1, <2>2, <2>3, <2>5 DEF u, h, Failing
  <2> QED BY <2>4, <2>5
<1>9. CASE reply(c)
  <2>1. /\ handler[c].at = "answer" /\ handler' = [handler EXCEPT ![c] = Idle]
        /\ Answered(c, handler[c]) /\ UNCHANGED <<bus, up, shut>>
    BY <1>9 DEF reply
  <2>2. CASE c # conn
    BY <1>o, <1>k, <1>a, <1>t, <2>1, <2>2 DEF u
  <2>3. CASE c = conn
    <3> DEFINE l == Reply(h)
    <3>1. /\ up'[conn] = u /\ handler'[conn] = Idle /\ down'[conn] = Append(d, l) /\ l \in Lines
          /\ l.kind = "reply" /\ l.id = h.id /\ l.cmd = h.cmd /\ h.at = "answer"
      BY <1>t, <1>k, <2>1, <2>3, AnsweredType DEF u, d, h, Reply
    <3> HIDE DEF l
    <3>2. /\ Line(u, Idle, Append(d, l), pending, nextId, conn \in bus)
          /\ Here(u, h, d, pending) => Here(u, Idle, Append(d, l), pending)
          /\ ~ NotYet(u, Idle)
      <4> SUFFICES ASSUME NEW reader, reader = (conn \in bus)
                   PROVE  /\ Line(u, Idle, Append(d, l), pending, nextId, reader)
                          /\ Here(u, h, d, pending) => Here(u, Idle, Append(d, l), pending)
                          /\ ~ NotYet(u, Idle)
        OBVIOUS
      <4>1. Line(u, h, d, pending, nextId, reader)
        BY <1>f
      <4> QED BY <1>t, <3>1, <4>1, Replies
    <3>3. (conn \in bus' <=> conn \in bus) /\ (conn \in shut' <=> conn \in shut)
      BY <2>1
    <3>4. Line(u, Idle, Append(d, l), pending, nextId, conn \in bus')
      BY <3>2, <3>3 DEF Line, Greets
    <3> QED BY <1>f, <3>1, <3>2, <3>3, <3>4 DEF Fine
  <2> QED BY <2>2, <2>3
<1>10. CASE handler_ends(c)
  <2> DEFINE k == [Idle EXCEPT !.at = "ended"]
  <2>1. /\ handler[c].at = "answer" \/ (handler[c].at = "idle" /\ Gone(c))
        /\ handler' = [handler EXCEPT ![c] = k] /\ k.at = "ended"
        /\ bus' = bus \ {c} /\ shut' = shut \cup {c} /\ UNCHANGED <<up, down>>
    BY <1>10 DEF handler_ends, Idle
  <2> HIDE DEF k
  <2>2. CASE c # conn
    BY <1>o, <1>k, <2>1, <2>2 DEF u, d
  <2>3. CASE c = conn
    <3>1. /\ up'[conn] = u /\ handler'[conn] = k /\ down'[conn] = d /\ h.at = "answer"
          /\ conn \in shut' /\ conn \notin bus'
      BY <1>t, <1>k, <2>1, <2>3 DEF u, d, h
    <3>2. Line(u, k, d, pending, nextId, FALSE)
      <4> SUFFICES ASSUME NEW reader, reader = (conn \in bus)
                   PROVE  Line(u, k, d, pending, nextId, FALSE)
        OBVIOUS
      <4>1. Line(u, h, d, pending, nextId, reader)
        BY <1>f
      <4> QED BY <2>1, <3>1, <4>1, Ends
    <3>3. Line(u, k, d, pending, nextId, conn \in bus')
      BY <3>1, <3>2 DEF Line, Greets
    <3> QED BY <3>1, <3>3 DEF Fine
  <2> QED BY <2>2, <2>3
<1> QED BY <1>1, <1>2, <1>3, <1>4, <1>4f, <1>5, <1>5r, <1>6, <1>7, <1>8, <1>9, <1>10 DEF client_loop

-----------------------------------------------------------------------------
(* The plugin.                                                             *)
LEMMA PluginBase ==
  ASSUME Base, UNCHANGED <<stored, batch, stores, handler, bus, shut, overtaken>>,
         up' \in [Conns -> Seq(Asks)], \A e \in Conns : e > used' => up'[e] = up[e],
         down' \in [Conns -> Seq(Lines)], \A e \in Conns : down[e] = <<>> => down'[e] = <<>>,
         used' \in Nat, used <= used', conn' \in {0, used'}, conn' # 0 => conn' \in Conns,
         pending' \in SUBSET Waits, nextId' \in Nat \ {0},
         timeline' \in 0..opens', opens' \in 0..MaxOpens, shown' \in Versions,
         window' \in 1..WindowMax, loading' \in BOOLEAN, asleep' \in BOOLEAN
  PROVE  Base'
<1>1. ScreenTypeOK'
  BY DEF Base, ScreenTypeOK, Asks, Waits
<1>2. Opened'
  <2>1. ASSUME NEW e \in Conns, e > used'
        PROVE  /\ up'[e] = <<>> /\ down'[e] = <<>> /\ handler[e].at = "idle"
               /\ e \notin bus /\ e \notin shut
    <3>1. e > used
      BY <2>1, ScreenAssumption DEF Base, ScreenTypeOK
    <3> QED BY <2>1, <3>1 DEF Base, Opened
  <2> QED BY <2>1 DEF Opened
<1>3. Handlers' /\ First \in Held(stored')
  BY DEF Base, Handlers, Held
<1> QED BY <1>1, <1>2, <1>3 DEF Base

LEMMA PluginTypes ==
  ASSUME Base
  PROVE  /\ up \in [Conns -> Seq(Asks)] /\ down \in [Conns -> Seq(Lines)]
         /\ used \in Nat /\ conn \in {0, used} /\ nextId \in Nat \ {0} /\ pending \in SUBSET Waits
         /\ conn # 0 => conn \in Conns
         /\ timeline \in 0..opens /\ timeline \in Nat /\ opens \in 0..MaxOpens /\ opens \in Nat
         /\ timeline \in 0..MaxOpens /\ shown \in Versions
         /\ window \in 1..WindowMax /\ loading \in BOOLEAN /\ asleep \in BOOLEAN
         /\ NoRows \in Versions /\ Limit \in 1..WindowMax /\ WindowMax \in Nat
         /\ MaxOpens \in Nat /\ Conns \subseteq Nat
         /\ handler \in [Conns -> Threads]
<1> USE ScreenAssumption DEF Base, ScreenTypeOK
<1>1. /\ up \in [Conns -> Seq(Asks)] /\ down \in [Conns -> Seq(Lines)]
      /\ pending \in SUBSET Waits /\ handler \in [Conns -> Threads]
  BY DEF Asks, Waits, Threads
<1>2. nextId \in Nat \ {0} /\ (conn # 0 => conn \in Conns) /\ NoRows \in Versions
  BY NoRowsType DEF Opened
<1>3. /\ used \in Nat /\ conn \in {0, used} /\ shown \in Versions
      /\ loading \in BOOLEAN /\ asleep \in BOOLEAN /\ Conns \subseteq Nat
  OBVIOUS
<1>4. /\ MaxOpens \in Nat /\ opens \in 0..MaxOpens /\ timeline \in 0..opens
      /\ WindowMax \in Nat /\ Limit \in 1..WindowMax /\ window \in 1..WindowMax
  OBVIOUS
<1>5. opens \in Nat /\ timeline \in Nat /\ timeline \in 0..MaxOpens
  BY ONLY <1>4
<1> QED BY <1>1, <1>2, <1>3, <1>4, <1>5

LEMMA ConnectsStep ==
  ASSUME Base, NEW then \in {"status", "resume"}, Connects(then),
         UNCHANGED <<daemon, down, shut, view, overtaken>>, asleep' \in BOOLEAN
  PROVE  Base' /\ Link'
<1> USE PluginTypes
<1> DEFINE n == used + 1
           p == Wait(1, "hello")  q == Wait(2, then)
           u == <<Ask(1, "hello", 0), Ask(2, "status", 0)>>
<1>1. /\ n \in Conns /\ n > used /\ n \in Nat
      /\ used' = n /\ conn' = n /\ up' = [up EXCEPT ![n] = u]
      /\ pending' = {p, q} /\ nextId' = 3
  BY DEF Connects
<1>2. u \in Seq(Asks) /\ p \in Waits /\ q \in Waits
  BY DEF Ask, Wait, Asks, Waits, Cmds
<1>3. p.id = 1 /\ p.cmd = "hello" /\ q.id = 2 /\ q.cmd \in {"status", "resume"}
  BY DEF Wait
<1>4. up[n] = <<>> /\ down[n] = <<>> /\ handler[n].at = "idle" /\ n \notin bus
  BY <1>1 DEF Base, Opened
<1> HIDE DEF n, p, q
<1>5. Base'
  <2>1. up' \in [Conns -> Seq(Asks)] /\ \A e \in Conns : e > used' => up'[e] = up[e]
    BY <1>1, <1>2
  <2> QED BY <1>1, <1>2, <2>1, PluginBase DEF daemon, view, n
<1>6. Line(u, handler[n], <<>>, {p, q}, 3, FALSE) /\ Here(u, handler[n], <<>>, {p, q})
  BY <1>2, <1>3, <1>4, Opens
<1>7. Fine(u, handler[n], <<>>, {p, q}, 3, n \in bus, n \in shut)
  BY <1>4, <1>6 DEF Fine, Line, Greets
<1>8. up'[n] = u /\ handler'[n] = handler[n] /\ down'[n] = <<>>
  BY <1>1, <1>4 DEF daemon
<1>9. bus' = bus /\ shut' = shut
  BY DEF daemon
<1>10. Fine(up'[conn'], handler'[conn'], down'[conn'], pending', nextId', conn' \in bus', conn' \in shut')
  BY <1>1, <1>7, <1>8, <1>9
<1> QED BY <1>5, <1>10 DEF Link

(* A request, behind whatever has just been read.                          *)
LEMMA RequestStep ==
  ASSUME Base, conn # 0, NEW h, h = handler[conn],
         NEW d \in Seq(Lines), NEW P \in SUBSET Waits, P \in SUBSET pending,
         Fine(up[conn], h, d, P, nextId, conn \in bus, conn \in shut),
         NEW a \in Asks, a.id = nextId, a.cmd \in {"messages", "load_older"},
         NEW p \in Waits, p.id = nextId, p.cmd = a.cmd,
         up' = [up EXCEPT ![conn] = Append(@, a)], pending' = P \cup {p}, nextId' = nextId + 1,
         down' = [down EXCEPT ![conn] = d], down[conn] = <<>> => d = <<>>,
         UNCHANGED <<used, conn, daemon, shut, overtaken>>,
         timeline' \in 0..opens', opens' \in 0..MaxOpens, shown' \in Versions,
         window' \in 1..WindowMax, loading' \in BOOLEAN, asleep' \in BOOLEAN
  PROVE  Base' /\ Link'
<1> USE PluginTypes
<1>1. conn \in Conns /\ conn = used /\ up[conn] \in Seq(Asks) /\ h \in Threads /\ Append(up[conn], a) \in Seq(Asks)
  BY AppendFacts
<1>2. Base'
  <2>1. up' \in [Conns -> Seq(Asks)] /\ \A e \in Conns : e > used' => up'[e] = up[e]
    BY <1>1
  <2>2. down' \in [Conns -> Seq(Lines)] /\ \A e \in Conns : down[e] = <<>> => down'[e] = <<>>
    BY <1>1
  <2>3. pending' \in SUBSET Waits /\ nextId' \in Nat \ {0} /\ used' = used /\ conn' = conn
    OBVIOUS
  <2> QED BY <2>1, <2>2, <2>3, PluginBase DEF daemon
<1>3. /\ Line(Append(up[conn], a), h, d, P \cup {p}, nextId + 1, conn \in bus)
      /\ Here(up[conn], h, d, P) => Here(Append(up[conn], a), h, d, P \cup {p})
      /\ NotYet(Append(up[conn], a), h) => NotYet(up[conn], h)
  <2> SUFFICES ASSUME NEW reader, reader = (conn \in bus)
               PROVE  /\ Line(Append(up[conn], a), h, d, P \cup {p}, nextId + 1, reader)
                      /\ Here(up[conn], h, d, P) => Here(Append(up[conn], a), h, d, P \cup {p})
                      /\ NotYet(Append(up[conn], a), h) => NotYet(up[conn], h)
    OBVIOUS
  <2>1. Line(up[conn], h, d, P, nextId, reader)
    BY DEF Fine
  <2> QED BY <1>1, <2>1, Requests
<1>4. Fine(Append(up[conn], a), h, d, P \cup {p}, nextId + 1, conn \in bus, conn \in shut)
  BY <1>3 DEF Fine
<1>5. up'[conn] = Append(up[conn], a) /\ handler' = handler /\ down'[conn] = d /\ bus' = bus /\ shut' = shut
  BY <1>1 DEF daemon
<1>6. Fine(up'[conn'], handler'[conn'], down'[conn'], pending', nextId', conn' \in bus', conn' \in shut')
  BY <1>4, <1>5
<1> QED BY <1>2, <1>6 DEF Link

(* It closes its connection.                                               *)
LEMMA ClosesStep ==
  ASSUME Base, Closes, loading' \in BOOLEAN, asleep' \in BOOLEAN
  PROVE  Base' /\ Link'
<1> USE PluginTypes
<1>1. Link'
  BY DEF Closes, Link
<1>2. down' \in [Conns -> Seq(Lines)] /\ \A e \in Conns : down[e] = <<>> => down'[e] = <<>>
  <2>1. down' = [down EXCEPT ![conn] = <<>>] /\ <<>> \in Seq(Lines)
    BY DEF Closes
  <2> QED BY ONLY <2>1, PluginTypes, Base
<1>3. /\ UNCHANGED <<stored, batch, stores, handler, bus, shut, overtaken, up, used>>
      /\ conn' = 0 /\ pending' = {} /\ nextId' = 1 /\ UNCHANGED <<timeline, opens, shown, window>>
  BY DEF Closes, daemon
<1>4. up' \in [Conns -> Seq(Asks)] /\ (\A e \in Conns : e > used' => up'[e] = up[e])
  BY <1>3
<1>5. used' \in Nat /\ used <= used' /\ conn' \in {0, used'} /\ pending' \in SUBSET Waits
  BY <1>3
<1> QED BY <1>1, <1>2, <1>3, <1>4, <1>5, PluginBase

-----------------------------------------------------------------------------
(* Every step.                                                             *)
LEMMA SyncStep == Base /\ Link /\ sync => Base' /\ Link'
<1> SUFFICES ASSUME Base, Link, sync PROVE Base' /\ Link'
  OBVIOUS
<1> USE ScreenAssumption
<1>1. CASE sync_store
  <2>1. PICK r \in Rows, text \in {1, 2} :
          /\ text <= MaxVersion
          /\ stored' = [stored EXCEPT ![r] = text]
          /\ batch' = [NoRows EXCEPT ![r] = 1]
    BY <1>1 DEF sync_store
  <2>2. text \in 0..MaxVersion /\ text # 0 /\ 1 \in 0..MaxVersion /\ stores + 1 \in 0..MaxStores
    <3>1. MaxVersion \in Nat \ {0} /\ stores \in 0..MaxStores /\ stores < MaxStores
      BY <1>1 DEF Base, ScreenTypeOK, sync_store
    <3> QED BY <2>1, <3>1
  <2>3. stored' \in Versions /\ batch' \in Versions
    BY <2>1, <2>2, NoRowsType DEF Versions, Base, ScreenTypeOK
  <2>4. First \in Held(stored')
    BY <2>1, <2>2 DEF Base, ScreenTypeOK, Versions, Held
  <2>5. /\ UNCHANGED <<handler, bus, net, link, view, asleep>>
        /\ overtaken' \subseteq Rows /\ stores' \in 0..MaxStores
    BY <1>1, <2>2 DEF sync_store, Untold, Base, ScreenTypeOK
  <2>6. Base'
    BY <2>3, <2>4, <2>5 DEF Base, ScreenTypeOK, Opened, Handlers, net, link, view
  <2>7. Link'
    BY <2>5, LinkStays DEF net
  <2> QED BY <2>6, <2>7
<1>1e. CASE record_if_edit
  <2>1. /\ UNCHANGED <<batch, handler, bus, net, link, view, asleep>>
        /\ overtaken' \subseteq Rows /\ Repairs
    BY <1>1e DEF record_if_edit, Untold, Repairs, Base, ScreenTypeOK
  <2>2. stored' \in Versions /\ First \in Held(stored') /\ stores' \in 0..MaxStores
    BY <2>1, RepairsType
  <2>3. Base'
    BY <2>1, <2>2 DEF Base, ScreenTypeOK, Opened, Handlers, net, link, view
  <2>4. Link'
    BY <2>1, LinkStays DEF net
  <2> QED BY <2>3, <2>4
<1>2. CASE sync_publish
  <2>1. publish(batch, NoRows) /\ batch' = NoRows /\ batch \in Versions /\ NoRows \in Versions
    BY <1>2, NoRowsType DEF sync_publish, Base, ScreenTypeOK
  <2>2. UNCHANGED <<stored, stores, handler, up, shut, link, view, asleep>>
    BY <1>2 DEF sync_publish
  <2>3. /\ down' \in [Conns -> Seq(Lines)] /\ bus' \subseteq bus /\ overtaken' \subseteq Rows
        /\ \A e \in Conns : e \notin bus => down'[e] = down[e] /\ e \notin bus'
    BY <2>1, PublishFacts
  <2>4. Base'
    BY <2>1, <2>2, <2>3 DEF Base, ScreenTypeOK, Opened, Handlers, link, view
  <2>5. ASSUME conn # 0
        PROVE  Fine(up[conn], handler[conn], down'[conn], pending, nextId, conn \in bus', conn \in shut)
    BY <2>1, <2>5, PublishLink
  <2>6. Link'
    BY <2>2, <2>5 DEF Link, link
  <2> QED BY <2>4, <2>6
<1> QED BY <1>1, <1>1e, <1>2 DEF sync

LEMMA UserStep == Base /\ Link /\ user => Base' /\ Link'
<1> SUFFICES ASSUME Base, Link, user PROVE Base' /\ Link'
  OBVIOUS
<1> USE PluginTypes
<1>f. conn # 0 => Fine(up[conn], handler[conn], down[conn], pending, nextId, conn \in bus, conn \in shut)
  BY DEF Link
<1>1. CASE openMatrix
  BY <1>1, ConnectsStep DEF openMatrix
<1>2. CASE openTimeline
  <2>1. /\ opens' = opens + 1 /\ timeline' = opens + 1 /\ shown' = NoRows /\ window' = Limit
        /\ loading' = FALSE /\ UNCHANGED <<daemon, down, shut, asleep, overtaken>> /\ opens < MaxOpens
    BY <1>2 DEF openTimeline
  <2>2. opens' \in 0..MaxOpens /\ timeline' \in 0..opens' /\ opens + 1 \in 0..MaxOpens
    BY <2>1
  <2>3. CASE conn = 0
    <3>1. UNCHANGED <<up, link>>
      BY <1>2, <2>3 DEF openTimeline
    <3>2. Base'
      <4>1. /\ UNCHANGED <<stored, batch, stores, handler, bus, shut, overtaken, up, down, used, conn,
                            pending, nextId, asleep>>
            /\ shown' \in Versions /\ window' \in 1..WindowMax /\ loading' \in BOOLEAN
        BY <2>1, <3>1 DEF daemon, link
      <4> QED BY <2>2, <4>1, PluginBase
    <3> QED BY <2>3, <3>1, <3>2 DEF Link, link
  <2>4. CASE conn # 0
    <3> DEFINE a == Ask(nextId, "messages", Limit)
               p == [id |-> nextId, cmd |-> "messages", timeline |-> opens + 1]
    <3>1. a \in Asks /\ a.id = nextId /\ a.cmd = "messages" /\ p \in Waits /\ p.id = nextId /\ p.cmd = a.cmd
      BY <2>2 DEF Ask, Asks, Waits, Cmds
    <3>2. /\ up' = [up EXCEPT ![conn] = Append(@, a)] /\ pending' = pending \cup {p}
          /\ nextId' = nextId + 1 /\ UNCHANGED <<used, conn>>
      BY <1>2, <2>4 DEF openTimeline
    <3> HIDE DEF a, p
    <3>3. down' = [down EXCEPT ![conn] = down[conn]] /\ down[conn] \in Seq(Lines)
      BY <2>1, <2>4
    <3> QED BY <1>f, <2>1, <2>2, <2>4, <3>1, <3>2, <3>3, RequestStep
  <2> QED BY <2>3, <2>4
<1>3. CASE closeTimeline
  <2>1. /\ timeline' = 0 /\ shown' = NoRows /\ window' = Limit /\ loading' = FALSE
        /\ UNCHANGED <<stored, batch, stores, handler, bus, shut, overtaken, up, down, used, conn,
                       pending, nextId, opens, asleep>>
    BY <1>3 DEF closeTimeline, daemon, net, link
  <2>2. Base'
    <3>1. /\ timeline' \in 0..opens' /\ opens' \in 0..MaxOpens /\ shown' \in Versions
          /\ window' \in 1..WindowMax /\ loading' \in BOOLEAN /\ asleep' \in BOOLEAN
      <4>1. /\ opens' = opens /\ opens \in Nat /\ asleep' = asleep /\ timeline' = 0
            /\ shown' = NoRows /\ window' = Limit /\ loading' = FALSE
        BY <2>1
      <4>2. timeline' \in 0..opens' /\ opens' \in 0..MaxOpens
        BY <4>1
      <4> QED BY <4>1, <4>2
    <3>2. /\ up' = up /\ down' = down /\ used' = used /\ conn' = conn
          /\ pending' = pending /\ nextId' = nextId
      BY <2>1
    <3> QED BY <2>1, <3>1, <3>2, PluginBase
  <2> QED BY <2>1, <2>2, LinkStays DEF link
<1>4. CASE loadOlderMessages
  <2> DEFINE a == Ask(nextId, "load_older", 0)  p == Wait(nextId, "load_older")
  <2>1. a \in Asks /\ a.id = nextId /\ a.cmd = "load_older" /\ p \in Waits /\ p.id = nextId /\ p.cmd = a.cmd
    BY DEF Ask, Wait, Asks, Waits, Cmds
  <2>2. /\ up' = [up EXCEPT ![conn] = Append(@, a)] /\ pending' = pending \cup {p}
        /\ nextId' = nextId + 1 /\ UNCHANGED <<used, conn>> /\ conn # 0 /\ loading' = TRUE
        /\ UNCHANGED <<daemon, down, shut, timeline, opens, shown, window, asleep, overtaken>>
    BY <1>4 DEF loadOlderMessages, request
  <2> HIDE DEF a, p
  <2>3. down' = [down EXCEPT ![conn] = down[conn]] /\ down[conn] \in Seq(Lines)
    BY <2>2
  <2> QED BY <1>f, <2>1, <2>2, <2>3, RequestStep
<1> QED BY <1>1, <1>2, <1>3, <1>4 DEF user

(* A line is read, and nothing asked for.                                  *)
LEMMA NoRequestStep ==
  ASSUME Base, conn # 0, NEW d \in Seq(Lines), NEW P \in SUBSET Waits,
         Fine(up[conn], handler[conn], d, P, nextId, conn \in bus, conn \in shut),
         pending' = P, down' = [down EXCEPT ![conn] = d], down[conn] = <<>> => d = <<>>,
         UNCHANGED <<up, used, conn, nextId, daemon, shut, asleep, overtaken>>,
         timeline' \in 0..opens', opens' \in 0..MaxOpens, shown' \in Versions,
         window' \in 1..WindowMax, loading' \in BOOLEAN
  PROVE  Base' /\ Link'
<1> USE PluginTypes
<1>1. down' \in [Conns -> Seq(Lines)] /\ \A e \in Conns : down[e] = <<>> => down'[e] = <<>>
  OBVIOUS
<1>2. Base'
  BY <1>1, PluginBase DEF daemon
<1>3. up' = up /\ handler' = handler /\ down'[conn] = d /\ bus' = bus /\ shut' = shut
  BY DEF daemon
<1>4. Fine(up'[conn'], handler'[conn'], down'[conn'], pending', nextId', conn' \in bus', conn' \in shut')
  BY <1>3
<1> QED BY <1>2, <1>4 DEF Link

LEMMA IpcStep == Base /\ Link /\ ipc => Base' /\ Link'
<1> SUFFICES ASSUME Base, Link, ipc PROVE Base' /\ Link'
  OBVIOUS
<1> USE PluginTypes
<1>1. CASE fail
  BY <1>1, ClosesStep DEF fail
<1>2. CASE waitEvent
  <2> DEFINE u == up[conn]  h == handler[conn]  q == down[conn]  l == Head(q)
  <2>0. conn # 0 /\ UNCHANGED <<daemon, shut, asleep, overtaken>>
    BY <1>2 DEF waitEvent
  <2>1. Fine(u, h, q, pending, nextId, conn \in bus, conn \in shut) /\ q \in Seq(Lines)
        /\ u \in Seq(Asks) /\ h \in Threads
    BY <2>0 DEF Link
  <2>2. ASSUME q # <<>>
        PROVE  /\ Tail(q) \in Seq(Lines) /\ l \in Lines
               /\ Line(u, h, Tail(q), pending, nextId, conn \in bus)
               /\ l.kind # "reply" /\ Here(u, h, q, pending) => Here(u, h, Tail(q), pending)
    <3> SUFFICES ASSUME NEW reader, reader = (conn \in bus)
                 PROVE  /\ Tail(q) \in Seq(Lines) /\ l \in Lines
                        /\ Line(u, h, Tail(q), pending, nextId, reader)
                        /\ l.kind # "reply" /\ Here(u, h, q, pending) => Here(u, h, Tail(q), pending)
      OBVIOUS
    <3> HIDE DEF u, h, q
    <3>1. Line(u, h, q, pending, nextId, reader)
      BY <2>1 DEF Fine
    <3> QED BY <2>1, <2>2, <3>1, TailFacts, Reads
  <2>3. CASE q # <<>> /\ l.kind = "event" /\ on_event(l.rows) /\ down' = [down EXCEPT ![conn] = Tail(@)]
    <3>1. shown' \in Versions
      <4>1. l.rows \in Versions
        BY <2>2, <2>3 DEF Lines
      <4> QED BY <2>3, <4>1 DEF on_event, Merged, Versions
    <3>2. Fine(u, h, Tail(q), pending, nextId, conn \in bus, conn \in shut)
      BY <2>1, <2>2, <2>3 DEF Fine
    <3>3. UNCHANGED <<up, used, conn, pending, nextId, timeline, opens, window, loading>>
      BY <2>3 DEF on_event, link
    <3> QED BY <2>0, <2>2, <2>3, <3>1, <3>2, <3>3, NoRequestStep
  <2>4. CASE q # <<>> /\ l.kind = "reply" /\ on_reply(l) /\ down' = [down EXCEPT ![conn] = Tail(@)]
    <3>1. ASSUME NEW p \in pending, p.id = l.id
          PROVE  Fine(u, h, Tail(q), pending \ {p}, nextId, conn \in bus, conn \in shut)
      <4>1. /\ Line(u, h, Tail(q), pending \ {p}, nextId, conn \in bus)
            /\ Here(u, h, q, pending) => Here(u, h, Tail(q), pending \ {p})
        <5> SUFFICES ASSUME NEW reader, reader = (conn \in bus)
                     PROVE  /\ Line(u, h, Tail(q), pending \ {p}, nextId, reader)
                            /\ Here(u, h, q, pending) => Here(u, h, Tail(q), pending \ {p})
          OBVIOUS
        <5> HIDE DEF u, h, q
        <5>1. Line(u, h, q, pending, nextId, reader)
          BY <2>1 DEF Fine
        <5> QED BY <2>1, <2>4, <3>1, <5>1, Gets
      <4> QED BY <2>1, <4>1 DEF Fine
    <3>2. ~ \A p \in pending : p.id # l.id
      <4>1. l = q[1] /\ 1 \in 1..Len(q)
        BY <2>1, <2>4, TailFacts
      <4>2. Owner(pending, l.id, l.cmd)
        BY <2>1, <2>4, <4>1 DEF Fine, Line, Owed, IsReply
      <4> QED BY <4>2 DEF Owner
    <3>3. PICK p \in pending :
            /\ p.id = l.id
            /\ CASE p.cmd = "resume"     -> on_status(p)
                 [] p.cmd = "messages"   -> requestMessages(p, l)
                 [] p.cmd = "load_older" -> on_older(p, l)
                 [] OTHER                -> NoAnswer({p}) /\ UNCHANGED view
      BY <2>4, <3>2 DEF on_reply
    <3>4. /\ Fine(u, h, Tail(q), pending \ {p}, nextId, conn \in bus, conn \in shut)
          /\ Tail(q) \in Seq(Lines) /\ l \in Lines /\ pending \ {p} \in SUBSET Waits
      BY <2>2, <2>4, <3>1, <3>3
    <3>5. ASSUME NoAnswer({p}), timeline' \in 0..opens', opens' \in 0..MaxOpens,
                 shown' \in Versions, window' \in 1..WindowMax, loading' \in BOOLEAN
          PROVE  Base' /\ Link'
      <4>1. pending' = pending \ {p} /\ UNCHANGED <<up, used, conn, nextId>>
        BY <3>5 DEF NoAnswer
      <4> HIDE DEF l
      <4> QED BY <2>0, <2>4, <3>4, <3>5, <4>1, NoRequestStep
    <3>6. ASSUME NEW n \in Nat, request("messages", n, {p}),
                 timeline' \in 0..opens', opens' \in 0..MaxOpens,
                 shown' \in Versions, window' \in 1..WindowMax, loading' \in BOOLEAN
          PROVE  Base' /\ Link'
      <4> DEFINE a == Ask(nextId, "messages", n)  w == Wait(nextId, "messages")
      <4>1. a \in Asks /\ a.id = nextId /\ a.cmd = "messages" /\ w \in Waits /\ w.id = nextId /\ w.cmd = a.cmd
        BY DEF Ask, Wait, Asks, Waits, Cmds
      <4>2. /\ up' = [up EXCEPT ![conn] = Append(@, a)] /\ pending' = (pending \ {p}) \cup {w}
            /\ nextId' = nextId + 1 /\ UNCHANGED <<used, conn>>
        BY <3>6 DEF request
      <4>3. down' = [down EXCEPT ![conn] = Tail(q)] /\ down[conn] # <<>>
        BY <2>4
      <4> HIDE DEF a, w, l
      <4> QED BY <2>0, <3>4, <3>6, <4>1, <4>2, <4>3, RequestStep
    <3>7. CASE p.cmd = "resume"
      <4>1. on_status(p) /\ window \in Nat
        BY <3>3, <3>7
      <4>2. /\ timeline' \in 0..opens' /\ opens' \in 0..MaxOpens /\ shown' \in Versions
            /\ window' \in 1..WindowMax /\ loading' \in BOOLEAN
        BY <4>1 DEF on_status, view
      <4>3. NoAnswer({p}) \/ request("messages", window, {p})
        BY <4>1 DEF on_status
      <4> HIDE DEF l
      <4> QED BY <3>5, <3>6, <4>1, <4>2, <4>3
    <3>8. CASE p.cmd = "messages"
      <4>1. requestMessages(p, l) /\ l.rows \in Versions
        BY <3>3, <3>4, <3>8 DEF Lines
      <4> QED BY <3>5, <4>1 DEF requestMessages
    <3>9. CASE p.cmd = "load_older"
      <4>1. on_older(p, l) /\ l.added \in Nat
        BY <3>3, <3>4, <3>9 DEF Lines
      <4> DEFINE wide == Smaller(window + l.added, WindowMax)
      <4>2. wide \in 1..WindowMax /\ wide \in Nat
        <5>1. window + l.added \in Nat /\ window + l.added >= 1 /\ WindowMax \in Nat /\ WindowMax >= 1
          BY <4>1
        <5> HIDE DEF l
        <5>2. CASE window + l.added < WindowMax
          BY <5>1, <5>2 DEF Smaller
        <5>3. CASE ~ (window + l.added < WindowMax)
          BY <5>1, <5>3 DEF Smaller
        <5> QED BY <5>2, <5>3
      <4>3. loading' \in BOOLEAN /\ UNCHANGED <<timeline, opens, shown>>
        BY <4>1 DEF on_older
      <4>4. (window' = wide /\ request("messages", wide, {p})) \/ (NoAnswer({p}) /\ UNCHANGED window)
        BY <4>1 DEF on_older
      <4> HIDE DEF wide, l
      <4> QED BY <3>5, <3>6, <4>2, <4>3, <4>4
    <3>10. CASE p.cmd \notin {"resume", "messages", "load_older"}
      BY <3>3, <3>5, <3>10 DEF view
    <3> QED BY <3>7, <3>8, <3>9, <3>10
  <2>5. CASE Len(q) > 1 /\ l.kind = "cut" /\ down' = [down EXCEPT ![conn] = Tail(Tail(@))]
             /\ UNCHANGED <<up, link, view>>
    <3>1. q # <<>> /\ Tail(q) \in Seq(Lines) /\ Tail(q) # <<>> /\ l = q[1] /\ 1 \in 1..Len(q)
      <4>1. q \in Seq(Lines) /\ Len(q) > 1
        BY <2>1, <2>5
      <4> HIDE DEF q
      <4> QED BY <4>1, Longer, TailFacts
    <3>2. Tail(Tail(q)) \in Seq(Lines)
      BY <3>1, TailFacts
    <3>3. Line(u, h, Tail(Tail(q)), pending, nextId, conn \in bus)
      <4> SUFFICES ASSUME NEW reader, reader = (conn \in bus)
                   PROVE  Line(u, h, Tail(Tail(q)), pending, nextId, reader)
        OBVIOUS
      <4> HIDE DEF u, h, q
      <4> QED BY <2>2, <3>1, Reads
    <3>4. conn \notin bus /\ ~ NotYet(u, h)
      BY <2>1, <2>5, <3>1 DEF Fine, Line, Greets
    <3>5. Fine(u, h, Tail(Tail(q)), pending, nextId, conn \in bus, conn \in shut)
      BY <3>3, <3>4 DEF Fine
    <3>6. UNCHANGED <<up, used, conn, pending, nextId, timeline, opens, shown, window, loading>>
      BY <2>5 DEF link, view
    <3> QED BY <2>0, <2>5, <3>1, <3>2, <3>5, <3>6, NoRequestStep
  <2>6. \/ q # <<>> /\ l.kind = "event" /\ on_event(l.rows) /\ down' = [down EXCEPT ![conn] = Tail(@)]
        \/ q # <<>> /\ l.kind = "reply" /\ on_reply(l) /\ down' = [down EXCEPT ![conn] = Tail(@)]
        \/ Len(q) > 1 /\ l.kind = "cut" /\ down' = [down EXCEPT ![conn] = Tail(Tail(@))]
             /\ UNCHANGED <<up, link, view>>
    <3>1. q # <<>> => l.kind \in {"reply", "event", "cut"}
      BY <2>2 DEF Lines
    <3> QED BY <1>2, <3>1 DEF waitEvent
  <2> QED BY <2>3, <2>4, <2>5, <2>6
<1> QED BY <1>1, <1>2 DEF ipc

LEMMA LinkStep == Base /\ Link /\ [ScreenNext]_screenVars => Base' /\ Link'
<1> SUFFICES ASSUME Base, Link, [ScreenNext]_screenVars PROVE Base' /\ Link'
  OBVIOUS
<1>1. CASE \E c \in Conns : client_loop(c)
  BY <1>1, ThreadBase, ThreadLink
<1>2. CASE onSuspend
  <2>1. Closes /\ asleep' \in BOOLEAN /\ loading' \in BOOLEAN
    BY <1>2, PluginTypes DEF onSuspend
  <2> QED BY <2>1, ClosesStep
<1>3. CASE onResume
  BY <1>3, ConnectsStep DEF onResume
<1>4. CASE UNCHANGED screenVars
  <2>1. UNCHANGED <<stored, batch, stores, handler, bus, shut, overtaken, up, down, used, conn,
                    pending, nextId, timeline, opens, shown, window, loading, asleep>>
    BY <1>4 DEF screenVars, daemon, net, link, view
  <2>2. Base'
    BY <2>1, PluginTypes, PluginBase
  <2> QED BY <2>1, <2>2, LinkStays DEF link
<1> QED BY <1>1, <1>2, <1>3, <1>4, SyncStep, UserStep, IpcStep DEF ScreenNext

-----------------------------------------------------------------------------
(* What a line shows.  The last line that sets a row, or else the screen.  *)
Sets(l, r) ==
  \/ l.kind = "event" /\ l.rows[r] # 0
  \/ l.kind = "reply" /\ l.cmd = "messages"

ShownAs(d, s, r, v) ==
  \/ \E i \in 1..Len(d) :
       /\ Sets(d[i], r) /\ d[i].rows[r] = v
       /\ \A j \in 1..Len(d) : i < j => ~ Sets(d[j], r)
  \/ (\A i \in 1..Len(d) : ~ Sets(d[i], r)) /\ s[r] = v

LEMMA ShownAppend ==
  ASSUME NEW d \in Seq(Lines), NEW l \in Lines, NEW s, NEW r, NEW v,
         ShownAs(Append(d, l), s, r, v)
  PROVE  \/ Sets(l, r) /\ v = l.rows[r]
         \/ ~ Sets(l, r) /\ ShownAs(d, s, r, v)
<1> SUFFICES ASSUME NEW e, e = Append(d, l), ShownAs(e, s, r, v)
             PROVE  \/ Sets(l, r) /\ v = l.rows[r]
                    \/ ~ Sets(l, r) /\ ShownAs(d, s, r, v)
  OBVIOUS
<1>1. /\ Len(e) = Len(d) + 1 /\ Len(d) \in Nat
      /\ \A i \in 1..Len(d) : i \in 1..Len(e) /\ e[i] = d[i]
      /\ e[Len(d) + 1] = l
  BY AppendFacts
<1>2. /\ Len(d) + 1 \in 1..Len(e)
      /\ \A i \in 1..Len(e) : i \in 1..Len(d) \/ i = Len(d) + 1
      /\ \A i \in 1..Len(d) : i < Len(d) + 1
  BY <1>1
<1>3. CASE \E i \in 1..Len(e) :
             /\ Sets(e[i], r) /\ e[i].rows[r] = v
             /\ \A j \in 1..Len(e) : i < j => ~ Sets(e[j], r)
  <2>1. PICK i \in 1..Len(e) :
             /\ Sets(e[i], r) /\ e[i].rows[r] = v
             /\ \A j \in 1..Len(e) : i < j => ~ Sets(e[j], r)
    BY <1>3
  <2>2. CASE i = Len(d) + 1
    BY <1>1, <2>1, <2>2
  <2>3. CASE i \in 1..Len(d)
    <3>1. ~ Sets(l, r) /\ e[i] = d[i]
      BY <1>1, <1>2, <2>1, <2>3
    <3>2. \A j \in 1..Len(d) : i < j => ~ Sets(d[j], r)
      BY <1>1, <2>1
    <3> QED BY <2>1, <2>3, <3>1, <3>2 DEF ShownAs
  <2> QED BY <1>2, <2>2, <2>3
<1>4. CASE (\A i \in 1..Len(e) : ~ Sets(e[i], r)) /\ s[r] = v
  <2>1. ~ Sets(l, r) /\ \A i \in 1..Len(d) : ~ Sets(d[i], r)
    BY <1>1, <1>2, <1>4
  <2> QED BY <1>4, <2>1 DEF ShownAs
<1> QED BY <1>3, <1>4 DEF ShownAs

LEMMA ShownTail ==
  ASSUME NEW d \in Seq(Lines), d # <<>>, NEW s, NEW t, NEW r, NEW v,
         t[r] = IF Sets(Head(d), r) THEN Head(d).rows[r] ELSE s[r],
         ShownAs(Tail(d), t, r, v)
  PROVE  ShownAs(d, s, r, v)
<1> SUFFICES ASSUME NEW e, e = Tail(d), ShownAs(e, t, r, v)
             PROVE  ShownAs(d, s, r, v)
  OBVIOUS
<1>1. /\ Head(d) = d[1] /\ 1 \in 1..Len(d) /\ Len(d) \in Nat /\ Len(e) \in Nat
      /\ \A i \in 1..Len(e) : i + 1 \in 1..Len(d) /\ e[i] = d[i + 1]
      /\ \A i \in 1..Len(d) : i # 1 => i - 1 \in 1..Len(e) /\ e[i - 1] = d[i]
  BY TailFacts
<1>2. CASE \E i \in 1..Len(e) :
             /\ Sets(e[i], r) /\ e[i].rows[r] = v
             /\ \A j \in 1..Len(e) : i < j => ~ Sets(e[j], r)
  <2>1. PICK i \in 1..Len(e) :
             /\ Sets(e[i], r) /\ e[i].rows[r] = v
             /\ \A j \in 1..Len(e) : i < j => ~ Sets(e[j], r)
    BY <1>2
  <2>2. i + 1 \in 1..Len(d) /\ Sets(d[i + 1], r) /\ d[i + 1].rows[r] = v
    BY <1>1, <2>1
  <2>3. ASSUME NEW j \in 1..Len(d), i + 1 < j PROVE ~ Sets(d[j], r)
    <3>1. j # 1 /\ i < j - 1
      BY <2>3
    <3> QED BY <1>1, <2>1, <3>1
  <2> QED BY <2>2, <2>3 DEF ShownAs
<1>3. CASE (\A i \in 1..Len(e) : ~ Sets(e[i], r)) /\ t[r] = v
  <2>1. \A i \in 1..Len(d) : i # 1 => ~ Sets(d[i], r)
    BY <1>1, <1>3
  <2>2. CASE Sets(d[1], r)
    <3>1. d[1].rows[r] = v /\ \A j \in 1..Len(d) : 1 < j => ~ Sets(d[j], r)
      BY <1>1, <1>3, <2>1, <2>2
    <3> QED BY <1>1, <2>2, <3>1 DEF ShownAs
  <2>3. CASE ~ Sets(d[1], r)
    BY <1>1, <1>3, <2>1, <2>3 DEF ShownAs
  <2> QED BY <2>2, <2>3
<1> QED BY <1>2, <1>3 DEF ShownAs

(* Only what is stored is told.                                            *)
Within(f, g)    == \A r \in Rows : f[r] # 0 => g[r] # 0
AllWithin(d, g) == \A i \in 1..Len(d) : Within(d[i].rows, g)

LEMMA ShownWithin ==
  ASSUME NEW d, NEW s, NEW g, NEW r \in Rows, NEW v, ShownAs(d, s, r, v), v # 0,
         AllWithin(d, g), Within(s, g)
  PROVE  g[r] # 0
BY DEF ShownAs, AllWithin, Within

LEMMA WithinAppend ==
  ASSUME NEW d \in Seq(Lines), NEW l \in Lines, NEW g, AllWithin(d, g), Within(l.rows, g)
  PROVE  AllWithin(Append(d, l), g)
<1> SUFFICES ASSUME NEW e, e = Append(d, l) PROVE AllWithin(e, g)
  OBVIOUS
<1>1. /\ Len(e) = Len(d) + 1 /\ Len(d) \in Nat
      /\ \A i \in 1..Len(d) : i \in 1..Len(e) /\ e[i] = d[i]
      /\ e[Len(d) + 1] = l
  BY AppendFacts
<1>2. \A i \in 1..Len(e) : i \in 1..Len(d) \/ i = Len(d) + 1
  BY <1>1
<1> QED BY <1>1, <1>2 DEF AllWithin

LEMMA WithinTail ==
  ASSUME NEW d \in Seq(Lines), d # <<>>, NEW g, AllWithin(d, g)
  PROVE  AllWithin(Tail(d), g) /\ Within(Head(d).rows, g)
<1> SUFFICES ASSUME NEW e, e = Tail(d) PROVE AllWithin(e, g) /\ Within(Head(d).rows, g)
  OBVIOUS
<1>1. /\ Head(d) = d[1] /\ 1 \in 1..Len(d)
      /\ \A i \in 1..Len(e) : i + 1 \in 1..Len(d) /\ e[i] = d[i + 1]
  BY TailFacts
<1> QED BY <1>1 DEF AllWithin

LEMMA WithinGrows ==
  ASSUME NEW f, NEW g, NEW h, Within(f, g), Within(g, h)
  PROVE  Within(f, h)
BY DEF Within

-----------------------------------------------------------------------------
(* The newest rows of the store.                                           *)
Bounded(f)  == \E n \in Nat : \A s \in Held(f) : s <= n
SyncedOf(f) == {r \in Held(recent_messages(f, Limit)) : r >= First}

LEMMA AboveFinite ==
  ASSUME NEW f, Bounded(f), NEW r
  PROVE  IsFiniteSet({s \in Held(f) : s > r}) /\ Cardinality({s \in Held(f) : s > r}) \in Nat
<1> DEFINE A == {s \in Held(f) : s > r}
<1>1. PICK n \in Nat : \A s \in Held(f) : s <= n
  BY DEF Bounded
<1>2. A \in SUBSET (0..n)
  <2>1. ASSUME NEW s \in A PROVE s \in 0..n
    <3>1. s \in Nat /\ s <= n
      BY <1>1, ScreenAssumption DEF Held
    <3> QED BY <3>1
  <2> QED BY <2>1
<1> HIDE DEF A
<1>3. IsFiniteSet(A)
  BY <1>2, BelowFinite
<1>4. Cardinality(A) \in Nat
  BY <1>3, FS_CardinalityType
<1> QED BY <1>3, <1>4 DEF A

LEMMA RecentIs ==
  ASSUME NEW f, NEW n, NEW r \in Rows
  PROVE  /\ recent_messages(f, n)[r] =
              IF Cardinality({s \in Held(f) : s > r}) < n THEN f[r] ELSE 0
         /\ r \in Held(recent_messages(f, n)) <=>
              f[r] # 0 /\ Cardinality({s \in Held(f) : s > r}) < n
BY DEF recent_messages, Held

(* What is among the newest rows now was among them when fewer were held.  *)
LEMMA RecentShrinks ==
  ASSUME NEW f, NEW g, Bounded(g), Within(f, g)
  PROVE  \A r \in SyncedOf(g) : f[r] # 0 => r \in SyncedOf(f)
<1> SUFFICES ASSUME NEW r \in SyncedOf(g), f[r] # 0 PROVE r \in SyncedOf(f)
  OBVIOUS
<1> DEFINE F == {s \in Held(f) : s > r}  G == {s \in Held(g) : s > r}
<1>0. r \in Rows /\ r >= First /\ Limit \in Nat
  BY ScreenAssumption DEF SyncedOf, Held
<1>1. Cardinality(G) < Limit
  BY <1>0, RecentIs DEF SyncedOf
<1>2. F \in SUBSET G
  BY DEF Within, Held
<1>3. IsFiniteSet(G) /\ Cardinality(G) \in Nat
  BY AboveFinite
<1>4. Cardinality(F) <= Cardinality(G) /\ Cardinality(F) \in Nat
  <2> HIDE DEF F, G
  <2>1. IsFiniteSet(F) /\ Cardinality(F) <= Cardinality(G)
    BY <1>2, <1>3, FS_Subset
  <2> QED BY <2>1, FS_CardinalityType
<1>5. Cardinality(F) < Limit
  <2> HIDE DEF F, G
  <2> QED BY <1>0, <1>1, <1>3, <1>4
<1>6. r \in Held(recent_messages(f, Limit))
  BY <1>0, <1>5, RecentIs
<1> QED BY <1>0, <1>6 DEF SyncedOf

(* More rows asked for are more rows.                                      *)
LEMMA RecentWider ==
  ASSUME NEW f, Bounded(f), NEW n \in Nat, n >= Limit
  PROVE  SyncedOf(f) \subseteq Held(recent_messages(f, n))
<1> SUFFICES ASSUME NEW r \in SyncedOf(f) PROVE r \in Held(recent_messages(f, n))
  OBVIOUS
<1> DEFINE F == {s \in Held(f) : s > r}
<1>0. r \in Rows /\ Limit \in Nat
  BY ScreenAssumption DEF SyncedOf, Held
<1>1. Cardinality(F) < Limit /\ f[r] # 0
  BY <1>0, RecentIs DEF SyncedOf
<1>2. Cardinality(F) \in Nat
  BY AboveFinite
<1>3. Cardinality(F) < n
  <2> HIDE DEF F
  <2> QED BY <1>0, <1>1, <1>2
<1> QED BY <1>0, <1>1, <1>3, RecentIs

(* The newest row is one of them.                                          *)
LEMMA NewestFacts ==
  ASSUME stored \in Versions, First \in Held(stored), Bounded(stored)
  PROVE  /\ Newest \in Held(stored) /\ \A s \in Held(stored) : s <= Newest
         /\ Newest \in SyncedOf(stored) /\ Newest \in Nat
<1>0. Held(stored) \in SUBSET Nat /\ First \in Nat /\ Limit \in Nat \ {0} /\ Held(stored) \subseteq Rows
  BY ScreenAssumption DEF Held
<1>1. \E r \in Held(stored) : \A s \in Held(stored) : s <= r
  BY <1>0, GreatestExists DEF Bounded
<1>2. Newest \in Held(stored) /\ \A s \in Held(stored) : s <= Newest
  BY <1>1 DEF Newest
<1>3. {s \in Held(stored) : s > Newest} = {}
  BY <1>0, <1>2
<1>4. Newest \in Held(recent_messages(stored, Limit))
  <2>1. Cardinality({s \in Held(stored) : s > Newest}) < Limit
    BY <1>0, <1>3, FS_EmptySet
  <2>2. stored[Newest] # 0 /\ Newest \in Rows
    BY <1>2 DEF Held
  <2> HIDE DEF Newest
  <2> QED BY <2>1, <2>2, RecentIs
<1>5. Newest >= First
  BY <1>0, <1>2
<1> QED BY <1>0, <1>2, <1>4, <1>5 DEF SyncedOf

-----------------------------------------------------------------------------
(* Only what is stored is published, answered or shown.                    *)
Known ==
  /\ Bounded(stored) /\ Within(batch, stored) /\ Within(shown, stored)
  /\ \A c \in Conns : Within(handler[c].rows, stored) /\ AllWithin(down[c], stored)

LEMMA WithinNoRows == \A g : Within(NoRows, g)
BY DEF NoRows, Within

LEMMA RecentWithin == \A f, n : Within(recent_messages(f, n), f)
BY RecentIs DEF Within

LEMMA SameWithin == \A f, g : f = g => Within(f, g)
BY DEF Within

LEMMA KnownGrows ==
  ASSUME Known, Bounded(stored'), Within(stored, stored'),
         Within(batch', stored') \/ batch' = batch,
         Within(shown', stored') \/ shown' = shown,
         \A c \in Conns : handler'[c].rows = handler[c].rows \/ Within(handler'[c].rows, stored'),
         \A c \in Conns : down'[c] = down[c] \/ AllWithin(down'[c], stored) \/ AllWithin(down'[c], stored')
  PROVE  Known'
<1>1. \A f : Within(f, stored) => Within(f, stored')
  BY WithinGrows
<1>2. \A d : AllWithin(d, stored) => AllWithin(d, stored')
  BY <1>1 DEF AllWithin
<1> QED BY <1>1, <1>2 DEF Known

LEMMA PublishKnown ==
  ASSUME Base, Known, NEW f \in Versions, Within(f, stored), NEW left, publish(f, left)
  PROVE  \A c \in Conns : AllWithin(down'[c], stored)
<1> SUFFICES ASSUME NEW c \in Conns PROVE AllWithin(down'[c], stored)
  OBVIOUS
<1>1. down[c] \in Seq(Lines) /\ AllWithin(down[c], stored) /\ Event(f) \in Lines /\ CutLine \in Lines
  BY PluginTypes, NoRowsType DEF Known
<1>2. AllWithin(Append(down[c], Event(f)), stored)
  <2>1. Event(f).rows = f
    BY DEF Event
  <2> QED BY <1>1, <2>1, WithinAppend
<1>3. AllWithin(Append(down[c], CutLine), stored)
  <2>1. CutLine.rows = NoRows
    BY DEF CutLine
  <2> QED BY <1>1, <2>1, WithinAppend, WithinNoRows
<1>4. \/ down'[c] = down[c] \/ down'[c] = Append(down[c], Event(f))
      \/ down'[c] = Append(down[c], CutLine)
  BY PublishFacts DEF Sent
<1> QED BY <1>1, <1>2, <1>3, <1>4

LEMMA AnsweredKnown ==
  ASSUME Base, Known, NEW c \in Conns, NEW h \in Threads, Within(h.rows, stored), Answered(c, h)
  PROVE  \A e \in Conns : AllWithin(down'[e], stored)
<1> SUFFICES ASSUME NEW e \in Conns PROVE AllWithin(down'[e], stored)
  OBVIOUS
<1>1. down[e] \in Seq(Lines) /\ AllWithin(down[e], stored) /\ Reply(h) \in Lines
  BY PluginTypes, NoRowsType DEF Known
<1>2. AllWithin(Append(down[e], Reply(h)), stored)
  <2>1. Reply(h).rows = h.rows
    BY DEF Reply
  <2> QED BY <1>1, <2>1, WithinAppend
<1>3. down'[e] = down[e] \/ down'[e] = Append(down[e], Reply(h))
  BY PluginTypes DEF Answered, Sent
<1> QED BY <1>1, <1>2, <1>3

LEMMA RepairsGrow ==
  ASSUME Base, Known, Repairs
  PROVE  /\ Bounded(stored') /\ Within(stored, stored') /\ Within(stored', stored)
         /\ stored' \in Versions
<1>0. stored' \in Versions /\ stored \in Versions
  BY RepairsType DEF Base, ScreenTypeOK
<1>1. Within(stored, stored') /\ Within(stored', stored)
  <2>1. CASE UNCHANGED <<stored, stores>>
    BY <2>1 DEF Within
  <2>2. CASE Rewritten
    <3>1. PICK r \in Held(stored) : stored' = [stored EXCEPT ![r] = @ + 1]
      BY <2>2 DEF Rewritten
    <3>2. stored[r] # 0 /\ stored[r] \in Nat /\ stored[r] + 1 # 0
      BY <1>0, <3>1, ScreenAssumption DEF Held, Versions
    <3>3. \A s \in Rows : stored'[s] = IF s = r THEN stored[r] + 1 ELSE stored[s]
      BY <1>0, <3>1 DEF Versions
    <3> QED BY <3>2, <3>3 DEF Within
  <2> QED BY <2>1, <2>2 DEF Repairs
<1>2. Held(stored') = Held(stored)
  BY <1>1 DEF Within, Held
<1> QED BY <1>0, <1>1, <1>2 DEF Known, Bounded

(* What was rewritten has been told to nobody.                             *)
LEMMA RepairsUntold ==
  ASSUME Base, Known, Repairs, Untold(NoRows)
  PROVE  \A r \in Rows \ overtaken' : stored'[r] = stored[r] /\ r \notin overtaken
<1> SUFFICES ASSUME NEW r \in Rows \ overtaken'
             PROVE  stored'[r] = stored[r] /\ r \notin overtaken
  OBVIOUS
<1>1. r \notin overtaken /\ (stored'[r] = stored[r] \/ NoRows[r] = stored'[r])
  BY DEF Untold
<1>2. CASE stored'[r] # stored[r]
  <2>1. stored'[r] = 0
    BY <1>1, <1>2 DEF NoRows
  <2>2. stored[r] = 0
    BY <2>1, RepairsGrow DEF Within
  <2> QED BY <1>2, <2>1, <2>2
<1> QED BY <1>1, <1>2

LEMMA OlderGrow ==
  ASSUME Base, Known, stored' = [r \in Rows |-> IF r \in Older THEN 1 ELSE stored[r]]
  PROVE  /\ Bounded(stored') /\ Within(stored, stored')
         /\ \A r \in Rows : r >= First => stored'[r] = stored[r]
         /\ \A r \in Rows : stored'[r] # stored[r] => stored[r] = 0
<1>1. stored \in Versions /\ First \in Held(stored) /\ First \in Nat /\ Rows \subseteq Nat
  BY ScreenAssumption DEF Base, ScreenTypeOK
<1>2. \A r \in Older : stored[r] = 0 /\ r < First /\ r \in Nat
  BY <1>1, OlderFacts
<1>3. PICK n \in Nat : \A s \in Held(stored) : s <= n
  BY DEF Known, Bounded
<1>4. ASSUME NEW s \in Held(stored') PROVE s <= n
  <2>1. CASE s \in Older
    <3>1. s < First /\ First <= n /\ s \in Nat
      BY <1>1, <1>2, <1>3, <2>1
    <3> QED BY <1>1, <3>1
  <2>2. CASE s \notin Older
    BY <1>3, <2>2 DEF Held
  <2> QED BY <2>1, <2>2
<1>5. ASSUME NEW r \in Rows, r >= First PROVE stored'[r] = stored[r]
  <2>1. r \notin Older
    BY <1>1, <1>2, <1>5
  <2> QED BY <2>1
<1>6. Within(stored, stored') /\ \A r \in Rows : stored'[r] # stored[r] => stored[r] = 0
  BY <1>2 DEF Within
<1> QED BY <1>4, <1>5, <1>6 DEF Bounded

LEMMA StoreGrow ==
  ASSUME Base, Known, sync_store
  PROVE  /\ Bounded(stored') /\ Within(stored, stored') /\ Within(batch', stored')
         /\ LET r == Newest + 1 IN
              /\ r \in Rows /\ \A s \in Rows \ {r} : stored'[s] = stored[s]
              /\ r \notin overtaken' => batch'[r] = stored'[r]
         /\ \A s \in Rows \ overtaken' : s \notin overtaken
<1> DEFINE r == Newest + 1
<1>1. PICK text \in {1, 2} :
        /\ text <= MaxVersion
        /\ stored' = [stored EXCEPT ![r] = text]
        /\ batch' = [NoRows EXCEPT ![r] = 1]
        /\ r \in Rows /\ Untold(batch')
  BY DEF sync_store
<1> HIDE DEF r
<1>2. stored \in Versions /\ r \in Nat /\ text # 0
  <2>1. r \in Rows /\ Rows \subseteq Nat /\ text # 0
    BY <1>1, ScreenAssumption
  <2>2. stored \in Versions
    BY DEF Base, ScreenTypeOK
  <2> QED BY <2>1, <2>2
<1>3. \A s \in Rows : /\ stored'[s] = IF s = r THEN text ELSE stored[s]
                      /\ batch'[s] = IF s = r THEN 1 ELSE 0
  <2>1. \A s \in Rows : stored'[s] = IF s = r THEN text ELSE stored[s]
    BY <1>1, <1>2 DEF Versions
  <2>2. NoRows \in [Rows -> {0}] /\ \A s \in Rows : NoRows[s] = 0
    BY DEF NoRows
  <2>3. \A s \in Rows : batch'[s] = IF s = r THEN 1 ELSE 0
    BY <1>1, <2>2
  <2> QED BY <2>1, <2>3
<1>o. /\ r \notin overtaken' => batch'[r] = stored'[r]
      /\ \A s \in Rows \ overtaken' : s \notin overtaken
  <2>1. overtaken' = overtaken \cup {s \in Rows : stored'[s] # stored[s] /\ batch'[s] # stored'[s]}
    BY <1>1 DEF Untold
  <2>2. stored[r] = 0 \/ stored'[r] # stored[r] \/ batch'[r] = stored'[r] \/ stored[r] = stored'[r]
    OBVIOUS
  <2>3. CASE stored'[r] # stored[r]
    BY <1>1, <2>1, <2>3
  <2>4. CASE stored'[r] = stored[r]
    <3>1. r \in Held(stored)
      BY <1>1, <1>2, <1>3, <2>4 DEF Held
    <3>2. r <= Newest /\ Newest \in Nat
      BY <3>1, NewestFacts DEF Base, ScreenTypeOK, Known
    <3> QED BY <3>2 DEF r
  <2> QED BY <2>1, <2>3, <2>4
<1>4. Within(stored, stored') /\ Within(batch', stored')
  BY <1>2, <1>3 DEF Within
<1>5. Bounded(stored')
  <2>1. PICK n \in Nat : \A s \in Held(stored) : s <= n
    BY DEF Known, Bounded
  <2>2. n + r \in Nat
    BY <1>2
  <2>3. ASSUME NEW s \in Held(stored') PROVE s <= n + r
    <3>1. s \in Rows /\ s \in Nat
      BY ScreenAssumption DEF Held
    <3>2. CASE s = r
      BY <1>2, <2>1, <3>2
    <3>3. CASE s # r
      <4>1. s <= n
        BY <1>3, <2>1, <2>3, <3>1, <3>3 DEF Held
      <4> QED BY <1>2, <2>1, <3>1, <4>1
    <3> QED BY <3>2, <3>3
  <2> QED BY <2>2, <2>3 DEF Bounded
<1> QED BY <1>1, <1>3, <1>4, <1>5, <1>o DEF r

LEMMA KnownStep == Base /\ Link /\ Known /\ [ScreenNext]_screenVars => Known'
<1> SUFFICES ASSUME Base, Link, Known, [ScreenNext]_screenVars PROVE Known'
  OBVIOUS
<1> USE ScreenAssumption
<1>t. /\ stored \in Versions /\ batch \in Versions /\ handler \in [Conns -> Threads]
      /\ down \in [Conns -> Seq(Lines)] /\ up \in [Conns -> Seq(Asks)]
  BY PluginTypes DEF Base, ScreenTypeOK
<1>k. /\ Bounded(stored) /\ Within(batch, stored) /\ Within(shown, stored) /\ Within(stored, stored)
      /\ \A c \in Conns : Within(handler[c].rows, stored) /\ AllWithin(down[c], stored)
      /\ \A g : Within(NoRows, g)
  BY SameWithin, WithinNoRows DEF Known
<1>n. Idle.rows = NoRows
  BY DEF Idle
<1>s. ASSUME stored' = stored
      PROVE  Bounded(stored') /\ Within(stored, stored') /\ \A f : Within(f, stored) => Within(f, stored')
  BY <1>s, <1>k
<1>h. ASSUME NEW c \in Conns, NEW k, handler' = [handler EXCEPT ![c] = k],
             k.rows = NoRows \/ Within(k.rows, stored')
      PROVE  \A e \in Conns : handler'[e].rows = handler[e].rows \/ Within(handler'[e].rows, stored')
  BY <1>h, <1>t, <1>k
<1>1. ASSUME NEW c \in Conns, client_loop(c) PROVE Known'
  <2>v. shown' = shown
    BY <1>1 DEF client_loop, hello, bus_add, status, messages, messages_fails, load_older_store, load_older_restore, load_older_read,
           load_older_publish, load_older_fails, reply, handler_ends, view
  <2>d. \A st : Doing(c, st).rows = NoRows
    BY DEF Doing, Idle
  <2>1. CASE hello(c)
    <3>1. /\ handler' = [handler EXCEPT ![c] = Doing(c, "add")] /\ Answered(c, Doing(c, "add"))
          /\ stored' = stored /\ batch' = batch /\ up[c] # <<>> /\ Taken(c)
      BY <2>1 DEF hello, Asked
    <3>2. \A e \in Conns : AllWithin(down'[e], stored)
      BY <1>k, <2>d, <3>1, DoingType, AnsweredKnown
    <3> QED BY <1>s, <1>h, <2>v, <2>d, <3>1, <3>2, KnownGrows
  <2>2. CASE bus_add(c)
    <3>1. /\ handler' = [handler EXCEPT ![c] = Idle] /\ stored' = stored /\ batch' = batch /\ down' = down
      BY <2>2 DEF bus_add, net
    <3> QED BY <1>s, <1>h, <1>n, <2>v, <3>1, KnownGrows
  <2>3. CASE status(c)
    <3>1. /\ handler' = [handler EXCEPT ![c] = Doing(c, "answer")]
          /\ stored' = stored /\ batch' = batch /\ down' = down
      BY <2>3 DEF status
    <3> QED BY <1>s, <1>h, <2>d, <2>v, <3>1, KnownGrows
  <2>4. CASE messages(c)
    <3> DEFINE k == [Doing(c, "answer") EXCEPT !.rows = recent_messages(stored', Head(up[c]).limit)]
    <3>1. handler' = [handler EXCEPT ![c] = k] /\ batch' = batch /\ down' = down /\ Repairs
      BY <2>4 DEF messages
    <3>2. k.rows = recent_messages(stored', Head(up[c]).limit)
      BY DEF Doing, Idle
    <3> HIDE DEF k
    <3>3. Within(k.rows, stored')
      BY <3>2, RecentWithin
    <3> QED BY <1>h, <2>v, <3>1, <3>3, RepairsGrow, KnownGrows
  <2>4f. CASE messages_fails(c)
    <3> DEFINE k == [Doing(c, "answer") EXCEPT !.cmd = "none"]
    <3>1. handler' = [handler EXCEPT ![c] = k] /\ batch' = batch /\ down' = down /\ Repairs
      BY <2>4f DEF messages_fails
    <3>2. k.rows = NoRows
      BY DEF Doing, Idle
    <3> HIDE DEF k
    <3> QED BY <1>h, <2>v, <3>1, <3>2, RepairsGrow, KnownGrows
  <2>5. CASE load_older_store(c)
    <3>p. PICK st \in {"stored", "answer"} :
            handler' = [handler EXCEPT ![c] = [Doing(c, st) EXCEPT !.added = Cardinality(Older)]]
      BY <2>5 DEF load_older_store
    <3> DEFINE k == [Doing(c, st) EXCEPT !.added = Cardinality(Older)]
    <3>1. /\ handler' = [handler EXCEPT ![c] = k] /\ batch' = batch /\ down' = down
          /\ stored' = [r \in Rows |-> IF r \in Older THEN 1 ELSE stored[r]]
      BY <2>5, <3>p DEF load_older_store
    <3>2. k.rows = NoRows
      BY DEF Doing, Idle
    <3> HIDE DEF k
    <3> QED BY <1>h, <2>v, <3>1, <3>2, OlderGrow, KnownGrows
  <2>5r. CASE load_older_restore(c)
    <3>1. /\ batch' = batch /\ down' = down /\ Repairs
          /\ \A e \in Conns : handler'[e].rows = handler[e].rows
      BY <2>5r, <1>t DEF load_older_restore, net, Threads
    <3> QED BY <2>v, <3>1, RepairsGrow, KnownGrows
  <2>6. CASE load_older_read(c)
    <3> DEFINE k == [handler[c] EXCEPT !.at = "publish", !.rows = recent_messages(stored, Recent)]
    <3>1. handler' = [handler EXCEPT ![c] = k] /\ batch' = batch /\ down' = down /\ stored' = stored
      BY <2>6, <1>t DEF load_older_read, net
    <3>2. k.rows = recent_messages(stored, Recent)
      BY <1>t DEF Threads
    <3> HIDE DEF k
    <3>3. Within(k.rows, stored')
      BY <3>1, <3>2, RecentWithin
    <3> QED BY <1>s, <1>h, <2>v, <3>1, <3>3, KnownGrows
  <2>7. CASE load_older_publish(c)
    <3> DEFINE k == [handler[c] EXCEPT !.at = "answer", !.rows = NoRows]
    <3>1. /\ handler' = [handler EXCEPT ![c] = k] /\ batch' = batch /\ stored' = stored
          /\ publish(handler[c].rows, batch)
      BY <2>7, <1>t DEF load_older_publish
    <3>2. k.rows = NoRows /\ handler[c].rows \in Versions
      BY <1>t DEF Threads
    <3> HIDE DEF k
    <3>3. \A e \in Conns : AllWithin(down'[e], stored)
      BY <1>k, <3>1, <3>2, PublishKnown
    <3> QED BY <1>s, <1>h, <2>v, <3>1, <3>2, <3>3, KnownGrows
  <2>8. CASE load_older_fails(c)
    <3> DEFINE k == [Doing(c, "answer") EXCEPT !.cmd = "none"]
    <3>1. handler' = [handler EXCEPT ![c] = k] /\ batch' = batch /\ down' = down /\ stored' = stored
      BY <2>8 DEF load_older_fails
    <3>2. k.rows = NoRows
      BY DEF Doing, Idle
    <3> HIDE DEF k
    <3> QED BY <1>s, <1>h, <2>v, <3>1, <3>2, KnownGrows
  <2>9. CASE reply(c)
    <3>1. /\ handler' = [handler EXCEPT ![c] = Idle] /\ batch' = batch /\ stored' = stored
          /\ Answered(c, handler[c])
      BY <2>9 DEF reply
    <3>2. \A e \in Conns : AllWithin(down'[e], stored)
      BY <1>k, <1>t, <3>1, AnsweredKnown
    <3> QED BY <1>s, <1>h, <1>n, <2>v, <3>1, <3>2, KnownGrows
  <2>10. CASE handler_ends(c)
    <3> DEFINE k == [Idle EXCEPT !.at = "ended"]
    <3>1. handler' = [handler EXCEPT ![c] = k] /\ batch' = batch /\ down' = down /\ stored' = stored
      BY <2>10 DEF handler_ends
    <3>2. k.rows = NoRows
      BY DEF Idle
    <3> HIDE DEF k
    <3> QED BY <1>s, <1>h, <2>v, <3>1, <3>2, KnownGrows
  <2> QED BY <1>1, <2>1, <2>2, <2>3, <2>4, <2>4f, <2>5, <2>5r, <2>6, <2>7, <2>8, <2>9, <2>10 DEF client_loop
<1>2. CASE sync_store
  <2>1. handler' = handler /\ down' = down /\ shown' = shown
    BY <1>2 DEF sync_store, net, view
  <2> QED BY <1>2, <2>1, StoreGrow, KnownGrows
<1>2e. CASE record_if_edit
  <2>1. handler' = handler /\ down' = down /\ shown' = shown /\ batch' = batch /\ Repairs
    BY <1>2e DEF record_if_edit, net, view, Repairs
  <2> QED BY <2>1, RepairsGrow, KnownGrows
<1>3. CASE sync_publish
  <2>1. handler' = handler /\ shown' = shown /\ stored' = stored /\ batch' = NoRows /\ publish(batch, NoRows)
    BY <1>3 DEF sync_publish, view
  <2>2. \A e \in Conns : AllWithin(down'[e], stored)
    BY <1>k, <1>t, <2>1, PublishKnown
  <2> QED BY <1>s, <1>k, <2>1, <2>2, KnownGrows
<1>4. ASSUME stored' = stored, batch' = batch, handler' = handler,
             Within(shown', stored) \/ shown' = shown,
             \A e \in Conns : down'[e] = down[e] \/ AllWithin(down'[e], stored)
      PROVE  Known'
  BY <1>s, <1>k, <1>4, KnownGrows
<1>e. \A d : d = <<>> => AllWithin(d, stored)
  BY DEF AllWithin
<1>5. CASE openMatrix \/ onResume
  BY <1>4, <1>5 DEF openMatrix, onResume, daemon, view
<1>6. CASE openTimeline \/ closeTimeline \/ loadOlderMessages
  BY <1>4, <1>6, <1>k DEF openTimeline, closeTimeline, loadOlderMessages, daemon, net
<1>7. CASE fail \/ onSuspend
  <2>1. Closes
    BY <1>7 DEF fail, onSuspend
  <2>2. \A e \in Conns : down'[e] = down[e] \/ down'[e] = <<>>
    BY <1>t, <2>1 DEF Closes
  <2> QED BY <1>4, <1>e, <2>1, <2>2 DEF Closes, daemon
<1>8. CASE waitEvent
  <2> DEFINE q == down[conn]  l == Head(q)
  <2>0. conn # 0 /\ conn \in Conns /\ UNCHANGED daemon /\ q \in Seq(Lines)
    BY <1>8, PluginTypes DEF waitEvent
  <2>1. CASE /\ q # <<>> /\ l.kind # "cut"
             /\ IF l.kind = "event" THEN on_event(l.rows) ELSE on_reply(l)
             /\ down' = [down EXCEPT ![conn] = Tail(@)]
    <3>1. AllWithin(Tail(q), stored) /\ Within(l.rows, stored)
      BY <1>k, <2>0, <2>1, WithinTail
    <3>2. shown' = shown \/ shown' = l.rows \/ shown' = Merged(shown, l.rows)
      BY <2>1 DEF on_event, on_reply, on_status, requestMessages, on_older, request, NoAnswer, view
    <3>3. Within(shown', stored) \/ shown' = shown
      BY <1>k, <3>1, <3>2 DEF Merged, Within
    <3>4. \A e \in Conns : down'[e] = down[e] \/ AllWithin(down'[e], stored)
      BY <1>t, <2>1, <3>1
    <3> HIDE DEF l, q
    <3> QED BY <1>4, <2>0, <3>3, <3>4 DEF daemon
  <2>2. CASE /\ Len(q) > 1 /\ down' = [down EXCEPT ![conn] = Tail(Tail(@))]
             /\ UNCHANGED <<up, link, view>>
    <3>1. AllWithin(Tail(Tail(q)), stored)
      <4>1. AllWithin(q, stored)
        BY <1>k, <2>0
      <4>2. Len(q) > 1
        BY <2>2
      <4> HIDE DEF q
      <4> QED BY <2>0, <4>1, <4>2, Longer, WithinTail
    <3>2. \A e \in Conns : down'[e] = down[e] \/ AllWithin(down'[e], stored)
      BY <1>t, <2>2, <3>1
    <3> QED BY <1>4, <2>0, <2>2, <3>2 DEF daemon, view
  <2> QED BY <1>8, <2>1, <2>2 DEF waitEvent
<1>9. CASE UNCHANGED screenVars
  BY <1>4, <1>9 DEF screenVars, daemon, net, view
<1> QED BY <1>1, <1>2, <1>2e, <1>3, <1>5, <1>6, <1>7, <1>8, <1>9 DEF ScreenNext, sync, user, ipc

-----------------------------------------------------------------------------
(* Whether the reader sees what is stored.  When it has asked for the rows *)
(* or will, and is subscribed: either the rows it asked for have been read *)
(* and reach as far as what came by sync, or what the screen will show is  *)
(* what is stored, or what is about to be published.                       *)
Coming(u, P) ==
  \/ \E p \in P : p.cmd = "resume"
  \/ \E i \in 1..Len(u) : u[i].cmd = "messages"

Reading(h) == h.at = "answer" /\ h.cmd = "messages"

Wide(u) == \A i \in 1..Len(u) : u[i].cmd = "messages" => u[i].limit >= Limit

Shows(f, b, s, d, o) ==
  \A r \in Rows \ o : \A v \in 0..MaxVersion :
    ShownAs(d, s, r, v) /\ (r \in SyncedOf(f) \/ v # 0) => v = f[r] \/ b[r] = f[r]

Reasks ==
  /\ window >= Limit
  /\ conn # 0 =>
       /\ Wide(up[conn])
       /\ timeline # 0 /\ NotYet(up[conn], handler[conn]) => Coming(up[conn], pending)

SeesOn ==
  IF Reading(handler[conn]) THEN SyncedOf(stored) \subseteq Covered(handler[conn].rows)
  ELSE Shows(stored, batch, shown, down[conn], overtaken)

Sees == conn # 0 /\ timeline # 0 /\ conn \in bus /\ ~ Coming(up[conn], pending) => SeesOn

LEMMA SyncedIn == \A f : \A r \in SyncedOf(f) : r \in Rows /\ f[r] # 0 /\ r >= First
BY RecentIs DEF SyncedOf, Held

LEMMA RepairShows ==
  ASSUME NEW f, NEW g, NEW b, NEW s, NEW d, NEW o, NEW p,
         Bounded(g), Within(f, g), Within(g, f),
         \A r \in Rows \ p : g[r] = f[r] /\ r \notin o,
         Shows(f, b, s, d, o)
  PROVE  Shows(g, b, s, d, p) /\ SyncedOf(g) \subseteq SyncedOf(f)
<1>1. SyncedOf(g) \subseteq SyncedOf(f)
  BY RecentShrinks, SyncedIn DEF Within
<1> QED BY <1>1 DEF Shows

LEMMA OlderShows ==
  ASSUME NEW f, NEW g, NEW b, NEW s, NEW d, NEW o,
         Bounded(g), Within(f, g), \A r \in Rows : r >= First => g[r] = f[r],
         \A r \in Rows : g[r] # f[r] => f[r] = 0,
         AllWithin(d, f), Within(s, f)
  PROVE  /\ Shows(f, b, s, d, o) => Shows(g, b, s, d, o)
         /\ SyncedOf(g) \subseteq SyncedOf(f)
<1>1. SyncedOf(g) \subseteq SyncedOf(f)
  BY RecentShrinks, SyncedIn
<1>2. ASSUME Shows(f, b, s, d, o), NEW r \in Rows \ o, NEW v \in 0..MaxVersion,
             ShownAs(d, s, r, v), r \in SyncedOf(g) \/ v # 0
      PROVE  v = g[r] \/ b[r] = g[r]
  <2>1. r \in SyncedOf(f) \/ v # 0
    BY <1>1, <1>2
  <2>2. f[r] # 0
    BY <1>2, <2>1, SyncedIn, ShownWithin
  <2> QED BY <1>2, <2>1, <2>2 DEF Shows
<1> QED BY <1>1, <1>2 DEF Shows

LEMMA StoreShows ==
  ASSUME NEW f, NEW g, NEW b, NEW s, NEW d, NEW o, NEW p, NEW r0 \in Rows,
         Bounded(g), Within(f, g), \A r \in Rows \ {r0} : g[r] = f[r],
         r0 \notin p => b[r0] = g[r0], \A r \in Rows \ p : r \notin o,
         AllWithin(d, f), Within(s, f)
  PROVE  /\ Shows(f, NoRows, s, d, o) => Shows(g, b, s, d, p)
         /\ \A r \in SyncedOf(g) : r # r0 => r \in SyncedOf(f)
<1>1. \A r \in SyncedOf(g) : r # r0 => r \in SyncedOf(f)
  BY RecentShrinks, SyncedIn
<1>2. ASSUME Shows(f, NoRows, s, d, o), NEW r \in Rows \ p, NEW v \in 0..MaxVersion,
             ShownAs(d, s, r, v), r \in SyncedOf(g) \/ v # 0
      PROVE  v = g[r] \/ b[r] = g[r]
  <2>1. CASE r = r0
    BY <1>2, <2>1
  <2>2. CASE r # r0
    <3>1. r \in SyncedOf(f) \/ v # 0
      BY <1>1, <1>2, <2>2
    <3>2. f[r] # 0
      BY <1>2, <3>1, SyncedIn, ShownWithin
    <3>3. v = f[r]
      BY <1>2, <3>1, <3>2 DEF Shows, NoRows
    <3> QED BY <2>2, <3>3
  <2> QED BY <2>1, <2>2
<1> QED BY <1>1, <1>2 DEF Shows

(* What a publication carries is what is stored, or overtaken.             *)
LEMMA PublishShows ==
  ASSUME NEW f, NEW b, NEW left, NEW s, NEW d \in Seq(Lines), NEW o, NEW p, NEW e \in Versions,
         Shows(f, b, s, d, o), \A r \in Rows : e[r] = 0 => b[r] = left[r],
         p = {r \in Rows : IF r \in Held(e) THEN e[r] # f[r] /\ left[r] # f[r] ELSE r \in o}
  PROVE  Shows(f, left, s, Append(d, Event(e)), p)
<1> SUFFICES ASSUME NEW r \in Rows \ p, NEW v \in 0..MaxVersion,
                    ShownAs(Append(d, Event(e)), s, r, v), r \in SyncedOf(f) \/ v # 0
             PROVE  v = f[r] \/ left[r] = f[r]
  BY DEF Shows
<1>1. Event(e) \in Lines /\ (Sets(Event(e), r) <=> e[r] # 0) /\ Event(e).rows = e
  BY NoRowsType DEF Event, Sets
<1>2. \/ Sets(Event(e), r) /\ v = e[r]
      \/ ~ Sets(Event(e), r) /\ ShownAs(d, s, r, v)
  BY <1>1, ShownAppend
<1>3. CASE e[r] # 0
  BY <1>1, <1>2, <1>3 DEF Held
<1>4. CASE e[r] = 0
  <2>1. r \in Rows \ o /\ ShownAs(d, s, r, v)
    BY <1>1, <1>2, <1>4 DEF Held
  <2>2. v = f[r] \/ b[r] = f[r]
    BY <2>1 DEF Shows
  <2> QED BY <1>4, <2>2
<1> QED BY <1>3, <1>4

(* The rows that were asked for.                                           *)
LEMMA ReplyShows ==
  ASSUME NEW f, NEW b, NEW s, NEW d \in Seq(Lines), NEW o, NEW p, NEW h \in Threads, Reading(h),
         SyncedOf(f) \subseteq Covered(h.rows),
         p = {r \in Rows : IF r \in Covered(h.rows) THEN h.rows[r] # f[r] /\ b[r] # f[r] ELSE r \in o}
  PROVE  Shows(f, b, s, Append(d, Reply(h)), p)
<1> SUFFICES ASSUME NEW r \in Rows \ p, NEW v \in 0..MaxVersion,
                    ShownAs(Append(d, Reply(h)), s, r, v), r \in SyncedOf(f) \/ v # 0
             PROVE  v = f[r] \/ b[r] = f[r]
  BY DEF Shows
<1>1. Reply(h) \in Lines /\ Sets(Reply(h), r) /\ Reply(h).rows = h.rows
  BY NoRowsType DEF Reply, Sets, Reading
<1>2. v = h.rows[r]
  BY <1>1, ShownAppend
<1>3. r \in Covered(h.rows)
  <2>1. CASE r \in SyncedOf(f)
    BY <2>1
  <2>2. CASE v # 0
    <3>1. r \in Held(h.rows) /\ r <= r
      BY <1>2, <2>2, ScreenAssumption DEF Held
    <3> QED BY <3>1 DEF Covered
  <2> QED BY <2>1, <2>2
<1> QED BY <1>2, <1>3

(* Any other answer changes nothing on the screen.                         *)
LEMMA AnswerShows ==
  ASSUME NEW f, NEW b, NEW s, NEW d \in Seq(Lines), NEW o, NEW h \in Threads, h.cmd # "messages",
         Shows(f, b, s, d, o)
  PROVE  Shows(f, b, s, Append(d, Reply(h)), o)
<1>1. Reply(h) \in Lines /\ \A r : ~ Sets(Reply(h), r)
  BY NoRowsType DEF Reply, Sets
<1>2. \A r, v : ShownAs(Append(d, Reply(h)), s, r, v) => ShownAs(d, s, r, v)
  BY <1>1, ShownAppend
<1> QED BY <1>2 DEF Shows

(* A line is read: the screen catches up with it.                          *)
LEMMA ReadShows ==
  ASSUME NEW f, NEW b, NEW s, NEW t, NEW d \in Seq(Lines), d # <<>>, NEW o,
         \A r \in Rows : t[r] = IF Sets(Head(d), r) THEN Head(d).rows[r] ELSE s[r],
         Shows(f, b, s, d, o)
  PROVE  Shows(f, b, t, Tail(d), o)
<1>1. \A r \in Rows : \A v : ShownAs(Tail(d), t, r, v) => ShownAs(d, s, r, v)
  BY ShownTail
<1> QED BY <1>1 DEF Shows

-----------------------------------------------------------------------------
(* The threads, once more: what they take, and what the reader sees.       *)
LEMMA TailAsks ==
  ASSUME NEW u \in Seq(Asks), u # <<>>, NEW P
  PROVE  /\ Wide(u) => Wide(Tail(u))
         /\ Coming(Tail(u), P) => Coming(u, P)
         /\ Head(u).cmd # "messages" /\ Coming(u, P) => Coming(Tail(u), P)
         /\ Head(u).cmd = "messages" /\ Wide(u) => Head(u).limit >= Limit
         /\ Head(u) \in Asks
<1> SUFFICES ASSUME NEW t, t = Tail(u)
             PROVE  /\ Wide(u) => Wide(t)
                    /\ Coming(t, P) => Coming(u, P)
                    /\ Head(u).cmd # "messages" /\ Coming(u, P) => Coming(t, P)
                    /\ Head(u).cmd = "messages" /\ Wide(u) => Head(u).limit >= Limit
                    /\ Head(u) \in Asks
  OBVIOUS
<1>1. /\ Head(u) = u[1] /\ 1 \in 1..Len(u) /\ Head(u) \in Asks
      /\ \A i \in 1..Len(t) : i + 1 \in 1..Len(u) /\ t[i] = u[i + 1]
      /\ \A i \in 1..Len(u) : i # 1 => i - 1 \in 1..Len(t) /\ t[i - 1] = u[i]
  BY TailFacts
<1>2. Wide(u) => Wide(t)
  BY <1>1 DEF Wide
<1>3. Coming(t, P) => Coming(u, P)
  BY <1>1 DEF Coming
<1>4. ASSUME Head(u).cmd # "messages", NEW i \in 1..Len(u), u[i].cmd = "messages"
      PROVE  \E j \in 1..Len(t) : t[j].cmd = "messages"
  <2>1. i # 1
    BY <1>1, <1>4
  <2> QED BY <1>1, <1>4, <2>1
<1>5. Head(u).cmd # "messages" /\ Coming(u, P) => Coming(t, P)
  BY <1>4 DEF Coming
<1>6. Head(u).cmd = "messages" /\ Wide(u) => Head(u).limit >= Limit
  BY <1>1 DEF Wide
<1> QED BY <1>1, <1>2, <1>3, <1>5, <1>6

LEMMA AppendAsks ==
  ASSUME NEW u \in Seq(Asks), NEW a \in Asks, NEW P
  PROVE  /\ Wide(u) /\ (a.cmd = "messages" => a.limit >= Limit) => Wide(Append(u, a))
         /\ Coming(u, P) => Coming(Append(u, a), P)
         /\ a.cmd = "messages" => Coming(Append(u, a), P)
<1> SUFFICES ASSUME NEW t, t = Append(u, a)
             PROVE  /\ Wide(u) /\ (a.cmd = "messages" => a.limit >= Limit) => Wide(t)
                    /\ Coming(u, P) => Coming(t, P)
                    /\ a.cmd = "messages" => Coming(t, P)
  OBVIOUS
<1>1. /\ Len(t) = Len(u) + 1 /\ Len(u) \in Nat
      /\ \A i \in 1..Len(u) : i \in 1..Len(t) /\ t[i] = u[i]
      /\ t[Len(u) + 1] = a
  BY AppendFacts
<1>2. Len(u) + 1 \in 1..Len(t) /\ \A i \in 1..Len(t) : i \in 1..Len(u) \/ i = Len(u) + 1
  BY <1>1
<1>3. Wide(u) /\ (a.cmd = "messages" => a.limit >= Limit) => Wide(t)
  BY <1>1, <1>2 DEF Wide
<1>4. Coming(u, P) => Coming(t, P)
  BY <1>1 DEF Coming
<1>5. a.cmd = "messages" => Coming(t, P)
  BY <1>1, <1>2 DEF Coming
<1> QED BY <1>3, <1>4, <1>5

Serves(c) == messages(c) \/ messages_fails(c)

LEMMA ThreadTakes ==
  ASSUME Base, Link, NEW c \in Conns, client_loop(c), conn # 0
  PROVE  \/ up'[conn] = up[conn] /\ ~ (c = conn /\ Serves(c))
         \/ /\ c = conn /\ up[conn] # <<>> /\ up'[conn] = Tail(up[conn])
            /\ Head(up[conn]).cmd = "messages" <=> Serves(c)
<1>1. conn \in Conns /\ up \in [Conns -> Seq(Asks)]
  BY PluginTypes
<1>2. \/ up' = up /\ ~ Serves(c)
      \/ /\ up[c] # <<>> /\ Taken(c)
         /\ Head(up[c]).cmd = "messages" <=> Serves(c)
  <2>1. Serves(c) => Head(up[c]).cmd = "messages" /\ up[c] # <<>> /\ Taken(c) /\ handler[c].at = "idle"
    BY DEF Serves, messages, messages_fails, Asked
  <2>2. CASE hello(c) \/ status(c) \/ load_older_store(c) \/ load_older_fails(c)
    <3>1. Head(up[c]).cmd # "messages" /\ up[c] # <<>> /\ Taken(c)
      BY <2>2 DEF hello, status, load_older_store, load_older_fails, Asked
    <3> QED BY <2>1, <3>1
  <2>3. CASE bus_add(c) \/ load_older_restore(c) \/ load_older_read(c) \/ load_older_publish(c) \/ reply(c)
    BY <2>1, <2>3 DEF bus_add, load_older_restore, load_older_read, load_older_publish, reply, net
  <2>4. CASE handler_ends(c)
    BY <2>1, <2>4 DEF handler_ends
  <2> QED BY <2>1, <2>2, <2>3, <2>4 DEF client_loop, Serves
<1> QED BY <1>1, <1>2 DEF Taken

LEMMA ThreadGreets ==
  ASSUME Base, Link, NEW c \in Conns, client_loop(c), conn # 0,
         NotYet(up'[conn], handler'[conn])
  PROVE  NotYet(up[conn], handler[conn]) /\ (c = conn => hello(c))
<1>1. /\ conn \in Conns /\ handler \in [Conns -> Threads] /\ up[conn] \in Seq(Asks)
  BY PluginTypes
<1>2. UNCHANGED link
  BY DEF client_loop, hello, bus_add, status, messages, messages_fails, load_older_store, load_older_restore, load_older_read,
         load_older_publish, load_older_fails, reply, handler_ends
<1>3. \A i \in 1..Len(up[conn]) : up[conn][i].cmd = "hello" => handler[conn].at = "idle"
  BY DEF Link, Fine, Line, Greets
<1>4. \A i \in 1..Len(up'[conn]) : up'[conn][i].cmd = "hello" => handler'[conn].at = "idle"
  BY <1>2, ThreadLink DEF Link, Fine, Line, Greets, link
<1>5. CASE c # conn
  <2>1. handler'[conn] = handler[conn]
    BY <1>1, <1>5 DEF client_loop, hello, bus_add, status, messages, messages_fails,
       load_older_store, load_older_restore, load_older_read, load_older_publish, load_older_fails, reply, handler_ends
  <2>2. up'[conn] = up[conn]
    BY <1>5, ThreadTakes
  <2> QED BY <1>5, <2>1, <2>2
<1>6. CASE c = conn /\ hello(c)
  <2>1. up[conn] # <<>> /\ Head(up[conn]).cmd = "hello"
    BY <1>6 DEF hello, Asked
  <2>2. Head(up[conn]) = up[conn][1] /\ 1 \in 1..Len(up[conn])
    BY <1>1, <2>1, TailFacts
  <2> QED BY <1>6, <2>1, <2>2 DEF NotYet
<1>7. CASE c = conn /\ (bus_add(c) \/ reply(c))
  <2>1. handler'[conn].at = "idle" /\ up' = up /\ handler[conn].at # "idle"
    BY <1>1, <1>7 DEF bus_add, reply, Idle, net
  <2> QED BY <1>3, <2>1 DEF NotYet
<1>8. CASE c = conn /\ ~ (hello(c) \/ bus_add(c) \/ reply(c))
  <2>1. handler'[conn].at \notin {"idle", "add"}
    <3>1. CASE status(c) \/ load_older_fails(c)
      BY <1>1, <1>8, <3>1 DEF status, load_older_fails, Doing, Idle
    <3>2. CASE messages(c)
      BY <1>1, <1>8, <3>2 DEF messages, Doing, Idle
    <3>2f. CASE messages_fails(c)
      BY <1>1, <1>8, <3>2f DEF messages_fails, Doing, Idle
    <3>3. CASE load_older_store(c)
      BY <1>1, <1>8, <3>3 DEF load_older_store, Doing, Idle
    <3>3r. CASE load_older_restore(c)
      BY <1>1, <1>8, <3>3r DEF load_older_restore, Threads
    <3>4. CASE load_older_read(c)
      BY <1>1, <1>8, <3>4 DEF load_older_read, Threads
    <3>5. CASE load_older_publish(c)
      BY <1>1, <1>8, <3>5 DEF load_older_publish, Threads
    <3>6. CASE handler_ends(c)
      BY <1>1, <1>8, <3>6 DEF handler_ends, Idle
    <3> QED BY <1>8, <3>1, <3>2, <3>2f, <3>3, <3>3r, <3>4, <3>5, <3>6 DEF client_loop
  <2> QED BY <1>4, <2>1 DEF NotYet
<1> QED BY <1>5, <1>6, <1>7, <1>8

LEMMA ThreadReasks ==
  ASSUME Base, Link, Reasks, NEW c \in Conns, client_loop(c)
  PROVE  Reasks'
<1>1. UNCHANGED link /\ UNCHANGED view
  BY DEF client_loop, hello, bus_add, status, messages, messages_fails, load_older_store, load_older_restore, load_older_read,
         load_older_publish, load_older_fails, reply, handler_ends
<1> SUFFICES ASSUME conn # 0
             PROVE  /\ Wide(up'[conn])
                    /\ timeline # 0 /\ NotYet(up'[conn], handler'[conn]) => Coming(up'[conn], pending)
  BY <1>1 DEF Reasks, link, view
<1>2. up[conn] \in Seq(Asks) /\ Wide(up[conn])
  BY PluginTypes DEF Reasks
<1>3. Wide(up'[conn])
  BY <1>2, ThreadTakes, TailAsks
<1>4. ASSUME timeline # 0, NotYet(up'[conn], handler'[conn]) PROVE Coming(up'[conn], pending)
  <2>1. NotYet(up[conn], handler[conn]) /\ (c = conn => hello(c))
    BY <1>4, ThreadGreets
  <2>2. Coming(up[conn], pending)
    BY <1>4, <2>1 DEF Reasks
  <2>3. hello(c) => Head(up[c]).cmd = "hello"
    BY DEF hello, Asked
  <2> QED BY <1>2, <2>1, <2>2, <2>3, ThreadTakes, TailAsks
<1> QED BY <1>3, <1>4

LEMMA ThreadSees ==
  ASSUME Base, Link, Known, Reasks, Sees, NEW c \in Conns, client_loop(c)
  PROVE  Sees'
<1>1. UNCHANGED link /\ UNCHANGED view /\ batch' = batch
  BY DEF client_loop, hello, bus_add, status, messages, messages_fails, load_older_store, load_older_restore, load_older_read,
         load_older_publish, load_older_fails, reply, handler_ends
<1> DEFINE d == down[conn]  h == handler[conn]
<1>2. SUFFICES ASSUME conn # 0, timeline # 0, conn \in bus', ~ Coming(up'[conn], pending)
               PROVE  IF Reading(handler'[conn]) THEN SyncedOf(stored') \subseteq Covered(handler'[conn].rows)
                      ELSE Shows(stored', batch, shown, down'[conn], overtaken')
  BY <1>1 DEF Sees, SeesOn, link, view
<1>t. /\ conn \in Conns /\ handler \in [Conns -> Threads] /\ up[conn] \in Seq(Asks) /\ Wide(up[conn])
      /\ d \in Seq(Lines) /\ h \in Threads /\ handler[c] \in Threads /\ c <= used /\ c \in Nat
      /\ down \in [Conns -> Seq(Lines)] /\ stored \in Versions /\ conn = used /\ overtaken \subseteq Rows
      /\ h.rows \in Versions /\ handler[c].rows \in Versions /\ batch \in Versions
  BY PluginTypes, OnlyOpened, <1>2 DEF Reasks, Base, ScreenTypeOK, Threads
<1>k. /\ Bounded(stored) /\ AllWithin(d, stored) /\ Within(shown, stored)
  BY <1>t DEF Known
<1>r. ASSUME c = conn, messages(c)
      PROVE  IF Reading(handler'[conn]) THEN SyncedOf(stored') \subseteq Covered(handler'[conn].rows)
             ELSE Shows(stored', batch, shown, down'[conn], overtaken')
  <2> DEFINE n == Head(up[c]).limit
  <2>1. /\ up[c] # <<>> /\ Head(up[c]).cmd = "messages" /\ Repairs
        /\ handler' = [handler EXCEPT ![c] =
             [Doing(c, "answer") EXCEPT !.rows = recent_messages(stored', n)]]
    BY <1>r DEF messages, Asked
  <2>2. n \in Nat /\ n >= Limit
    BY <1>t, <1>r, <2>1, TailAsks DEF Asks
  <2>3. handler'[conn].rows = recent_messages(stored', n) /\ Reading(handler'[conn])
    BY <1>r, <1>t, <2>1 DEF Doing, Idle, Reading
  <2>4. SyncedOf(stored') \subseteq Held(recent_messages(stored', n))
    BY <2>1, <2>2, RepairsGrow, RecentWider
  <2>5. \A f : Held(f) \subseteq Covered(f)
    <3>1. \A s \in Rows : s <= s
      BY ScreenAssumption
    <3> QED BY <3>1 DEF Held, Covered
  <2> QED BY <2>3, <2>4, <2>5
<1>f. ASSUME c = conn, messages_fails(c)
      PROVE  IF Reading(handler'[conn]) THEN SyncedOf(stored') \subseteq Covered(handler'[conn].rows)
             ELSE Shows(stored', batch, shown, down'[conn], overtaken')
  <2>1. handler'[conn].cmd = "none" /\ overtaken' = Rows
    BY <1>f, <1>t DEF messages_fails, Doing, Idle
  <2> QED BY <2>1 DEF Reading, Shows
<1>b. ASSUME c = conn, bus_add(c) PROVE FALSE
  <2>1. handler[conn].at = "add" /\ up' = up
    BY <1>b DEF bus_add, net
  <2>2. NotYet(up[conn], handler[conn])
    BY <2>1 DEF NotYet
  <2> QED BY <1>2, <2>1, <2>2 DEF Reasks
<1>3. SUFFICES ASSUME ~ (c = conn /\ (Serves(c) \/ bus_add(c)))
               PROVE  IF Reading(handler'[conn]) THEN SyncedOf(stored') \subseteq Covered(handler'[conn].rows)
                      ELSE Shows(stored', batch, shown, down'[conn], overtaken')
  BY <1>r, <1>f, <1>b DEF Serves
<1>4. ~ Coming(up[conn], pending)
  BY <1>2, <1>3, <1>t, ThreadTakes, TailAsks
<1>5. conn \in bus
  <2>1. bus_add(c) \/ bus' \subseteq bus
    <3>1. CASE load_older_publish(c)
      BY <3>1 DEF load_older_publish, publish
    <3> QED BY <3>1 DEF client_loop, hello, status, messages, messages_fails, load_older_store, load_older_restore, load_older_read,
         load_older_fails, reply, handler_ends
  <2>2. bus_add(c) => bus' = bus \cup {c}
    BY DEF bus_add
  <2> QED BY <1>2, <1>3, <2>1, <2>2
<1>6. IF Reading(h) THEN SyncedOf(stored) \subseteq Covered(h.rows)
      ELSE Shows(stored, batch, shown, d, overtaken)
  BY <1>2, <1>4, <1>5 DEF Sees, SeesOn
<1>7. ~ NotYet(up[conn], h)
  BY <1>2, <1>5 DEF Link, Fine, Line, Greets
<1>s. ASSUME stored' = stored, down'[conn] = d, overtaken' = overtaken,
             handler'[conn] = h \/ (~ Reading(h) /\ ~ Reading(handler'[conn]))
      PROVE  IF Reading(handler'[conn]) THEN SyncedOf(stored') \subseteq Covered(handler'[conn].rows)
             ELSE Shows(stored', batch, shown, down'[conn], overtaken')
  BY <1>6, <1>s
<1>h. \A x : handler' = [handler EXCEPT ![c] = x] =>
        handler'[c] = x /\ (c # conn => handler'[conn] = h)
  BY <1>t
<1> HIDE DEF d, h
<1>8. CASE hello(c)
  <2>1. /\ handler' = [handler EXCEPT ![c] = Doing(c, "add")] /\ Answered(c, Doing(c, "add"))
        /\ stored' = stored /\ overtaken' = overtaken /\ up[c] # <<>> /\ Head(up[c]).cmd = "hello"
    BY <1>8 DEF hello, Asked
  <2>2. c # conn
    <3>1. CASE c = conn
      <4>1. Head(up[conn]) = up[conn][1] /\ 1 \in 1..Len(up[conn])
        BY <1>t, <2>1, <3>1, TailFacts
      <4> QED BY <1>7, <2>1, <3>1, <4>1 DEF NotYet
    <3> QED BY <3>1
  <2>3. down'[conn] = d
    BY <1>t, <2>1, <2>2 DEF Answered, d
  <2> QED BY <1>s, <1>h, <2>1, <2>2, <2>3
<1>9. CASE bus_add(c)
  <2>1. c # conn /\ handler' = [handler EXCEPT ![c] = Idle] /\ stored' = stored
        /\ down' = down /\ overtaken' = overtaken
    BY <1>3, <1>9 DEF bus_add, net
  <2> QED BY <1>s, <1>h, <2>1 DEF d
<1>10. CASE status(c) \/ load_older_fails(c)
  <2>1. PICK k : handler' = [handler EXCEPT ![c] = k] /\ k.cmd # "messages"
    <3>1. CASE status(c)
      <4>1. handler' = [handler EXCEPT ![c] = Doing(c, "answer")] /\ Doing(c, "answer").cmd # "messages"
        BY <3>1 DEF status, Asked, Doing, Idle
      <4> QED BY <4>1
    <3>2. CASE load_older_fails(c)
      <4> DEFINE k == [Doing(c, "answer") EXCEPT !.cmd = "none"]
      <4>1. handler' = [handler EXCEPT ![c] = k] /\ k.cmd # "messages"
        BY <3>2 DEF load_older_fails, Doing, Idle
      <4> HIDE DEF k
      <4> QED BY <4>1
    <3> QED BY <1>10, <3>1, <3>2
  <2>2. stored' = stored /\ down' = down /\ overtaken' = overtaken /\ handler[c].at = "idle"
    BY <1>10 DEF status, load_older_fails, Asked
  <2>3. c = conn => ~ Reading(h) /\ ~ Reading(handler'[conn])
    BY <1>h, <2>1, <2>2 DEF h, Reading
  <2>4. handler'[conn] = h \/ (~ Reading(h) /\ ~ Reading(handler'[conn]))
    BY <1>h, <2>1, <2>3
  <2> QED BY <1>s, <2>2, <2>4 DEF d
<1>11. CASE messages(c)
  <2>1. c # conn /\ Repairs /\ handler' = [handler EXCEPT ![c] =
             [Doing(c, "answer") EXCEPT !.rows = recent_messages(stored', Head(up[c]).limit)]]
        /\ down' = down /\ Untold(NoRows)
    BY <1>3, <1>11 DEF messages, Serves
  <2>2. handler'[conn] = h /\ down'[conn] = d
    BY <1>h, <2>1 DEF d
  <2>3. Bounded(stored') /\ Within(stored, stored') /\ Within(stored', stored)
    BY <2>1, RepairsGrow
  <2>4. SyncedOf(stored') \subseteq SyncedOf(stored)
    BY <2>3, RecentShrinks, SyncedIn DEF Within
  <2>5. Shows(stored, batch, shown, d, overtaken) => Shows(stored', batch, shown, d, overtaken')
    BY <2>1, <2>3, RepairsUntold, RepairShows
  <2> QED BY <1>6, <2>2, <2>4, <2>5
<1>11f. CASE messages_fails(c)
  <2>1. /\ c # conn /\ Repairs /\ down' = down /\ overtaken' = Rows
        /\ handler' = [handler EXCEPT ![c] = [Doing(c, "answer") EXCEPT !.cmd = "none"]]
    BY <1>3, <1>11f DEF messages_fails, Serves
  <2>2. handler'[conn] = h
    BY <1>h, <2>1
  <2>3. SyncedOf(stored') \subseteq SyncedOf(stored)
    BY <2>1, RepairsGrow, RecentShrinks, SyncedIn DEF Within
  <2>4. Shows(stored', batch, shown, down'[conn], overtaken')
    BY <2>1 DEF Shows
  <2> QED BY <1>6, <2>2, <2>3, <2>4
<1>12. CASE load_older_store(c)
  <2>1. PICK k : handler' = [handler EXCEPT ![c] = k] /\ k.cmd # "messages"
    <3>p. PICK st \in {"stored", "answer"} :
            handler' = [handler EXCEPT ![c] = [Doing(c, st) EXCEPT !.added = Cardinality(Older)]]
      BY <1>12 DEF load_older_store
    <3> DEFINE k == [Doing(c, st) EXCEPT !.added = Cardinality(Older)]
    <3>1. handler' = [handler EXCEPT ![c] = k] /\ k.cmd # "messages"
      BY <1>12, <3>p DEF load_older_store, Asked, Doing, Idle
    <3> HIDE DEF k
    <3> QED BY <3>1
  <2>2. /\ stored' = [r \in Rows |-> IF r \in Older THEN 1 ELSE stored[r]]
        /\ down' = down /\ overtaken' = overtaken /\ handler[c].at = "idle"
    BY <1>12 DEF load_older_store, Asked
  <2>3. /\ Bounded(stored') /\ Within(stored, stored')
        /\ \A r \in Rows : r >= First => stored'[r] = stored[r]
        /\ \A r \in Rows : stored'[r] # stored[r] => stored[r] = 0
    BY <2>2, OlderGrow
  <2>4. /\ Shows(stored, batch, shown, d, overtaken) => Shows(stored', batch, shown, d, overtaken)
        /\ SyncedOf(stored') \subseteq SyncedOf(stored)
    BY <1>k, <2>3, OlderShows
  <2>5. c = conn => ~ Reading(h) /\ ~ Reading(handler'[conn])
    BY <1>h, <2>1, <2>2 DEF h, Reading
  <2>6. handler'[conn] = h \/ (~ Reading(h) /\ ~ Reading(handler'[conn]))
    BY <1>h, <2>1, <2>5
  <2>7. down'[conn] = d
    BY <2>2 DEF d
  <2> QED BY <1>6, <2>2, <2>4, <2>6, <2>7
<1>12r. CASE load_older_restore(c)
  <2>1. PICK st \in {"answer", "restored"} :
          handler' = [handler EXCEPT ![c] = [handler[c] EXCEPT !.at = st]]
    BY <1>12r, <1>t DEF load_older_restore
  <2> DEFINE k == [handler[c] EXCEPT !.at = st]
  <2>2. /\ handler' = [handler EXCEPT ![c] = k] /\ k.cmd = handler[c].cmd
        /\ handler[c].at = "stored" /\ Repairs /\ Untold(NoRows) /\ down' = down
    BY <1>12r, <1>t, <2>1 DEF load_older_restore, net, Threads
  <2> HIDE DEF k
  <2>3. handler[c].cmd = "load_older"
    BY <2>2 DEF Base, Handlers
  <2>4. c = conn => ~ Reading(h) /\ ~ Reading(handler'[conn])
    BY <1>h, <2>2, <2>3 DEF h, Reading
  <2>5. handler'[conn] = h \/ (~ Reading(h) /\ ~ Reading(handler'[conn]))
    BY <1>h, <2>2, <2>4
  <2>6. down'[conn] = d
    BY <2>2 DEF d
  <2>7. Bounded(stored') /\ Within(stored, stored') /\ Within(stored', stored)
    BY <2>2, RepairsGrow
  <2>8. SyncedOf(stored') \subseteq SyncedOf(stored)
    BY <2>7, RecentShrinks, SyncedIn DEF Within
  <2>9. Shows(stored, batch, shown, d, overtaken) => Shows(stored', batch, shown, d, overtaken')
    BY <2>2, <2>7, RepairsUntold, RepairShows
  <2> QED BY <1>6, <2>5, <2>6, <2>8, <2>9
<1>13. CASE load_older_read(c)
  <2> DEFINE k == [handler[c] EXCEPT !.at = "publish", !.rows = recent_messages(stored, Recent)]
  <2>1. /\ handler' = [handler EXCEPT ![c] = k] /\ k.at = "publish"
        /\ handler[c].at = "restored" /\ stored' = stored /\ down' = down /\ overtaken' = overtaken
    BY <1>13, <1>t DEF load_older_read, net, Threads
  <2> HIDE DEF k
  <2>2. c = conn => ~ Reading(h) /\ ~ Reading(handler'[conn])
    BY <1>h, <2>1 DEF h, Reading
  <2>3. handler'[conn] = h \/ (~ Reading(h) /\ ~ Reading(handler'[conn]))
    BY <1>h, <2>1, <2>2
  <2> QED BY <1>s, <2>1, <2>3 DEF d
<1>14. CASE load_older_publish(c)
  <2> DEFINE k == [handler[c] EXCEPT !.at = "answer", !.rows = NoRows]
  <2>1. /\ handler' = [handler EXCEPT ![c] = k] /\ k.cmd = handler[c].cmd
        /\ handler[c].at = "publish" /\ stored' = stored /\ publish(handler[c].rows, batch)
    BY <1>14, <1>t DEF load_older_publish, Threads
  <2> HIDE DEF k
  <2>2. handler[c].cmd = "load_older"
    BY <2>1 DEF Base, Handlers
  <2>3. c = conn => ~ Reading(h) /\ ~ Reading(handler'[conn])
    BY <1>h, <2>1, <2>2 DEF h, Reading
  <2>4. handler'[conn] = h \/ (~ Reading(h) /\ ~ Reading(handler'[conn]))
    BY <1>h, <2>1, <2>3
  <2>5. down'[conn] = Append(d, Event(handler[c].rows))
    <3>1. ~ Full(conn)
      BY <1>2, <1>5, <1>t, <2>1, PublishFacts
    <3>2. down'[conn] = Sent(conn, Event(handler[c].rows))
      BY <1>5, <1>t, <2>1, <3>1, PublishFacts
    <3> QED BY <3>2 DEF Sent, Gone, d
  <2>6. Shows(stored, batch, shown, d, overtaken) =>
          Shows(stored, batch, shown, down'[conn], overtaken')
    <3> DEFINE e == handler[c].rows  p == overtaken'
    <3>1. p = {r \in Rows :
            IF r \in Held(e) THEN e[r] # stored[r] /\ batch[r] # stored[r] ELSE r \in overtaken}
      BY <2>1 DEF publish, Told
    <3>2. d \in Seq(Lines) /\ e \in Versions
      BY <1>t
    <3> HIDE DEF e, p
    <3>3. Shows(stored, batch, shown, d, overtaken) =>
            Shows(stored, batch, shown, Append(d, Event(e)), p)
      BY <3>1, <3>2, PublishShows
    <3> QED BY <2>5, <3>3 DEF e, p
  <2> QED BY <1>6, <2>1, <2>4, <2>6
<1>15. CASE reply(c)
  <2>1. /\ handler' = [handler EXCEPT ![c] = Idle] /\ handler[c].at = "answer" /\ stored' = stored
        /\ Answered(c, handler[c])
        /\ IF Gone(c) THEN UNCHANGED overtaken
           ELSE Told(handler[c].rows, Covered(handler[c].rows), batch)
    BY <1>15 DEF reply
  <2>2. CASE c # conn
    <3>1. Gone(c) /\ down'[conn] = d
      BY <1>t, <2>1, <2>2 DEF Gone, Answered, d
    <3> QED BY <1>s, <1>h, <2>1, <2>2, <3>1
  <2>3. CASE c = conn
    <3>1. /\ ~ Reading(handler'[conn]) /\ ~ Gone(c) /\ down'[conn] = Append(d, Reply(h))
          /\ h.at = "answer"
      BY <1>h, <1>t, <2>1, <2>3 DEF Gone, Answered, Sent, Reading, Idle, d, h
    <3>2. overtaken' = {r \in Rows : IF r \in Covered(h.rows)
                                     THEN h.rows[r] # stored[r] /\ batch[r] # stored[r]
                                     ELSE r \in overtaken}
      BY <2>1, <2>3, <3>1 DEF Told, h
    <3>3. CASE Reading(h)
      <4>1. Shows(stored, batch, shown, Append(d, Reply(h)), overtaken')
        BY <1>6, <1>t, <3>2, <3>3, ReplyShows
      <4> QED BY <2>1, <3>1, <4>1
    <3>4. CASE ~ Reading(h)
      <4>1. h.cmd # "messages" /\ h.rows = NoRows
        BY <1>t, <3>1, <3>4 DEF Reading, Base, Handlers, h
      <4>2. Covered(NoRows) = {}
        BY DEF Covered, Held, NoRows
      <4>3. overtaken' = overtaken
        BY <1>t, <3>2, <4>1, <4>2
      <4>4. Shows(stored, batch, shown, Append(d, Reply(h)), overtaken)
        BY <1>6, <1>t, <3>4, <4>1, AnswerShows
      <4> QED BY <2>1, <3>1, <4>3, <4>4
    <3> QED BY <3>3, <3>4
  <2> QED BY <2>2, <2>3
<1>16. CASE handler_ends(c)
  <2> DEFINE k == [Idle EXCEPT !.at = "ended"]
  <2>1. /\ handler' = [handler EXCEPT ![c] = k] /\ bus' = bus \ {c}
        /\ stored' = stored /\ down' = down /\ overtaken' = overtaken
    BY <1>16 DEF handler_ends
  <2> HIDE DEF k
  <2>2. c # conn
    BY <1>2, <2>1
  <2> QED BY <1>s, <1>h, <2>1, <2>2 DEF d
<1> QED BY <1>8, <1>9, <1>10, <1>11, <1>11f, <1>12, <1>12r, <1>13, <1>14, <1>15, <1>16 DEF client_loop

-----------------------------------------------------------------------------
(* The sync thread and the plugin, and what the reader sees.               *)
LEMMA SyncSees ==
  ASSUME Base, Link, Known, Reasks, Sees, sync
  PROVE  Reasks' /\ Sees'
<1> DEFINE d == down[conn]  h == handler[conn]
<1>1. UNCHANGED link /\ UNCHANGED view /\ up' = up /\ handler' = handler
  BY DEF sync, sync_store, record_if_edit, sync_publish, net
<1>2. Reasks'
  BY <1>1 DEF Reasks, link, view
<1>3. SUFFICES ASSUME conn # 0, timeline # 0, conn \in bus', ~ Coming(up[conn], pending)
               PROVE  IF Reading(h) THEN SyncedOf(stored') \subseteq Covered(h.rows)
                      ELSE Shows(stored', batch', shown, down'[conn], overtaken')
  BY <1>1, <1>2 DEF Sees, SeesOn, link, view
<1>t. /\ conn \in Conns /\ d \in Seq(Lines) /\ ~ Gone(conn) /\ batch \in Versions
      /\ stored \in Versions /\ First \in Held(stored)
  BY PluginTypes, <1>3 DEF Base, ScreenTypeOK, Gone
<1>k. Bounded(stored) /\ AllWithin(d, stored) /\ Within(shown, stored) /\ Within(batch, stored)
  BY <1>t DEF Known
<1>4. CASE sync_store
  <2> DEFINE r == Newest + 1
  <2>1. bus' = bus /\ down' = down /\ batch = NoRows
    BY <1>4 DEF sync_store, net
  <2>2. IF Reading(h) THEN SyncedOf(stored) \subseteq Covered(h.rows)
        ELSE Shows(stored, NoRows, shown, d, overtaken)
    BY <1>3, <2>1 DEF Sees, SeesOn
  <2>3. /\ Bounded(stored') /\ Within(stored, stored') /\ r \in Rows
        /\ \A s \in Rows \ {r} : stored'[s] = stored[s]
        /\ r \notin overtaken' => batch'[r] = stored'[r]
        /\ \A s \in Rows \ overtaken' : s \notin overtaken
    BY <1>4, StoreGrow
  <2> HIDE DEF d, h, r
  <2>6. /\ Shows(stored, NoRows, shown, d, overtaken) => Shows(stored', batch', shown, d, overtaken')
        /\ \A s \in SyncedOf(stored') : s # r => s \in SyncedOf(stored)
    <3>1. AllWithin(d, stored) /\ Within(shown, stored)
      BY <1>k DEF d
    <3> SUFFICES ASSUME NEW f, f = stored, NEW g, g = stored', NEW b, b = batch',
                        NEW t, t = shown, NEW o, o = overtaken, NEW p, p = overtaken'
                 PROVE  /\ Shows(f, NoRows, t, d, o) => Shows(g, b, t, d, p)
                        /\ \A s \in SyncedOf(g) : s # r => s \in SyncedOf(f)
      OBVIOUS
    <3> QED BY <2>3, <3>1, StoreShows
  <2>7. CASE Reading(h)
    <3>1. ASSUME NEW s \in SyncedOf(stored') PROVE s \in Covered(h.rows)
      <4>1. CASE s # r
        BY <2>2, <2>6, <2>7, <4>1
      <4>2. CASE s = r
        <5>1. Newest \in Covered(h.rows) /\ Newest \in Nat
          BY <1>k, <1>t, <2>2, <2>7, NewestFacts
        <5>2. PICK w \in Held(h.rows) : w <= Newest
          BY <5>1 DEF Covered
        <5>3. w \in Nat /\ w <= Newest + 1
          BY <5>1, <5>2, ScreenAssumption DEF Held
        <5> QED BY <2>3, <4>2, <5>3 DEF Covered, r
      <4> QED BY <4>1, <4>2
    <3> QED BY <2>7, <3>1
  <2>8. CASE ~ Reading(h)
    BY <2>1, <2>2, <2>6, <2>8 DEF d
  <2> QED BY <2>7, <2>8
<1>4e. CASE record_if_edit
  <2>1. bus' = bus /\ down' = down /\ batch' = batch /\ Repairs /\ Untold(NoRows)
    BY <1>4e DEF record_if_edit, net, Repairs
  <2>2. IF Reading(h) THEN SyncedOf(stored) \subseteq Covered(h.rows)
        ELSE Shows(stored, batch, shown, d, overtaken)
    BY <1>3, <2>1 DEF Sees, SeesOn
  <2>3. Bounded(stored') /\ Within(stored, stored') /\ Within(stored', stored)
    BY <2>1, RepairsGrow
  <2>4. SyncedOf(stored') \subseteq SyncedOf(stored)
    BY <2>3, RecentShrinks, SyncedIn DEF Within
  <2>5. down'[conn] = d /\ batch' = batch
    BY <2>1 DEF d
  <2> HIDE DEF d, h
  <2>6. Shows(stored, batch, shown, d, overtaken) => Shows(stored', batch, shown, d, overtaken')
    BY <2>1, <2>3, RepairsUntold, RepairShows
  <2> QED BY <2>2, <2>4, <2>5, <2>6
<1>5. CASE sync_publish
  <2>1. publish(batch, NoRows) /\ batch' = NoRows /\ stored' = stored
    BY <1>5 DEF sync_publish
  <2>2. conn \in bus /\ ~ Full(conn)
    BY <1>3, <1>t, <2>1, PublishFacts
  <2>3. IF Reading(h) THEN SyncedOf(stored) \subseteq Covered(h.rows)
        ELSE Shows(stored, batch, shown, d, overtaken)
    BY <1>3, <2>2 DEF Sees, SeesOn
  <2>4. down'[conn] = Append(d, Event(batch))
    BY <1>t, <2>1, <2>2, PublishFacts DEF Sent
  <2> HIDE DEF d, h
  <2>5. overtaken' = {r \in Rows : IF r \in Held(batch)
                                   THEN batch[r] # stored[r] /\ NoRows[r] # stored[r]
                                   ELSE r \in overtaken}
    BY <2>1 DEF publish, Told
  <2>6. \A r \in Rows : batch[r] = 0 => batch[r] = NoRows[r]
    BY DEF NoRows
  <2>7. Shows(stored, batch, shown, d, overtaken) =>
          Shows(stored, NoRows, shown, Append(d, Event(batch)), overtaken')
    BY <1>t, <2>5, <2>6, PublishShows
  <2> QED BY <2>1, <2>3, <2>4, <2>7
<1> QED BY <1>4, <1>4e, <1>5 DEF sync

(* A connection just made, or none.                                        *)
LEMMA ConnectsSees ==
  ASSUME Base, Reasks, NEW then \in {"status", "resume"}, Connects(then),
         UNCHANGED <<daemon, view>>, timeline # 0 => then = "resume"
  PROVE  Reasks' /\ Sees'
<1> DEFINE n == used + 1
           u == <<Ask(1, "hello", 0), Ask(2, "status", 0)>>
<1>1. /\ n \in Conns /\ n > used /\ conn' = n /\ up' = [up EXCEPT ![n] = u]
      /\ pending' = {Wait(1, "hello"), Wait(2, then)} /\ up \in [Conns -> Seq(Asks)]
  BY PluginTypes DEF Connects
<1>2. n \notin bus' /\ bus' = bus
  BY <1>1 DEF Base, Opened, daemon
<1>3. Sees'
  BY <1>1, <1>2 DEF Sees
<1>4. Wide(u)
  <2>1. Len(u) = 2 /\ u[1].cmd = "hello" /\ u[2].cmd = "status"
    BY DEF Ask
  <2> QED BY <2>1 DEF Wide
<1>5. then = "resume" => Coming(u, pending')
  BY <1>1 DEF Coming, Wait
<1>6. up'[n] = u /\ window' = window /\ timeline' = timeline
  BY <1>1 DEF view
<1>7. Wide(up'[conn']) /\ (timeline' # 0 => Coming(up'[conn'], pending'))
  BY <1>1, <1>4, <1>5, <1>6
<1> QED BY <1>3, <1>6, <1>7 DEF Reasks

LEMMA ClosesSees == ASSUME Reasks, Closes PROVE Reasks' /\ Sees'
BY DEF Closes, Reasks, Sees

(* The plugin asks for rows: it will see what is stored.                   *)
LEMMA RowsSees ==
  ASSUME Base, Reasks, conn # 0, NEW a \in Asks, a.cmd = "messages", a.limit >= Limit,
         up' = [up EXCEPT ![conn] = Append(@, a)], conn' = conn, window' >= Limit
  PROVE  Reasks' /\ Sees'
<1>1. up'[conn] = Append(up[conn], a) /\ up[conn] \in Seq(Asks) /\ Wide(up[conn])
  BY PluginTypes DEF Reasks
<1>2. Wide(up'[conn']) /\ Coming(up'[conn'], pending')
  <2> SUFFICES ASSUME NEW P, P = pending' PROVE Wide(up'[conn]) /\ Coming(up'[conn], P)
    OBVIOUS
  <2> QED BY <1>1, AppendAsks
<1> QED BY <1>2 DEF Reasks, Sees

LEMMA UserSees ==
  ASSUME Base, Link, Reasks, Sees, user
  PROVE  Reasks' /\ Sees'
<1>n. Limit \in Nat /\ Limit >= Limit /\ window >= Limit
  BY ScreenAssumption DEF Reasks
<1>1. CASE openMatrix
  BY <1>1, ConnectsSees DEF openMatrix
<1>2. CASE openTimeline
  <2>1. CASE conn = 0
    BY <1>2, <1>n, <2>1 DEF openTimeline, link, Reasks, Sees
  <2>2. CASE conn # 0
    <3> DEFINE a == Ask(nextId, "messages", Limit)
    <3>1. a \in Asks /\ a.cmd = "messages" /\ a.limit >= Limit
      BY PluginTypes, <1>n DEF Ask, Asks, Cmds
    <3>2. up' = [up EXCEPT ![conn] = Append(@, a)] /\ conn' = conn /\ window' >= Limit
      BY <1>2, <1>n, <2>2 DEF openTimeline
    <3> HIDE DEF a
    <3> QED BY <2>2, <3>1, <3>2, RowsSees
  <2> QED BY <2>1, <2>2
<1>3. CASE closeTimeline
  BY <1>3, <1>n DEF closeTimeline, link, net, Reasks, Sees
<1>4. CASE loadOlderMessages
  <2> DEFINE a == Ask(nextId, "load_older", 0)  w == Wait(nextId, "load_older")
  <2>1. a \in Asks /\ a.cmd = "load_older" /\ w.cmd = "load_older"
    BY PluginTypes DEF Ask, Wait, Asks, Cmds
  <2>2. /\ conn # 0 /\ conn' = conn /\ UNCHANGED <<daemon, down, timeline, shown, window, overtaken>>
        /\ up' = [up EXCEPT ![conn] = Append(@, a)] /\ pending' = pending \cup {w}
    BY <1>4 DEF loadOlderMessages, request
  <2> HIDE DEF a, w
  <2>3. up'[conn] = Append(up[conn], a) /\ up[conn] \in Seq(Asks) /\ Wide(up[conn])
    BY <2>2, PluginTypes DEF Reasks
  <2>4. Wide(up'[conn])
    BY <2>1, <2>3, AppendAsks
  <2>5. Coming(up[conn], pending) => Coming(up'[conn], pending')
    <3>1. Coming(up[conn], pending) => Coming(Append(up[conn], a), pending)
      BY <2>1, <2>3, AppendAsks
    <3> QED BY <2>2, <2>3, <3>1 DEF Coming
  <2>6. NotYet(up'[conn], handler[conn]) => NotYet(up[conn], handler[conn])
    <3>1. /\ Len(up'[conn]) = Len(up[conn]) + 1 /\ Len(up[conn]) \in Nat
          /\ \A i \in 1..Len(up[conn]) : up'[conn][i] = up[conn][i]
          /\ up'[conn][Len(up[conn]) + 1] = a
      BY <2>1, <2>3, AppendFacts
    <3>2. \A i \in 1..Len(up'[conn]) : i \in 1..Len(up[conn]) \/ i = Len(up[conn]) + 1
      BY <3>1
    <3> QED BY <2>1, <3>1, <3>2 DEF NotYet
  <2>7. Reasks'
    BY <1>n, <2>2, <2>4, <2>5, <2>6 DEF Reasks, daemon
  <2>8. Sees'
    BY <2>2, <2>5 DEF Sees, SeesOn, daemon
  <2> QED BY <2>7, <2>8
<1> QED BY <1>1, <1>2, <1>3, <1>4 DEF user

LEMMA LineSees ==
  ASSUME Base, Link, Reasks, Sees, conn # 0, down[conn] # <<>>, NEW l, l = Head(down[conn]),
         down' = [down EXCEPT ![conn] = Tail(@)],
         UNCHANGED <<up, conn, timeline, daemon, overtaken>>, window' >= Limit,
         pending' \subseteq pending,
         timeline # 0 => \A p \in pending : p.cmd = "resume" => p \in pending',
         timeline # 0 =>
           \A r \in Rows : shown'[r] = IF Sets(l, r) THEN l.rows[r] ELSE shown[r]
  PROVE  Reasks' /\ Sees'
<1>1. timeline # 0 => (Coming(up[conn], pending) <=> Coming(up[conn], pending'))
  BY DEF Coming
<1>2. Reasks'
  BY <1>1 DEF Reasks, daemon
<1>3. down'[conn] = Tail(down[conn]) /\ down[conn] \in Seq(Lines)
  BY PluginTypes
<1>4. ASSUME timeline # 0, Shows(stored, batch, shown, down[conn], overtaken)
      PROVE  Shows(stored, batch, shown', Tail(down[conn]), overtaken)
  BY <1>3, <1>4, ReadShows
<1>5. Sees'
  BY <1>1, <1>3, <1>4 DEF Sees, SeesOn, daemon
<1> QED BY <1>2, <1>5

LEMMA Answering ==
  ASSUME Base, Link, conn # 0, down[conn] # <<>>, Head(down[conn]).kind = "reply",
         NEW p \in pending, p.id = Head(down[conn]).id
  PROVE  /\ Head(down[conn]).cmd \in Answers(p)
         /\ (Head(down[conn]).cmd = "none" => p.cmd \in Failing)
<1> SUFFICES ASSUME NEW u \in Seq(Asks), NEW h \in Threads, NEW d \in Seq(Lines), NEW P \in SUBSET Waits,
                    NEW n \in Nat, NEW reader,
                    Line(u, h, d, P, n, reader), d # <<>>, Head(d).kind = "reply",
                    p \in P, p.id = Head(d).id
             PROVE  Head(d).cmd \in Answers(p) /\ (Head(d).cmd = "none" => p.cmd \in Failing)
  <2>1. /\ up[conn] \in Seq(Asks) /\ handler[conn] \in Threads /\ down[conn] \in Seq(Lines)
        /\ pending \in SUBSET Waits /\ nextId \in Nat
    BY PluginTypes
  <2>2. Line(up[conn], handler[conn], down[conn], pending, nextId, conn \in bus)
    BY DEF Link, Fine
  <2> QED BY <2>1, <2>2
<1>1. Head(d) = d[1] /\ 1 \in 1..Len(d)
  BY TailFacts
<1>2. IsReply(d, 1) /\ p.id = d[1].id
  BY <1>1 DEF IsReply
<1>3. PICK q \in P : q.id = d[1].id /\ d[1].cmd \in Answers(q) /\ (d[1].cmd = "none" => q.cmd \in Failing)
  BY <1>1, <1>2 DEF Line, Owed, Owner
<1>4. q = p
  BY <1>2, <1>3 DEF Line, Owed
<1> QED BY <1>1, <1>3, <1>4

LEMMA IpcSees ==
  ASSUME Base, Link, Reasks, Sees, ipc
  PROVE  Reasks' /\ Sees'
<1>1. CASE fail
  BY <1>1, ClosesSees DEF fail
<1>2. CASE waitEvent
  <2> DEFINE q == down[conn]  l == Head(q)
  <2>n. window >= Limit /\ Limit \in Nat /\ window \in Nat /\ WindowMax \in Nat /\ WindowMax >= Limit
    BY PluginTypes, ScreenAssumption DEF Reasks
  <2>0. conn # 0 /\ UNCHANGED daemon /\ overtaken' = overtaken /\ q \in Seq(Lines) /\ up[conn] \in Seq(Asks)
        /\ handler[conn] \in Threads /\ pending \in SUBSET Waits /\ nextId \in Nat \ {0}
        /\ shown \in Versions
    BY <1>2, PluginTypes DEF waitEvent
  <2>1. CASE q # <<>> /\ l.kind = "event" /\ on_event(l.rows) /\ down' = [down EXCEPT ![conn] = Tail(@)]
    <3>1. /\ UNCHANGED <<up, conn, pending, timeline, window>>
          /\ timeline # 0 => shown' = Merged(shown, l.rows)
      BY <2>1 DEF on_event, link
    <3>2. timeline # 0 => \A r \in Rows : shown'[r] = IF Sets(l, r) THEN l.rows[r] ELSE shown[r]
      BY <2>1, <3>1 DEF Merged, Sets
    <3> HIDE DEF l
    <3> QED BY <2>n, <2>0, <2>1, <3>1, <3>2, LineSees DEF l
  <2>2. CASE q # <<>> /\ l.kind = "reply" /\ on_reply(l) /\ down' = [down EXCEPT ![conn] = Tail(@)]
    <3>1. PICK p \in pending :
            /\ p.id = l.id
            /\ CASE p.cmd = "resume"     -> on_status(p)
                 [] p.cmd = "messages"   -> requestMessages(p, l)
                 [] p.cmd = "load_older" -> on_older(p, l)
                 [] OTHER                -> NoAnswer({p}) /\ UNCHANGED view
      <4>1. l = q[1] /\ 1 \in 1..Len(q)
        BY <2>0, <2>2, TailFacts
      <4>2. Owner(pending, l.id, l.cmd)
        BY <2>0, <2>2, <4>1 DEF Link, Fine, Line, Owed, IsReply
      <4> QED BY <2>2, <4>2 DEF on_reply, Owner
    <3>2. l.cmd \in Answers(p) /\ (l.cmd = "none" => p.cmd \in Failing)
      BY <2>0, <2>2, <3>1, Answering
    <3>3. ASSUME NoAnswer({p}), timeline' = timeline, window' >= Limit,
                 timeline # 0 => p.cmd # "resume",
                 timeline # 0 =>
                   \A r \in Rows : shown'[r] = IF Sets(l, r) THEN l.rows[r] ELSE shown[r]
          PROVE  Reasks' /\ Sees'
      <4>1. pending' = pending \ {p} /\ UNCHANGED <<up, conn>>
        BY <3>3 DEF NoAnswer
      <4> HIDE DEF l
      <4> QED BY <2>0, <2>2, <3>3, <4>1, LineSees DEF l
    <3>4. ASSUME NEW n \in Nat, n >= Limit, request("messages", n, {p}), window' >= Limit
          PROVE  Reasks' /\ Sees'
      <4> DEFINE a == Ask(nextId, "messages", n)
      <4>1. a \in Asks /\ a.cmd = "messages" /\ a.limit >= Limit
        BY <2>0, <3>4 DEF Ask, Asks, Cmds
      <4>2. up' = [up EXCEPT ![conn] = Append(@, a)] /\ conn' = conn
        BY <3>4 DEF request
      <4> HIDE DEF a
      <4> QED BY <2>0, <3>4, <4>1, <4>2, RowsSees
    <3>5. CASE p.cmd = "resume"
      <4>1. on_status(p)
        BY <3>1, <3>5
      <4>2. UNCHANGED view
        BY <4>1 DEF on_status
      <4>3. timeline' = timeline /\ window' = window
        BY <4>2 DEF view
      <4>4. CASE timeline = 0
        <5>1. NoAnswer({p})
          BY <4>1, <4>4 DEF on_status
        <5> HIDE DEF l
        <5> QED BY <2>n, <3>3, <4>3, <4>4, <5>1
      <4>5. CASE timeline # 0
        <5>1. request("messages", window, {p})
          BY <4>1, <4>5 DEF on_status
        <5> QED BY <2>n, <3>4, <4>3, <5>1
      <4> QED BY <4>4, <4>5
    <3>6. CASE p.cmd = "messages"
      <4>1. requestMessages(p, l) /\ l.cmd \in {"messages", "none"}
        BY <3>1, <3>2, <3>6 DEF Answers
      <4>2. \A r : Sets(l, r) <=> l.cmd = "messages"
        BY <2>2, <4>1 DEF Sets
      <4> HIDE DEF l
      <4>3. /\ NoAnswer({p}) /\ timeline' = timeline /\ window' = window
            /\ timeline # 0 => shown' = IF l.cmd = "none" THEN shown ELSE l.rows
        BY <4>1 DEF requestMessages
      <4>4. timeline # 0 => \A r \in Rows : shown'[r] = IF Sets(l, r) THEN l.rows[r] ELSE shown[r]
        BY <4>1, <4>2, <4>3
      <4> QED BY <2>n, <3>3, <3>6, <4>3, <4>4
    <3>7. CASE p.cmd = "load_older"
      <4> DEFINE wide == Smaller(window + l.added, WindowMax)
      <4>1. on_older(p, l) /\ l.cmd # "messages" /\ l.added \in Nat
        <5>1. l \in Lines
          BY <2>0, <2>2, TailFacts
        <5> QED BY <3>1, <3>2, <3>7, <5>1 DEF Answers, Lines
      <4>2. \A r : ~ Sets(l, r)
        BY <2>2, <4>1 DEF Sets
      <4>3. UNCHANGED <<timeline, opens, shown>>
        BY <4>1 DEF on_older
      <4>4. (window' = wide /\ request("messages", wide, {p})) \/ (NoAnswer({p}) /\ UNCHANGED window)
        BY <4>1 DEF on_older
      <4>5. wide \in Nat /\ wide >= Limit
        <5>1. l.added \in Nat
          BY <4>1
        <5> HIDE DEF l
        <5> QED BY <2>n, <5>1 DEF Smaller
      <4> HIDE DEF wide, l
      <4>6. CASE window' = wide /\ request("messages", wide, {p})
        BY <3>4, <4>5, <4>6
      <4>7. CASE NoAnswer({p}) /\ UNCHANGED window
        BY <2>n, <3>3, <3>7, <4>2, <4>3, <4>7
      <4> QED BY <4>4, <4>6, <4>7
    <3>8. CASE p.cmd \notin {"resume", "messages", "load_older"}
      <4>1. NoAnswer({p}) /\ UNCHANGED view
        BY <3>1, <3>8
      <4>2. timeline' = timeline /\ window' = window /\ shown' = shown
        BY <4>1 DEF view
      <4>3. \A r : ~ Sets(l, r)
        BY <2>2, <3>2, <3>8 DEF Sets, Answers
      <4> HIDE DEF l
      <4> QED BY <2>n, <3>3, <3>8, <4>1, <4>2, <4>3
    <3> QED BY <3>5, <3>6, <3>7, <3>8
  <2>3. CASE Len(q) > 1 /\ l.kind = "cut" /\ UNCHANGED <<up, link, view>>
    <3>1. conn \notin bus /\ ~ NotYet(up[conn], handler[conn])
      <4>1. q # <<>> /\ l = q[1] /\ 1 \in 1..Len(q)
        <5>1. Len(q) > 1
          BY <2>3
        <5> HIDE DEF q
        <5> QED BY <2>0, <5>1, Longer, TailFacts
      <4> QED BY <2>0, <2>3, <4>1 DEF Link, Fine, Line, Greets
    <3>2. UNCHANGED <<up, conn, timeline, window, handler, bus>>
      BY <2>0, <2>3 DEF link, view, daemon
    <3>3. conn # 0 => Wide(up[conn])
      BY DEF Reasks
    <3> QED BY <2>n, <3>1, <3>2, <3>3 DEF Reasks, Sees
  <2>4. \/ q # <<>> /\ l.kind = "event" /\ on_event(l.rows) /\ down' = [down EXCEPT ![conn] = Tail(@)]
        \/ q # <<>> /\ l.kind = "reply" /\ on_reply(l) /\ down' = [down EXCEPT ![conn] = Tail(@)]
        \/ Len(q) > 1 /\ l.kind = "cut" /\ UNCHANGED <<up, link, view>>
    <3>1. q # <<>> => l.kind \in {"reply", "event", "cut"}
      <4>1. q # <<>> => l \in Lines
        BY <2>0, TailFacts
      <4> QED BY <4>1 DEF Lines
    <3> QED BY <1>2, <3>1 DEF waitEvent
  <2> QED BY <2>1, <2>2, <2>3, <2>4
<1> QED BY <1>1, <1>2 DEF ipc

LEMMA SeesStep ==
  Base /\ Link /\ Known /\ Reasks /\ Sees /\ [ScreenNext]_screenVars => Reasks' /\ Sees'
<1> SUFFICES ASSUME Base, Link, Known, Reasks, Sees, [ScreenNext]_screenVars PROVE Reasks' /\ Sees'
  OBVIOUS
<1>1. CASE \E c \in Conns : client_loop(c)
  BY <1>1, ThreadReasks, ThreadSees
<1>2. CASE onSuspend
  BY <1>2, ClosesSees DEF onSuspend
<1>3. CASE onResume
  BY <1>3, ConnectsSees DEF onResume
<1>4. CASE UNCHANGED screenVars
  BY <1>4 DEF screenVars, daemon, net, link, view, Reasks, Sees, SeesOn
<1> QED BY <1>1, <1>2, <1>3, <1>4, SyncSees, UserSees, IpcSees DEF ScreenNext

LEMMA InitSees == ScreenInit => Known /\ Reasks /\ Sees
<1> SUFFICES ASSUME ScreenInit PROVE Known /\ Reasks /\ Sees
  OBVIOUS
<1>1. Known
  <2>1. \A s \in Held(stored) : s = First
    BY ScreenAssumption DEF ScreenInit, Held, NoRows
  <2>2. Bounded(stored)
    <3>1. First \in Nat
      BY ScreenAssumption
    <3>2. First <= First
      BY <3>1
    <3> QED BY <2>1, <3>1, <3>2 DEF Bounded
  <2>3. Within(batch, stored) /\ Within(shown, stored)
    BY WithinNoRows DEF ScreenInit
  <2>4. ASSUME NEW c \in Conns PROVE Within(handler[c].rows, stored) /\ AllWithin(down[c], stored)
    <3>1. handler[c].rows = NoRows /\ down[c] = <<>>
      BY DEF ScreenInit, Idle
    <3> QED BY <3>1, WithinNoRows DEF AllWithin
  <2> QED BY <2>2, <2>3, <2>4 DEF Known
<1>2. conn = 0 /\ window >= Limit
  BY ScreenAssumption DEF ScreenInit
<1> QED BY <1>1, <1>2 DEF Reasks, Sees

LEMMA InitLink == ScreenInit => Base /\ Link
<1> SUFFICES ASSUME ScreenInit PROVE Base /\ Link
  OBVIOUS
<1> USE ScreenAssumption DEF ScreenInit
<1>1. NoRows \in Versions /\ Idle \in Threads /\ Idle.at = "idle" /\ Idle.rows = NoRows
  BY NoRowsType DEF Idle
<1>2. stored \in Versions /\ First \in Held(stored)
  <2>1. MaxVersion \in Nat \ {0} /\ 1 \in 0..MaxVersion
    OBVIOUS
  <2> QED BY <1>1, <2>1 DEF Versions, Held
<1>3. ScreenTypeOK
  <2>1. /\ batch \in Versions /\ shown \in Versions /\ stores \in 0..MaxStores
        /\ bus \subseteq Conns /\ shut \subseteq Conns /\ used \in Nat /\ conn \in {0, used}
        /\ nextId \in Nat /\ loading \in BOOLEAN /\ asleep \in BOOLEAN /\ overtaken \subseteq Rows
    <3>1. MaxStores \in Nat /\ 0 \in 0..MaxStores
      OBVIOUS
    <3> QED BY <1>1, <3>1
  <2>2. /\ handler \in [Conns -> Threads] /\ up \in [Conns -> Seq(Asks)]
        /\ down \in [Conns -> Seq(Lines)] /\ pending \subseteq Waits
    <3>1. <<>> \in Seq(Asks) /\ <<>> \in Seq(Lines)
      OBVIOUS
    <3>2. /\ handler = [c \in Conns |-> Idle] /\ up = [c \in Conns |-> <<>>]
          /\ down = [c \in Conns |-> <<>>] /\ pending = {}
      BY DEF ScreenInit
    <3> QED BY ONLY <1>1, <3>1, <3>2
  <2>3. opens \in 0..MaxOpens /\ timeline \in 0..opens /\ window \in 1..WindowMax
    OBVIOUS
  <2> QED BY <1>2, <2>1, <2>2, <2>3 DEF ScreenTypeOK, Threads, Asks, Waits
<1>4. Opened /\ Handlers
  BY <1>1 DEF Opened, Handlers
<1> QED BY <1>2, <1>3, <1>4 DEF Base, Link

LEMMA LinkAlways == ScreenSpec => [](Base /\ Link)
<1>1. (Base /\ Link) /\ [ScreenNext]_screenVars => (Base /\ Link)'
  BY LinkStep
<1> QED BY <1>1, InitLink, PTL DEF ScreenSpec

(* The store, the threads, the sockets and the screen hold what they       *)
(* should, however they interleave.                                        *)
THEOREM ScreenTypeCorrect == ScreenSpec => []ScreenTypeOK
<1>1. Base => ScreenTypeOK
  BY DEF Base
<1> QED BY <1>1, LinkAlways, PTL

(* IPC:poll calls a callback with the answer to its own request and no     *)
(* other, over however many connections, each of which counts from 1.      *)
THEOREM EveryAnswerIsOnesOwn == ScreenSpec => []OwnAnswers
<1>1. Base /\ Link => OwnAnswers
  <2> SUFFICES ASSUME Base, Link, conn # 0, NEW i \in DOMAIN down[conn], NEW p \in pending,
                      down[conn][i].kind = "reply", down[conn][i].id = p.id
               PROVE  down[conn][i].cmd \in Answers(p)
    BY DEF OwnAnswers
  <2>1. i \in 1..Len(down[conn])
    BY PluginTypes
  <2>2. PICK q \in pending : q.id = down[conn][i].id /\ down[conn][i].cmd \in Answers(q)
    BY <2>1 DEF Link, Fine, Line, Owed, IsReply, Owner
  <2>3. q = p
    BY <2>2 DEF Link, Fine, Line, Owed
  <2> QED BY <2>2, <2>3
<1> QED BY <1>1, LinkAlways, PTL

(* client_loop and Bus::publish lose no request: as long as the reader has *)
(* not been dropped and its connection stands, whatever it waits for is on *)
(* its way, being served, or answered.                                     *)
THEOREM NoRequestEverForgotten == ScreenSpec => []NoRequestForgotten
<1>1. Base /\ Link => NoRequestForgotten
  <2> SUFFICES ASSUME Base, Link, conn # 0, ~ Dropped, conn \notin shut, NEW p \in pending
               PROVE  \/ \E i \in DOMAIN up[conn] : up[conn][i].id = p.id
                      \/ handler[conn].id = p.id
                      \/ \E i \in DOMAIN down[conn] :
                           down[conn][i].kind = "reply" /\ down[conn][i].id = p.id
    BY DEF NoRequestForgotten
  <2>1. DOMAIN up[conn] = 1..Len(up[conn]) /\ DOMAIN down[conn] = 1..Len(down[conn])
    BY PluginTypes
  <2>2. conn \in bus \/ NotYet(up[conn], handler[conn])
    BY <2>1 DEF Dropped, NotYet
  <2>3. Found(up[conn], handler[conn], down[conn], p)
    BY <2>2 DEF Link, Fine, Here
  <2> QED BY <2>1, <2>3 DEF Found, IsReply
<1> QED BY <1>1, LinkAlways, PTL

LEMMA SeesAlways == ScreenSpec => [](Base /\ Link /\ Known /\ Reasks /\ Sees)
<1>1. Base /\ Link /\ Known /\ Reasks /\ Sees /\ [ScreenNext]_screenVars
        => (Base /\ Link /\ Known /\ Reasks /\ Sees)'
  BY LinkStep, KnownStep, SeesStep
<1> QED BY <1>1, InitLink, InitSees, PTL DEF ScreenSpec

(* What sync, do_load_older and the replies of client_loop write to the    *)
(* sockets leaves a subscribed reader, once everything is read, with what  *)
(* was told last of each row its timeline shows and of all the newest that *)
(* came by sync; that is the newest version unless the row was told out of *)
(* order, an edit or a repair of it is still read by nobody, or an answer  *)
(* could not be read (Untold, Told, messages_fails).                       *)
THEOREM ScreenCatchesUp == ScreenSpec => []ScreenIsCurrent
<1>1. Base /\ Link /\ Known /\ Reasks /\ Sees => ScreenIsCurrent
  <2> SUFFICES ASSUME Base, Link, Known, Reasks, Sees, Settled,
                      NEW r \in (Synced \cup Held(shown)) \ overtaken
               PROVE  shown[r] = stored[r]
    BY DEF ScreenIsCurrent
  <2>1. /\ timeline # 0 /\ conn \in bus /\ pending = {} /\ down[conn] = <<>> /\ batch = NoRows
        /\ \A c \in Conns : ~ Busy(handler[c])
    BY DEF Settled, Busy
  <2>2. conn # 0 /\ conn \in Conns
    BY <2>1, ScreenAssumption DEF Base, ScreenTypeOK
  <2>3. ~ Coming(up[conn], pending)
    <3>1. \A i \in 1..Len(up[conn]) : Owner(pending, up[conn][i].id, up[conn][i].cmd)
      BY <2>2 DEF Link, Fine, Line, Owed
    <3> QED BY <2>1, <3>1 DEF Coming, Owner
  <2>4. Shows(stored, batch, shown, <<>>, overtaken)
    <3>1. SeesOn
      BY <2>1, <2>2, <2>3 DEF Sees
    <3> QED BY <2>1, <2>2, <3>1 DEF SeesOn, Reading, Busy
  <2>5. r \in Rows \ overtaken /\ shown[r] \in 0..MaxVersion /\ (r \in SyncedOf(stored) \/ shown[r] # 0)
    BY DEF Synced, SyncedOf, Held, Base, ScreenTypeOK, Versions
  <2>6. ShownAs(<<>>, shown, r, shown[r])
    BY DEF ShownAs
  <2>7. shown[r] = stored[r] \/ batch[r] = stored[r]
    BY <2>4, <2>5, <2>6 DEF Shows
  <2>8. stored[r] # 0
    <3>1. CASE r \in SyncedOf(stored)
      BY <3>1, SyncedIn
    <3>2. CASE shown[r] # 0
      BY <2>5, <3>2 DEF Known, Within
    <3> QED BY <2>5, <3>1, <3>2
  <2>9. batch[r] = 0
    BY <2>1, <2>5 DEF NoRows
  <2> QED BY <2>7, <2>8, <2>9
<1> QED BY <1>1, SeesAlways, PTL
=============================================================================
