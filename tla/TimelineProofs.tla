--------------------------- MODULE TimelineProofs ---------------------------
(***************************************************************************)
(* What the runs of Timeline check on small rooms, proved for every room,  *)
(* set of clients, backup and sequence of faults.                          *)
(*                                                                         *)
(* The argument has two layers.  Control: a converted event is in one of   *)
(* the staging sets of its thread and in no other, and a thread outside    *)
(* its conversion loop stages nothing (Staging, Phases).  Store: given     *)
(* that, every step of the system writes the message and edit tables by    *)
(* one of three operations or not at all (StoreWrite), and the invariants  *)
(* on the tables need only be preserved by those.                          *)
(***************************************************************************)
EXTENDS Timeline, TLAPS

(* A thread stages an event once.                                          *)
Staging ==
  \A t \in Threads :
    /\ plain[t] \cap locked[t] = {}
    /\ todo[t] \cap (plain[t] \cup locked[t]) = {}
    /\ \A x \in edits[t] : Kind[x] = "edit"
    /\ \A e \in locked[t] : Session[e] # Clear

(* Outside the conversion loop nothing is staged but the retried row.      *)
Phases ==
  \A t \in Threads :
    /\ pc[t] \notin Converting =>
         todo[t] = {} /\ locked[t] = {} /\ edits[t] = {}
    /\ pc[t] \notin Converting \cup {"retry"} => plain[t] = {}

(* Every event of the batch is still to convert, staged, or accounted for. *)
BatchAccounted ==
  /\ pc[Sync] = "convert" =>
       \A e \in batch :
         \/ e \in todo[Sync] \cup plain[Sync] \cup locked[Sync] \cup edits[Sync]
         \/ AccountedFor(e)
  /\ pc[Sync] = "token" => \A e \in batch : AccountedFor(e)

(* The ways a step may write the tables.                                   *)
StoreWrite ==
  \/ \E P, L \in SUBSET Events :
       /\ P \cap L = {} /\ \A e \in L : Session[e] # Clear
       /\ insert_message(P, L)
  \/ \E e \in Events : upgrade_message(e)
  \/ \E x \in Events : Kind[x] = "edit" /\ record_edit(x)
  \/ UNCHANGED store

StoreInv == EditOutranks /\ ReadableRowIsCurrent /\ LockedRowKeepsCiphertext

(* Only an encrypted event keeps a ciphertext.                             *)
KeptEncrypted == \A e \in kept : Session[e] # Clear

Control == TypeOK /\ KeptEncrypted /\ Staging /\ Phases

-----------------------------------------------------------------------------
(* Type correctness.                                                       *)

LEMMA BodyTypes ==
  /\ Placeholder \in Bodies
  /\ \A e \in Events : Text(e) \in Bodies /\ Fallback(e) \in Bodies
BY DEF Bodies, Placeholder, Text, Fallback

LEMMA ShareTypes ==
  ASSUME NEW K \in SUBSET Shares, held \in [Sessions -> 0 .. Unknown]
  PROVE  HeldAfter(K) \in [Sessions -> 0 .. Unknown]
BY KeyAssumption DEF HeldAfter

StoreTypes ==
  /\ stored \in SUBSET Events /\ decrypted \in SUBSET Events
  /\ kept \in SUBSET Events
  /\ body \in [Events -> Bodies]
  /\ newest \in [Events -> Events \cup {None}]

LEMMA InsertTypes ==
  ASSUME StoreTypes, NEW P \in SUBSET Events, NEW L \in SUBSET Events,
         insert_message(P, L)
  PROVE  StoreTypes'
<1>1. \A e \in Events : newest[e] # None => Text(newest[e]) \in Bodies
  BY BodyTypes DEF StoreTypes
<1>2. body' \in [Events -> Bodies]
  BY <1>1, BodyTypes DEF insert_message, StoreTypes
<1> QED BY <1>2 DEF insert_message, StoreTypes

LEMMA UpgradeTypes ==
  ASSUME StoreTypes, NEW e \in Events, upgrade_message(e)
  PROVE  StoreTypes'
<1>1. newest[e] # None => Text(newest[e]) \in Bodies
  BY BodyTypes DEF StoreTypes
<1>2. body' \in [Events -> Bodies]
  BY <1>1, BodyTypes DEF upgrade_message, store, RecoveredBody, StoreTypes
<1> QED BY <1>2 DEF upgrade_message, store, StoreTypes

LEMMA RecordTypes ==
  ASSUME StoreTypes, NEW x \in Events, record_edit(x)
  PROVE  StoreTypes'
<1>1. Target[x] \in Events BY EventAssumption
<1>2. body' \in [Events -> Bodies]
  BY <1>1, BodyTypes DEF record_edit, StoreTypes
<1> QED BY <1>1, <1>2 DEF record_edit, StoreTypes

(* What TypeOK says of everything but the tables.                          *)
RestTypes ==
  /\ held \in [Sessions -> 0 .. Unknown] /\ backupKey \in BOOLEAN
  /\ delivered \in SUBSET Events /\ taken \in SUBSET Shares
  /\ batch \in SUBSET Events /\ share \in SUBSET Shares
  /\ pc \in [Threads -> {"idle", "todevice", "convert", "token", "restore",
                         "refetch", "refetching", "import", "retry"}]
  /\ todo \in [Threads -> SUBSET Events]
  /\ plain \in [Threads -> SUBSET Events]
  /\ locked \in [Threads -> SUBSET Events]
  /\ edits \in [Threads -> SUBSET Events]
  /\ pending \in [Threads -> SUBSET Events]
  /\ wanted \in [Threads -> SUBSET Sessions]
  /\ imported \in [Threads -> BOOLEAN]
  /\ again \in [Threads -> BOOLEAN]
  /\ next \in [Threads -> {"idle", "refetch"}]

LEMMA TypeParts == TypeOK <=> StoreTypes /\ RestTypes
BY DEF TypeOK, StoreTypes, RestTypes

LEMMA UndecryptedSessions ==
  ASSUME StoreTypes, KeptEncrypted
  PROVE  {Session[e] : e \in Undecrypted} \in SUBSET Sessions
BY EventAssumption DEF StoreTypes, KeptEncrypted, Undecrypted

-----------------------------------------------------------------------------
(* Every step writes the tables in one of the four ways.                   *)

LEMMA StepWritesStore ==
  ASSUME Control, [Next]_vars
  PROVE  StoreWrite
<1> USE DEF Control
<1>1. CASE Next
  <2>1. ASSUME NEW t \in Threads, record_if_edit(t) PROVE StoreWrite
    <3>1. PICK x \in edits[t] : record_edit(x)
      BY <2>1 DEF record_if_edit
    <3>2. x \in Events /\ Kind[x] = "edit"
      BY DEF TypeOK, Staging
    <3> QED BY <3>1, <3>2 DEF StoreWrite
  <2>2. ASSUME NEW c \in Clients, store_event(c) PROVE StoreWrite
    <3>1. c \in Threads BY DEF Threads
    <3>2. /\ plain[c] \in SUBSET Events /\ locked[c] \in SUBSET Events
          /\ plain[c] \cap locked[c] = {}
          /\ \A e \in locked[c] : Session[e] # Clear
      BY <3>1 DEF TypeOK, Staging
    <3> QED BY <2>2, <3>2 DEF store_event, StoreWrite
  <2>3. ASSUME store_batch \/ store_batch_fails PROVE StoreWrite
    <3>1. Sync \in Threads BY DEF Threads
    <3>2. /\ plain[Sync] \in SUBSET Events /\ locked[Sync] \in SUBSET Events
          /\ plain[Sync] \cap locked[Sync] = {}
          /\ \A e \in locked[Sync] : Session[e] # Clear
      BY <3>1 DEF TypeOK, Staging
    <3>3. CASE store_batch
      BY <3>2, <3>3 DEF store_batch, StoreWrite
    <3>4. CASE store_batch_fails
      <4>1. PICK P \in SUBSET plain[Sync], L \in SUBSET locked[Sync] :
              insert_message(P, L)
        BY <3>4 DEF store_batch_fails
      <4>2. /\ P \in SUBSET Events /\ L \in SUBSET Events /\ P \cap L = {}
            /\ \A e \in L : Session[e] # Clear
        BY <3>2
      <4> QED BY <4>1, <4>2 DEF StoreWrite
    <3> QED BY <2>3, <3>3, <3>4
  <2>4. ASSUME NEW c \in Clients, upgrade(c) PROVE StoreWrite
    <3>1. PICK e \in plain[c] : upgrade_message(e)
      BY <2>4 DEF upgrade
    <3>2. e \in Events
      BY DEF TypeOK, Threads
    <3> QED BY <3>1, <3>2 DEF StoreWrite
  <2>5. ASSUME sync_once \/ handle_to_device \/ save_sync_token
               \/ process_sync_fails \/ restart
        PROVE  UNCHANGED store
    BY <2>5 DEF sync_once, handle_to_device, save_sync_token,
                process_sync_fails, restart
  <2>6. ASSUME NEW t \in Threads, NEW e \in Events, convert_event(t, e)
        PROVE  UNCHANGED store
    BY <2>6 DEF convert_event
  <2>7. ASSUME NEW c \in Clients,
               \/ do_load_older(c) \/ repair_room(c) \/ do_backup_key(c)
               \/ skip_event(c) \/ converted(c) \/ refetch_placeholders(c)
               \/ restore_room(c) \/ all_looked_up(c)
               \/ backup_fetch_fails(c) \/ all_retried(c)
               \/ \E s \in Sessions : import_backup_session(c, s)
               \/ \E e \in Events : retry_decrypt(c, e)
        PROVE  UNCHANGED store
    BY <2>7 DEF do_load_older, repair_room, do_backup_key, skip_event,
                converted, refetch_placeholders, restore_room, all_looked_up,
                backup_fetch_fails, all_retried, import_backup_session,
                retry_decrypt
  <2>8. Sync \in Threads /\ Clients \subseteq Threads
    BY DEF Threads
  <2> QED
    BY <1>1, <2>1, <2>2, <2>3, <2>4, <2>5, <2>6, <2>7, <2>8
    DEF Next, SyncStep, ClientStep, Request, Fault, StoreWrite
<1>2. CASE UNCHANGED vars
  BY <1>2 DEF vars, StoreWrite
<1> QED BY <1>1, <1>2

LEMMA StoreTypesStep ==
  ASSUME Control, [Next]_vars
  PROVE  StoreTypes' /\ KeptEncrypted'
<1>1. StoreTypes BY TypeParts DEF Control
<1>2. KeptEncrypted BY DEF Control
<1>3. StoreWrite BY StepWritesStore
<1>4. ASSUME NEW P \in SUBSET Events, NEW L \in SUBSET Events,
             \A e \in L : Session[e] # Clear, insert_message(P, L)
      PROVE  StoreTypes' /\ KeptEncrypted'
  <2>1. StoreTypes' BY <1>1, <1>4, InsertTypes
  <2> QED BY <1>2, <1>4, <2>1 DEF insert_message, KeptEncrypted
<1>5. ASSUME NEW e \in Events, upgrade_message(e)
      PROVE  StoreTypes' /\ KeptEncrypted'
  <2>1. StoreTypes' BY <1>1, <1>5, UpgradeTypes
  <2> QED BY <1>2, <1>5, <2>1 DEF upgrade_message, store, KeptEncrypted
<1>6. ASSUME NEW x \in Events, record_edit(x)
      PROVE  StoreTypes' /\ KeptEncrypted'
  <2>1. StoreTypes' BY <1>1, <1>6, RecordTypes
  <2> QED BY <1>2, <1>6, <2>1 DEF record_edit, KeptEncrypted
<1>7. ASSUME UNCHANGED store PROVE StoreTypes' /\ KeptEncrypted'
  BY <1>1, <1>2, <1>7 DEF store, StoreTypes, KeptEncrypted
<1> QED BY <1>3, <1>4, <1>5, <1>6, <1>7 DEF StoreWrite

-----------------------------------------------------------------------------
(* The threads' locals, action by action.                                  *)

Locals == RestTypes /\ Staging /\ Phases

LEMMA SyncLocals ==
  ASSUME Control, SyncStep \/ store_batch_fails \/ process_sync_fails
  PROVE  Locals'
<1> USE TypeParts DEF Control
<1>0. Sync \in Threads BY DEF Threads
<1>1. ASSUME sync_once PROVE Locals'
  BY <1>0, <1>1, KeyAssumption
  DEF sync_once, Locals, RestTypes, Staging, Phases, Converting,
      store, crypto, convert, restore
<1>2. ASSUME handle_to_device PROVE Locals'
  <2>1. held' \in [Sessions -> 0 .. Unknown]
    BY <1>2, ShareTypes DEF handle_to_device, RestTypes
  <2> QED
    BY <1>0, <1>2, <2>1
    DEF handle_to_device, Locals, RestTypes, Staging, Phases, Converting,
        store, server, restore
<1>3. ASSUME NEW e \in Events, convert_event(Sync, e) PROVE Locals'
  BY <1>0, <1>3
  DEF convert_event, ReadyToConvert, Readable, Locals, RestTypes, Staging,
      Phases, Converting, store, crypto, server, restore
<1>4. ASSUME record_if_edit(Sync) PROVE Locals'
  BY <1>0, <1>4
  DEF record_if_edit, Locals, RestTypes, Staging, Phases, Converting,
      crypto, server, restore
<1>5. ASSUME store_batch PROVE Locals'
  BY <1>0, <1>5
  DEF store_batch, BatchConverted, Settle, Locals, RestTypes, Staging, Phases,
      Converting, crypto, server, restore
<1>6. ASSUME save_sync_token PROVE Locals'
  BY <1>0, <1>6
  DEF save_sync_token, Locals, RestTypes, Staging, Phases, Converting,
      store, crypto, convert, restore
<1>7. ASSUME store_batch_fails PROVE Locals'
  BY <1>0, <1>7
  DEF store_batch_fails, BatchConverted, Settle, Locals, RestTypes, Staging,
      Phases, Converting, crypto, restore
<1>8. ASSUME process_sync_fails PROVE Locals'
  BY <1>0, <1>8
  DEF process_sync_fails, Settle, Locals, RestTypes, Staging, Phases,
      Converting, store, crypto, restore
<1> QED
  BY <1>1, <1>2, <1>3, <1>4, <1>5, <1>6, <1>7, <1>8 DEF SyncStep

LEMMA ConvertLocals ==
  ASSUME Control, NEW c \in Clients,
         \/ \E e \in Events : convert_event(c, e)
         \/ record_if_edit(c) \/ store_event(c) \/ converted(c)
         \/ refetch_placeholders(c) \/ skip_event(c)
         \/ Request(c)
  PROVE  Locals'
<1> USE TypeParts DEF Control
<1>0. c \in Threads /\ c # Sync BY ThreadAssumption DEF Threads
<1>1. ASSUME NEW e \in Events, convert_event(c, e) PROVE Locals'
  BY <1>0, <1>1
  DEF convert_event, ReadyToConvert, Readable, Locals, RestTypes, Staging,
      Phases, Converting, store, crypto, server, restore
<1>2. ASSUME record_if_edit(c) PROVE Locals'
  BY <1>0, <1>2
  DEF record_if_edit, Locals, RestTypes, Staging, Phases, Converting,
      crypto, server, restore
<1>3. ASSUME store_event(c) PROVE Locals'
  BY <1>0, <1>3
  DEF store_event, Settle, Locals, RestTypes, Staging, Phases, Converting,
      crypto, server
<1>4. ASSUME converted(c) PROVE Locals'
  BY <1>0, <1>4
  DEF converted, ReadyToConvert, Goto, Locals, RestTypes, Staging, Phases,
      Converting, store, crypto, server, convert
<1>5. ASSUME refetch_placeholders(c) PROVE Locals'
  <2>1. Placeholders \in SUBSET Events
    BY DEF Placeholders, StoreTypes
  <2> QED
    BY <1>0, <1>5, <2>1
    DEF refetch_placeholders, Goto, Locals, RestTypes, Staging, Phases,
        Converting, store, crypto, server, restore
<1>6. ASSUME skip_event(c) PROVE Locals'
  BY <1>0, <1>6
  DEF skip_event, ReadyToConvert, Locals, RestTypes, Staging, Phases,
      Converting, store, crypto, server, restore
<1>7. ASSUME do_load_older(c) PROVE Locals'
  BY <1>0, <1>7
  DEF do_load_older, Goto, Locals, RestTypes, Staging, Phases, Converting,
      store, crypto, server
<1>8. ASSUME repair_room(c) PROVE Locals'
  BY <1>0, <1>8
  DEF repair_room, Goto, Locals, RestTypes, Staging, Phases, Converting,
      store, crypto, server, convert
<1>9. ASSUME do_backup_key(c) PROVE Locals'
  BY <1>0, <1>9
  DEF do_backup_key, Goto, Locals, RestTypes, Staging, Phases, Converting,
      store, server, convert, restore
<1> QED
  BY <1>1, <1>2, <1>3, <1>4, <1>5, <1>6, <1>7, <1>8, <1>9 DEF Request

LEMMA RestoreLocals ==
  ASSUME Control, NEW c \in Clients,
         \/ restore_room(c) \/ all_looked_up(c) \/ backup_fetch_fails(c)
         \/ \E s \in Sessions : import_backup_session(c, s)
         \/ \E e \in Events : retry_decrypt(c, e)
         \/ upgrade(c) \/ all_retried(c)
  PROVE  Locals'
<1> USE TypeParts DEF Control
<1>0. c \in Threads BY DEF Threads
<1>1. ASSUME restore_room(c) PROVE Locals'
  <2>1. /\ Undecrypted \in SUBSET Events
        /\ {Session[e] : e \in Undecrypted} \in SUBSET Sessions
    BY UndecryptedSessions DEF Undecrypted, StoreTypes
  <2> QED
    BY <1>0, <1>1, <2>1
    DEF restore_room, restore_done, Goto, Locals, RestTypes, Staging, Phases,
        Converting, store, crypto, server, convert
<1>2. ASSUME all_looked_up(c) PROVE Locals'
  BY <1>0, <1>2
  DEF all_looked_up, restore_done, Goto, Locals, RestTypes, Staging, Phases,
      Converting, store, crypto, server, convert
<1>3. ASSUME backup_fetch_fails(c) PROVE Locals'
  BY <1>0, <1>3
  DEF backup_fetch_fails, Locals, RestTypes, Staging, Phases, Converting,
      store, crypto, server, convert
<1>4. ASSUME NEW s \in Sessions, import_backup_session(c, s) PROVE Locals'
  <2>1. held' \in [Sessions -> 0 .. Unknown]
    BY <1>4, KeyAssumption DEF import_backup_session, RestTypes
  <2> QED
    BY <1>0, <1>4, <2>1
    DEF import_backup_session, Locals, RestTypes, Staging, Phases, Converting,
        store, server, convert
<1>5. ASSUME NEW e \in Events, retry_decrypt(c, e) PROVE Locals'
  BY <1>0, <1>5
  DEF retry_decrypt, Readable, Locals, RestTypes, Staging, Phases, Converting,
      store, crypto, server
<1>6. ASSUME upgrade(c) PROVE Locals'
  BY <1>0, <1>6
  DEF upgrade, Locals, RestTypes, Staging, Phases, Converting,
      crypto, server, restore
<1>7. ASSUME all_retried(c) PROVE Locals'
  BY <1>0, <1>7
  DEF all_retried, restore_done, Goto, Locals, RestTypes, Staging, Phases,
      Converting, store, crypto, server, convert
<1> QED BY <1>1, <1>2, <1>3, <1>4, <1>5, <1>6, <1>7

LEMMA ControlStep == Control /\ [Next]_vars => Control'
<1> SUFFICES ASSUME Control, [Next]_vars PROVE Control'
  OBVIOUS
<1>1. Locals'
  <2>1. CASE restart
    BY <2>1, TypeParts
    DEF restart, Control, Locals, RestTypes, Staging, Phases, crypto
  <2>2. CASE UNCHANGED vars
    BY <2>2, TypeParts
    DEF vars, crypto, server, convert, restore, Control, Locals, RestTypes,
        Staging, Phases, Converting
  <2> QED
    BY <2>1, <2>2, SyncLocals, ConvertLocals, RestoreLocals
    DEF Next, ClientStep, Fault
<1>2. StoreTypes' /\ KeptEncrypted' BY StoreTypesStep
<1>3. TypeOK' BY <1>1, <1>2 DEF TypeOK, StoreTypes, RestTypes, Locals
<1> QED BY <1>1, <1>2, <1>3 DEF Control, Locals

LEMMA ControlInit == Init => Control
<1> SUFFICES ASSUME Init PROVE Control
  OBVIOUS
<1>1. StoreTypes
  <2>1. stored \in SUBSET Events /\ decrypted = {} /\ kept = {}
    BY KeyAssumption DEF Init
  <2>2. body \in [Events -> Bodies] /\ newest \in [Events -> Events \cup {None}]
    BY BodyTypes DEF Init
  <2> QED BY <2>1, <2>2 DEF StoreTypes
<1>2. RestTypes
  <2>1. Unknown \in 0 .. Unknown
    BY EventAssumption
  <2>2. held \in [Sessions -> 0 .. Unknown] /\ backupKey \in BOOLEAN
    BY <2>1 DEF Init
  <2>3. /\ delivered \in SUBSET Events /\ taken \in SUBSET Shares
        /\ batch \in SUBSET Events /\ share \in SUBSET Shares
    BY DEF Init
  <2>4. /\ pending \in [Threads -> SUBSET Events]
        /\ todo \in [Threads -> SUBSET Events]
        /\ plain \in [Threads -> SUBSET Events]
        /\ locked \in [Threads -> SUBSET Events]
        /\ edits \in [Threads -> SUBSET Events]
        /\ wanted \in [Threads -> SUBSET Sessions]
    BY DEF Init
  <2>5. /\ pc \in [Threads -> {"idle", "todevice", "convert", "token",
                               "restore", "refetch", "refetching", "import",
                               "retry"}]
        /\ imported \in [Threads -> BOOLEAN]
        /\ again \in [Threads -> BOOLEAN]
        /\ next \in [Threads -> {"idle", "refetch"}]
    BY DEF Init
  <2> QED BY <2>2, <2>3, <2>4, <2>5 DEF RestTypes
<1>3. KeptEncrypted /\ Staging /\ Phases
  BY DEF Init, KeptEncrypted, Staging, Phases
<1> QED BY <1>1, <1>2, <1>3, TypeParts DEF Control

-----------------------------------------------------------------------------
(* The tables.                                                             *)

LEMMA StoreInvStep == Control /\ StoreInv /\ [Next]_vars => StoreInv'
<1> SUFFICES ASSUME Control, StoreInv, [Next]_vars PROVE StoreInv'
  OBVIOUS
<1>0. StoreTypes BY TypeParts DEF Control
<1>1. StoreWrite BY StepWritesStore
<1>2. ASSUME NEW P \in SUBSET Events, NEW L \in SUBSET Events,
             P \cap L = {}, insert_message(P, L)
      PROVE  StoreInv'
  <2>1. EditOutranks'
    BY <1>0, <1>2 DEF StoreInv, EditOutranks, insert_message, StoreTypes, Text
  <2>2. ReadableRowIsCurrent'
    <3> SUFFICES ASSUME NEW e \in stored' \cap decrypted', Kind[e] = "text"
                 PROVE  body'[e] = IF newest'[e] = None THEN Text(e)
                                   ELSE Text(newest'[e])
      BY DEF ReadableRowIsCurrent, Text
    <3>1. newest' = newest /\ e \in Events
      BY <1>0, <1>2 DEF insert_message, StoreTypes
    <3>2. CASE e \in P
      BY <1>2, <3>1, <3>2 DEF insert_message
    <3>3. CASE e \notin P
      <4>1. e \notin L /\ e \in decrypted /\ e \in stored
        BY <1>2, <3>3 DEF insert_message
      <4>2. body'[e] = body[e]
        BY <1>2, <3>1, <3>3, <4>1 DEF insert_message
      <4> QED BY <3>1, <4>1, <4>2 DEF StoreInv, ReadableRowIsCurrent
    <3> QED BY <3>2, <3>3
  <2>3. LockedRowKeepsCiphertext'
    BY <1>2 DEF StoreInv, LockedRowKeepsCiphertext, Placeholders, insert_message
  <2> QED BY <2>1, <2>2, <2>3 DEF StoreInv
<1>3. ASSUME NEW e \in Events, upgrade_message(e) PROVE StoreInv'
  <2>1. EditOutranks'
    BY <1>0, <1>3
    DEF StoreInv, EditOutranks, upgrade_message, store, StoreTypes, Text
  <2>2. ReadableRowIsCurrent'
    BY <1>0, <1>3
    DEF StoreInv, ReadableRowIsCurrent, upgrade_message, store, RecoveredBody,
        StoreTypes, Text
  <2>3. LockedRowKeepsCiphertext'
    BY <1>3 DEF StoreInv, LockedRowKeepsCiphertext, Placeholders,
        upgrade_message, store
  <2> QED BY <2>1, <2>2, <2>3 DEF StoreInv
<1>4. ASSUME NEW x \in Events, record_edit(x) PROVE StoreInv'
  <2>0. Target[x] \in Events /\ x # None
    BY EventAssumption
  <2>1. EditOutranks'
    BY <1>0, <1>4, <2>0
    DEF StoreInv, EditOutranks, record_edit, StoreTypes, Text
  <2>2. ReadableRowIsCurrent'
    BY <1>0, <1>4, <2>0
    DEF StoreInv, ReadableRowIsCurrent, record_edit, StoreTypes, Text
  <2>3. LockedRowKeepsCiphertext'
    BY <1>4 DEF StoreInv, LockedRowKeepsCiphertext, Placeholders, record_edit
  <2> QED BY <2>1, <2>2, <2>3 DEF StoreInv
<1>5. ASSUME UNCHANGED store PROVE StoreInv'
  BY <1>5 DEF store, StoreInv, EditOutranks, ReadableRowIsCurrent,
              LockedRowKeepsCiphertext, Placeholders
<1> QED BY <1>1, <1>2, <1>3, <1>4, <1>5 DEF StoreWrite

LEMMA StoreInvInit == Init => StoreInv
BY KeyAssumption
DEF Init, StoreInv, EditOutranks, ReadableRowIsCurrent,
    LockedRowKeepsCiphertext, Placeholders

-----------------------------------------------------------------------------
(* What a step writes stays accounted for.                                 *)

EditAdvances ==
  \A e \in Events :
    newest[e] # None =>
      newest'[e] # None /\ Ts[newest'[e]] >= Ts[newest[e]]

LEMMA EditsAdvance ==
  ASSUME Control, [Next]_vars
  PROVE  EditAdvances /\ stored \subseteq stored'
<1>0. StoreTypes BY TypeParts DEF Control
<1>1. StoreWrite BY StepWritesStore
<1>2. \A e \in Events : newest[e] # None => Ts[newest[e]] \in Nat
  BY <1>0, EventAssumption DEF StoreTypes
<1>3. ASSUME NEW x \in Events, record_edit(x) PROVE EditAdvances
  <2>1. Target[x] \in Events /\ x # None /\ Ts[x] \in Nat
    BY EventAssumption
  <2> QED
    BY <1>0, <1>2, <1>3, <2>1
    DEF record_edit, Supersedes, EditAdvances, StoreTypes
<1>4. ASSUME newest' = newest PROVE EditAdvances
  BY <1>2, <1>4 DEF EditAdvances
<1> QED
  BY <1>1, <1>3, <1>4
  DEF StoreWrite, insert_message, upgrade_message, record_edit, store

LEMMA StaysAccountedFor ==
  ASSUME Control, [Next]_vars, NEW e \in Events, AccountedFor(e)
  PROVE  AccountedFor(e)'
<1>1. EditAdvances /\ stored \subseteq stored' BY EditsAdvance
<1>2. StoreTypes /\ StoreTypes'
  BY StoreTypesStep, TypeParts DEF Control
<1>3. Target[e] \in Events /\ Ts[e] \in Nat BY EventAssumption
<1>4. newest[Target[e]] # None => Ts[newest[Target[e]]] \in Nat
  BY <1>2, <1>3, EventAssumption DEF StoreTypes
<1>5. newest'[Target[e]] # None => Ts[newest'[Target[e]]] \in Nat
  BY <1>2, <1>3, EventAssumption DEF StoreTypes
<1> QED BY <1>1, <1>3, <1>4, <1>5 DEF EditAdvances, AccountedFor

LEMMA RecordedIsAccountedFor ==
  ASSUME StoreTypes, NEW x \in Events, Kind[x] = "edit", record_edit(x)
  PROVE  AccountedFor(x)'
<1>1. Target[x] \in Events /\ x # None /\ Ts[x] \in Nat BY EventAssumption
<1>2. newest[Target[x]] # None => Ts[newest[Target[x]]] \in Nat
  BY <1>1, EventAssumption DEF StoreTypes
<1> QED
  BY <1>1, <1>2 DEF record_edit, Supersedes, AccountedFor, StoreTypes

(* Until the token is saved, every step but the thread's own only adds to  *)
(* what is accounted for; its own move an event along.                     *)
LEMMA BatchStep ==
  ASSUME Control, BatchAccounted, NothingSkipped, [Next]_vars
  PROVE  BatchAccounted' /\ NothingSkipped'
<1>0. Sync \in Threads /\ Sync \notin Clients
  BY ThreadAssumption DEF Threads
<1>1. StoreTypes /\ RestTypes BY TypeParts DEF Control
<1>2. \A e \in Events : AccountedFor(e) => AccountedFor(e)'
  BY StaysAccountedFor
<1> DEFINE Staged == todo[Sync] \cup plain[Sync] \cup locked[Sync] \cup edits[Sync]
<1>3. ASSUME batch' = batch, pc'[Sync] = pc[Sync], delivered' = delivered,
             \A e \in batch : e \in Staged => e \in Staged' \/ AccountedFor(e)'
      PROVE  BatchAccounted' /\ NothingSkipped'
  BY <1>1, <1>2, <1>3 DEF BatchAccounted, NothingSkipped, RestTypes
<1>4. ASSUME pc'[Sync] \notin {"convert", "token"}, delivered' = delivered
      PROVE  BatchAccounted' /\ NothingSkipped'
  BY <1>1, <1>2, <1>4 DEF BatchAccounted, NothingSkipped, RestTypes
<1>5. CASE sync_once \/ process_sync_fails \/ restart \/ store_batch_fails
  BY <1>0, <1>1, <1>4, <1>5
  DEF sync_once, process_sync_fails, restart, store_batch_fails, Settle,
      RestTypes
<1>6. CASE handle_to_device
  BY <1>0, <1>1, <1>2, <1>6
  DEF handle_to_device, server, BatchAccounted, NothingSkipped, RestTypes
<1>7. ASSUME NEW e \in Events, convert_event(Sync, e)
      PROVE  BatchAccounted' /\ NothingSkipped'
  <2>1. Kind[e] \in {"text", "edit", "blank"} BY EventAssumption
  <2>2. ~ Readable(e) => e \in locked'[Sync]
    BY <1>0, <1>1, <1>7 DEF convert_event, RestTypes
  <2>3. Readable(e) /\ Kind[e] = "text" => e \in plain'[Sync]
    BY <1>0, <1>1, <1>7 DEF convert_event, RestTypes
  <2>4. Readable(e) /\ Kind[e] = "edit" => e \in edits'[Sync]
    BY <1>0, <1>1, <1>7 DEF convert_event, RestTypes
  <2>5. Kind[e] = "blank" => AccountedFor(e)'
    BY DEF AccountedFor
  <2>6. e \in Staged' \/ AccountedFor(e)'
    BY <2>1, <2>2, <2>3, <2>4, <2>5
  <2>7. \A f \in Staged : f # e => f \in Staged'
    BY <1>0, <1>1, <1>7 DEF convert_event, RestTypes
  <2> QED
    BY <1>3, <1>7, <2>6, <2>7 DEF convert_event, server
<1>8. CASE record_if_edit(Sync)
  <2>1. PICK x \in edits[Sync] :
          record_edit(x) /\ edits' = [edits EXCEPT ![Sync] = @ \ {x}]
    BY <1>8 DEF record_if_edit
  <2>2. x \in Events /\ Kind[x] = "edit"
    BY <1>0, <1>1 DEF Control, Staging, RestTypes
  <2>3. AccountedFor(x)' BY <1>1, <2>1, <2>2, RecordedIsAccountedFor
  <2>4. \A f \in Staged : f # x => f \in Staged'
    BY <1>0, <1>1, <1>8, <2>1 DEF record_if_edit, RestTypes
  <2> QED
    BY <1>3, <1>8, <2>3, <2>4 DEF record_if_edit, server
<1>9. CASE store_batch
  <2>1. /\ todo[Sync] = {} /\ edits[Sync] = {} /\ pc[Sync] = "convert"
        /\ pc'[Sync] = "token" /\ batch' = batch /\ delivered' = delivered
        /\ stored' = stored \cup plain[Sync] \cup locked[Sync]
    BY <1>0, <1>1, <1>9
    DEF store_batch, BatchConverted, Settle, server, insert_message, RestTypes
  <2>2. \A x \in edits[Sync] : Kind[x] = "edit"
    BY <1>0 DEF Control, Staging
  <2>3. \A e \in Events : e \in stored' => AccountedFor(e)'
    BY EventAssumption DEF AccountedFor
  <2>4. \A e \in batch : AccountedFor(e)'
    BY <1>1, <1>2, <2>1, <2>3 DEF BatchAccounted, RestTypes
  <2> QED
    BY <1>1, <1>2, <2>1, <2>4 DEF BatchAccounted, NothingSkipped, RestTypes
<1>10. CASE save_sync_token
  BY <1>0, <1>1, <1>2, <1>10
  DEF save_sync_token, BatchAccounted, NothingSkipped, RestTypes
<1>11. ASSUME NEW c \in Clients, ClientStep(c) \/ Request(c)
              \/ skip_event(c) \/ backup_fetch_fails(c)
       PROVE  BatchAccounted' /\ NothingSkipped'
  <2>1. c # Sync BY <1>0
  <2>2. /\ batch' = batch /\ delivered' = delivered /\ pc'[Sync] = pc[Sync]
        /\ todo'[Sync] = todo[Sync] /\ plain'[Sync] = plain[Sync]
        /\ locked'[Sync] = locked[Sync] /\ edits'[Sync] = edits[Sync]
    <3>1. CASE \/ \E e \in Events : convert_event(c, e)
               \/ record_if_edit(c) \/ store_event(c) \/ converted(c)
               \/ refetch_placeholders(c) \/ skip_event(c) \/ Request(c)
      BY <1>0, <1>1, <2>1, <3>1
      DEF convert_event, record_if_edit, store_event, converted,
          refetch_placeholders, skip_event, Request, do_load_older,
          repair_room, do_backup_key, Settle, Goto, server, convert, RestTypes
    <3>2. CASE \/ restore_room(c) \/ all_looked_up(c) \/ backup_fetch_fails(c)
               \/ \E s \in Sessions : import_backup_session(c, s)
               \/ \E e \in Events : retry_decrypt(c, e)
               \/ upgrade(c) \/ all_retried(c)
      BY <1>0, <1>1, <2>1, <3>2
      DEF restore_room, all_looked_up, backup_fetch_fails,
          import_backup_session, retry_decrypt, upgrade, all_retried,
          restore_done, Goto, server, convert, RestTypes
    <3> QED BY <1>11, <3>1, <3>2 DEF ClientStep
  <2> QED BY <1>3, <2>2
<1>12. CASE UNCHANGED vars
  BY <1>1, <1>2, <1>12
  DEF vars, server, convert, BatchAccounted, NothingSkipped, RestTypes
<1> QED
  BY <1>5, <1>6, <1>7, <1>8, <1>9, <1>10, <1>11, <1>12
  DEF Next, SyncStep, Fault

-----------------------------------------------------------------------------
(* The theorems.                                                           *)

IInv == Control /\ StoreInv /\ BatchAccounted /\ NothingSkipped

LEMMA IInvInit == Init => IInv
<1>1. Init => BatchAccounted /\ NothingSkipped
  BY DEF Init, BatchAccounted, NothingSkipped, Threads
<1> QED BY <1>1, ControlInit, StoreInvInit DEF IInv

LEMMA IInvStep == IInv /\ [Next]_vars => IInv'
BY ControlStep, StoreInvStep, BatchStep DEF IInv

LEMMA Invariance == Spec => []IInv
BY IInvInit, IInvStep, PTL DEF Spec

(* Every variable keeps its type.                                          *)
THEOREM TypeCorrect == Spec => []TypeOK
<1>1. IInv => TypeOK BY DEF IInv, Control
<1> QED BY <1>1, Invariance, PTL

(* A stored message always displays the recorded edit of it.               *)
THEOREM EditOutranksAlways == Spec => []EditOutranks
<1>1. IInv => EditOutranks BY DEF IInv, StoreInv
<1> QED BY <1>1, Invariance, PTL

(* A readable ordinary row displays its own text or the newest edit of it. *)
THEOREM ReadableRowIsCurrentAlways == Spec => []ReadableRowIsCurrent
<1>1. IInv => ReadableRowIsCurrent BY DEF IInv, StoreInv
<1> QED BY <1>1, Invariance, PTL

(* Only rows of an older version are locked without their ciphertext.      *)
THEOREM LockedRowKeepsCiphertextAlways == Spec => []LockedRowKeepsCiphertext
<1>1. IInv => LockedRowKeepsCiphertext BY DEF IInv, StoreInv
<1> QED BY <1>1, Invariance, PTL

(* The saved sync token never moves past an event that is not accounted    *)
(* for, whatever fails, and however often batches are handed out again.    *)
THEOREM NothingSkippedAlways == Spec => []NothingSkipped
<1>1. IInv => NothingSkipped BY DEF IInv
<1> QED BY <1>1, Invariance, PTL

(* A recorded edit only gives way to one at least as new.                  *)
THEOREM EditsOnlyAdvanceAlways == Spec => EditsOnlyAdvance
<1>1. IInv /\ [Next]_vars => [EditAdvances]_vars
  BY EditsAdvance DEF IInv
<1> QED BY <1>1, Invariance, PTL DEF Spec, EditsOnlyAdvance, EditAdvances

(* Ciphertext is dropped only by the step that makes its row readable.     *)
THEOREM CiphertextOutlivesLockAlways == Spec => CiphertextOutlivesLock
<1>1. Control /\ [Next]_vars => [kept \subseteq kept' \cup decrypted']_vars
  <2> SUFFICES ASSUME Control, [Next]_vars
               PROVE  kept \subseteq kept' \cup decrypted'
    OBVIOUS
  <2>1. StoreWrite BY StepWritesStore
  <2> QED
    BY <2>1
    DEF StoreWrite, insert_message, upgrade_message, record_edit, store
<1>2. IInv => Control BY DEF IInv
<1> QED BY <1>1, <1>2, Invariance, PTL DEF Spec, CiphertextOutlivesLock

(* The tables implement the register of EditRegister: every step of the    *)
(* daemon writes texts, records an edit, or leaves the register alone.     *)
THEOREM Refinement == Spec => EditsAreRegister
<1>1. Init => Register!Init
  <2>1. Init => StoreTypes BY ControlInit, TypeParts DEF Control
  <2> QED BY <2>1 DEF Init, Register!Init, StoreTypes
<1>2. IInv /\ [Next]_vars => [Register!Next]_(Register!regs)
  <2> SUFFICES ASSUME IInv, [Next]_vars
               PROVE  Register!Next \/ UNCHANGED Register!regs
    OBVIOUS
  <2>1. Control BY DEF IInv
  <2>2. StoreTypes /\ StoreTypes' BY <2>1, StoreTypesStep, TypeParts DEF Control
  <2>3. EditOutranks BY DEF IInv, StoreInv
  <2>4. StoreWrite BY <2>1, StepWritesStore
  <2>5. ASSUME NEW P \in SUBSET Events, NEW L \in SUBSET Events,
               insert_message(P, L)
        PROVE  Register!Next
    <3>1. Register!Write(P \cup L)
      BY <2>2, <2>5 DEF Register!Write, insert_message, StoreTypes
    <3>2. P \cup L \in SUBSET Events OBVIOUS
    <3> QED BY <3>1, <3>2 DEF Register!Next
  <2>6. ASSUME NEW e \in Events, upgrade_message(e)
        PROVE  Register!Next \/ UNCHANGED Register!regs
    <3>1. CASE e \in stored
      <4>1. Register!Write({e})
        BY <2>2, <2>6, <3>1
        DEF Register!Write, upgrade_message, StoreTypes, Text
      <4> QED BY <4>1 DEF Register!Next
    <3>2. CASE e \notin stored
      BY <2>6, <3>2 DEF upgrade_message, store, Register!regs
    <3> QED BY <3>1, <3>2
  <2>7. ASSUME NEW x \in Events, record_edit(x)
        PROVE  Register!Next \/ UNCHANGED Register!regs
    <3>0. Target[x] \in Events BY EventAssumption
    <3>1. CASE Supersedes(x)
      <4>1. Register!Edit(Target[x], x)
        BY <2>7, <3>1 DEF Register!Edit, record_edit, Supersedes
      <4> QED BY <3>0, <4>1 DEF Register!Next
    <3>2. CASE ~ Supersedes(x)
      BY <2>7, <3>2 DEF record_edit, Register!regs
    <3> QED BY <3>1, <3>2
  <2>8. ASSUME UNCHANGED store PROVE UNCHANGED Register!regs
    BY <2>8 DEF store, Register!regs
  <2> QED BY <2>4, <2>5, <2>6, <2>7, <2>8 DEF StoreWrite
<1> QED BY <1>1, <1>2, Invariance, PTL DEF Spec, EditsAreRegister
=============================================================================
