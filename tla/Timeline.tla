------------------------------ MODULE Timeline ------------------------------
(***************************************************************************)
(* One room's messages as the daemon stores them, and the threads that     *)
(* write them: the sync thread (main.rs sync_once, process_sync) and one   *)
(* thread per connected client (opening a room, loading older history,     *)
(* entering the key-backup key).  They share the store and the inbound     *)
(* Megolm sessions, each behind its own mutex; no mutex is held from the   *)
(* decryption of an event to the insertion of its row, and every such pair *)
(* of lock sections is a pair of actions here.                             *)
(*                                                                         *)
(* A Megolm session is the index its inbound half starts at: an event of   *)
(* the session can be decrypted from that index on.  Unknown stands for a  *)
(* session not held, which decrypts nothing.                               *)
(***************************************************************************)
EXTENDS Naturals, FiniteSets

CONSTANTS
  Events,    \* timeline events of the room, as the server holds them
  Sessions,  \* Megolm sessions
  Clients,   \* IPC client threads
  Sync,      \* the sync thread
  Clear,     \* the "session" of an event sent in the clear
  None,      \* no edit
  Kind,      \* "text", "edit", or "blank" (no body to render)
  Session,   \* the session an event is encrypted with, or Clear
  Index,     \* its position in that session's ratchet
  Target,    \* the event an edit replaces
  Ts,        \* origin_server_ts
  Unknown,   \* greater than every ratchet index
  Backup,    \* first index of the backed up copy of a session, or Unknown
  Shares,    \* room keys other devices send us: [session, first]
  PageLimit, \* events in a page of older history (the request's limit)
  SyncLimit, \* events in a sync batch (SYNC_FILTER's timeline limit)
  Legacy,    \* events an older version may have stored without ciphertext
  Faults     \* whether requests and transactions may fail and the daemon die

Threads == Clients \cup {Sync}

ASSUME ThreadAssumption == Sync \notin Clients
ASSUME EventAssumption ==
  /\ None \notin Events
  /\ Clear \notin Sessions
  /\ Unknown \in Nat
  /\ Kind \in [Events -> {"text", "edit", "blank"}]
  /\ Session \in [Events -> Sessions \cup {Clear}]
  /\ Index \in [Events -> Nat]
  /\ \A e \in Events : Index[e] < Unknown
  /\ Target \in [Events -> Events]
  /\ Ts \in [Events -> Nat]
ASSUME KeyAssumption ==
  /\ Backup \in [Sessions -> 0 .. Unknown]
  /\ Shares \in SUBSET [session : Sessions, first : 0 .. Unknown]
  /\ Legacy \in SUBSET {e \in Events : Session[e] # Clear}
  /\ PageLimit \in Nat /\ SyncLimit \in Nat
  /\ Faults \in BOOLEAN

VARIABLES
  (* the message and edit tables *)
  stored,     \* events with a row
  body,       \* message.body
  decrypted,  \* message.decrypted = 1
  kept,       \* message.ciphertext and session_id are not NULL
  newest,     \* the edit row of a target, or None
  (* Crypto, written under the same locks as its pickles *)
  held,       \* first_known_index of each inbound session
  backupKey,  \* the key-backup key has been entered
  (* what the saved sync_token has moved past *)
  delivered,  \* timeline events
  taken,      \* to-device room keys
  (* the batch in the sync thread's hands *)
  batch,
  share,
  (* each thread's locals *)
  pc,
  todo,       \* events still to convert
  plain,      \* converted or retried, readable, not yet written
  locked,     \* converted, undecryptable, not yet written
  edits,      \* recognised as edits, not yet recorded
  pending,    \* rows restore_room found locked
  wanted,     \* sessions restore_room has yet to look up
  imported,   \* restore_room imported one
  again,      \* try_restore_room runs once the events are converted
  next        \* where the request continues after restore_room

store   == <<stored, body, decrypted, kept, newest>>
crypto  == <<held, backupKey>>
server  == <<delivered, taken, batch, share>>
convert == <<todo, plain, locked, edits>>
restore == <<pending, wanted, imported, again, next>>
vars    == <<store, crypto, server, pc, convert, restore>>

-----------------------------------------------------------------------------
(* What a row can display: the text of an event, the "* new text" fallback *)
(* an edit carries for clients that cannot apply it, or the placeholder.   *)
Text(e)     == [of |-> e, form |-> "text"]
Fallback(e) == [of |-> e, form |-> "fallback"]
Placeholder == [of |-> None, form |-> "locked"]
Bodies      == [of : Events, form : {"text", "fallback"}] \cup {Placeholder}

Readable(e) == Session[e] = Clear \/ held[Session[e]] =< Index[e]

(* Rows with nothing left to retry, and rows restore_room can retry.       *)
Placeholders == (stored \ decrypted) \ kept
Undecrypted  == stored \cap kept

Init ==
  /\ stored \in SUBSET Legacy /\ decrypted = {} /\ kept = {}
  /\ body = [e \in Events |-> Placeholder]
  /\ newest = [e \in Events |-> None]
  /\ held = [s \in Sessions |-> Unknown] /\ backupKey = FALSE
  /\ delivered = {} /\ taken = {} /\ batch = {} /\ share = {}
  /\ pc = [t \in Threads |-> "idle"]
  /\ todo = [t \in Threads |-> {}]
  /\ plain = [t \in Threads |-> {}]
  /\ locked = [t \in Threads |-> {}]
  /\ edits = [t \in Threads |-> {}]
  /\ pending = [t \in Threads |-> {}]
  /\ wanted = [t \in Threads |-> {}]
  /\ imported = [t \in Threads |-> FALSE]
  /\ again = [t \in Threads |-> FALSE]
  /\ next = [t \in Threads |-> "idle"]

-----------------------------------------------------------------------------
(* Faulty forms of insert_message, for the mutants: the recorded edit is   *)
(* forgotten; a locked copy leaves the row marked readable.                *)
insert_message_unedited(P, L) ==
  /\ stored' = stored \cup P \cup L
  /\ body' = [e \in Events |-> IF e \in P THEN Text(e)
                               ELSE IF e \in L THEN Placeholder ELSE body[e]]
  /\ decrypted' = (decrypted \cup P) \ L
  /\ kept' = (kept \cup L) \ P
  /\ UNCHANGED newest

insert_message_sticky(P, L) ==
  /\ stored' = stored \cup P \cup L
  /\ body' = [e \in Events |->
                IF e \notin P \cup L THEN body[e]
                ELSE IF newest[e] # None THEN Text(newest[e])
                ELSE IF e \in P THEN Text(e) ELSE Placeholder]
  /\ decrypted' = decrypted \cup P
  /\ kept' = (kept \cup L) \ (P \cup decrypted)
  /\ UNCHANGED newest

(* Store::insert_message for the readable events P and the locked ones L:  *)
(* an existing row is overwritten, and a recorded edit outranks the body.  *)
insert_message(P, L) ==
  /\ stored' = stored \cup P \cup L
  /\ body' = [e \in Events |->
                IF e \notin P \cup L THEN body[e]
                ELSE IF newest[e] # None THEN Text(newest[e])
                ELSE IF e \in P THEN Text(e) ELSE Placeholder]
  /\ decrypted' = (decrypted \cup P) \ L
  /\ kept' = (kept \cup L) \ P
  /\ UNCHANGED newest

(* Store::upgrade_message: the recovered content.body, unless edited.  An  *)
(* edit's own top-level body is the fallback.                              *)
RecoveredBody(e) == IF Kind[e] = "edit" THEN Fallback(e) ELSE Text(e)

(* Faulty: the decrypted flag is left alone.                               *)
upgrade_message_unmarked(e) ==
  /\ e \in stored
  /\ body' = [body EXCEPT ![e] = IF newest[e] # None THEN Text(newest[e])
                                 ELSE RecoveredBody(e)]
  /\ kept' = kept \ {e}
  /\ UNCHANGED <<stored, newest, decrypted>>

upgrade_message(e) ==
  IF e \in stored
    THEN /\ body' = [body EXCEPT ![e] = IF newest[e] # None
                                         THEN Text(newest[e])
                                         ELSE RecoveredBody(e)]
         /\ decrypted' = decrypted \cup {e}
         /\ kept' = kept \ {e}
         /\ UNCHANGED <<stored, newest>>
    ELSE UNCHANGED store

(* Store::record_edit: the newest timestamp wins, ties go to the arrival,  *)
(* and the stored message changes in the same transaction.                 *)
Supersedes(x) == newest[Target[x]] # None => Ts[x] >= Ts[newest[Target[x]]]

(* Faulty: two columns swapped; the stored message not rewritten.          *)
record_edit_swapped(x) ==
  /\ Supersedes(x)
  /\ newest' = [newest EXCEPT ![Target[x]] = Ts[x]]
  /\ UNCHANGED <<body, stored, decrypted, kept>>

record_edit_alone(x) ==
  /\ Supersedes(x)
  /\ newest' = [newest EXCEPT ![Target[x]] = x]
  /\ UNCHANGED <<body, stored, decrypted, kept>>

record_edit(x) ==
  /\ IF Supersedes(x)
       THEN /\ newest' = [newest EXCEPT ![Target[x]] = x]
            /\ body' = [body EXCEPT ![Target[x]] =
                          IF Target[x] \in stored THEN Text(x) ELSE @]
       ELSE UNCHANGED <<newest, body>>
  /\ UNCHANGED <<stored, decrypted, kept>>

-----------------------------------------------------------------------------
(* convert_event, first lock section: decrypt.  Events that render nothing *)
(* end here; the others wait for their row or their edit to be written.  A *)
(* client writes each before it converts the next, the sync thread only    *)
(* its edits.                                                              *)
Converting == {"convert", "refetching"}

ReadyToConvert(t) ==
  /\ pc[t] \in Converting
  /\ edits[t] = {}
  /\ t # Sync => plain[t] \cup locked[t] = {}

convert_event(t, e) ==
  /\ ReadyToConvert(t) /\ e \in todo[t]
  /\ todo' = [todo EXCEPT ![t] = @ \ {e}]
  /\ plain' = [plain EXCEPT ![t] =
                 IF Readable(e) /\ Kind[e] = "text" THEN @ \cup {e} ELSE @]
  /\ edits' = [edits EXCEPT ![t] =
                 IF Readable(e) /\ Kind[e] = "edit" THEN @ \cup {e} ELSE @]
  /\ locked' = [locked EXCEPT ![t] = IF Readable(e) THEN @ ELSE @ \cup {e}]
  /\ UNCHANGED <<store, crypto, server, pc, restore>>

(* convert_event, second lock section, for an edit: record_if_edit.        *)
record_if_edit(t) ==
  /\ pc[t] \in Converting
  /\ \E x \in edits[t] :
       /\ record_edit(x)
       /\ edits' = [edits EXCEPT ![t] = @ \ {x}]
  /\ UNCHANGED <<crypto, server, pc, todo, plain, locked, restore>>

-----------------------------------------------------------------------------
(* The sync thread.  A batch is some of what the saved token has not moved *)
(* past; a batch that is not finished is handed out again.                 *)
OneKeyPerSession(K) == \A k, l \in K : k.session = l.session => k = l

sync_once ==
  /\ pc[Sync] = "idle"
  /\ \E B \in SUBSET (Events \ delivered), K \in SUBSET (Shares \ taken) :
       /\ B \cup K # {} /\ Cardinality(B) =< SyncLimit
       /\ OneKeyPerSession(K)
       /\ batch' = B /\ share' = K
  /\ pc' = [pc EXCEPT ![Sync] = "todevice"]
  /\ UNCHANGED <<store, crypto, delivered, taken, convert, restore>>

(* process_sync 1: to-device first.  An m.room_key replaces the session it *)
(* names whatever index was held; one whose pickle cannot be written is    *)
(* logged and dropped, and the token moves past it all the same.           *)
HeldAfter(K) == [s \in Sessions |->
                   IF \E k \in K : k.session = s
                   THEN (CHOOSE k \in K : k.session = s).first
                   ELSE held[s]]

handle_to_device ==
  /\ pc[Sync] = "todevice"
  /\ \E K \in SUBSET share :
       (~ Faults => K = share) /\ held' = HeldAfter(K)
  /\ todo' = [todo EXCEPT ![Sync] = batch]
  /\ pc' = [pc EXCEPT ![Sync] = "convert"]
  /\ UNCHANGED <<store, backupKey, server, plain, locked, edits, restore>>

(* process_sync 2: every row of the batch under one lock.                  *)
BatchConverted ==
  /\ pc[Sync] = "convert"
  /\ todo[Sync] = {} /\ edits[Sync] = {}

Settle(t, where) ==
  /\ pc' = [pc EXCEPT ![t] = where]
  /\ plain' = [plain EXCEPT ![t] = {}]
  /\ locked' = [locked EXCEPT ![t] = {}]

store_batch ==
  /\ BatchConverted
  /\ insert_message(plain[Sync], locked[Sync])
  /\ Settle(Sync, "token")
  /\ UNCHANGED <<crypto, server, todo, edits, restore>>

(* process_sync 3: the token moves only after the batch is stored.         *)
(* Faulty: before the rows.                                                *)
save_sync_token_early ==
  /\ pc[Sync] \in {"convert", "token"}
  /\ delivered' = delivered \cup batch
  /\ taken' = taken \cup share
  /\ UNCHANGED <<store, crypto, batch, share, pc, convert, restore>>

save_sync_token ==
  /\ pc[Sync] = "token"
  /\ delivered' = delivered \cup batch
  /\ taken' = taken \cup share
  /\ batch' = {} /\ share' = {}
  /\ pc' = [pc EXCEPT ![Sync] = "idle"]
  /\ UNCHANGED <<store, crypto, convert, restore>>

(* A failing row ends the batch with some of its rows committed, ...       *)
store_batch_fails ==
  /\ Faults /\ BatchConverted
  /\ \E P \in SUBSET plain[Sync], L \in SUBSET locked[Sync] :
       /\ P \cup L # plain[Sync] \cup locked[Sync]
       /\ insert_message(P, L)
  /\ Settle(Sync, "idle")
  /\ batch' = {} /\ share' = {}
  /\ UNCHANGED <<crypto, delivered, taken, todo, edits, restore>>

(* ... and any other error ends it where it stands.                        *)
process_sync_fails ==
  /\ Faults /\ pc[Sync] \in {"convert", "token"}
  /\ Settle(Sync, "idle")
  /\ todo' = [todo EXCEPT ![Sync] = {}]
  /\ edits' = [edits EXCEPT ![Sync] = {}]
  /\ batch' = {} /\ share' = {}
  /\ UNCHANGED <<store, crypto, delivered, taken, restore>>

-----------------------------------------------------------------------------
(* A client thread.                                                        *)
Goto(c, where) == pc' = [pc EXCEPT ![c] = where]

(* do_load_older: a page of events, then one attempt at the backup.        *)
do_load_older(c) ==
  /\ pc[c] = "idle"
  /\ \E P \in SUBSET Events :
       /\ Cardinality(P) =< PageLimit
       /\ todo' = [todo EXCEPT ![c] = P]
  /\ again' = [again EXCEPT ![c] = TRUE]
  /\ Goto(c, "convert")
  /\ UNCHANGED <<store, crypto, server, plain, locked, edits,
                 pending, wanted, imported, next>>

(* Request::Messages, repair_room: the backup, the placeholders, and the   *)
(* backup again if any came back.                                          *)
repair_room(c) ==
  /\ pc[c] = "idle"
  /\ next' = [next EXCEPT ![c] = "refetch"]
  /\ Goto(c, "restore")
  /\ UNCHANGED <<store, crypto, server, convert,
                 pending, wanted, imported, again>>

(* do_backup_key and handle_secret's adoption of the same key: do_backup_  *)
(* key goes on to restore the rooms on top of the list.                    *)
do_backup_key(c) ==
  /\ pc[c] = "idle"
  /\ backupKey' = TRUE
  /\ Goto(c, "restore")
  /\ UNCHANGED <<store, held, server, convert, restore>>

(* The row of the event just converted.                                    *)
store_event(c) ==
  /\ pc[c] \in Converting
  /\ plain[c] \cup locked[c] # {}
  /\ insert_message(plain[c], locked[c])
  /\ Settle(c, pc[c])
  /\ again' = [again EXCEPT ![c] = TRUE]
  /\ UNCHANGED <<crypto, server, todo, edits,
                 pending, wanted, imported, next>>

(* refetch_placeholders goes on when GET /event fails.                     *)
skip_event(c) ==
  /\ Faults /\ pc[c] = "refetching" /\ ReadyToConvert(c)
  /\ \E e \in todo[c] : todo' = [todo EXCEPT ![c] = @ \ {e}]
  /\ UNCHANGED <<store, crypto, server, pc, plain, locked, edits, restore>>

converted(c) ==
  /\ ReadyToConvert(c) /\ todo[c] = {}
  /\ again' = [again EXCEPT ![c] = FALSE]
  /\ Goto(c, IF again[c] THEN "restore" ELSE "idle")
  /\ UNCHANGED <<store, crypto, server, convert,
                 pending, wanted, imported, next>>

(* refetch_placeholders: the rows no room key can help.                    *)
refetch_placeholders(c) ==
  /\ pc[c] = "refetch"
  /\ todo' = [todo EXCEPT ![c] = Placeholders]
  /\ Goto(c, IF Placeholders = {} THEN "idle" ELSE "refetching")
  /\ UNCHANGED <<store, crypto, server, plain, locked, edits, restore>>

-----------------------------------------------------------------------------
(* try_restore_room and restore_room.                                      *)
restore_done(c) ==
  /\ Goto(c, next[c])
  /\ next' = [next EXCEPT ![c] = "idle"]

restore_room(c) ==
  /\ pc[c] = "restore"
  /\ imported' = [imported EXCEPT ![c] = FALSE]
  /\ IF backupKey /\ Undecrypted # {}
       THEN /\ pending' = [pending EXCEPT ![c] = Undecrypted]
            /\ wanted' = [wanted EXCEPT ![c] = {Session[e] : e \in Undecrypted}]
            /\ Goto(c, "import") /\ UNCHANGED next
       ELSE restore_done(c) /\ UNCHANGED <<pending, wanted>>
  /\ UNCHANGED <<store, crypto, server, convert, again>>

(* Crypto::import_backup_session: an earlier start replaces what is held.  *)
import_backup_session(c, s) ==
  /\ pc[c] = "import" /\ s \in wanted[c]
  /\ wanted' = [wanted EXCEPT ![c] = @ \ {s}]
  /\ IF held[s] > Backup[s]
       THEN /\ held' = [held EXCEPT ![s] = Backup[s]]
            /\ imported' = [imported EXCEPT ![c] = TRUE]
       ELSE UNCHANGED <<held, imported>>
  /\ UNCHANGED <<store, backupKey, server, pc, convert, pending, again, next>>

backup_fetch_fails(c) ==
  /\ Faults /\ pc[c] = "import"
  /\ \E s \in wanted[c] : wanted' = [wanted EXCEPT ![c] = @ \ {s}]
  /\ UNCHANGED <<store, crypto, server, pc, convert,
                 pending, imported, again, next>>

(* Nothing imported: restore_room returns before it retries anything.      *)
all_looked_up(c) ==
  /\ pc[c] = "import" /\ wanted[c] = {}
  /\ IF imported[c]
       THEN Goto(c, "retry") /\ UNCHANGED <<pending, next>>
       ELSE /\ restore_done(c)
            /\ pending' = [pending EXCEPT ![c] = {}]
  /\ UNCHANGED <<store, crypto, server, convert, wanted, imported, again>>

retry_decrypt(c, e) ==
  /\ pc[c] = "retry" /\ plain[c] = {} /\ e \in pending[c]
  /\ pending' = [pending EXCEPT ![c] = @ \ {e}]
  /\ plain' = [plain EXCEPT ![c] =
                 IF Readable(e) /\ Kind[e] # "blank" THEN {e} ELSE {}]
  /\ UNCHANGED <<store, crypto, server, pc, todo, locked, edits,
                 wanted, imported, again, next>>

upgrade(c) ==
  /\ pc[c] = "retry"
  /\ \E e \in plain[c] : upgrade_message(e)
  /\ plain' = [plain EXCEPT ![c] = {}]
  /\ UNCHANGED <<crypto, server, pc, todo, locked, edits, restore>>

all_retried(c) ==
  /\ pc[c] = "retry" /\ plain[c] = {} /\ pending[c] = {}
  /\ restore_done(c)
  /\ UNCHANGED <<store, crypto, server, convert,
                 pending, wanted, imported, again>>

-----------------------------------------------------------------------------
(* The daemon dies, or is shut down, and starts again: the threads' locals *)
(* are gone, the store and the pickled sessions are not.                   *)
restart ==
  /\ Faults
  /\ pc' = [t \in Threads |-> "idle"]
  /\ todo' = [t \in Threads |-> {}]
  /\ plain' = [t \in Threads |-> {}]
  /\ locked' = [t \in Threads |-> {}]
  /\ edits' = [t \in Threads |-> {}]
  /\ pending' = [t \in Threads |-> {}]
  /\ wanted' = [t \in Threads |-> {}]
  /\ imported' = [t \in Threads |-> FALSE]
  /\ again' = [t \in Threads |-> FALSE]
  /\ next' = [t \in Threads |-> "idle"]
  /\ batch' = {} /\ share' = {}
  /\ UNCHANGED <<store, crypto, delivered, taken>>

SyncStep ==
  \/ sync_once
  \/ handle_to_device
  \/ \E e \in Events : convert_event(Sync, e)
  \/ record_if_edit(Sync)
  \/ store_batch
  \/ save_sync_token

ClientStep(c) ==
  \/ \E e \in Events : convert_event(c, e)
  \/ record_if_edit(c)
  \/ store_event(c)
  \/ converted(c)
  \/ refetch_placeholders(c)
  \/ restore_room(c)
  \/ \E s \in Sessions : import_backup_session(c, s)
  \/ all_looked_up(c)
  \/ \E e \in Events : retry_decrypt(c, e)
  \/ upgrade(c)
  \/ all_retried(c)

Request(c) ==
  \/ do_load_older(c)
  \/ repair_room(c)
  \/ do_backup_key(c)

Fault ==
  \/ store_batch_fails
  \/ process_sync_fails
  \/ \E c \in Clients : skip_event(c) \/ backup_fetch_fails(c)
  \/ restart

Next ==
  \/ SyncStep
  \/ \E c \in Clients : ClientStep(c) \/ Request(c)
  \/ Fault

Spec == Init /\ [][Next]_vars

(* Threads run, the server answers, and each client keeps opening the      *)
(* room; nothing else a user may do is owed.                               *)
Fairness ==
  /\ WF_vars(SyncStep)
  /\ \A c \in Clients : WF_vars(ClientStep(c)) /\ SF_vars(repair_room(c))

FairSpec == Spec /\ Fairness

-----------------------------------------------------------------------------
(* Properties.                                                             *)

TypeOK ==
  /\ stored \in SUBSET Events /\ decrypted \in SUBSET Events
  /\ kept \in SUBSET Events
  /\ body \in [Events -> Bodies]
  /\ newest \in [Events -> Events \cup {None}]
  /\ held \in [Sessions -> 0 .. Unknown] /\ backupKey \in BOOLEAN
  /\ delivered \in SUBSET Events /\ taken \in SUBSET Shares
  /\ batch \in SUBSET Events /\ share \in SUBSET Shares
  /\ pc \in [Threads -> {"idle", "todevice", "convert", "token", "restore",
                         "refetch", "refetching", "import", "retry"}]
  /\ todo \in [Threads -> SUBSET Events]
  /\ plain \in [Threads -> SUBSET Events]
  /\ locked \in [Threads -> SUBSET Events]
  /\ edits \in [Threads -> SUBSET Events]
  /\ pending \in [Threads -> SUBSET Events]
  /\ wanted \in [Threads -> SUBSET Sessions]
  /\ imported \in [Threads -> BOOLEAN]
  /\ again \in [Threads -> BOOLEAN]
  /\ next \in [Threads -> {"idle", "refetch"}]

(* A stored message never shows superseded text: whichever thread wrote    *)
(* its row last, and whether the edit or the message came first, the row   *)
(* displays the recorded edit (store.rs insert_message, upgrade_message,   *)
(* record_edit).                                                           *)
EditOutranks ==
  \A e \in stored : newest[e] # None => body[e] = Text(newest[e])

(* A readable row of an ordinary message shows that message's own text or  *)
(* the newest edit of it, never a placeholder or another event's text.     *)
ReadableRowIsCurrent ==
  \A e \in stored \cap decrypted :
    Kind[e] = "text" =>
      body[e] = IF newest[e] = None THEN Text(e) ELSE Text(newest[e])

(* A row is locked with its ciphertext, or readable without it: the only   *)
(* rows with neither are those an older version left (store.rs             *)
(* insert_message, upgrade_message; main.rs convert_event).                *)
LockedRowKeepsCiphertext ==
  /\ kept \cap decrypted = {}
  /\ Placeholders \subseteq Legacy

(* The saved token never moves past a message that was not stored or an    *)
(* edit that was not recorded, whatever fails or restarts in between       *)
(* (main.rs process_sync, step 3).                                         *)
AccountedFor(e) ==
  /\ Kind[e] = "text" => e \in stored
  /\ Kind[e] = "edit" => \/ e \in stored
                         \/ /\ newest[Target[e]] # None
                            /\ Ts[newest[Target[e]]] >= Ts[e]

NothingSkipped == \A e \in delivered : AccountedFor(e)

(* Ciphertext is dropped only with the step that makes its row readable.   *)
CiphertextOutlivesLock == [][kept \subseteq kept' \cup decrypted']_vars

(* The displayed edit of a message only ever gives way to one as new.      *)
EditsOnlyAdvance ==
  [][\A e \in Events :
       newest[e] # None =>
         newest'[e] # None /\ Ts[newest'[e]] >= Ts[newest[e]]]_vars

(* The message and edit tables implement a register an edit outranks.      *)
Register == INSTANCE EditRegister WITH present <- stored, shown <- body

EditsAreRegister == Register!Init /\ [][Register!Next]_(Register!regs)

(* What the source says and the code does not do (README, section 5).      *)
(* Store::insert_message: "A re-insert may only *upgrade* a row".          *)
NeverDowngraded == [][decrypted \subseteq decrypted']_vars

(* Store::insert_message: "when a room key arrives late, the same event is *)
(* written again with the plain body and decrypted = 1, replacing the      *)
(* placeholder in place".                                                  *)
LateKeyUnlocks ==
  \A e \in Events :
    (e \in stored \ decrypted /\ Kind[e] = "text" /\ Readable(e))
      ~> (e \in decrypted)
=============================================================================
