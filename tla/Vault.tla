------------------------------- MODULE Vault -------------------------------
(***************************************************************************)
(* Encryption at rest.  The database is on a partition that USB exports,   *)
(* its key in a file on one that USB does not (store.rs, main.rs           *)
(* load_or_create_store_key).  A start takes or makes the key, opens the   *)
(* store and rewrites it once if it is still in the clear; logging in and  *)
(* out wipes it.  The database is in WAL mode with synchronous = NORMAL:   *)
(* what is committed survives the process, what is checkpointed survives   *)
(* the battery.                                                            *)
(***************************************************************************)
EXTENDS Naturals, Sequences

CONSTANTS
  Keys,      \* master keys, random each time one is made
  Cells,     \* encrypted columns of rows, and secret meta entries
  Session,   \* the one that holds the login
  Texts,     \* what a cell may hold
  Prefixed,  \* those of them that begin with k1:
  None,
  Torn,      \* a key file that is not 32 bytes long
  MaxLog,    \* bound on commits since the last checkpoint
  Faults     \* what may go wrong: "crash", "power", "disk", "wipe"

ASSUME VaultAssumption ==
  /\ Session \in Cells
  /\ Prefixed \subseteq Texts
  /\ None \notin Keys \cup Texts
  /\ Torn \notin Keys \cup {None}
  /\ MaxLog \in Nat \ {0}
  /\ Faults \subseteq {"crash", "power", "disk", "wipe"}

VARIABLES
  keyFile,  \* store.key
  synced,   \* its rename has reached the disk
  made,     \* keys made so far
  disk,     \* the database as last checkpointed, then as of each commit since
  phase,    \* how far run has come
  bare,     \* --no-encryption
  key,      \* Store.key
  begun,    \* this process has had a login: its sync thread may have a batch
  step,     \* the next statement of clear
  op,       \* what called it
  told      \* how the last login or logout was answered

file    == <<keyFile, synced, made>>
process == <<phase, bare, key, begun, step, op>>
vars    == <<file, disk, process, told>>

Nothing == [text |-> None, by |-> None]
Blank   == [c \in Cells |-> Nothing]
Empty   == [flag |-> FALSE, cells |-> Blank]
Db      == disk[Len(disk)]

Init ==
  /\ keyFile = None /\ synced = TRUE /\ made = {}
  /\ disk = <<Empty>>
  /\ phase = "off" /\ bare = FALSE /\ key = None /\ begun = FALSE
  /\ step = "none" /\ op = "none"
  /\ told = "out"

-----------------------------------------------------------------------------
(* Values.                                                                 *)
seal(k, t) == [text |-> t, by |-> k]

(* starts_with(ENC_PREFIX).                                                *)
Marked(v) == v.by # None \/ v.text \in Prefixed

protect_clear(k, t) == seal(None, t)  \* faulty: the key is forgotten

protect(k, t) == seal(k, t)

(* unseal: every value without the mark is legacy plaintext.               *)
Reveals(k, v) == IF Marked(v) THEN k # None /\ v.by = k ELSE TRUE

(* encrypt_existing: whatever bears the mark is left as it is.             *)
Reseal_lost(k, v) ==  \* faulty: what needs no rewriting is not carried over
  IF v.text = None \/ Marked(v) THEN Nothing ELSE seal(k, v.text)

Reseal(k, v) == IF v.text = None \/ Marked(v) THEN v ELSE seal(k, v.text)

Migrated(k, db) ==
  [flag |-> TRUE, cells |-> [c \in Cells |-> Reseal(k, db.cells[c])]]

Commit(db) == Len(disk) < MaxLog /\ disk' = Append(disk, db)

-----------------------------------------------------------------------------
(* run, as far as serving.                                                 *)
Off == phase' = "off" /\ key' = None /\ begun' = FALSE /\ step' = "none" /\ op' = "none"

(* --reset-store removes the database before its -wal, so a stop between   *)
(* the files leaves either all of it or a WAL without its database, whose  *)
(* frames SQLite does not take up: nothing a later start could come upon.  *)
Begin(reset, plain) ==
  /\ phase = "off"
  /\ phase' = "keying" /\ bare' = plain
  /\ disk' = IF reset THEN <<Empty>> ELSE disk
  /\ UNCHANGED <<file, key, begun, step, op, told>>

TakesKey(k) ==
  /\ key' = k /\ phase' = "opening"
  /\ UNCHANGED <<disk, bare, begun, step, op, told>>

read_key_any ==  \* faulty: whatever the file holds is taken for a key
  /\ phase = "keying"
  /\ bare \/ keyFile # None
  /\ TakesKey(IF bare THEN None ELSE keyFile)
  /\ UNCHANGED file

read_key ==
  /\ phase = "keying"
  /\ bare \/ keyFile \in Keys
  /\ TakesKey(IF bare THEN None ELSE keyFile)
  /\ UNCHANGED file

(* The key is written beside its place and renamed into it.                *)
create_key ==
  /\ phase = "keying" /\ ~ bare /\ keyFile = None
  /\ \E k \in Keys \ made :
       /\ keyFile' = k /\ made' = made \cup {k}
       /\ TakesKey(k)
  /\ synced' = FALSE

key_refused ==
  /\ phase = "keying" /\ ~ bare
  /\ keyFile = Torn \/ "disk" \in Faults
  /\ Off
  /\ UNCHANGED <<file, disk, bare, told>>

Opened ==
  /\ phase' = "reading"
  /\ UNCHANGED <<file, bare, key, begun, step, op, told>>

(* Store::open.                                                            *)
open_agrees ==
  /\ phase = "opening"
  /\ (key # None) = Db.flag
  /\ Opened /\ UNCHANGED disk

encrypt_existing ==
  /\ phase = "opening"
  /\ key # None /\ ~ Db.flag
  /\ Commit(Migrated(key, Db))
  /\ Opened

open_refused ==
  /\ phase = "opening"
  /\ (key = None /\ Db.flag) \/ "disk" \in Faults
  /\ Off
  /\ UNCHANGED <<file, disk, bare, told>>

load_session_lenient ==  \* faulty: a session that cannot be read is passed over
  /\ phase = "reading"
  /\ phase' = "serving"
  /\ begun' = (Db.cells[Session].text # None)
  /\ UNCHANGED <<key, step, op>>
  /\ UNCHANGED <<file, disk, bare, told>>

load_session ==
  /\ phase = "reading"
  /\ IF Reveals(key, Db.cells[Session])
       THEN /\ phase' = "serving"
            /\ begun' = (Db.cells[Session].text # None)
            /\ UNCHANGED <<key, step, op>>
       ELSE Off
  /\ UNCHANGED <<file, disk, bare, told>>

-----------------------------------------------------------------------------
(* Serving.  Every use of the store is under Shared.db's mutex, which      *)
(* clear holds from its first statement to its last.                       *)
Free == phase = "serving" /\ step = "none"

(* set_meta, upsert_room, insert_message, record_edit, remember_members:   *)
(* by a sync batch, which may outlive the login it was fetched for.        *)
write ==
  /\ Free /\ begun
  /\ \E c \in Cells \ {Session}, t \in Texts :
       Commit([Db EXCEPT !.cells[c] = protect(key, t)])
  /\ UNCHANGED <<file, process, told>>

(* process_sync's last act.                                                *)
checkpoint ==
  /\ Free /\ begun
  /\ disk' = <<Db>>
  /\ UNCHANGED <<file, process, told>>

(* clear, called by do_login and do_logout.                                *)
clear_session(o) ==  \* faulty: only the meta table is emptied
  /\ Free
  /\ Commit([flag |-> FALSE, cells |-> [Db.cells EXCEPT ![Session] = Nothing]])
  /\ step' = "mark" /\ op' = o /\ told' = "nothing"
  /\ UNCHANGED <<file, phase, bare, key, begun>>

clear(o) ==
  /\ Free
  /\ Commit(Empty)
  /\ step' = "mark" /\ op' = o /\ told' = "nothing"
  /\ UNCHANGED <<file, phase, bare, key, begun>>

mark_encrypted ==
  /\ step = "mark"
  /\ IF key = None THEN UNCHANGED disk ELSE Commit([Db EXCEPT !.flag = TRUE])
  /\ step' = "vacuum"
  /\ UNCHANGED <<file, phase, bare, key, begun, op, told>>

vacuum ==
  /\ step = "vacuum"
  /\ Commit(Db)
  /\ step' = "checkpoint"
  /\ UNCHANGED <<file, phase, bare, key, begun, op, told>>

clear_ends_early ==  \* faulty: the log is left as it is
  /\ step = "checkpoint"
  /\ UNCHANGED disk
  /\ step' = IF op = "login" THEN "save" ELSE "none"
  /\ told' = IF op = "logout" THEN "out" ELSE told
  /\ UNCHANGED <<file, phase, bare, key, begun, op>>

clear_ends ==
  /\ step = "checkpoint"
  /\ disk' = <<Db>>
  /\ step' = IF op = "login" THEN "save" ELSE "none"
  /\ told' = IF op = "logout" THEN "out" ELSE told
  /\ UNCHANGED <<file, phase, bare, key, begun, op>>

save_session ==
  /\ step = "save"
  /\ \E t \in Texts \ Prefixed :
       Commit([Db EXCEPT !.cells[Session] = protect(key, t)])
  /\ step' = "none" /\ begun' = TRUE /\ told' = "in"
  /\ UNCHANGED <<file, phase, bare, key, op>>

(* A statement fails: the call answers with the error and stops there.     *)
statement_fails ==
  /\ "disk" \in Faults
  /\ step # "none"
  /\ step' = "none"
  /\ UNCHANGED <<file, disk, phase, bare, key, begun, op, told>>

-----------------------------------------------------------------------------
(* The device.                                                             *)
exit ==  \* without clients, or killed
  /\ phase = "serving" \/ (phase # "off" /\ "crash" \in Faults)
  /\ step = "none" \/ "crash" \in Faults
  /\ Off
  /\ UNCHANGED <<file, disk, bare, told>>

written_back ==
  /\ ~ synced /\ synced' = TRUE
  /\ UNCHANGED <<keyFile, made, disk, process, told>>

(* The battery is empty: commits that no checkpoint covers may be gone,    *)
(* and so may a key file the system had not written back.                  *)
power_cut ==
  /\ "power" \in Faults
  /\ \E n \in 1..Len(disk) : disk' = SubSeq(disk, 1, n)
  /\ keyFile' \in {keyFile} \cup (IF synced THEN {} ELSE {None, Torn})
  /\ synced' = TRUE
  /\ Off
  /\ UNCHANGED <<made, bare, told>>

(* A factory reset empties /var/local; the user may have kept the key.     *)
key_wiped ==
  /\ "wipe" \in Faults
  /\ phase = "off" /\ keyFile # None
  /\ keyFile' = None /\ synced' = TRUE
  /\ UNCHANGED <<made, disk, process, told>>

key_restored ==
  /\ phase = "off"
  /\ \E k \in made \ {keyFile} : keyFile' = k
  /\ synced' = TRUE
  /\ UNCHANGED <<made, disk, process, told>>

-----------------------------------------------------------------------------
run    == \/ \E reset, plain \in BOOLEAN : Begin(reset, plain)
          \/ read_key \/ create_key \/ key_refused
          \/ open_agrees \/ encrypt_existing \/ open_refused
          \/ load_session
serve  == \/ write \/ checkpoint
          \/ \E o \in {"login", "logout"} : clear(o)
          \/ mark_encrypted \/ vacuum \/ clear_ends \/ save_session
          \/ statement_fails
Device == exit \/ written_back \/ power_cut \/ key_wiped \/ key_restored

Next == run \/ serve \/ Device

Spec == Init /\ [][Next]_vars

-----------------------------------------------------------------------------
(* Type correctness of the database, its key and the calls under way.      *)
Db_Type == [flag : BOOLEAN,
            cells : [Cells -> [text : Texts \cup {None}, by : Keys \cup {None}]]]

TypeOK ==
  /\ keyFile \in Keys \cup {None, Torn} /\ synced \in BOOLEAN
  /\ made \subseteq Keys
  /\ disk \in Seq(Db_Type) /\ Len(disk) \in 1..MaxLog
  /\ phase \in {"off", "keying", "opening", "reading", "serving"}
  /\ bare \in BOOLEAN /\ begun \in BOOLEAN
  /\ key \in Keys \cup {None}
  /\ step \in {"none", "mark", "vacuum", "checkpoint", "save"}
  /\ op \in {"none", "login", "logout"}
  /\ told \in {"in", "out", "nothing"}

(* A store that says it is encrypted holds nothing in the clear, whatever  *)
(* commit a power cut takes it back to (store.rs ENCRYPTED_FLAG): only     *)
(* what begins with k1: is taken for sealed.                               *)
Sealed(v) == v.text # None => Marked(v)

AtRest == \A i \in DOMAIN disk : disk[i].flag =>
            \A c \in Cells : Sealed(disk[i].cells[c])

(* No store ever needs two keys: neither a new key made after the old one  *)
(* was wiped, nor a migration begun over rows that are sealed already,     *)
(* leaves rows of both (store.rs encrypt_existing, clear).                 *)
OneKey == \A i \in DOMAIN disk : \A c, d \in Cells :
            LET v == disk[i].cells[c]  w == disk[i].cells[d]
            IN  v.by # None /\ w.by # None => v.by = w.by

(* A daemon that serves a login reads back every value written, in         *)
(* whatever mode it was written and through any crash (store.rs unseal);   *)
(* all but plaintext that looks sealed.                                    *)
ReadBack ==
  phase = "serving" /\ Db.cells[Session].text # None =>
    \A c \in Cells : LET v == Db.cells[c] IN
      Reveals(key, v) \/ (v.by = None /\ v.text \in Prefixed)

(* A logout that succeeded leaves no access token on the device, not even  *)
(* after a power cut (store.rs clear: vacuum, then checkpoint).            *)
LogoutSticks == told = "out" =>
  \A i \in DOMAIN disk : disk[i].cells[Session].text = None

(* Encryption changes who can read the store and never what is in it: the  *)
(* contents obey Ledger whatever keys come and go.                         *)
Contents(seq) == [i \in DOMAIN seq |-> [c \in Cells |-> seq[i].cells[c].text]]

Plain == INSTANCE Ledger WITH log <- Contents(disk)

Invisible == Plain!Spec

(* What the source says and the code does not do (README, section 5).      *)
(* The window for misreading a plaintext value that begins with k1: closes *)
(* at migration (store.rs, head of file).                                  *)
WindowCloses == phase = "serving" /\ key # None /\ Db.flag /\ Db.cells[Session].text # None =>
  \A c \in Cells : Reveals(key, Db.cells[c])
=============================================================================
