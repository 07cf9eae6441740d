------------------------------- MODULE Account -------------------------------
(***************************************************************************)
(* The login a daemon works for: the session row, the Olm account pickle   *)
(* and the device_keys_published flag in the store, their copies in        *)
(* memory (Shared.api, Status.session, NetState.crypto), and the keys the  *)
(* homeserver holds for the device.  IPC clients log in and out            *)
(* (main.rs do_login, do_logout) while the sync thread's iteration, which  *)
(* captured api and session when it began, handles to-device events and    *)
(* keeps the one-time keys topped up (maintain_otks).  Each copy has its   *)
(* own mutex: every action is one lock section or one request.             *)
(***************************************************************************)
EXTENDS Naturals, FiniteSets

CONSTANTS
  Clients,      \* IPC client threads
  Devices,      \* device ids the server gives out, one for each login
  None,
  Target,       \* OTK_TARGET
  MaxAccounts,  \* bound on Olm accounts and pickle keys ever created
  MaxKeys,      \* bound on one-time keys ever generated
  Faults        \* what may go wrong: "request", "crash"

ASSUME AccountAssumption ==
  /\ None \notin Devices
  /\ Target \in Nat /\ MaxAccounts \in Nat /\ MaxKeys \in Nat
  /\ Faults \subseteq {"request", "crash"}

VARIABLES
  (* the store *)
  row,        \* the session saved: its device
  pickle,     \* the account pickle
  pickleKey,  \* the key pickles are encrypted with
  secrets,    \* there are other pickles, or a backup key
  published,  \* device_keys_published
  (* memory *)
  api,        \* the device whose access token Shared.api carries
  session,    \* Status.session
  crypto,     \* the account in NetState.crypto
  made,       \* accounts and pickle keys made so far
  generated,  \* one-time keys made so far
  (* the server *)
  issued,     \* devices logged in so far
  revoked,    \* those logged out
  identity,   \* the account whose keys the server lists for a device
  otks,       \* one-time keys it can still give out for a device
  uploaded,   \* every one-time key it ever accepted
  (* locals *)
  pc, dev,    \* a client, and the device it is logging in
  sync, sapi, ssession, have, body  \* the sync thread

store  == <<row, pickle, pickleKey, secrets, published>>
memory == <<api, session, crypto>>
minted == <<made, generated>>
server == <<issued, revoked, identity, otks, uploaded>>
client == <<pc, dev>>
poll   == <<sync, sapi, ssession, have, body>>
vars   == <<store, memory, minted, server, client, poll>>

(* An Olm account, in memory or pickled: who it is, the pickle key it is   *)
(* written with, its one-time keys not yet and already marked published.   *)
NoAccount == [id |-> 0, key |-> 0, fresh |-> {}, marked |-> {}]
NoBody    == [device |-> None, id |-> 0, keys |-> {}]

Init ==
  /\ row = None /\ pickle = NoAccount /\ pickleKey = 0
  /\ secrets = FALSE /\ published = FALSE
  /\ api = None /\ session = None /\ crypto = NoAccount
  /\ made = 0 /\ generated = 0
  /\ issued = {} /\ revoked = {} /\ uploaded = {}
  /\ identity = [d \in Devices |-> 0]
  /\ otks = [d \in Devices |-> {}]
  /\ pc = [c \in Clients |-> "idle"] /\ dev = [c \in Clients |-> None]
  /\ sync = "idle" /\ sapi = None /\ ssession = None /\ have = 0
  /\ body = NoBody

-----------------------------------------------------------------------------
(* Store::clear.                                                           *)
cleared ==
  /\ pickle' = NoAccount /\ pickleKey' = 0
  /\ secrets' = FALSE /\ published' = FALSE

(* Crypto::load_or_create: a missing pickle key or account is made and     *)
(* written at once; an account written under another key cannot be read.   *)
KeyInUse == IF pickleKey = 0 THEN made + 1 ELSE pickleKey

LoadedAccount ==
  IF pickle = NoAccount
    THEN [NoAccount EXCEPT !.id = made + 1, !.key = KeyInUse]
    ELSE pickle

Loads == LoadedAccount.key = KeyInUse

MakesOne == pickleKey = 0 \/ pickle = NoAccount

load_or_create_unsaved ==  \* faulty: a new account is not written
  /\ MakesOne => made < MaxAccounts
  /\ pickleKey' = KeyInUse
  /\ made' = IF MakesOne THEN made + 1 ELSE made
  /\ UNCHANGED pickle

load_or_create ==
  /\ MakesOne => made < MaxAccounts
  /\ pickleKey' = KeyInUse
  /\ pickle' = LoadedAccount
  /\ made' = IF MakesOne THEN made + 1 ELSE made

-----------------------------------------------------------------------------
Goto(c, where) == pc' = [pc EXCEPT ![c] = where]

(* do_login.  Api::login; a login that is refused changes nothing here.    *)
do_login(c) ==
  /\ pc[c] = "idle"
  /\ \E d \in Devices \ issued :
       /\ issued' = issued \cup {d}
       /\ dev' = [dev EXCEPT ![c] = d]
  /\ Goto(c, "save")
  /\ UNCHANGED <<store, memory, minted, revoked, identity, otks, uploaded, poll>>

login_save(c) ==
  /\ pc[c] = "save"
  /\ cleared /\ row' = dev[c]
  /\ Goto(c, "api")
  /\ UNCHANGED <<memory, minted, server, dev, poll>>

login_api(c) ==
  /\ pc[c] = "api"
  /\ api' = dev[c]
  /\ Goto(c, "crypto")
  /\ UNCHANGED <<store, session, crypto, minted, server, dev, poll>>

login_crypto(c) ==
  /\ pc[c] = "crypto"
  /\ load_or_create
  /\ crypto' = IF Loads THEN LoadedAccount ELSE crypto
  /\ Goto(c, IF Loads THEN "session" ELSE "idle")
  /\ UNCHANGED <<row, secrets, published, api, session, generated, server,
                 dev, poll>>

login_session(c) ==
  /\ pc[c] = "session"
  /\ session' = dev[c]
  /\ Goto(c, "idle")
  /\ UNCHANGED <<store, api, crypto, minted, server, dev, poll>>

(* do_logout.  The server is told, and whether it heard is ignored.        *)
do_logout(c) ==
  /\ pc[c] = "idle"
  /\ \/ api # None /\ revoked' = revoked \cup {api}
     \/ (api = None \/ "request" \in Faults) /\ UNCHANGED revoked
  /\ Goto(c, "logout_api")
  /\ UNCHANGED <<store, memory, minted, issued, identity, otks, uploaded, dev,
                 poll>>

logout_api(c) ==
  /\ pc[c] = "logout_api"
  /\ api' = None
  /\ Goto(c, "logout_crypto")
  /\ UNCHANGED <<store, session, crypto, minted, server, dev, poll>>

logout_crypto(c) ==
  /\ pc[c] = "logout_crypto"
  /\ crypto' = NoAccount
  /\ Goto(c, "logout_clear")
  /\ UNCHANGED <<store, api, session, minted, server, dev, poll>>

logout_clear(c) ==
  /\ pc[c] = "logout_clear"
  /\ cleared /\ row' = None
  /\ Goto(c, "logout_session")
  /\ UNCHANGED <<memory, minted, server, dev, poll>>

logout_session(c) ==
  /\ pc[c] = "logout_session"
  /\ session' = None
  /\ Goto(c, "idle")
  /\ UNCHANGED <<store, api, crypto, minted, server, dev, poll>>

(* A lock section of do_send or do_backup_key: the store gains pickles or  *)
(* the backup key only while there is crypto state to work with.           *)
write_secrets(c) ==
  /\ pc[c] = "idle" /\ crypto # NoAccount
  /\ secrets' = TRUE
  /\ UNCHANGED <<row, pickle, pickleKey, published, memory, minted, server,
                 client, poll>>

-----------------------------------------------------------------------------
(* The sync thread.  It reads Shared.api, then Status.session.             *)
read_api ==
  /\ sync = "idle"
  /\ sapi' = api
  /\ sync' = "session"
  /\ UNCHANGED <<store, memory, minted, server, client, ssession, have, body>>

read_session ==
  /\ sync = "session"
  /\ ssession' = session
  /\ sync' = IF sapi = None \/ session = None THEN "idle" ELSE "poll"
  /\ UNCHANGED <<store, memory, minted, server, client, sapi, have, body>>

(* The long poll answers with to-device events and the key count.          *)
sync_once ==
  /\ sync = "poll" /\ sapi \notin revoked
  /\ have' = Cardinality(otks[sapi])
  /\ sync' = "todevice"
  /\ UNCHANGED <<store, memory, minted, server, client, sapi, ssession, body>>

sync_fails ==
  /\ sync = "poll" /\ (sapi \in revoked \/ "request" \in Faults)
  /\ sync' = "idle"
  /\ UNCHANGED <<store, memory, minted, server, client, sapi, ssession, have,
                 body>>

(* handle_to_device, when there is crypto state: a room key is pickled,    *)
(* and a pre-key message has the account written with whatever keys it     *)
(* holds.                                                                  *)
handle_to_device ==
  /\ sync = "todevice"
  /\ \/ crypto # NoAccount /\ secrets' = TRUE /\ pickle' \in {pickle, crypto}
     \/ UNCHANGED <<secrets, pickle>>
  /\ sync' = "check"
  /\ UNCHANGED <<row, pickleKey, published, memory, minted, server, client,
                 sapi, ssession, have, body>>

(* maintain_otks: the flag, read under db; the request body, built under   *)
(* net; the request; and what it changed, under both.                      *)
Missing == IF have >= Target THEN 0 ELSE Target - have

maintain_otks ==
  /\ sync = "check"
  /\ sync' = IF have >= Target /\ published THEN "idle"
             ELSE IF published THEN "top_up" ELSE "publish"
  /\ UNCHANGED <<store, memory, minted, server, client, sapi, ssession, have,
                 body>>

(* Fresh keys are generated on top of any an earlier upload left behind.   *)
NewKeys_past == (generated + 1) .. (generated + Missing + 1)  \* faulty

NewKeys == (generated + 1) .. (generated + Missing)

keys_upload_body ==
  /\ sync \in {"publish", "top_up"} /\ crypto # NoAccount
  /\ generated + Missing =< MaxKeys
  /\ generated' = generated + Missing
  /\ crypto' = [crypto EXCEPT !.fresh = @ \cup NewKeys]
  /\ body' = [device |-> IF sync = "publish" THEN ssession ELSE None,
              id |-> crypto.id, keys |-> crypto'.fresh]
  /\ sync' = IF sync = "top_up" /\ crypto'.fresh = {} THEN "idle" ELSE "upload"
  /\ UNCHANGED <<store, api, session, made, server, client, sapi, ssession,
                 have>>

no_crypto ==
  /\ sync \in {"publish", "top_up"} /\ crypto = NoAccount
  /\ sync' = "idle"
  /\ UNCHANGED <<store, memory, minted, server, client, sapi, ssession, have,
                 body>>

(* The server takes device keys for the token's own device only.           *)
Accepted ==
  /\ sapi \notin revoked
  /\ body.device \in {None, sapi}

taken ==
  /\ identity' = IF body.device = None THEN identity
                 ELSE [identity EXCEPT ![sapi] = body.id]
  /\ otks' = [otks EXCEPT ![sapi] = @ \cup (body.keys \ uploaded)]
  /\ uploaded' = uploaded \cup body.keys
  /\ UNCHANGED <<issued, revoked>>

keys_upload ==
  /\ sync = "upload" /\ Accepted
  /\ taken
  /\ sync' = "mark"
  /\ UNCHANGED <<store, memory, minted, client, sapi, ssession, have, body>>

keys_upload_fails_marks ==  \* faulty: the error is logged and passed over
  /\ sync = "upload"
  /\ ~ Accepted \/ "request" \in Faults
  /\ sync' = "mark"
  /\ UNCHANGED <<store, memory, minted, server, client, sapi, ssession, have,
                 body>>

(* Refused, or lost before or after the server acted on it.                *)
keys_upload_fails ==
  /\ sync = "upload"
  /\ \/ ~ Accepted /\ UNCHANGED server
     \/ "request" \in Faults /\ UNCHANGED server
     \/ "request" \in Faults /\ Accepted /\ taken
  /\ sync' = "idle"
  /\ UNCHANGED <<store, memory, minted, client, sapi, ssession, have, body>>

Marked(a) == [a EXCEPT !.marked = a.marked \cup a.fresh, !.fresh = {}]

mark_published ==
  /\ sync = "mark"
  /\ crypto' = IF crypto = NoAccount THEN crypto ELSE Marked(crypto)
  /\ pickle' = IF crypto = NoAccount THEN pickle ELSE Marked(crypto)
  /\ published' = TRUE
  /\ sync' = "idle"
  /\ UNCHANGED <<row, pickleKey, secrets, api, session, minted, server, client,
                 sapi, ssession, have, body>>

-----------------------------------------------------------------------------
(* Another user's device claims a one-time key.                            *)
keys_claim ==
  /\ \E d \in Devices : \E k \in otks[d] : otks' = [otks EXCEPT ![d] = @ \ {k}]
  /\ UNCHANGED <<store, memory, minted, issued, revoked, identity, uploaded,
                 client, poll>>

(* The daemon dies and starts again: run restores a saved session, with    *)
(* or without crypto state.                                                *)
restart ==
  /\ "crash" \in Faults
  /\ api' = row /\ session' = row
  /\ IF row = None
       THEN UNCHANGED <<pickle, pickleKey, made>> /\ crypto' = NoAccount
       ELSE load_or_create /\ crypto' = IF Loads THEN LoadedAccount
                                        ELSE NoAccount
  /\ pc' = [c \in Clients |-> "idle"] /\ dev' = [c \in Clients |-> None]
  /\ sync' = "idle" /\ sapi' = None /\ ssession' = None /\ have' = 0
  /\ body' = NoBody
  /\ UNCHANGED <<row, secrets, published, generated, server>>

Client(c) ==
  \/ do_login(c) \/ login_save(c) \/ login_api(c)
  \/ login_crypto(c) \/ login_session(c)
  \/ do_logout(c) \/ logout_api(c) \/ logout_crypto(c)
  \/ logout_clear(c) \/ logout_session(c)
  \/ write_secrets(c)

SyncThread ==
  \/ read_api \/ read_session \/ sync_once \/ sync_fails
  \/ handle_to_device \/ maintain_otks \/ keys_upload_body \/ no_crypto
  \/ keys_upload \/ keys_upload_fails \/ mark_published

Next ==
  \/ \E c \in Clients : Client(c)
  \/ SyncThread
  \/ keys_claim
  \/ restart

Spec == Init /\ [][Next]_vars

-----------------------------------------------------------------------------
(* Properties.                                                             *)

AccountType == [id : 0 .. MaxAccounts, key : 0 .. MaxAccounts,
                fresh : SUBSET (1 .. MaxKeys), marked : SUBSET (1 .. MaxKeys)]

TypeOK ==
  /\ row \in Devices \cup {None} /\ pickle \in AccountType
  /\ pickleKey \in 0 .. MaxAccounts
  /\ secrets \in BOOLEAN /\ published \in BOOLEAN
  /\ api \in Devices \cup {None} /\ session \in Devices \cup {None}
  /\ crypto \in AccountType
  /\ made \in 0 .. MaxAccounts /\ generated \in 0 .. MaxKeys
  /\ issued \in SUBSET Devices /\ revoked \in SUBSET Devices
  /\ identity \in [Devices -> 0 .. MaxAccounts]
  /\ otks \in [Devices -> SUBSET (1 .. MaxKeys)]
  /\ uploaded \in SUBSET (1 .. MaxKeys)
  /\ pc \in [Clients -> {"idle", "save", "api", "crypto", "session",
                         "logout_api", "logout_crypto", "logout_clear",
                         "logout_session"}]
  /\ dev \in [Clients -> Devices \cup {None}]
  /\ sync \in {"idle", "session", "poll", "todevice", "check", "publish",
               "top_up", "upload", "mark"}
  /\ sapi \in Devices \cup {None} /\ ssession \in Devices \cup {None}
  /\ have \in Nat
  /\ body \in [device : Devices \cup {None}, id : 0 .. MaxAccounts,
               keys : SUBSET (1 .. MaxKeys)]

(* Store::clear: "Logout must not leave an access token or any crypto      *)
(* state on the device".  Once no client is logging in or out, a daemon    *)
(* without an Api has neither, whatever the sync thread was in the middle  *)
(* of.  It holds for one client, not for two (README, section 5).          *)
LogoutLeavesNothing ==
  (api = None /\ \A c \in Clients : pc[c] = "idle") =>
    /\ row = None /\ pickle = NoAccount
    /\ ~ secrets /\ pickleKey = 0

(* The identity the server lists for the saved device is the one the       *)
(* store still holds, across uploads, failed logins and restarts           *)
(* (Crypto::load_or_create, main.rs maintain_otks).                        *)
IdentityKept ==
  \A d \in Devices : row = d /\ identity[d] # 0 => pickle.id = identity[d]

(* Only keys the server has accepted are ever marked as published, even    *)
(* when the account changed between the request and its answer             *)
(* (Crypto::mark_published).                                               *)
MarkedWereUploaded ==
  /\ crypto.marked \subseteq uploaded
  /\ pickle.marked \subseteq uploaded

(* What the source says and the code does not do (README, section 5).      *)
(* Crypto::keys_upload_body: "signed device keys (once)": a logged in      *)
(* device whose keys are flagged as published has published them.          *)
FlaggedKeysArePublished ==
  published /\ row # None /\ session = row => identity[row] # 0
=============================================================================
