---------------------------- MODULE AccountProofs ----------------------------
(***************************************************************************)
(* Proofs about Account for any number of clients and logins.  No lock is  *)
(* held from a login's first step to its last, so the argument is about    *)
(* the two copies of an account: whenever memory and store both have one,  *)
(* it is the same one and memory is the newer of the two (Same), whoever   *)
(* cleared or wrote what in between.  A login is settled once its account  *)
(* was loaded; from then on its row and its account stand or fall together *)
(* (Settled).                                                              *)
(***************************************************************************)
EXTENDS Account, FiniteSetTheorems, TLAPS

(* The sync thread polls with a token.                                     *)
Polling == sync \notin {"idle", "session"} => sapi # None

(* An account is told from none by its number.                             *)
Numbered ==
  /\ crypto # NoAccount => crypto.id # 0
  /\ pickle # NoAccount => pickle.id # 0

Same ==
  crypto # NoAccount /\ pickle # NoAccount =>
    crypto.id = pickle.id /\ pickle.fresh \subseteq crypto.fresh

(* A device's login is settled: somebody works for it, or has.             *)
Settled(d) ==
  \/ session = d \/ ssession = d \/ body.device = d \/ identity[d] # 0
  \/ \E c \in Clients : pc[c] = "session" /\ dev[c] = d

SettledInv ==
  \A d \in Devices : row = d /\ Settled(d) =>
    /\ pickle # NoAccount
    /\ identity[d] # 0 => pickle.id = identity[d]
    /\ body.device = d => pickle.id = body.id

(* Every device is given to one login, and until that login has saved it   *)
(* nothing else knows of it.                                               *)
Known(d) == d = row \/ Settled(d) \/ \E c \in Clients : dev[c] = d

LoggingIn == {"save", "api", "crypto", "session"}

DevicesInv ==
  /\ \A d \in Devices : Known(d) => d \in issued
  /\ \A b, c \in Clients : dev[b] = dev[c] /\ dev[b] # None => b = c
  /\ \A c \in Clients : pc[c] \in LoggingIn => dev[c] # None
  /\ \A c \in Clients, d \in Devices :
       pc[c] = "save" /\ dev[c] = d => row # d /\ ~ Settled(d)

(* The keys of an upload under way, and of one that was answered.          *)
UploadInv ==
  /\ sync = "upload" => crypto.fresh \cup pickle.fresh \subseteq body.keys
  /\ sync = "mark" => crypto.fresh \cup pickle.fresh \subseteq uploaded

IInv == /\ TypeOK /\ Polling /\ Numbered /\ Same
        /\ SettledInv /\ DevicesInv /\ UploadInv /\ MarkedWereUploaded

-----------------------------------------------------------------------------
LEMMA InitInv == Init => IInv
<1> SUFFICES ASSUME Init PROVE IInv
  OBVIOUS
<1> USE AccountAssumption
<1>1. TypeOK
  <2>1. NoAccount \in AccountType
    BY DEF NoAccount, AccountType
  <2>2. NoBody \in [device : Devices \cup {None}, id : 0 .. MaxAccounts,
                    keys : SUBSET (1 .. MaxKeys)]
    BY DEF NoBody
  <2>3. identity \in [Devices -> 0 .. MaxAccounts] /\ otks \in [Devices -> SUBSET (1 .. MaxKeys)]
    BY DEF Init
  <2>4. /\ pickle \in AccountType /\ crypto \in AccountType
        /\ body \in [device : Devices \cup {None}, id : 0 .. MaxAccounts,
                     keys : SUBSET (1 .. MaxKeys)]
    BY <2>1, <2>2 DEF Init
  <2>5. /\ row = None /\ api = None /\ session = None /\ sapi = None /\ ssession = None
        /\ pickleKey = 0 /\ made = 0 /\ generated = 0 /\ have = 0 /\ sync = "idle"
        /\ secrets \in BOOLEAN /\ published \in BOOLEAN
        /\ issued = {} /\ revoked = {} /\ uploaded = {}
        /\ pc = [c \in Clients |-> "idle"] /\ dev = [c \in Clients |-> None]
    BY DEF Init
  <2> QED BY <2>3, <2>4, <2>5 DEF TypeOK
<1>2. Polling /\ Numbered /\ Same /\ UploadInv /\ MarkedWereUploaded
  BY DEF Init, Polling, Numbered, Same, UploadInv, MarkedWereUploaded, NoAccount
<1>3. SettledInv /\ DevicesInv
  BY DEF Init, SettledInv, DevicesInv, LoggingIn, Settled, Known, NoBody
<1> QED BY <1>1, <1>2, <1>3 DEF IInv

(* What load_or_create leaves: an account, the one there was if any.       *)
LEMMA LoadedType ==
  ASSUME TypeOK, load_or_create
  PROVE  /\ LoadedAccount \in AccountType /\ pickleKey' \in 0 .. MaxAccounts
         /\ made' \in 0 .. MaxAccounts /\ pickle' = LoadedAccount
<1> USE AccountAssumption
<1>1. made' \in 0 .. MaxAccounts /\ pickle' = LoadedAccount
  BY DEF TypeOK, load_or_create, MakesOne
<1>2. KeyInUse \in 0 .. MaxAccounts
  BY DEF TypeOK, load_or_create, KeyInUse, MakesOne
<1>3. ASSUME pickle = NoAccount PROVE LoadedAccount \in AccountType
  <2>1. made + 1 \in 0 .. MaxAccounts
    BY <1>3 DEF TypeOK, load_or_create, MakesOne
  <2> QED BY <1>2, <1>3, <2>1 DEF LoadedAccount, NoAccount, AccountType
<1>4. ASSUME pickle # NoAccount PROVE LoadedAccount \in AccountType
  BY <1>4 DEF TypeOK, LoadedAccount
<1> QED BY <1>1, <1>2, <1>3, <1>4 DEF load_or_create

LEMMA NoAccountType == NoAccount \in AccountType
BY AccountAssumption DEF NoAccount, AccountType

LEMMA LoadedFacts ==
  ASSUME TypeOK, Numbered
  PROVE  /\ LoadedAccount # NoAccount /\ LoadedAccount.id # 0
         /\ pickle # NoAccount => LoadedAccount = pickle
         /\ LoadedAccount.fresh \subseteq pickle.fresh
         /\ LoadedAccount.marked \subseteq pickle.marked
         /\ pickle = NoAccount => Loads
<1>1. ASSUME pickle = NoAccount
      PROVE  /\ LoadedAccount.id = made + 1 /\ LoadedAccount.key = KeyInUse
             /\ LoadedAccount.fresh = {} /\ LoadedAccount.marked = {}
  BY <1>1 DEF LoadedAccount, NoAccount
<1>2. ASSUME pickle # NoAccount PROVE LoadedAccount = pickle
  BY <1>2 DEF LoadedAccount
<1>3. made + 1 # 0 /\ NoAccount.id = 0
  BY AccountAssumption DEF TypeOK, NoAccount
<1> QED BY <1>1, <1>2, <1>3 DEF Numbered, Loads

LEMMA MarkedFacts ==
  ASSUME NEW a \in AccountType
  PROVE  /\ Marked(a) \in AccountType
         /\ Marked(a).id = a.id /\ Marked(a).fresh = {}
         /\ Marked(a).marked = a.marked \cup a.fresh
BY DEF Marked, AccountType

LEMMA ClearedFacts ==
  ASSUME cleared
  PROVE  /\ pickle' = NoAccount /\ pickle' \in AccountType
         /\ pickleKey' \in 0 .. MaxAccounts
         /\ secrets' \in BOOLEAN /\ published' \in BOOLEAN
<1>1. secrets' \in BOOLEAN /\ published' \in BOOLEAN
  BY DEF cleared
<1> QED BY <1>1, NoAccountType, AccountAssumption DEF cleared

-----------------------------------------------------------------------------
(* Type correctness.                                                       *)
LEMMA TypeStep == TypeOK /\ Polling /\ [Next]_vars => TypeOK' /\ Polling'
<1> SUFFICES ASSUME TypeOK, Polling, [Next]_vars PROVE TypeOK' /\ Polling'
  OBVIOUS
<1> USE AccountAssumption DEF TypeOK, Polling
<1>1. ASSUME NEW c \in Clients, do_login(c) PROVE TypeOK' /\ Polling'
  BY <1>1 DEF do_login, Goto, store, memory, minted, poll
<1>2. ASSUME NEW c \in Clients, login_save(c) PROVE TypeOK' /\ Polling'
  <2>1. dev[c] \in Devices \cup {None} /\ cleared
    BY <1>2 DEF login_save
  <2> QED
    BY <1>2, <2>1, ClearedFacts DEF login_save, Goto, memory, minted, server, poll
<1>3. ASSUME NEW c \in Clients,
             login_api(c) \/ login_session(c) \/ logout_api(c) \/ logout_session(c)
      PROVE  TypeOK' /\ Polling'
  <2>1. /\ UNCHANGED <<store, crypto, minted, server, dev, poll>>
        /\ api' \in Devices \cup {None} /\ session' \in Devices \cup {None}
        /\ \E p \in {"crypto", "idle", "logout_crypto"} : Goto(c, p)
    BY <1>3 DEF login_api, login_session, logout_api, logout_session
  <2> QED BY <2>1 DEF Goto, store, minted, server, poll
<1>4. ASSUME NEW c \in Clients, login_crypto(c) PROVE TypeOK' /\ Polling'
  BY <1>4, LoadedType DEF login_crypto, Goto, server, poll
<1>5. ASSUME NEW c \in Clients, do_logout(c) PROVE TypeOK' /\ Polling'
  BY <1>5 DEF do_logout, Goto, store, memory, minted, poll
<1>6. ASSUME NEW c \in Clients, logout_crypto(c) PROVE TypeOK' /\ Polling'
  BY <1>6, NoAccountType DEF logout_crypto, Goto, store, minted, server, poll
<1>7. ASSUME NEW c \in Clients, logout_clear(c) PROVE TypeOK' /\ Polling'
  <2>1. cleared
    BY <1>7 DEF logout_clear
  <2> QED
    BY <1>7, <2>1, ClearedFacts DEF logout_clear, Goto, memory, minted, server, poll
<1>8. ASSUME NEW c \in Clients, write_secrets(c) PROVE TypeOK' /\ Polling'
  BY <1>8 DEF write_secrets, memory, minted, server, client, poll
<1>9. CASE read_api \/ read_session \/ sync_fails \/ maintain_otks \/ no_crypto
  <2>1. UNCHANGED <<store, memory, minted, server, client, have, body>>
    BY <1>9 DEF read_api, read_session, sync_fails, maintain_otks, no_crypto
  <2>2. /\ sapi' \in Devices \cup {None} /\ ssession' \in Devices \cup {None}
        /\ sync' \in {"idle", "session", "poll", "todevice", "check", "publish",
                     "top_up", "upload", "mark"}
        /\ Polling'
    BY <1>9 DEF read_api, read_session, sync_fails, maintain_otks, no_crypto
  <2> QED BY <2>1, <2>2 DEF store, memory, minted, server, client
<1>10. CASE sync_once
  <2>1. otks[sapi] \subseteq 1 .. MaxKeys
    BY <1>10 DEF sync_once
  <2>2. Cardinality(otks[sapi]) \in Nat
    <3>1. IsFiniteSet(1 .. MaxKeys)
      BY FS_Interval
    <3>2. IsFiniteSet(otks[sapi])
      BY <2>1, <3>1, FS_Subset
    <3> QED BY <3>2, FS_CardinalityType
  <2> QED BY <1>10, <2>2 DEF sync_once, store, memory, minted, server, client
<1>11. CASE handle_to_device
  BY <1>11 DEF handle_to_device, memory, minted, server, client
<1>12. CASE keys_upload_body
  <2>1. Missing \in Nat
    BY DEF Missing
  <2>2. NewKeys \subseteq 1 .. MaxKeys /\ generated + Missing \in 0 .. MaxKeys
    BY <1>12, <2>1 DEF keys_upload_body, NewKeys
  <2>3. crypto' \in AccountType
    BY <1>12, <2>2 DEF keys_upload_body, AccountType
  <2>4. body' \in [device : Devices \cup {None}, id : 0 .. MaxAccounts,
                   keys : SUBSET (1 .. MaxKeys)]
    BY <1>12, <2>3 DEF keys_upload_body, AccountType
  <2> QED BY <1>12, <2>2, <2>3, <2>4 DEF keys_upload_body, store, server, client
<1>13. CASE keys_upload
  BY <1>13 DEF keys_upload, taken, store, memory, minted, client
<1>14. CASE keys_upload_fails
  <2>1. CASE UNCHANGED server
    BY <1>14, <2>1 DEF keys_upload_fails, server, store, memory, minted, client
  <2>2. CASE taken
    BY <1>14, <2>2 DEF keys_upload_fails, taken, store, memory, minted, client
  <2> QED BY <1>14, <2>1, <2>2 DEF keys_upload_fails
<1>15. CASE mark_published
  BY <1>15, MarkedFacts DEF mark_published, minted, server, client
<1>16. CASE keys_claim
  BY <1>16 DEF keys_claim, store, memory, minted, client, poll
<1>17. CASE restart
  BY <1>17, LoadedType, NoAccountType DEF restart, NoBody, server
<1>18. CASE UNCHANGED vars
  BY <1>18 DEF vars, store, memory, minted, server, client, poll
<1> QED
  BY <1>1, <1>2, <1>3, <1>4, <1>5, <1>6, <1>7, <1>8, <1>9, <1>10, <1>11, <1>12,
     <1>13, <1>14, <1>15, <1>16, <1>17, <1>18
  DEF Next, Client, SyncThread

-----------------------------------------------------------------------------
(* The two copies of an account, and the keys marked in them.              *)
Copies == Numbered /\ Same /\ UploadInv /\ MarkedWereUploaded

(* Neither copy is touched, and only the server may gain keys.             *)
Aside ==
  /\ pickle' = pickle /\ crypto' = crypto /\ body' = body
  /\ uploaded \subseteq uploaded'
  /\ sync' = "upload" => sync = "upload"
  /\ sync' = "mark" => sync = "mark" \/ (sync = "upload" /\ body.keys \subseteq uploaded')

LEMMA AsideKeepsCopies == Copies /\ Aside => Copies'
BY DEF Copies, Aside, Numbered, Same, UploadInv, MarkedWereUploaded

LEMMA ClearKeepsCopies ==
  ASSUME Copies, cleared, UNCHANGED <<crypto, sync, body, uploaded>>
  PROVE  Copies'
BY DEF Copies, cleared, Numbered, Same, UploadInv, MarkedWereUploaded, NoAccount

(* Whatever is loaded is what the store keeps.                             *)
LEMMA LoadKeepsCopies ==
  ASSUME TypeOK, Copies, load_or_create,
         crypto' = LoadedAccount \/ (crypto' = crypto /\ ~ Loads) \/ crypto' = NoAccount,
         \/ UNCHANGED <<sync, body, uploaded>>
         \/ sync' = "idle" /\ uploaded' = uploaded
  PROVE  Copies'
<1>1. /\ LoadedAccount # NoAccount /\ LoadedAccount.id # 0
      /\ LoadedAccount.fresh \subseteq pickle.fresh
      /\ LoadedAccount.marked \subseteq pickle.marked
      /\ ~ Loads => LoadedAccount = pickle /\ pickle # NoAccount
  BY LoadedFacts DEF Copies
<1>2. pickle' = LoadedAccount
  BY LoadedType
<1>3. Numbered' /\ Same'
  BY <1>1, <1>2 DEF Copies, Numbered, Same
<1>4. UploadInv' /\ MarkedWereUploaded'
  BY <1>1, <1>2 DEF Copies, UploadInv, MarkedWereUploaded, NoAccount
<1> QED BY <1>3, <1>4 DEF Copies

LEMMA CopiesStep == TypeOK /\ Copies /\ [Next]_vars => Copies'
<1> SUFFICES ASSUME TypeOK, Copies, [Next]_vars PROVE Copies'
  OBVIOUS
<1>1. ASSUME NEW c \in Clients, login_save(c) \/ logout_clear(c) PROVE Copies'
  BY <1>1, ClearKeepsCopies DEF login_save, logout_clear, memory, poll, server
<1>2. ASSUME NEW c \in Clients, login_crypto(c) PROVE Copies'
  BY <1>2, LoadKeepsCopies DEF login_crypto, poll, server
<1>3. ASSUME NEW c \in Clients, logout_crypto(c) PROVE Copies'
  BY <1>3
  DEF logout_crypto, store, server, poll, Copies, Numbered, Same, UploadInv,
      MarkedWereUploaded, NoAccount
<1>4. CASE handle_to_device
  BY <1>4
  DEF handle_to_device, memory, server, Copies, Numbered, Same, UploadInv,
      MarkedWereUploaded
<1>5. CASE keys_upload_body
  <2>1. /\ crypto' = [crypto EXCEPT !.fresh = @ \cup NewKeys] /\ crypto # NoAccount
        /\ body'.keys = crypto'.fresh /\ sync' \in {"idle", "upload"}
        /\ pickle' = pickle /\ uploaded' = uploaded
    BY <1>5 DEF keys_upload_body, store, server
  <2>2. /\ crypto'.id = crypto.id /\ crypto'.marked = crypto.marked
        /\ crypto.fresh \subseteq crypto'.fresh
    BY <2>1 DEF TypeOK, AccountType
  <2>3. Numbered' /\ Same'
    BY <2>1, <2>2 DEF Copies, Numbered, Same
  <2>4. UploadInv' /\ MarkedWereUploaded'
    BY <2>1, <2>2
    DEF Copies, Numbered, Same, UploadInv, MarkedWereUploaded, NoAccount
  <2> QED BY <2>3, <2>4 DEF Copies
<1>6. CASE keys_upload \/ keys_upload_fails
  <2>1. Aside
    BY <1>6
    DEF keys_upload, keys_upload_fails, taken, server, store, memory, Aside
  <2> QED BY <2>1, AsideKeepsCopies
<1>7. CASE mark_published
  <2>1. CASE crypto = NoAccount
    BY <1>7, <2>1
    DEF mark_published, server, Copies, Numbered, Same, UploadInv, MarkedWereUploaded
  <2>2. CASE crypto # NoAccount
    <3>1. /\ crypto' = Marked(crypto) /\ pickle' = Marked(crypto)
          /\ sync = "mark" /\ sync' = "idle" /\ uploaded' = uploaded
      BY <1>7, <2>2 DEF mark_published, server
    <3>2. /\ Marked(crypto).id = crypto.id
          /\ Marked(crypto).marked = crypto.marked \cup crypto.fresh
      BY MarkedFacts DEF TypeOK
    <3> QED
      BY <2>2, <3>1, <3>2
      DEF Copies, Numbered, Same, UploadInv, MarkedWereUploaded
  <2> QED BY <2>1, <2>2
<1>8. CASE restart
  <2>1. CASE row = None
    BY <1>8, <2>1
    DEF restart, server, Copies, Numbered, Same, UploadInv, MarkedWereUploaded,
        NoAccount
  <2>2. CASE row # None
    BY <1>8, <2>2, LoadKeepsCopies DEF restart, server
  <2> QED BY <2>1, <2>2
<1>9. CASE read_api \/ read_session \/ sync_once \/ sync_fails \/ maintain_otks
           \/ no_crypto \/ keys_claim \/ UNCHANGED vars
  <2>1. Aside
    BY <1>9
    DEF read_api, read_session, sync_once, sync_fails, maintain_otks, no_crypto,
        keys_claim, vars, store, memory, server, poll, Aside
  <2> QED BY <2>1, AsideKeepsCopies
<1>10. ASSUME NEW c \in Clients,
              \/ do_login(c) \/ login_api(c) \/ login_session(c) \/ do_logout(c)
              \/ logout_api(c) \/ logout_session(c) \/ write_secrets(c)
       PROVE  Copies'
  <2>1. Aside
    BY <1>10
    DEF do_login, login_api, login_session, do_logout, logout_api,
        logout_session, write_secrets, store, memory, server, poll, Aside
  <2> QED BY <2>1, AsideKeepsCopies
<1> QED
  BY <1>1, <1>2, <1>3, <1>4, <1>5, <1>6, <1>7, <1>8, <1>9, <1>10
  DEF Next, Client, SyncThread

-----------------------------------------------------------------------------
(* Who knows of a device.                                                  *)
(* Nothing comes to know of a device that did not before.                  *)
Narrow ==
  /\ row' \in {row, None} /\ dev' = dev /\ issued \subseteq issued'
  /\ \A d \in Devices : Settled(d)' => Settled(d)
  /\ \A c \in Clients : /\ pc'[c] \in LoggingIn => pc[c] \in LoggingIn
                        /\ pc'[c] = "save" => pc[c] = "save"

LEMMA NarrowKeepsDevices ==
  ASSUME TypeOK, DevicesInv, Narrow
  PROVE  DevicesInv'
<1>1. \A d \in Devices : Known(d)' => Known(d)
  BY AccountAssumption DEF Narrow, Known
<1>2. \A c \in Clients, d \in Devices :
        pc'[c] = "save" /\ dev[c] = d => row' # d /\ ~ Settled(d)'
  BY AccountAssumption DEF Narrow, DevicesInv
<1> QED BY <1>1, <1>2 DEF Narrow, DevicesInv, LoggingIn

(* Of the actions all but five are narrow.                                 *)
LEMMA ClientNarrow ==
  ASSUME TypeOK, NEW c \in Clients,
         \/ login_api(c) \/ login_session(c) \/ do_logout(c) \/ logout_api(c)
         \/ logout_crypto(c) \/ logout_clear(c) \/ logout_session(c)
         \/ write_secrets(c)
  PROVE  Narrow
<1>1. /\ row' \in {row, None} /\ dev' = dev /\ issued' = issued
      /\ ssession' = ssession /\ body' = body /\ identity' = identity
  BY DEF login_api, login_session, do_logout, logout_api, logout_crypto,
         logout_clear, logout_session, write_secrets, store, server, poll,
         client
<1>2. \A b \in Clients :
        /\ pc'[b] \in LoggingIn => pc[b] \in LoggingIn
        /\ pc'[b] = "save" => pc[b] = "save"
        /\ pc'[b] = "session" => pc[b] = "session"
  BY DEF login_api, login_session, do_logout, logout_api, logout_crypto,
         logout_clear, logout_session, write_secrets, client, Goto, LoggingIn,
         TypeOK
<1>3. \/ session' \in {session, None}
      \/ pc[c] = "session" /\ session' = dev[c]
  BY DEF login_api, login_session, do_logout, logout_api, logout_crypto,
         logout_clear, logout_session, write_secrets, memory
<1>4. ASSUME NEW d \in Devices, Settled(d)' PROVE Settled(d)
  <2>1. session' = d => session = d \/ (pc[c] = "session" /\ dev[c] = d)
    BY <1>3, AccountAssumption
  <2> QED BY <1>1, <1>2, <1>4, <2>1 DEF Settled
<1> QED BY <1>1, <1>2, <1>4 DEF Narrow

LEMMA SyncNarrow ==
  ASSUME TypeOK, SyncThread \/ keys_claim \/ UNCHANGED vars
  PROVE  Narrow
<1>1. row' = row /\ dev' = dev /\ pc' = pc /\ issued' = issued /\ session' = session
  BY DEF SyncThread, read_api, read_session, sync_once, sync_fails,
         handle_to_device, maintain_otks, keys_upload_body, no_crypto,
         keys_upload, keys_upload_fails, mark_published, taken, keys_claim,
         vars, store, memory, server, client
<1>2. ssession' \in {ssession, session} /\ body'.device \in {body.device, ssession, None}
  BY DEF SyncThread, read_api, read_session, sync_once, sync_fails,
         handle_to_device, maintain_otks, keys_upload_body, no_crypto,
         keys_upload, keys_upload_fails, mark_published, keys_claim, vars, poll
<1>3. \A d \in Devices : identity'[d] = identity[d] \/ body.device = d
  <2>1. CASE taken /\ Accepted
    BY <2>1, AccountAssumption DEF taken, Accepted, TypeOK
  <2>2. CASE identity' = identity
    BY <2>2
  <2> QED
    BY <2>1, <2>2
    DEF SyncThread, read_api, read_session, sync_once, sync_fails,
        handle_to_device, maintain_otks, keys_upload_body, no_crypto,
        keys_upload, keys_upload_fails, mark_published, keys_claim, vars, server
<1>4. \A d \in Devices : Settled(d)' => Settled(d)
  BY <1>1, <1>2, <1>3, AccountAssumption DEF Settled
<1> QED BY <1>1, <1>4 DEF Narrow

LEMMA DevicesStep == TypeOK /\ DevicesInv /\ [Next]_vars => DevicesInv'
<1> SUFFICES ASSUME TypeOK, DevicesInv, [Next]_vars PROVE DevicesInv'
  OBVIOUS
<1> USE AccountAssumption
<1>1. ASSUME NEW c \in Clients, do_login(c) PROVE DevicesInv'
  <2>1. PICK d0 \in Devices \ issued : /\ issued' = issued \cup {d0}
                                      /\ dev' = [dev EXCEPT ![c] = d0]
    BY <1>1 DEF do_login
  <2>2. /\ pc' = [pc EXCEPT ![c] = "save"] /\ row' = row /\ session' = session
        /\ ssession' = ssession /\ body' = body /\ identity' = identity
    BY <1>1 DEF do_login, Goto, store, memory, poll
  <2>3. dev'[c] = d0 /\ \A b \in Clients \ {c} : dev'[b] = dev[b] /\ pc'[b] = pc[b]
    BY <2>1, <2>2 DEF TypeOK
  <2>4. pc'[c] = "save"
    BY <2>2 DEF TypeOK
  <2>5. \A d \in Devices : Settled(d)' => Settled(d)
    BY <2>2, <2>3, <2>4 DEF Settled
  <2>6. \A d \in Devices : Known(d)' => Known(d) \/ d = d0
    BY <2>2, <2>3, <2>5 DEF Known
  <2>7. ~ Known(d0)
    BY DEF DevicesInv
  <2>8. \A b \in Clients : dev[b] # d0
    BY <2>7 DEF Known
  <2>9. row # d0 /\ ~ Settled(d0)' /\ d0 # None
    BY <2>5, <2>7 DEF Known
  <2>10. ASSUME NEW b \in Clients, NEW d \in Devices, pc'[b] = "save", dev'[b] = d
         PROVE  row' # d /\ ~ Settled(d)'
    <3>1. CASE b = c
      BY <2>2, <2>3, <2>9, <2>10, <3>1
    <3>2. CASE b # c
      BY <2>2, <2>3, <2>5, <2>10, <3>2 DEF DevicesInv
    <3> QED BY <3>1, <3>2
  <2>11. \A d \in Devices : Known(d)' => d \in issued'
    BY <2>1, <2>6 DEF DevicesInv
  <2>12. \A a, b \in Clients : dev'[a] = dev'[b] /\ dev'[a] # None => a = b
    BY <2>3, <2>8 DEF DevicesInv
  <2>13. \A b \in Clients : pc'[b] \in LoggingIn => dev'[b] # None
    BY <2>3, <2>9 DEF DevicesInv, LoggingIn
  <2> QED BY <2>10, <2>11, <2>12, <2>13 DEF DevicesInv, LoggingIn
<1>2. ASSUME NEW c \in Clients, login_save(c) PROVE DevicesInv'
  <2>1. /\ pc' = [pc EXCEPT ![c] = "api"] /\ pc[c] = "save" /\ row' = dev[c]
        /\ dev' = dev /\ session' = session /\ ssession' = ssession
        /\ body' = body /\ identity' = identity /\ issued' = issued
    BY <1>2 DEF login_save, Goto, memory, server, poll
  <2>2. pc'[c] = "api" /\ \A b \in Clients \ {c} : pc'[b] = pc[b]
    BY <2>1 DEF TypeOK
  <2>3. dev[c] \in Devices
    BY <2>1 DEF TypeOK, DevicesInv, LoggingIn
  <2>4. \A d \in Devices : Settled(d)' => Settled(d)
    BY <2>1, <2>2 DEF Settled
  <2>5. \A d \in Devices : Known(d)' => Known(d)
    BY <2>1, <2>4 DEF Known
  <2>6. ASSUME NEW b \in Clients, NEW d \in Devices, pc'[b] = "save", dev[b] = d
        PROVE  row' # d /\ ~ Settled(d)'
    <3>1. b # c /\ pc[b] = "save"
      BY <2>2, <2>6
    <3>2. d # dev[c] /\ ~ Settled(d)
      BY <2>6, <3>1 DEF DevicesInv
    <3> QED BY <2>1, <2>4, <3>2
  <2>7. \A b \in Clients : pc'[b] \in LoggingIn => dev'[b] # None
    BY <2>1, <2>2, <2>3 DEF DevicesInv, LoggingIn
  <2> QED BY <2>1, <2>5, <2>6, <2>7 DEF DevicesInv, LoggingIn
<1>3. ASSUME NEW c \in Clients, login_crypto(c) PROVE DevicesInv'
  <2>1. /\ \E p \in {"session", "idle"} : pc' = [pc EXCEPT ![c] = p]
        /\ pc[c] = "crypto" /\ row' = row
        /\ dev' = dev /\ session' = session /\ ssession' = ssession
        /\ body' = body /\ identity' = identity /\ issued' = issued
    BY <1>3 DEF login_crypto, Goto, server, poll
  <2>2. pc'[c] \in {"session", "idle"} /\ \A b \in Clients \ {c} : pc'[b] = pc[b]
    BY <2>1 DEF TypeOK
  <2>3. dev[c] \in Devices
    BY <2>1 DEF TypeOK, DevicesInv, LoggingIn
  <2>4. \A d \in Devices : Settled(d)' => Settled(d) \/ d = dev[c]
    BY <2>1, <2>2 DEF Settled
  <2>5. \A d \in Devices : Known(d)' => Known(d)
    BY <2>1, <2>4 DEF Known
  <2>6. ASSUME NEW b \in Clients, NEW d \in Devices, pc'[b] = "save", dev[b] = d
        PROVE  row' # d /\ ~ Settled(d)'
    <3>1. b # c /\ pc[b] = "save"
      BY <2>2, <2>6
    <3>2. d # dev[c] /\ ~ Settled(d) /\ row # d
      BY <2>6, <3>1 DEF DevicesInv
    <3> QED BY <2>1, <2>4, <3>2
  <2>7. \A b \in Clients : pc'[b] \in LoggingIn => dev'[b] # None
    BY <2>1, <2>2, <2>3 DEF DevicesInv, LoggingIn
  <2> QED BY <2>1, <2>5, <2>6, <2>7 DEF DevicesInv, LoggingIn
<1>4. CASE restart
  <2>1. /\ pc' = [c \in Clients |-> "idle"] /\ dev' = [c \in Clients |-> None]
        /\ row' = row /\ session' = row /\ ssession' = None /\ body' = NoBody
        /\ identity' = identity /\ issued' = issued
    BY <1>4 DEF restart, server
  <2>2. \A d \in Devices : Known(d)' => Known(d)
    BY <2>1 DEF Known, Settled, NoBody
  <2> QED BY <2>1, <2>2 DEF DevicesInv, LoggingIn
<1>5. CASE Narrow
  BY <1>5, NarrowKeepsDevices
<1> QED
  BY <1>1, <1>2, <1>3, <1>4, <1>5, ClientNarrow, SyncNarrow DEF Next, Client

-----------------------------------------------------------------------------
(* A settled login keeps its account.                                      *)
KeepsAccount == pickle # NoAccount => pickle' # NoAccount /\ pickle'.id = pickle.id

LEMMA NarrowKeepsSettled ==
  ASSUME SettledInv, Narrow, KeepsAccount, identity' = identity, body' = body
  PROVE  SettledInv'
BY AccountAssumption DEF SettledInv, Narrow, KeepsAccount

LEMMA LoadKeepsAccount ==
  ASSUME TypeOK, Numbered, load_or_create
  PROVE  KeepsAccount /\ pickle' # NoAccount
BY LoadedFacts, LoadedType DEF KeepsAccount

LEMMA SettledStep ==
  TypeOK /\ Numbered /\ Same /\ DevicesInv /\ SettledInv /\ [Next]_vars => SettledInv'
<1> SUFFICES ASSUME TypeOK, Numbered, Same, DevicesInv, SettledInv, [Next]_vars
             PROVE  SettledInv'
  OBVIOUS
<1> USE AccountAssumption
<1>1. ASSUME NEW c \in Clients, do_login(c) PROVE SettledInv'
  <2>1. PICK d0 \in Devices \ issued : dev' = [dev EXCEPT ![c] = d0]
    BY <1>1 DEF do_login
  <2>2. /\ pc' = [pc EXCEPT ![c] = "save"] /\ row' = row /\ session' = session
        /\ ssession' = ssession /\ body' = body /\ identity' = identity
        /\ pickle' = pickle
    BY <1>1 DEF do_login, Goto, store, memory, poll
  <2>3. \A b \in Clients : pc'[b] = "session" => pc[b] = "session" /\ dev'[b] = dev[b]
    BY <2>1, <2>2 DEF TypeOK
  <2>4. \A d \in Devices : Settled(d)' => Settled(d)
    BY <2>2, <2>3 DEF Settled
  <2> QED BY <2>2, <2>4 DEF SettledInv
<1>2. ASSUME NEW c \in Clients, login_save(c) PROVE SettledInv'
  <2>1. /\ pc' = [pc EXCEPT ![c] = "api"] /\ pc[c] = "save" /\ row' = dev[c]
        /\ dev' = dev /\ session' = session /\ ssession' = ssession
        /\ body' = body /\ identity' = identity
    BY <1>2 DEF login_save, Goto, memory, server, poll
  <2>2. \A b \in Clients : pc'[b] = "session" => pc[b] = "session"
    BY <2>1 DEF TypeOK
  <2>3. \A d \in Devices : Settled(d)' => Settled(d)
    BY <2>1, <2>2 DEF Settled
  <2>4. \A d \in Devices : row' = d => ~ Settled(d)
    BY <2>1 DEF DevicesInv
  <2> QED BY <2>3, <2>4 DEF SettledInv
<1>3. ASSUME NEW c \in Clients, login_crypto(c) PROVE SettledInv'
  <2>1. /\ row' = row /\ dev' = dev /\ session' = session /\ ssession' = ssession
        /\ body' = body /\ identity' = identity /\ pc[c] = "crypto"
        /\ \E p \in {"session", "idle"} : pc' = [pc EXCEPT ![c] = p]
    BY <1>3 DEF login_crypto, Goto, server, poll
  <2>2. KeepsAccount /\ pickle' # NoAccount
    BY <1>3, LoadKeepsAccount DEF login_crypto
  <2>3. \A b \in Clients \ {c} : pc'[b] = pc[b]
    BY <2>1 DEF TypeOK
  <2>4. \A d \in Devices : Settled(d)' => Settled(d) \/ d = dev[c]
    BY <2>1, <2>3 DEF Settled
  <2>5. ASSUME NEW d \in Devices, row = d, ~ Settled(d)
        PROVE  identity[d] = 0 /\ body.device # d
    BY <2>5 DEF Settled
  <2> QED BY <2>1, <2>2, <2>4, <2>5 DEF SettledInv, KeepsAccount
<1>4. ASSUME NEW c \in Clients, logout_clear(c) PROVE SettledInv'
  BY <1>4 DEF logout_clear, SettledInv
<1>5. ASSUME NEW c \in Clients,
             \/ login_api(c) \/ login_session(c) \/ do_logout(c) \/ logout_api(c)
             \/ logout_crypto(c) \/ logout_session(c) \/ write_secrets(c)
      PROVE  SettledInv'
  <2>1. pickle' = pickle /\ identity' = identity /\ body' = body
    BY <1>5
    DEF login_api, login_session, do_logout, logout_api, logout_crypto,
        logout_session, write_secrets, store, server, poll
  <2>2. Narrow
    BY <1>5, ClientNarrow
  <2> QED BY <2>1, <2>2, NarrowKeepsSettled DEF KeepsAccount
<1>6. CASE handle_to_device \/ mark_published
  <2>1. \/ pickle' = pickle
        \/ crypto # NoAccount /\ pickle' \in {crypto, Marked(crypto)}
    BY <1>6 DEF handle_to_device, mark_published
  <2>2. crypto # NoAccount => Marked(crypto).id = crypto.id /\ crypto.id # 0
    BY MarkedFacts DEF TypeOK, Numbered
  <2>3. KeepsAccount
    BY <2>1, <2>2 DEF KeepsAccount, Same, NoAccount
  <2>4. identity' = identity /\ body' = body
    BY <1>6 DEF handle_to_device, mark_published, server
  <2>5. Narrow
    BY <1>6, SyncNarrow DEF SyncThread
  <2> QED BY <2>3, <2>4, <2>5, NarrowKeepsSettled
<1>7. CASE keys_upload_body
  <2>1. /\ crypto # NoAccount /\ body'.id = crypto.id
        /\ body'.device \in {ssession, None}
        /\ pickle' = pickle /\ identity' = identity /\ row' = row
    BY <1>7 DEF keys_upload_body, store, server
  <2>2. Narrow
    BY <1>7, SyncNarrow DEF SyncThread
  <2> QED BY <2>1, <2>2 DEF SettledInv, Narrow, Same
<1>8. CASE keys_upload \/ keys_upload_fails
  <2>1. Narrow
    BY <1>8, SyncNarrow DEF SyncThread
  <2>2. row' = row /\ pickle' = pickle /\ body' = body
    BY <1>8 DEF keys_upload, keys_upload_fails, store
  <2>3. \A d \in Devices : identity'[d] = identity[d]
                          \/ (body.device = d /\ identity'[d] = body.id)
    <3>1. CASE taken /\ Accepted
      BY <3>1 DEF taken, Accepted, TypeOK
    <3>2. CASE identity' = identity
      BY <3>2
    <3> QED BY <1>8, <3>1, <3>2 DEF keys_upload, keys_upload_fails, server
  <2> QED BY <2>1, <2>2, <2>3 DEF SettledInv, Narrow, Settled
<1>9. CASE read_api \/ read_session \/ sync_once \/ sync_fails \/ maintain_otks
           \/ no_crypto \/ keys_claim \/ UNCHANGED vars
  <2>1. pickle' = pickle /\ identity' = identity /\ body' = body
    BY <1>9
    DEF read_api, read_session, sync_once, sync_fails, maintain_otks, no_crypto,
        keys_claim, vars, store, server, poll
  <2>2. Narrow
    BY <1>9, SyncNarrow DEF SyncThread
  <2> QED BY <2>1, <2>2, NarrowKeepsSettled DEF KeepsAccount
<1>10. CASE restart
  <2>1. /\ pc' = [c \in Clients |-> "idle"] /\ row' = row /\ session' = row
        /\ ssession' = None /\ body' = NoBody /\ identity' = identity
    BY <1>10 DEF restart, server
  <2>2. row # None => KeepsAccount /\ pickle' # NoAccount
    BY <1>10, LoadKeepsAccount DEF restart
  <2>3. \A d \in Devices : identity[d] # 0 => Settled(d)
    BY DEF Settled
  <2> QED BY <2>1, <2>2, <2>3 DEF SettledInv, KeepsAccount, NoBody
<1> QED
  BY <1>1, <1>2, <1>3, <1>4, <1>5, <1>6, <1>7, <1>8, <1>9, <1>10
  DEF Next, Client, SyncThread

-----------------------------------------------------------------------------
LEMMA StepInv == IInv /\ [Next]_vars => IInv'
<1> SUFFICES ASSUME IInv, [Next]_vars PROVE IInv'
  OBVIOUS
<1>1. TypeOK' /\ Polling' BY TypeStep DEF IInv
<1>2. Copies' BY CopiesStep DEF IInv, Copies
<1>3. DevicesInv' BY DevicesStep DEF IInv
<1>4. SettledInv' BY SettledStep DEF IInv
<1> QED BY <1>1, <1>2, <1>3, <1>4 DEF IInv, Copies

LEMMA Invariance == Spec => []IInv
BY InitInv, StepInv, PTL DEF Spec

(* The copies of the account, the server's keys and the threads' places in *)
(* do_login, do_logout and maintain_otks are well typed.                   *)
THEOREM AccountTypeCorrect == Spec => []TypeOK
<1>1. IInv => TypeOK BY DEF IInv
<1> QED BY <1>1, Invariance, PTL

(* However many clients log in and out under the sync thread, whatever     *)
(* request fails and wherever the daemon dies, the server never lists for  *)
(* the saved device an identity the store does not hold                    *)
(* (Crypto::load_or_create, main.rs maintain_otks).                        *)
THEOREM IdentityKeptAlways == Spec => []IdentityKept
<1>1. IInv => IdentityKept
  BY DEF IInv, SettledInv, Settled, IdentityKept
<1> QED BY <1>1, Invariance, PTL

(* A key the server has not accepted is never taken as published, though   *)
(* mark_published marks whatever the account of the moment holds           *)
(* (Crypto::mark_published).                                               *)
THEOREM MarkedWereUploadedAlways == Spec => []MarkedWereUploaded
<1>1. IInv => MarkedWereUploaded BY DEF IInv
<1> QED BY <1>1, Invariance, PTL
=============================================================================
