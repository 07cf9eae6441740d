---------------------------- MODULE Verification ----------------------------
(***************************************************************************)
(* One SAS verification, the daemon answering another device of the user   *)
(* (crypto.rs handle_verification and confirm_verification, main.rs        *)
(* handle_verification_event and apply_verify_step), and the backup key    *)
(* asked for once it is done.  The sync thread feeds in the other device's *)
(* events, a client thread the user's answer; both change the transaction  *)
(* under the net lock and carry out the resulting step without it.  A sync *)
(* iteration that fails is repeated, with the same events.                 *)
(*                                                                         *)
(* Ephemeral keys of ours are numbered; theirs is one per transaction, so  *)
(* ours stands for the emoji, the commitment and the MAC keys it yields.   *)
(* The other device is the account's only other one, and it speaks         *)
(* m.sas.v1: cancels for a method or a content it would not send are left  *)
(* out, and every other cancel does the same whatever its code.            *)
(***************************************************************************)
EXTENDS Naturals, Sequences

CONSTANTS
  MaxKeys,  \* bound on ephemeral keys of ours
  MaxMail,  \* bound on events of ours waiting at the server
  Mishaps   \* what may go wrong: "send" (a request of ours, or the writing
            \* of a secret), "sync", "crash", "timeout"

ASSUME VerificationAssumption ==
  /\ MaxKeys \in Nat \ {0} /\ MaxMail \in Nat \ {0}
  /\ Mishaps \subseteq {"send", "sync", "crash", "timeout"}

VARIABLES
  faults,    \* those of Mishaps this behaviour has
  (* the daemon *)
  entry,     \* Crypto.verifications of the transaction
  made,      \* ephemeral keys made so far
  known,     \* Crypto.device_ed_keys has the other device's key
  step,      \* what is left to do of a thread's VerifyStep
  asked,     \* Crypto.secret_requests
  backup,    \* the backup key is held
  token,     \* to-device events passed by the saved sync token
  at, upto,  \* the sync thread's place in its batch, and the batch's end
  (* the reader *)
  screen,    \* the emoji shown, 0 for none
  answer,    \* the answer on its way to the daemon
  approved,  \* emoji the reader called a match
  (* the other device *)
  feed,      \* its to-device events to us
  mail,      \* ours to it, not yet handled
  their,     \* how far it is
  commit,    \* the key its accept committed us to
  macs,      \* what it has of us: "mac", "done"
  (* what was concluded *)
  verified   \* keys under which a verification was announced done

crypto == <<entry, made, known, asked, backup>>
sync   == <<token, at, upto>>
reader == <<screen, answer, approved>>
peer   == <<their, commit, macs>>
vars   == <<faults, crypto, step, sync, reader, feed, mail, peer, verified>>

Threads == {"sync", "client"}

NoEntry  == [live |-> FALSE, key |-> 0, keyed |-> FALSE,
             we |-> FALSE, mac |-> "none", done |-> FALSE]
NewEntry == [NoEntry EXCEPT !.live = TRUE]

Msg(kind, k) == [kind |-> kind, key |-> k]

Init ==
  /\ faults \in SUBSET Mishaps
  /\ entry = NoEntry /\ made = 0 /\ known = FALSE
  /\ step = [t \in Threads |-> <<>>]
  /\ asked = {} /\ backup = FALSE
  /\ token = 0 /\ at = 0 /\ upto = 0
  /\ screen = 0 /\ answer = "none" /\ approved = {}
  /\ feed = <<>> /\ mail = <<>>
  /\ their = "new" /\ commit = 0 /\ macs = {}
  /\ verified = {}

-----------------------------------------------------------------------------
(* What a handler leaves: the transaction, and the step to carry out.      *)
Result(e, todo) == [entry |-> e, todo |-> todo]

Nothing(e) == Result(e, <<>>)

cancel == Result(NoEntry, <<Msg("cancel", 0), Msg("cancelled", 0)>>)

complete_hasty(e) == e.we /\ e.mac # "none"  \* faulty: their `done` is not waited for

complete(e) == e.we /\ e.mac # "none" /\ e.done

Completed(e, todo) ==
  IF complete(e)
    THEN Result(NoEntry, todo \o <<Msg("verified", e.key), Msg("ask", e.key)>>)
    ELSE Result(e, todo)

-----------------------------------------------------------------------------
(* The handlers, given the transaction as expire_verifications left it.    *)

(* A repeated request starts the transaction afresh.                       *)
verification_request(e) == Result(NewEntry, <<Msg("ready", 0)>>)

(* A start needs no request before it; a second one is ignored.            *)
Started(e) == [e EXCEPT !.live = TRUE, !.key = made + 1]

verification_start_silent(e) ==  \* faulty: the accept is forgotten
  IF e.key # 0 THEN Nothing(e) ELSE Nothing(Started(e))

verification_start(e) ==
  IF e.key # 0 THEN Nothing(e)
  ELSE Result(Started(e), <<Msg("accept", made + 1)>>)

(* The ephemeral key is used up, so a second key is one too many.          *)
verification_key(e) ==
  CASE ~ e.live -> Nothing(e)
    [] e.live /\ (e.key = 0 \/ e.keyed) -> cancel
    [] OTHER -> Result([e EXCEPT !.keyed = TRUE],
                       <<Msg("key", e.key), Msg("emoji", e.key)>>)

(* The MAC over their key ids is checked first, under the keys the         *)
(* exchange yielded.  The one over their ed25519 key is skipped where no   *)
(* query has brought that key.                                             *)
Checked == IF known THEN "proved" ELSE "skipped"

verification_mac(e, m) ==
  CASE ~ e.live -> Nothing(e)
    [] e.live /\ ~ e.keyed -> cancel
    [] e.live /\ e.keyed /\ m.key # e.key -> cancel
    [] OTHER -> Completed([e EXCEPT !.mac = Checked], <<>>)

verification_done(e) ==
  IF e.live THEN Completed([e EXCEPT !.done = TRUE], <<>>) ELSE Nothing(e)

verification_cancel(e) ==
  IF e.live THEN Result(NoEntry, <<Msg("cancelled", 0)>>) ELSE Nothing(e)

confirm_verification_anyway(e, yes) ==  \* faulty: the answer is not looked at
  CASE ~ e.live -> Result(e, <<Msg("cancelled", 0)>>)
    [] e.live /\ ~ e.keyed -> cancel
    [] OTHER -> Completed([e EXCEPT !.we = TRUE],
                          <<Msg("mac", e.key), Msg("done", e.key)>>)

confirm_verification_asking(e, yes) ==  \* faulty: asks for the backup key at once
  CASE ~ e.live -> Result(e, <<Msg("cancelled", 0)>>)
    [] e.live /\ ~ (yes /\ e.keyed) -> cancel
    [] OTHER -> Completed([e EXCEPT !.we = TRUE],
                          <<Msg("mac", e.key), Msg("done", e.key), Msg("ask", e.key)>>)

confirm_verification(e, yes) ==
  CASE ~ e.live -> Result(e, <<Msg("cancelled", 0)>>)
    [] e.live /\ ~ (yes /\ e.keyed) -> cancel
    [] OTHER -> Completed([e EXCEPT !.we = TRUE],
                          <<Msg("mac", e.key), Msg("done", e.key)>>)

Handled(e, m) ==
  CASE m.kind = "request" -> verification_request(e)
    [] m.kind = "start"   -> verification_start(e)
    [] m.kind = "key"     -> verification_key(e)
    [] m.kind = "mac"     -> verification_mac(e, m)
    [] m.kind = "done"    -> verification_done(e)
    [] m.kind = "cancel"  -> verification_cancel(e)

Left(e) == IF "timeout" \in faults THEN {e, NoEntry} ELSE {e}

Takes(t, r) ==
  /\ entry' = r.entry
  /\ made' = IF r.entry.key > made THEN r.entry.key ELSE made
  /\ made' =< MaxKeys
  /\ step' = [step EXCEPT ![t] = r.todo]

-----------------------------------------------------------------------------
(* The sync thread.                                                        *)
sync_once ==
  /\ at = upto /\ upto = token /\ step["sync"] = <<>>
  /\ token < Len(feed) /\ upto' = Len(feed)
  /\ at' = token
  /\ UNCHANGED <<faults, crypto, step, token, reader, feed, mail, peer, verified>>

(* Secrets travel encrypted and are handled before the batch's other       *)
(* events.  One that answers no request of ours is ignored; that the       *)
(* device answering has been verified is not looked at.  Where the secret  *)
(* is not the backup's key, or cannot be kept, it is gone.                 *)
handle_secret ==
  \/ backup' = (backup \/ \E i \in token + 1 .. upto :
                             feed[i].kind = "secret" /\ feed[i].key \in asked)
  \/ "send" \in faults /\ UNCHANGED backup

(* The account's devices are asked for before a request or a start is      *)
(* handled; an error is only logged.                                       *)
keys_query(m) ==
  \/ known' = (known \/ m.kind \in {"request", "start"})
  \/ "send" \in faults /\ UNCHANGED known

handle_verification_event ==
  /\ at < upto /\ step["sync"] = <<>>
  /\ at' = at + 1
  /\ IF at = token THEN handle_secret ELSE UNCHANGED backup
  /\ keys_query(feed[at + 1])
  /\ IF feed[at + 1].kind = "secret"
       THEN UNCHANGED <<entry, made, step>>
       ELSE \E e \in Left(entry) : Takes("sync", Handled(e, feed[at + 1]))
  /\ UNCHANGED <<faults, asked, token, upto, reader, feed, mail, peer, verified>>

save_sync_token ==
  /\ at = upto /\ upto > token /\ step["sync"] = <<>>
  /\ token' = upto
  /\ UNCHANGED <<faults, crypto, step, at, upto, reader, feed, mail, peer, verified>>

(* A room of the batch cannot be stored: the token stays, and the whole    *)
(* batch comes again.                                                      *)
process_sync_fails_halfway ==  \* faulty: the batch's end is kept
  /\ "sync" \in faults
  /\ at = upto /\ upto > token /\ step["sync"] = <<>>
  /\ at' = token - 1 /\ upto' = upto
  /\ UNCHANGED <<faults, crypto, step, token, reader, feed, mail, peer, verified>>

process_sync_fails ==
  /\ "sync" \in faults
  /\ at = upto /\ upto > token /\ step["sync"] = <<>>
  /\ at' = token /\ upto' = token
  /\ UNCHANGED <<faults, crypto, step, token, reader, feed, mail, peer, verified>>

(* do_verify_confirm.                                                      *)
do_verify_confirm ==
  /\ answer # "none" /\ step["client"] = <<>>
  /\ Takes("client", confirm_verification(entry, answer = "yes"))
  /\ answer' = "none"
  /\ UNCHANGED <<faults, known, asked, backup, sync, screen, approved, feed, mail, peer,
                 verified>>

-----------------------------------------------------------------------------
(* apply_verify_step, one effect at a time.  An event that cannot be sent  *)
(* is logged and forgotten.                                                *)
ToDevice == {"ready", "accept", "key", "mac", "done", "cancel"}

Done(t) == step' = [step EXCEPT ![t] = Tail(@)]

send_to_device(t) ==
  /\ step[t] # <<>> /\ Head(step[t]).kind \in ToDevice
  /\ Len(mail) < MaxMail
  /\ \/ mail' = Append(mail, Head(step[t]))
     \/ "send" \in faults /\ UNCHANGED mail
  /\ Done(t)
  /\ UNCHANGED <<faults, crypto, sync, reader, feed, peer, verified>>

(* Bus events: the plugin opens the prompt, or takes it off the screen.    *)
publish(t) ==
  /\ step[t] # <<>> /\ Head(step[t]).kind \in {"emoji", "verified", "cancelled"}
  /\ screen' = IF Head(step[t]).kind = "emoji" THEN Head(step[t]).key ELSE 0
  /\ verified' = IF Head(step[t]).kind = "verified"
                   THEN verified \cup {Head(step[t]).key} ELSE verified
  /\ Done(t)
  /\ UNCHANGED <<faults, crypto, sync, answer, approved, feed, mail, peer>>

(* Nothing is asked for if the account's devices cannot be listed; else    *)
(* all of them are, and the request is known before it is sent.            *)
request_backup_secret(t) ==
  /\ step[t] # <<>> /\ Head(step[t]).kind = "ask"
  /\ IF backup THEN UNCHANGED <<asked, mail>>
     ELSE \/ /\ asked' = asked \cup {Head(step[t]).key}
             /\ \/ mail' = Append(mail, Head(step[t]))
                \/ "send" \in faults /\ UNCHANGED mail
          \/ "send" \in faults /\ UNCHANGED <<asked, mail>>
  /\ Done(t)
  /\ UNCHANGED <<faults, entry, made, known, backup, sync, reader, feed, peer, verified>>

Apply(t) == send_to_device(t) \/ publish(t) \/ request_backup_secret(t)

(* Transactions, devices and secret requests live in memory only.          *)
restart ==
  /\ "crash" \in faults
  /\ entry' = NoEntry /\ asked' = {} /\ known' = FALSE
  /\ step' = [t \in Threads |-> <<>>]
  /\ at' = token /\ upto' = token
  /\ screen' = 0 /\ answer' = "none"
  /\ UNCHANGED <<faults, made, backup, token, approved, feed, mail, peer, verified>>

-----------------------------------------------------------------------------
(* The reader compares both screens, and may give up at any time.          *)
BothShown == screen = commit /\ their \in {"compare", "confirmed"}

They_match ==
  /\ screen # 0 /\ BothShown /\ answer = "none"
  /\ answer' = "yes" /\ approved' = approved \cup {screen}
  /\ screen' = 0
  /\ UNCHANGED <<faults, crypto, step, sync, feed, mail, peer, verified>>

They_dont_match ==
  /\ screen # 0 /\ answer = "none"
  /\ faults # {}
  /\ answer' = "no" /\ screen' = 0
  /\ UNCHANGED <<faults, crypto, step, sync, approved, feed, mail, peer, verified>>

-----------------------------------------------------------------------------
(* The other device, as the protocol has it.                               *)
Says(kinds, k) == feed' = feed \o [i \in DOMAIN kinds |-> Msg(kinds[i], k)]

their_request ==
  /\ their = "new" /\ their' = "requested"
  /\ Says(<<"request">>, 0)
  /\ UNCHANGED <<faults, crypto, step, sync, reader, mail, commit, macs, verified>>

Got == Head(mail)

(* It trusts us once its user approved and our MAC proved right; our done  *)
(* completes its side.                                                     *)
Trusts == their \in {"confirmed", "done"} /\ "mac" \in macs

their_mail ==
  /\ mail # <<>> /\ mail' = Tail(mail)
  /\ CASE Got.kind = "ready" /\ their = "requested" ->
            their' = "started" /\ Says(<<"start">>, 0) /\ UNCHANGED <<commit, macs>>
       [] Got.kind = "accept" /\ their = "started" ->
            /\ commit' = Got.key /\ their' = "keyed"
            /\ Says(<<"key">>, Got.key) /\ UNCHANGED macs
       [] Got.kind = "key" /\ their = "keyed" /\ Got.key = commit ->
            their' = "compare" /\ UNCHANGED <<feed, commit, macs>>
       [] Got.kind = "mac" /\ their \in {"compare", "confirmed"} /\ Got.key = commit ->
            /\ macs' = macs \cup {"mac"}
            /\ IF their = "confirmed" THEN Says(<<"done">>, commit) ELSE UNCHANGED feed
            /\ UNCHANGED <<their, commit>>
       [] Got.kind = "done" /\ "mac" \in macs /\ their # "cancelled" ->
            /\ macs' = macs \cup {"done"}
            /\ their' = IF their = "confirmed" THEN "done" ELSE their
            /\ UNCHANGED <<feed, commit>>
       [] Got.kind = "ask" /\ Trusts ->
            /\ feed' = Append(feed, Msg("secret", Got.key))
            /\ UNCHANGED peer
       [] Got.kind = "cancel" /\ their # "done" ->
            their' = "cancelled" /\ UNCHANGED <<feed, commit, macs>>
       [] OTHER ->
            \/ UNCHANGED <<feed, peer>>
            \/ /\ their \notin {"done", "cancelled"} /\ Got.kind # "ask"
               /\ their' = "cancelled" /\ Says(<<"cancel">>, commit)
               /\ UNCHANGED <<commit, macs>>
  /\ UNCHANGED <<faults, crypto, step, sync, reader, verified>>

their_confirm ==
  /\ their = "compare" /\ (screen = commit \/ commit \in approved)
  /\ UNCHANGED <<commit, macs>>
  /\ Says(IF "mac" \in macs THEN <<"mac", "done">> ELSE <<"mac">>, commit)
  /\ their' = IF "done" \in macs THEN "done" ELSE "confirmed"
  /\ UNCHANGED <<faults, crypto, step, sync, reader, mail, verified>>

their_cancel ==
  /\ faults # {} /\ their \notin {"new", "done", "cancelled"}
  /\ their' = "cancelled" /\ UNCHANGED <<commit, macs>>
  /\ Says(<<"cancel">>, commit)
  /\ UNCHANGED <<faults, crypto, step, sync, reader, mail, verified>>

-----------------------------------------------------------------------------
SyncThread ==
  \/ sync_once \/ handle_verification_event \/ save_sync_token
  \/ process_sync_fails
  \/ Apply("sync")

ClientThread == do_verify_confirm \/ Apply("client")

Reader == They_match \/ They_dont_match

Other == their_request \/ their_mail \/ their_confirm \/ their_cancel

Next == SyncThread \/ ClientThread \/ Reader \/ Other \/ restart

Spec == Init /\ [][Next]_vars

(* The threads run, messages arrive, and both of the user's screens are    *)
(* looked at.                                                              *)
Fairness ==
  /\ WF_vars(SyncThread) /\ WF_vars(ClientThread)
  /\ WF_vars(Reader)
  /\ WF_vars(their_request) /\ WF_vars(their_mail) /\ WF_vars(their_confirm)

FairSpec == Spec /\ Fairness

-----------------------------------------------------------------------------
(* Properties.                                                             *)

Keys == 0 .. MaxKeys

Msgs == [kind : ToDevice \cup {"ask", "emoji", "verified", "cancelled",
                               "request", "start", "secret"}, key : Keys]

TypeOK ==
  /\ faults \in SUBSET Mishaps
  /\ entry \in [live : BOOLEAN, key : Keys, keyed : BOOLEAN,
                we : BOOLEAN, mac : {"none", "skipped", "proved"}, done : BOOLEAN]
  /\ made \in Keys /\ known \in BOOLEAN /\ asked \in SUBSET Keys /\ backup \in BOOLEAN
  /\ step \in [Threads -> Seq(Msgs)]
  /\ token \in Nat /\ at \in token .. upto /\ upto \in token .. Len(feed)
  /\ screen \in Keys /\ answer \in {"none", "yes", "no"}
  /\ approved \in SUBSET Keys
  /\ feed \in Seq(Msgs) /\ mail \in Seq(Msgs)
  /\ their \in {"new", "requested", "started", "keyed", "compare",
                "confirmed", "done", "cancelled"}
  /\ commit \in Keys /\ macs \in SUBSET {"mac", "done"}
  /\ verified \in SUBSET Keys

Heard(kind, k) == \E i \in DOMAIN feed : feed[i] = Msg(kind, k)

(* crypto.rs complete: a verification is announced done only when the      *)
(* reader called these very emoji a match, the other device's user did,    *)
(* and that device has found our MAC right and said so, whatever is        *)
(* repeated, lost or restarted in between.                                 *)
NobodyVerifiesAlone ==
  \A k \in verified :
    k \in approved /\ k = commit /\ Heard("mac", k) /\ Heard("done", k)

(* Nor does the other device come to trust us without the reader's word    *)
(* (crypto.rs confirm_verification).                                       *)
TrustedOnlyWhenApproved == Trusts => commit \in approved

(* crypto.rs handle_secret_send, main.rs handle_secret: a backup key is    *)
(* adopted only from a device that verified us, in answer to a request.    *)
(* That nobody else sends one is assumed: the account's one other device   *)
(* is asked, and the code does not look at the sender.                     *)
BackupOnlyAfterVerification == backup => "mac" \in macs /\ commit \in verified

(* Where nothing goes wrong and the emoji match, the verification is       *)
(* completed on both sides and the backup key arrives, in whatever order   *)
(* the two users and the threads come.                                     *)
CalmCompletes == faults = {} ~> (their = "done" /\ commit \in verified /\ backup)

-----------------------------------------------------------------------------
(* What the source says and the code does not do.                          *)

(* crypto.rs remember_devices: "the key has to be on hand before the       *)
(* m.key.verification.mac arrives".  A query that fails, or a restart      *)
(* between the start and the MAC, leaves it out, and the verification goes *)
(* on to be announced with that MAC skipped.                               *)
KeyOnHand == entry.mac # "skipped"
=============================================================================
