------------------------------ MODULE Outbound ------------------------------
(***************************************************************************)
(* Sending into one encrypted room (main.rs do_send and the outbound half  *)
(* of crypto.rs): IPC client threads share the room's outbound Megolm      *)
(* session with the other devices, then encrypt and send.  Requests run    *)
(* without a lock; each action below is one request or one section under   *)
(* the db and net locks.  A session number names a GroupSession, an index  *)
(* its ratchet position.  Memory and disk differ only where writing the    *)
(* pickle failed.                                                          *)
(***************************************************************************)
EXTENDS Naturals, FiniteSets

CONSTANTS
  Clients,      \* IPC client threads
  Devices,      \* everyone else's devices
  Late,         \* those that join the room only later
  Reachable,    \* those with a one-time key left to claim
  MaxSessions,  \* bound on outbound sessions ever created
  MaxIndex,     \* bound on messages encrypted under one session
  Faults        \* what may go wrong: "request", "write", "crash"

ASSUME OutboundAssumption ==
  /\ Late \subseteq Devices /\ Reachable \subseteq Devices
  /\ MaxSessions \in Nat /\ MaxIndex \in Nat
  /\ Faults \subseteq {"request", "write", "crash"}

VARIABLES
  members,   \* devices of the room's members, as the server lists them
  got,       \* room keys the server has accepted: [device, session, first]
  sent,      \* events it has accepted: [session, index, audience, listed]
  outbound,  \* Crypto.outbound of the room
  saved,     \* its pickle
  created,   \* sessions created so far
  olm,       \* Olm sessions started with each device, memory and pickles
  pc,
  audience,  \* members when do_send began
  roster,    \* devices keys_query listed
  need,      \* those of them to claim a one-time key for
  claimed,   \* those of them keys_claim returned a key of
  share,     \* the m.room_key messages to send
  listed,    \* devices this send has shared the key with
  out        \* the encrypted event

server == <<members, got, sent>>
crypto == <<outbound, saved, created, olm>>
locals == <<pc, audience, roster, need, claimed, share, listed, out>>
vars   == <<server, crypto, locals>>

Sessions  == 1 .. MaxSessions
Positions == [session : Sessions, index : 0 .. MaxIndex]
None      == [session |-> 0, index |-> 0]
RoomKeys  == [device : Devices, session : Sessions, first : 0 .. MaxIndex]
Messages  == [session : Sessions, index : 0 .. MaxIndex,
              audience : SUBSET Devices, listed : SUBSET Devices]

Init ==
  /\ members = Devices \ Late /\ got = {} /\ sent = {}
  /\ outbound = None /\ saved = None /\ created = 0
  /\ olm = [d \in Devices |-> 0]
  /\ pc = [c \in Clients |-> "idle"]
  /\ audience = [c \in Clients |-> {}]
  /\ roster = [c \in Clients |-> {}]
  /\ need = [c \in Clients |-> {}]
  /\ claimed = [c \in Clients |-> {}]
  /\ share = [c \in Clients |-> {}]
  /\ listed = [c \in Clients |-> {}]
  /\ out = [c \in Clients |-> None]

-----------------------------------------------------------------------------
Goto(c, where) == pc' = [pc EXCEPT ![c] = where]

(* A device joins the room, or a member logs in on one.                    *)
join ==
  /\ \E d \in Devices \ members : members' = members \cup {d}
  /\ UNCHANGED <<got, sent, crypto, locals>>

(* need_share: only a room without an outbound session is shared to.       *)
has_outbound == outbound # None

do_send(c) ==
  /\ pc[c] = "idle"
  /\ audience' = [audience EXCEPT ![c] = members]
  /\ listed' = [listed EXCEPT ![c] = {}]
  /\ Goto(c, IF has_outbound THEN "encrypt" ELSE "query")
  /\ UNCHANGED <<server, crypto, roster, need, claimed, share, out>>

(* joined_members and keys_query, then devices_needing_session.            *)
devices_needing_session(D) == {d \in D : olm[d] = 0}

keys_query(c) ==
  /\ pc[c] = "query"
  /\ roster' = [roster EXCEPT ![c] = members]
  /\ need' = [need EXCEPT ![c] = devices_needing_session(members)]
  /\ Goto(c, IF need'[c] = {} THEN "share" ELSE "claim")
  /\ UNCHANGED <<server, crypto, audience, claimed, share, listed, out>>

(* The server gives one key of each device that has any left.  No lock is  *)
(* held: of two sends that need the same device each claims a key of it.   *)
keys_claim(c) ==
  /\ pc[c] = "claim"
  /\ claimed' = [claimed EXCEPT ![c] = need[c] \cap Reachable]
  /\ Goto(c, "olm")
  /\ UNCHANGED <<server, crypto, audience, roster, need, share, listed, out>>

(* The list may be stale by now: a device that has a session meanwhile is  *)
(* skipped, and the key claimed for it is lost.  One whose session cannot  *)
(* be pickled is skipped too.                                              *)
create_outbound_olm_stale(c) ==  \* faulty: the stale list is trusted
  /\ pc[c] = "olm"
  /\ olm' = [d \in Devices |-> IF d \in claimed[c] THEN olm[d] + 1 ELSE olm[d]]
  /\ Goto(c, "share")
  /\ UNCHANGED <<server, outbound, saved, created,
                 audience, roster, need, claimed, share, listed, out>>

create_outbound_olm(c) ==
  /\ pc[c] = "olm"
  /\ \E started \in SUBSET claimed[c] :
       /\ "write" \in Faults \/ started = claimed[c]
       /\ olm' = [d \in Devices |->
                    IF d \in started /\ olm[d] = 0 THEN olm[d] + 1 ELSE olm[d]]
  /\ Goto(c, "share")
  /\ UNCHANGED <<server, outbound, saved, created,
                 audience, roster, need, claimed, share, listed, out>>

(* get_or_create_outbound puts the outbound pickle, then the inbound one,  *)
(* and only then keeps the session.                                        *)
Fresh == [session |-> created + 1, index |-> 0]

get_or_create_outbound == IF has_outbound THEN outbound ELSE Fresh

(* encrypt_room_key_to_devices: the key from the session's current index,  *)
(* for every listed device that has an Olm session.                        *)
RoomKeyFor_next(D, o) ==  \* faulty: the index after the current one
  {[device |-> d, session |-> o.session, first |-> o.index + 1] : d \in D}

RoomKeyFor(D, o) ==
  {[device |-> d, session |-> o.session, first |-> o.index] : d \in D}

encrypt_room_key_to_devices(c) ==
  /\ pc[c] = "share"
  /\ has_outbound \/ created < MaxSessions
  /\ outbound' = get_or_create_outbound
  /\ saved' = IF has_outbound THEN saved ELSE Fresh
  /\ created' = IF has_outbound THEN created ELSE created + 1
  /\ share' = [share EXCEPT ![c] =
                 RoomKeyFor({d \in roster[c] : olm[d] > 0}, outbound')]
  /\ Goto(c, "deliver")
  /\ UNCHANGED <<server, olm, audience, roster, need, claimed, listed, out>>

(* The second of its two pickles cannot be written.                        *)
create_outbound_fails(c) ==
  /\ "write" \in Faults
  /\ pc[c] = "share" /\ ~ has_outbound /\ created < MaxSessions
  /\ saved' = Fresh /\ created' = created + 1
  /\ Goto(c, "idle")
  /\ UNCHANGED <<server, outbound, olm,
                 audience, roster, need, claimed, share, listed, out>>

send_to_device(c) ==
  /\ pc[c] = "deliver"
  /\ got' = got \cup share[c]
  /\ listed' = [listed EXCEPT ![c] = {k.device : k \in share[c]}]
  /\ Goto(c, "encrypt")
  /\ UNCHANGED <<members, sent, crypto, audience, roster, need, claimed, share, out>>

(* encrypt: the ratchet moves, and its pickle is written before the event  *)
(* leaves the lock.                                                        *)
Ratchet(o) == [session |-> o.session, index |-> o.index + 1]

encrypt_unsaved(c) ==  \* faulty: the pickle is left behind
  /\ pc[c] = "encrypt" /\ has_outbound /\ outbound.index < MaxIndex
  /\ out' = [out EXCEPT ![c] = outbound]
  /\ outbound' = Ratchet(outbound)
  /\ Goto(c, "send")
  /\ UNCHANGED <<server, saved, created, olm,
                 audience, roster, need, claimed, share, listed>>

encrypt(c) ==
  /\ pc[c] = "encrypt" /\ has_outbound /\ outbound.index < MaxIndex
  /\ out' = [out EXCEPT ![c] = outbound]
  /\ outbound' = Ratchet(outbound)
  /\ saved' = outbound'
  /\ Goto(c, "send")
  /\ UNCHANGED <<server, created, olm, audience, roster, need, claimed, share, listed>>

encrypt_fails(c) ==
  /\ "write" \in Faults
  /\ pc[c] = "encrypt" /\ has_outbound /\ outbound.index < MaxIndex
  /\ outbound' = Ratchet(outbound)
  /\ Goto(c, "idle")
  /\ UNCHANGED <<server, saved, created, olm,
                 audience, roster, need, claimed, share, listed, out>>

Event(c) == [session |-> out[c].session, index |-> out[c].index,
             audience |-> audience[c], listed |-> listed[c]]

send_event(c) ==
  /\ pc[c] = "send"
  /\ sent' = sent \cup {Event(c)}
  /\ Goto(c, "idle")
  /\ UNCHANGED <<members, got, crypto,
                 audience, roster, need, claimed, share, listed, out>>

(* A request fails, before or after the server has acted on it; do_send    *)
(* returns the error.                                                      *)
request_fails(c) ==
  /\ "request" \in Faults
  /\ pc[c] \in {"query", "claim", "deliver", "send"}
  /\ got' \in {got, IF pc[c] = "deliver" THEN got \cup share[c] ELSE got}
  /\ sent' \in {sent, IF pc[c] = "send" THEN sent \cup {Event(c)} ELSE sent}
  /\ Goto(c, "idle")
  /\ UNCHANGED <<members, crypto, audience, roster, need, claimed, share, listed, out>>

(* The daemon dies and starts again from its pickles.                      *)
restart ==
  /\ "crash" \in Faults
  /\ outbound' = saved
  /\ pc' = [c \in Clients |-> "idle"]
  /\ UNCHANGED <<server, saved, created, olm,
                 audience, roster, need, claimed, share, listed, out>>

Send(c) ==
  \/ do_send(c)
  \/ keys_query(c)
  \/ keys_claim(c)
  \/ create_outbound_olm(c)
  \/ encrypt_room_key_to_devices(c)
  \/ create_outbound_fails(c)
  \/ send_to_device(c)
  \/ encrypt(c)
  \/ encrypt_fails(c)
  \/ send_event(c)
  \/ request_fails(c)

Next == join \/ restart \/ \E c \in Clients : Send(c)

Spec == Init /\ [][Next]_vars

-----------------------------------------------------------------------------
(* Properties.                                                             *)

Phases == {"idle", "query", "claim", "olm", "share", "deliver", "encrypt", "send"}

TypeOK ==
  /\ members \in SUBSET Devices
  /\ got \in SUBSET RoomKeys /\ sent \in SUBSET Messages
  /\ outbound \in Positions \cup {None} /\ saved \in Positions \cup {None}
  /\ created \in 0 .. MaxSessions
  /\ olm \in [Devices -> Nat]
  /\ pc \in [Clients -> Phases]
  /\ audience \in [Clients -> SUBSET Devices]
  /\ roster \in [Clients -> SUBSET Devices]
  /\ need \in [Clients -> SUBSET Devices]
  /\ claimed \in [Clients -> SUBSET Devices]
  /\ share \in [Clients -> SUBSET RoomKeys]
  /\ listed \in [Clients -> SUBSET Devices]
  /\ out \in [Clients -> Positions \cup {None}]

(* No two events are ever encrypted at the same index of the same session, *)
(* whatever fails and whenever the daemon dies: the pickle is written      *)
(* before the event leaves (crypto.rs encrypt).                            *)
SameKey(x, y) == x.session = y.session /\ x.index = y.index

IndexNeverReused ==
  \A c \in Clients :
    pc[c] = "send" =>
      /\ \A m \in sent : ~ SameKey(m, out[c])
      /\ \A b \in Clients \ {c} :
           pc[b] = "send" => ~ SameKey(out[b], out[c])

(* An event is sent only once the devices its own do_send shared the key   *)
(* with hold a key that reads it (main.rs do_send).                        *)
CanRead(d, m) ==
  \E k \in got : k.device = d /\ k.session = m.session /\ k.first =< m.index

KeyBeforeMessage == \A m \in sent : \A d \in m.listed : CanRead(d, m)

(* Racing sends never start a second Olm session with a device they can    *)
(* already reach, though each may have claimed a key for it: the stale     *)
(* list is checked again under the lock (crypto.rs create_outbound_olm).   *)
NoSecondOlm == \A d \in Devices : olm[d] =< 1

(* main.rs do_send: "Ensure we hold an outbound Megolm session and every   *)
(* device has the key."                                                    *)
EveryDeviceHasTheKey == \A m \in sent : \A d \in m.audience : CanRead(d, m)
=============================================================================
