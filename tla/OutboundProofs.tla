--------------------------- MODULE OutboundProofs ---------------------------
(***************************************************************************)
(* Proofs about Outbound for any number of clients, devices, sessions and  *)
(* messages.  An index is never reused because every event handed to a     *)
(* request, and every event the server has, lies behind the saved ratchet  *)
(* position of its session, and the daemon restarts from that position.    *)
(***************************************************************************)
EXTENDS Outbound, TLAPS

(* The event or position x lies behind the ratchet position o.             *)
Behind(x, o) == x.session = o.session => x.index < o.index

Spent(x) ==
  /\ x.session =< created
  /\ Behind(x, saved)

(* Memory is at or past the pickle of the same session, or has nothing.    *)
RatchetInv ==
  /\ outbound.session =< created /\ saved.session =< created
  /\ has_outbound =>
       outbound.session = saved.session /\ saved.index =< outbound.index
  /\ \A m \in sent : Spent(m)
  /\ \A c \in Clients : pc[c] = "send" => out[c] # None /\ Spent(out[c])

(* A key about to be delivered, or delivered by a send still under way,    *)
(* reads whatever the session encrypts next.                               *)
Reads(k, o) == k.session = o.session /\ k.first =< o.index

ShareInv ==
  \A c \in Clients :
    /\ pc[c] = "deliver" =>
         /\ has_outbound
         /\ \A k \in share[c] : Reads(k, outbound)
    /\ pc[c] = "encrypt" =>
         \A d \in listed[c] : has_outbound /\ CanRead(d, outbound)
    /\ pc[c] = "send" => \A d \in listed[c] : CanRead(d, out[c])

IInv == /\ TypeOK /\ RatchetInv /\ ShareInv
        /\ IndexNeverReused /\ KeyBeforeMessage /\ NoSecondOlm

-----------------------------------------------------------------------------
LEMMA InitInv == Init => IInv
<1> SUFFICES ASSUME Init PROVE IInv
  OBVIOUS
<1>1. TypeOK
  BY OutboundAssumption DEF Init, TypeOK, Phases
<1>2. RatchetInv /\ ShareInv /\ IndexNeverReused /\ KeyBeforeMessage
  BY DEF Init, RatchetInv, ShareInv, IndexNeverReused, KeyBeforeMessage,
         has_outbound, None
<1>3. NoSecondOlm
  BY DEF Init, NoSecondOlm
<1> QED BY <1>1, <1>2, <1>3 DEF IInv

(* A position is a pair of numbers, and None is not one.                   *)
LEMMA PositionFacts ==
  ASSUME NEW o \in Positions \cup {None}
  PROVE  /\ o.session \in Nat /\ o.index \in Nat
         /\ o # None => o \in Positions /\ o.session \in 1 .. MaxSessions
BY OutboundAssumption DEF Positions, None, Sessions

LEMMA RatchetType ==
  ASSUME outbound \in Positions, outbound.index < MaxIndex
  PROVE  Ratchet(outbound) \in Positions
BY OutboundAssumption DEF Positions, Sessions, Ratchet

LEMMA FreshType ==
  ASSUME created \in 0 .. MaxSessions, created < MaxSessions
  PROVE  Fresh \in Positions
BY OutboundAssumption DEF Positions, Sessions, Fresh

LEMMA RoomKeyType ==
  ASSUME NEW D \in SUBSET Devices, NEW o \in Positions
  PROVE  RoomKeyFor(D, o) \in SUBSET RoomKeys
BY DEF RoomKeyFor, RoomKeys, Positions

LEMMA EventType ==
  ASSUME TypeOK, NEW c \in Clients, out[c] \in Positions
  PROVE  Event(c) \in Messages
BY DEF TypeOK, Event, Messages, Positions

-----------------------------------------------------------------------------
(* Type correctness.                                                       *)
LEMMA TypeStep == TypeOK /\ RatchetInv /\ [Next]_vars => TypeOK'
<1> SUFFICES ASSUME TypeOK, RatchetInv, [Next]_vars PROVE TypeOK'
  OBVIOUS
<1> USE DEF TypeOK, Phases
<1>1. CASE join
  BY <1>1 DEF join, crypto, locals
<1>2. CASE restart
  BY <1>2 DEF restart, server
<1>3. ASSUME NEW c \in Clients, do_send(c) PROVE TypeOK'
  BY <1>3 DEF do_send, Goto, server, crypto
<1>4. ASSUME NEW c \in Clients, keys_query(c) PROVE TypeOK'
  <2>1. devices_needing_session(members) \in SUBSET Devices
    BY DEF devices_needing_session
  <2> QED BY <1>4, <2>1 DEF keys_query, Goto, server, crypto
<1>5. ASSUME NEW c \in Clients, create_outbound_olm(c) PROVE TypeOK'
  BY <1>5 DEF create_outbound_olm, Goto, server
<1>6. ASSUME NEW c \in Clients, encrypt_room_key_to_devices(c) PROVE TypeOK'
  <2>1. outbound' \in Positions /\ created' \in 0 .. MaxSessions
    BY <1>6, FreshType, OutboundAssumption
    DEF encrypt_room_key_to_devices, get_or_create_outbound, has_outbound
  <2>2. saved' \in Positions \cup {None}
    BY <1>6, FreshType DEF encrypt_room_key_to_devices
  <2>3. RoomKeyFor({d \in roster[c] : olm[d] > 0}, outbound') \in SUBSET RoomKeys
    <3>1. {d \in roster[c] : olm[d] > 0} \in SUBSET Devices
      OBVIOUS
    <3> QED BY <2>1, <3>1, RoomKeyType
  <2> QED
    BY <1>6, <2>1, <2>2, <2>3 DEF encrypt_room_key_to_devices, Goto, server
<1>7. ASSUME NEW c \in Clients, create_outbound_fails(c) PROVE TypeOK'
  <2>1. saved' \in Positions /\ created' \in 0 .. MaxSessions
    BY <1>7, FreshType, OutboundAssumption DEF create_outbound_fails
  <2> QED BY <1>7, <2>1 DEF create_outbound_fails, Goto, server
<1>8. ASSUME NEW c \in Clients, send_to_device(c) PROVE TypeOK'
  <2>1. {k.device : k \in share[c]} \in SUBSET Devices
    BY DEF RoomKeys
  <2> QED BY <1>8, <2>1 DEF send_to_device, Goto, crypto
<1>9. ASSUME NEW c \in Clients, encrypt(c) PROVE TypeOK'
  BY <1>9, RatchetType DEF encrypt, has_outbound, Goto, server
<1>10. ASSUME NEW c \in Clients, encrypt_fails(c) PROVE TypeOK'
  BY <1>10, RatchetType DEF encrypt_fails, has_outbound, Goto, server
<1>11. ASSUME NEW c \in Clients, send_event(c) PROVE TypeOK'
  <2>1. Event(c) \in Messages
    BY <1>11, EventType DEF send_event, RatchetInv
  <2> QED BY <1>11, <2>1 DEF send_event, Goto, crypto
<1>12. ASSUME NEW c \in Clients, request_fails(c) PROVE TypeOK'
  <2>1. pc[c] = "send" => Event(c) \in Messages
    BY EventType DEF RatchetInv
  <2>2. got' \in SUBSET RoomKeys /\ sent' \in SUBSET Messages
    BY <1>12, <2>1 DEF request_fails
  <2> QED BY <1>12, <2>2 DEF request_fails, Goto, crypto
<1>13. ASSUME NEW c \in Clients, keys_claim(c) PROVE TypeOK'
  BY <1>13 DEF keys_claim, Goto, server, crypto
<1>14. CASE UNCHANGED vars
  BY <1>14 DEF vars, server, crypto, locals
<1> QED
  BY <1>1, <1>2, <1>3, <1>4, <1>5, <1>6, <1>7, <1>8, <1>9, <1>10, <1>11,
     <1>12, <1>13, <1>14
  DEF Next, Send

-----------------------------------------------------------------------------
(* The ratchet.                                                            *)

(* Once an event is spent, it stays spent while the pickle is unchanged,   *)
(* moves on within its session, or is replaced by a new session's.         *)
LEMMA SpentStays ==
  ASSUME TypeOK, NEW x, x.session \in Nat, x.index \in Nat, Spent(x),
         created' \in Nat, created' >= created,
         \/ saved' = saved
         \/ saved'.session = saved.session /\ saved'.index \in Nat
              /\ saved'.index >= saved.index
         \/ saved' = Fresh
  PROVE  Spent(x)'
<1>0. created \in Nat /\ saved.index \in Nat
  BY PositionFacts DEF TypeOK
<1>1. CASE saved' = Fresh
  BY <1>0, <1>1 DEF Spent, Behind, Fresh
<1>2. CASE saved' # Fresh
  BY <1>0, <1>2 DEF Spent, Behind
<1> QED BY <1>1, <1>2

(* A step encrypts an event, or hands one to the server, or does neither.  *)
Sends(c) ==
  /\ pc[c] = "send" /\ sent' \subseteq sent \cup {Event(c)}
  /\ pc'[c] # "send"
  /\ \A b \in Clients \ {c} : pc'[b] = pc[b]
  /\ out' = out /\ UNCHANGED crypto

Quiet ==
  /\ sent' = sent /\ out' = out
  /\ \A c \in Clients : pc'[c] = "send" => pc[c] = "send"
  /\ \/ outbound' \in {outbound, saved} /\ UNCHANGED <<saved, created>>
     \/ outbound # None /\ outbound' = Ratchet(outbound)
          /\ UNCHANGED <<saved, created>>
     \/ outbound = None /\ outbound' \in {None, Fresh}
          /\ saved' = Fresh /\ created' = created + 1

LEMMA StepEffect ==
  ASSUME TypeOK, [Next]_vars
  PROVE  \/ \E c \in Clients : encrypt(c) \/ Sends(c)
         \/ Quiet
<1> USE DEF TypeOK
<1>1. CASE join \/ restart \/ UNCHANGED vars
  BY <1>1 DEF join, restart, vars, server, crypto, locals, Quiet
<1>2. ASSUME NEW c \in Clients,
             \/ do_send(c) \/ keys_query(c) \/ keys_claim(c)
             \/ create_outbound_olm(c) \/ send_to_device(c)
      PROVE  Quiet
  BY <1>2
  DEF do_send, keys_query, keys_claim, create_outbound_olm, send_to_device,
      Goto, Quiet, server, crypto
<1>3. ASSUME NEW c \in Clients,
             encrypt_room_key_to_devices(c) \/ create_outbound_fails(c)
      PROVE  Quiet
  BY <1>3
  DEF encrypt_room_key_to_devices, create_outbound_fails, has_outbound,
      get_or_create_outbound, Goto, Quiet, server
<1>4. ASSUME NEW c \in Clients, encrypt_fails(c) PROVE Quiet
  BY <1>4 DEF encrypt_fails, has_outbound, Goto, Quiet, server
<1>5. ASSUME NEW c \in Clients, send_event(c) PROVE Sends(c)
  BY <1>5 DEF send_event, Goto, Sends
<1>6. ASSUME NEW c \in Clients, request_fails(c) PROVE Sends(c) \/ Quiet
  BY <1>6 DEF request_fails, Goto, Sends, Quiet, crypto
<1> QED
  BY <1>1, <1>2, <1>3, <1>4, <1>5, <1>6 DEF Next, Send

LEMMA RatchetStep ==
  ASSUME TypeOK, RatchetInv, [Next]_vars
  PROVE  RatchetInv'
<1>0. /\ outbound \in Positions \cup {None} /\ saved \in Positions \cup {None}
      /\ created \in Nat /\ created' \in Nat
      /\ outbound.session \in Nat /\ outbound.index \in Nat
      /\ saved.session \in Nat /\ saved.index \in Nat
  BY TypeStep, PositionFacts, OutboundAssumption DEF TypeOK
<1>1. ASSUME NEW m \in sent PROVE m.session \in Nat /\ m.index \in Nat
  BY OutboundAssumption DEF TypeOK, Messages, Sessions
<1>2. ASSUME NEW c \in Clients
      PROVE  out[c].session \in Nat /\ out[c].index \in Nat
  BY PositionFacts DEF TypeOK
<1>3. ASSUME NEW c \in Clients, encrypt(c) PROVE RatchetInv'
  <2>1. saved' = Ratchet(outbound) /\ outbound' = saved' /\ created' = created
        /\ sent' = sent /\ outbound.session = saved.session
        /\ saved.index =< outbound.index /\ outbound # None
    BY <1>3 DEF encrypt, server, RatchetInv, has_outbound
  <2>2. saved'.session = saved.session /\ saved'.index = outbound.index + 1
    BY <2>1 DEF Ratchet
  <2>3. ASSUME NEW x, x.session \in Nat, x.index \in Nat, Spent(x)
        PROVE  Spent(x)'
    BY <1>0, <2>1, <2>2, <2>3, SpentStays
  <2>4. \A m \in sent' : Spent(m)'
    BY <1>1, <2>1, <2>3 DEF RatchetInv
  <2>5. ASSUME NEW b \in Clients, pc'[b] = "send"
        PROVE  out'[b] # None /\ Spent(out[b])'
    <3>1. CASE b = c
      BY <1>0, <1>3, <2>1, <2>2, <3>1
      DEF encrypt, Spent, Behind, TypeOK, RatchetInv
    <3>2. CASE b # c
      <4>1. pc[b] = "send" /\ out'[b] = out[b]
        BY <1>3, <2>5, <3>2 DEF encrypt, Goto, TypeOK
      <4>2. PICK x : x = out[b]
        OBVIOUS
      <4> QED BY <1>2, <2>3, <4>1, <4>2 DEF RatchetInv
    <3> QED BY <3>1, <3>2
  <2> QED BY <1>0, <2>1, <2>2, <2>4, <2>5 DEF RatchetInv, has_outbound
<1>4. ASSUME NEW c \in Clients, Sends(c) PROVE RatchetInv'
  <2>1. UNCHANGED <<outbound, saved, created>> /\ out' = out
    BY <1>4 DEF Sends, crypto
  <2>2. \A m \in sent' : Spent(m)'
    <3>1. Spent(Event(c))
      BY <1>4 DEF Sends, RatchetInv, Spent, Behind, Event
    <3> QED BY <1>4, <2>1, <3>1 DEF Sends, RatchetInv, Spent, Behind
  <2>3. ASSUME NEW b \in Clients, pc'[b] = "send"
        PROVE  out'[b] # None /\ Spent(out[b])'
    BY <1>4, <2>1, <2>3 DEF Sends, RatchetInv, Spent, Behind
  <2> QED BY <2>1, <2>2, <2>3 DEF RatchetInv, has_outbound
<1>5. CASE Quiet
  <2>1. ASSUME NEW x, x.session \in Nat, x.index \in Nat, Spent(x)
        PROVE  Spent(x)'
    <3>1. created' >= created /\ (saved' = saved \/ saved' = Fresh)
      BY <1>0, <1>5 DEF Quiet
    <3> QED BY <1>0, <2>1, <3>1, SpentStays
  <2>2. \A m \in sent' : Spent(m)'
    BY <1>1, <1>5, <2>1 DEF Quiet, RatchetInv
  <2>3. ASSUME NEW b \in Clients, pc'[b] = "send"
        PROVE  out'[b] # None /\ Spent(out[b])'
    <3>1. pc[b] = "send" /\ out'[b] = out[b]
      BY <1>5, <2>3 DEF Quiet
    <3>2. PICK x : x = out[b]
      OBVIOUS
    <3> QED BY <1>2, <2>1, <3>1, <3>2 DEF RatchetInv
  <2>4. /\ outbound'.session =< created' /\ saved'.session =< created'
        /\ has_outbound' =>
             outbound'.session = saved'.session
             /\ saved'.index =< outbound'.index
    <3>1. CASE outbound' \in {outbound, saved} /\ UNCHANGED <<saved, created>>
      BY <1>0, <3>1 DEF RatchetInv, has_outbound
    <3>2. CASE /\ outbound # None /\ outbound' = Ratchet(outbound)
               /\ UNCHANGED <<saved, created>>
      BY <1>0, <3>2 DEF RatchetInv, has_outbound, Ratchet
    <3>3. CASE /\ outbound = None /\ outbound' \in {None, Fresh}
               /\ saved' = Fresh /\ created' = created + 1
      BY <1>0, <3>3 DEF has_outbound, Fresh, None
    <3> QED BY <1>5, <3>1, <3>2, <3>3 DEF Quiet
  <2> QED BY <2>2, <2>3, <2>4 DEF RatchetInv
<1> QED BY <1>3, <1>4, <1>5, StepEffect

LEMMA IndexStep ==
  ASSUME TypeOK, RatchetInv, IndexNeverReused, [Next]_vars
  PROVE  IndexNeverReused'
<1>1. ASSUME NEW c \in Clients, encrypt(c) PROVE IndexNeverReused'
  <2>0. /\ sent' = sent /\ outbound # None
        /\ out' = [out EXCEPT ![c] = outbound]
        /\ \A b \in Clients \ {c} : pc'[b] = pc[b]
        /\ outbound.session = saved.session /\ saved.index =< outbound.index
    BY <1>1 DEF encrypt, server, Goto, TypeOK, RatchetInv, has_outbound
  <2>1. ASSUME NEW x, x.session \in Nat, x.index \in Nat, Spent(x)
        PROVE  ~ SameKey(x, outbound)
    <3>1. outbound.index \in Nat /\ saved.index \in Nat
      BY PositionFacts DEF TypeOK
    <3> QED BY <2>0, <2>1, <3>1 DEF Spent, Behind, SameKey
  <2>2. ASSUME NEW m \in sent PROVE ~ SameKey(m, outbound)
    <3>1. m.session \in Nat /\ m.index \in Nat
      BY OutboundAssumption DEF TypeOK, Messages, Sessions
    <3> QED BY <2>1, <3>1 DEF RatchetInv
  <2>3. ASSUME NEW b \in Clients \ {c}, pc[b] = "send"
        PROVE  ~ SameKey(out[b], outbound)
    <3>1. out[b].session \in Nat /\ out[b].index \in Nat
      BY PositionFacts DEF TypeOK
    <3>2. PICK x : x = out[b]
      OBVIOUS
    <3> QED BY <2>1, <2>3, <3>1, <3>2 DEF RatchetInv
  <2>4. out'[c] = outbound /\ \A b \in Clients \ {c} : out'[b] = out[b]
    BY <2>0 DEF TypeOK
  <2> QED
    BY <2>0, <2>2, <2>3, <2>4 DEF IndexNeverReused, SameKey
<1>2. ASSUME NEW c \in Clients, Sends(c) PROVE IndexNeverReused'
  <2>1. ASSUME NEW b \in Clients \ {c}, pc[b] = "send"
        PROVE  ~ SameKey(Event(c), out[b])
    BY <1>2, <2>1 DEF Sends, IndexNeverReused, SameKey, Event
  <2> QED BY <1>2, <2>1 DEF Sends, IndexNeverReused, SameKey
<1>3. CASE Quiet
  BY <1>3 DEF Quiet, IndexNeverReused, SameKey
<1>4. CASE \E c \in Clients : encrypt(c) \/ Sends(c)
  BY <1>1, <1>2, <1>4
<1> QED BY <1>3, <1>4, StepEffect

-----------------------------------------------------------------------------
(* The room keys.                                                          *)

(* The outbound session of a running daemon is only ever created or moved  *)
(* on.                                                                     *)
Advances ==
  has_outbound =>
    /\ outbound' # None /\ outbound'.session = outbound.session
    /\ outbound'.index >= outbound.index

LEMMA KeyKept ==
  ASSUME NEW d, NEW m, CanRead(d, m), got \subseteq got'
  PROVE  CanRead(d, m)'
BY DEF CanRead

LEMMA ReadOn ==
  ASSUME TypeOK, TypeOK', NEW d, has_outbound, CanRead(d, outbound),
         got \subseteq got', Advances
  PROVE  CanRead(d, outbound)'
<1>1. PICK k \in got : k.device = d /\ k.session = outbound.session
                        /\ k.first =< outbound.index
  BY DEF CanRead
<1>2. k.first \in Nat /\ outbound.index \in Nat /\ outbound'.index \in Nat
  BY PositionFacts, OutboundAssumption DEF TypeOK, RoomKeys
<1> QED BY <1>1, <1>2 DEF CanRead, Advances

LEMMA ShareStep ==
  ASSUME TypeOK, TypeOK', RatchetInv, ShareInv, KeyBeforeMessage, [Next]_vars
  PROVE  ShareInv' /\ KeyBeforeMessage'
<1> USE DEF TypeOK
<1>1. CASE restart
  BY <1>1 DEF restart, server, ShareInv, KeyBeforeMessage, CanRead
<1>2. CASE ~ restart
  <2>1. /\ got \subseteq got' /\ Advances
    <3>1. Advances
      <4>1. outbound' = outbound \/ outbound' = Ratchet(outbound)
            \/ outbound = None
        BY <1>2
        DEF Next, Send, vars, crypto, locals, join, do_send, keys_query,
            keys_claim, create_outbound_olm, encrypt_room_key_to_devices,
            get_or_create_outbound, create_outbound_fails, send_to_device,
            encrypt, encrypt_fails, send_event, request_fails, has_outbound
      <4>2. outbound.session \in Nat /\ outbound.index \in Nat
        BY PositionFacts
      <4>3. has_outbound => Ratchet(outbound) # None
        BY <4>2 DEF Ratchet, None
      <4> QED BY <4>1, <4>2, <4>3 DEF Advances, has_outbound, Ratchet
    <3>2. got \subseteq got'
      BY <1>2
      DEF Next, Send, vars, server, join, do_send, keys_query,
          keys_claim, create_outbound_olm, encrypt_room_key_to_devices,
          create_outbound_fails, send_to_device, encrypt, encrypt_fails,
          send_event, request_fails
    <3> QED BY <3>1, <3>2
  <2>2. ASSUME NEW b \in Clients,
               pc'[b] = pc[b], share'[b] = share[b], listed'[b] = listed[b],
               out'[b] = out[b]
        PROVE  /\ pc'[b] = "deliver" =>
                    /\ has_outbound'
                    /\ \A k \in share'[b] : Reads(k, outbound')
               /\ pc'[b] = "encrypt" =>
                    \A d \in listed'[b] : has_outbound' /\ CanRead(d, outbound)'
               /\ pc'[b] = "send" =>
                    \A d \in listed'[b] : CanRead(d, out[b])'
    <3>1. CASE pc[b] = "deliver"
      <4>1. has_outbound' /\ outbound.index \in Nat /\ outbound'.index \in Nat
        BY <2>1, <3>1, PositionFacts DEF ShareInv, Advances, has_outbound
      <4>2. ASSUME NEW k \in share[b] PROVE Reads(k, outbound')
        <5>1. k.first \in Nat
          BY OutboundAssumption DEF RoomKeys
        <5> QED BY <2>1, <3>1, <4>1, <5>1 DEF ShareInv, Advances, Reads
      <4> QED BY <2>2, <3>1, <4>1, <4>2
    <3>2. CASE pc[b] = "encrypt"
      <4>1. ASSUME NEW d \in listed[b]
            PROVE  has_outbound' /\ CanRead(d, outbound)'
        BY <2>1, <3>2, ReadOn DEF ShareInv, Advances, has_outbound
      <4> QED BY <2>2, <3>2, <4>1
    <3>3. CASE pc[b] = "send"
      <4>1. ASSUME NEW d \in listed[b] PROVE CanRead(d, out[b])'
        BY <2>1, <2>2, <3>3 DEF ShareInv, CanRead
      <4> QED BY <2>2, <3>3, <4>1
    <3> QED BY <2>2, <3>1, <3>2, <3>3
  <2>3. ASSUME NEW m \in sent, NEW d \in m.listed PROVE CanRead(d, m)'
    BY <2>1, KeyKept DEF KeyBeforeMessage
  <2>4. CASE join \/ UNCHANGED vars
    BY <2>2, <2>3, <2>4
    DEF join, vars, server, crypto, locals, ShareInv, KeyBeforeMessage
  <2>5. ASSUME NEW c \in Clients, Send(c) PROVE ShareInv' /\ KeyBeforeMessage'
    <3>1. ASSUME NEW b \in Clients \ {c}
          PROVE  /\ pc'[b] = pc[b] /\ share'[b] = share[b]
                 /\ listed'[b] = listed[b] /\ out'[b] = out[b]
      BY <2>5
      DEF Send, do_send, keys_query, keys_claim, create_outbound_olm,
          encrypt_room_key_to_devices, create_outbound_fails, send_to_device,
          encrypt, encrypt_fails, send_event, request_fails, Goto
    <3>2. /\ pc'[c] = "deliver" =>
               /\ has_outbound'
               /\ \A k \in share'[c] : Reads(k, outbound')
          /\ pc'[c] = "encrypt" =>
               \A d \in listed'[c] : has_outbound' /\ CanRead(d, outbound)'
          /\ pc'[c] = "send" =>
               \A d \in listed'[c] : CanRead(d, out[c])'
      <4>1. CASE \/ keys_query(c) \/ keys_claim(c) \/ create_outbound_olm(c)
                 \/ create_outbound_fails(c) \/ encrypt_fails(c)
                 \/ send_event(c) \/ request_fails(c)
        BY <4>1
        DEF keys_query, keys_claim, create_outbound_olm, create_outbound_fails,
            encrypt_fails, send_event, request_fails, Goto
      <4>2. CASE do_send(c)
        BY <4>2 DEF do_send, Goto
      <4>3. CASE encrypt_room_key_to_devices(c)
        <5>1. pc'[c] = "deliver" /\ outbound' \in Positions
          BY <4>3, FreshType
          DEF encrypt_room_key_to_devices, Goto, get_or_create_outbound,
              has_outbound
        <5>2. has_outbound'
          BY <5>1, PositionFacts DEF has_outbound, None, Positions, Sessions
        <5>3. \A k \in share'[c] : Reads(k, outbound')
          <6>1. outbound'.index \in Nat
            BY <5>1, PositionFacts
          <6> QED
            BY <4>3, <6>1 DEF encrypt_room_key_to_devices, RoomKeyFor, Reads
        <5> QED BY <5>1, <5>2, <5>3
      <4>4. CASE send_to_device(c)
        BY <4>4
        DEF send_to_device, Goto, crypto, ShareInv, Reads, CanRead, has_outbound
      <4>5. CASE encrypt(c)
        BY <4>5 DEF encrypt, Goto, server, ShareInv, CanRead
      <4> QED BY <2>5, <4>1, <4>2, <4>3, <4>4, <4>5 DEF Send
    <3>3. ShareInv'
      BY <2>2, <3>1, <3>2 DEF ShareInv
    <3>4. KeyBeforeMessage'
      <4>1. sent' \subseteq sent \cup {Event(c)}
        BY <2>5
        DEF Send, do_send, keys_query, keys_claim, create_outbound_olm,
            encrypt_room_key_to_devices, create_outbound_fails, send_to_device,
            encrypt, encrypt_fails, send_event, request_fails, server
      <4>2. CASE Event(c) \in sent' /\ pc[c] = "send"
        <5>1. PICK x : x = Event(c)
          OBVIOUS
        <5>2. ASSUME NEW d \in x.listed PROVE CanRead(d, x)'
          <6>1. CanRead(d, x)
            BY <4>2, <5>1, <5>2 DEF ShareInv, CanRead, Event
          <6> QED BY <2>1, <6>1, KeyKept
        <5>3. sent' \subseteq sent \cup {x}
          BY <4>1, <5>1
        <5> QED BY <2>3, <5>2, <5>3 DEF KeyBeforeMessage
      <4>3. CASE sent' = sent
        BY <2>3, <4>3 DEF KeyBeforeMessage
      <4> QED
        BY <2>5, <4>1, <4>2, <4>3
        DEF Send, do_send, keys_query, keys_claim, create_outbound_olm,
            encrypt_room_key_to_devices, create_outbound_fails, send_to_device,
            encrypt, encrypt_fails, send_event, request_fails, server
    <3> QED BY <3>3, <3>4
  <2> QED BY <1>2, <2>4, <2>5 DEF Next
<1> QED BY <1>1, <1>2

LEMMA OlmStep ==
  ASSUME TypeOK, NoSecondOlm, [Next]_vars
  PROVE  NoSecondOlm'
<1>1. ASSUME NEW c \in Clients, create_outbound_olm(c) PROVE NoSecondOlm'
  BY <1>1 DEF TypeOK, create_outbound_olm, NoSecondOlm
<1>2. CASE ~ \E c \in Clients : create_outbound_olm(c)
  <2>1. olm' = olm
    BY <1>2
    DEF Next, Send, vars, crypto, join, restart, do_send, keys_query, keys_claim,
        encrypt_room_key_to_devices, create_outbound_fails, send_to_device,
        encrypt, encrypt_fails, send_event, request_fails
  <2> QED BY <2>1 DEF NoSecondOlm
<1> QED BY <1>1, <1>2

-----------------------------------------------------------------------------
LEMMA StepInv == IInv /\ [Next]_vars => IInv'
<1> SUFFICES ASSUME IInv, [Next]_vars PROVE IInv'
  OBVIOUS
<1>1. TypeOK' BY TypeStep DEF IInv
<1>2. RatchetInv' BY RatchetStep DEF IInv
<1>3. IndexNeverReused' BY IndexStep DEF IInv
<1>4. ShareInv' /\ KeyBeforeMessage' BY <1>1, ShareStep DEF IInv
<1>5. NoSecondOlm' BY OlmStep DEF IInv
<1> QED BY <1>1, <1>2, <1>3, <1>4, <1>5 DEF IInv

LEMMA Invariance == Spec => []IInv
BY InitInv, StepInv, PTL DEF Spec

(* The state of do_send and of the room's sessions is well typed.          *)
THEOREM OutboundTypeCorrect == Spec => []TypeOK
<1>1. IInv => TypeOK BY DEF IInv
<1> QED BY <1>1, Invariance, PTL

(* However many threads send, whatever write or request fails and whenever *)
(* the daemon dies, no ratchet index encrypts two events (Crypto::encrypt).*)
THEOREM IndexNeverReusedAlways == Spec => []IndexNeverReused
<1>1. IInv => IndexNeverReused BY DEF IInv
<1> QED BY <1>1, Invariance, PTL

(* A do_send that shared the room key shared one that reads its event.     *)
THEOREM KeyBeforeMessageAlways == Spec => []KeyBeforeMessage
<1>1. IInv => KeyBeforeMessage BY DEF IInv
<1> QED BY <1>1, Invariance, PTL

(* Racing sends start at most one Olm session with a device                *)
(* (create_outbound_olm's check of a stale list).                          *)
THEOREM NoSecondOlmAlways == Spec => []NoSecondOlm
<1>1. IInv => NoSecondOlm BY DEF IInv
<1> QED BY <1>1, Invariance, PTL

(* The pickle of the ratchet only moves on, to a later index of its        *)
(* session or to a session made later (crypto.rs encrypt,                  *)
(* get_or_create_outbound): no thread writes over it what it read earlier, *)
(* so a crash never brings back a position already spent.                  *)
After(o, p) == p.session > o.session \/ (p.session = o.session /\ p.index > o.index)

PickleOnlyAdvances == [][saved' = saved \/ After(saved, saved')]_vars

(* PickleOnlyAdvances holds of every behaviour.                            *)
THEOREM PickleOnlyAdvancesAlways == Spec => PickleOnlyAdvances
<1>1. IInv /\ [Next]_vars => [saved' = saved \/ After(saved, saved')]_vars
  <2> SUFFICES ASSUME IInv, Next PROVE saved' = saved \/ After(saved, saved')
    BY DEF vars, crypto
  <2>1. /\ created \in Nat /\ saved.session \in Nat /\ saved.session =< created
        /\ saved.index \in Nat /\ outbound.index \in Nat
        /\ has_outbound => outbound.session = saved.session /\ saved.index =< outbound.index
    BY PositionFacts, OutboundAssumption DEF IInv, TypeOK, RatchetInv
  <2>2. ASSUME saved' = Fresh PROVE After(saved, saved')
    BY <2>1, <2>2 DEF Fresh, After
  <2>3. CASE join \/ restart
    BY <2>3 DEF join, restart, crypto
  <2>4. ASSUME NEW c \in Clients, Send(c) PROVE saved' = saved \/ After(saved, saved')
    <3>1. CASE encrypt_room_key_to_devices(c) \/ create_outbound_fails(c)
      BY <2>2, <3>1 DEF encrypt_room_key_to_devices, create_outbound_fails
    <3>2. CASE encrypt(c)
      <4>1. saved' = Ratchet(outbound) /\ has_outbound
        BY <3>2 DEF encrypt
      <4> QED BY <2>1, <4>1 DEF Ratchet, After
    <3>3. CASE \/ do_send(c) \/ keys_query(c) \/ keys_claim(c)
               \/ create_outbound_olm(c) \/ send_to_device(c)
               \/ encrypt_fails(c) \/ send_event(c) \/ request_fails(c)
      BY <3>3 DEF do_send, keys_query, keys_claim, create_outbound_olm, send_to_device,
                  encrypt_fails, send_event, request_fails, crypto
    <3> QED BY <2>4, <3>1, <3>2, <3>3 DEF Send
  <2> QED BY <2>3, <2>4 DEF Next
<1> QED BY <1>1, Invariance, PTL DEF Spec, PickleOnlyAdvances
=============================================================================
