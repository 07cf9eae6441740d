---------------------------- MODULE HistoryProofs ----------------------------
(***************************************************************************)
(* That a room's history has no holes but those of limited batches, for    *)
(* every number of clients and every size of window, page and room.  The   *)
(* invariant must also speak of what is under way: a batch stored whose    *)
(* token is not, a page asked for from an edge another client has moved    *)
(* since, and a page partly stored.  What such a page leaves out lies      *)
(* below the edge as it stands, until the page moves it.                   *)
(***************************************************************************)
EXTENDS History, TLAPS

(* How far sync has stored the room.                                       *)
Upto == IF sync.at = "stored" THEN sync.upto ELSE Reached

Kept(e) == e \in stored \cup skipped

(* The server's side: no token lies past the newest event.                 *)
Ordered ==
  /\ since # None => since <= head
  /\ sync.at # "idle" =>
       Reached <= sync.after /\ sync.after <= sync.upto /\ sync.upto <= head

Behind == \A e \in Shown : e <= Upto /\ Walked(e) => Kept(e)

(* A page's lower end.                                                     *)
Low(c) == IF walk[c].end = None THEN 0 ELSE walk[c].end

(* Below the edge, and so still to come or to be passed over.              *)
Ahead(e) == token # None /\ ~ Walked(e)

Begun(c) ==
  walk[c].at # "idle" /\ walk[c].from # None =>
    \A e \in Shown : e <= Upto /\ walk[c].from < e => Kept(e) \/ Ahead(e)

Storing(c) ==
  walk[c].at = "storing" =>
    /\ walk[c].from # None
    /\ walk[c].end = None => walk[c].exhausted
    /\ \A e \in Shown : Low(c) < e /\ e <= walk[c].from => Kept(e) \/ e \in walk[c].chunk

IInv ==
  /\ TypeOK
  /\ Ordered
  /\ Behind
  /\ \A c \in Clients : Begun(c) /\ Storing(c)

-----------------------------------------------------------------------------
LEMMA InitIInv == Init => IInv
<1> SUFFICES ASSUME Init PROVE IInv
  OBVIOUS
<1> USE HistoryAssumption
<1>1. TypeOK
  <2>1. head \in Tokens /\ since \in Tokens \cup {None}
    BY DEF Init, Tokens
  <2>2. stored \subseteq Shown /\ row \in BOOLEAN
    BY DEF Init
  <2>3. sync \in [at : {"idle", "batch", "stored"}, after : Tokens, upto : Tokens]
    BY DEF Init, NoBatch, Tokens
  <2>4. NoWalk \in [at : {"idle", "asking", "storing"}, from : Tokens \cup {None},
                    chunk : SUBSET Events, end : Tokens \cup {None},
                    exhausted : BOOLEAN]
    BY DEF NoWalk
  <2>5. walk \in [Clients ->
          [at : {"idle", "asking", "storing"}, from : Tokens \cup {None},
           chunk : SUBSET Events, end : Tokens \cup {None}, exhausted : BOOLEAN]]
    BY <2>4 DEF Init
  <2> QED  BY <2>1, <2>2, <2>3, <2>5 DEF Init, TypeOK
<1>2. Ordered
  BY DEF Init, Ordered, NoBatch
<1>3. Behind
  BY DEF Init, Behind, Walked
<1>4. \A c \in Clients : Begun(c) /\ Storing(c)
  BY DEF Init, Begun, Storing, NoWalk
<1> QED  BY <1>1, <1>2, <1>3, <1>4 DEF IInv

(* New events, and a batch asked for, change nothing that is stored.       *)
LEMMA SayStep == IInv /\ say => IInv'
<1> SUFFICES ASSUME IInv, say PROVE IInv'
  OBVIOUS
<1> USE HistoryAssumption
<1>1. TypeOK'
  BY DEF IInv, TypeOK, say, store, Tokens
<1>2. Ordered'
  BY DEF IInv, TypeOK, Ordered, Reached, say, store, Tokens
<1>3. Upto' = Upto /\ stored' = stored /\ early' = early /\ skipped' = skipped
  BY DEF say, store, Upto, Reached
<1>4. Behind'
  BY <1>3 DEF IInv, Behind, Walked, Kept, say, store
<1>5. \A c \in Clients : (Begun(c) /\ Storing(c))'
  BY <1>3 DEF IInv, Begun, Ahead, Walked, Storing, Low, Kept, say, store
<1> QED  BY <1>1, <1>2, <1>4, <1>5 DEF IInv

LEMMA WindowStartBetween ==
  ASSUME IInv, since = None \/ head > Reached
  PROVE  WindowStart \in Tokens /\ Reached <= WindowStart /\ WindowStart <= head
BY HistoryAssumption DEF IInv, TypeOK, Ordered, WindowStart, Later, Reached, Tokens

LEMMA SyncOnceStep == IInv /\ sync_once => IInv'
<1> SUFFICES ASSUME IInv, sync_once PROVE IInv'
  OBVIOUS
<1> USE HistoryAssumption
<1>1. WindowStart \in Tokens /\ Reached <= WindowStart /\ WindowStart <= head
  BY WindowStartBetween DEF sync_once
<1>2. TypeOK'
  BY <1>1 DEF IInv, TypeOK, sync_once, store
<1>3. Ordered'
  BY <1>1 DEF IInv, TypeOK, Ordered, Reached, sync_once, store, Tokens
<1>4. Upto' = Upto /\ stored' = stored /\ early' = early /\ skipped' = skipped
  BY DEF sync_once, store, Upto, Reached
<1>5. Behind'
  BY <1>4 DEF IInv, Behind, Walked, Kept, sync_once, store
<1>6. \A c \in Clients : (Begun(c) /\ Storing(c))'
  BY <1>4 DEF IInv, Begun, Ahead, Walked, Storing, Low, Kept, sync_once, store
<1> QED  BY <1>2, <1>3, <1>5, <1>6 DEF IInv

(* What the batch leaves out is either recorded or below the edge.         *)
LEMMA ProcessSyncStep == IInv /\ process_sync => IInv'
<1> SUFFICES ASSUME IInv, process_sync PROVE IInv'
  OBVIOUS
<1> USE HistoryAssumption
<1>0. /\ sync.after \in Tokens /\ sync.upto \in Tokens
      /\ Upto = Reached /\ Upto' = sync.upto /\ Reached \in Tokens
      /\ Reached <= sync.after /\ sync.after <= sync.upto
  BY DEF IInv, TypeOK, Ordered, process_sync, Upto, Reached, Tokens
<1>1. TypeOK'
  BY <1>0 DEF IInv, TypeOK, process_sync, seed_back_token, LeftOut, Tokens,
              Events, Shown
<1>2. Ordered'
  BY DEF IInv, TypeOK, Ordered, Reached, process_sync
<1>3. \A e \in Shown : Kept(e) => Kept(e)'
  BY DEF Kept, process_sync
<1>a. ASSUME NEW e \in Shown PROVE e \in Int /\ (token # None => token \in Int)
  BY DEF Shown, Events, IInv, TypeOK, Tokens
<1>b. ASSUME NEW e \in Shown, Ahead(e) PROVE Ahead(e)'
  BY <1>b DEF Ahead, Walked, process_sync, seed_back_token
<1>c. ASSUME NEW e \in Shown, Walked(e) PROVE Walked(e)'
  BY <1>c DEF Walked, process_sync, seed_back_token
<1>4. ASSUME NEW e \in Shown, Upto < e, e <= sync.upto
      PROVE  Kept(e)' \/ Ahead(e)'
  <2>1. CASE sync.after < e
    BY <1>0, <1>4, <1>a, <2>1 DEF Kept, process_sync, Tokens
  <2>2. CASE e <= sync.after /\ Walked(e)
    BY <1>0, <1>4, <1>a, <2>2 DEF Kept, LeftOut, process_sync, Tokens
  <2>3. CASE e <= sync.after /\ ~ Walked(e)
    <3>1. token' # None
      BY <1>0 DEF process_sync, seed_back_token, Tokens
    <3>2. ~ Walked(e)'
      BY <1>0, <1>a, <2>3 DEF Walked, process_sync, seed_back_token, Tokens
    <3> QED  BY <3>1, <3>2 DEF Ahead
  <2> QED  BY <1>0, <1>a, <2>1, <2>2, <2>3 DEF Tokens
<1>5. Behind'
  <2> SUFFICES ASSUME NEW e \in Shown, e <= sync.upto, Walked(e)'
               PROVE  Kept(e)'
    BY <1>0 DEF Behind
  <2>1. CASE Upto < e
    BY <1>4, <2>1 DEF Ahead
  <2>2. CASE e <= Upto
    <3>1. CASE Walked(e)
      BY <1>3, <2>2, <3>1 DEF IInv, Behind
    <3>2. CASE ~ Walked(e)
      <4>1. token = None /\ sync.after < e
        BY <1>0, <1>a, <3>2 DEF Walked, process_sync, seed_back_token, Tokens
      <4> QED  BY <1>0, <1>a, <2>2, <4>1 DEF Tokens
    <3> QED  BY <3>1, <3>2
  <2> QED  BY <1>0, <1>a, <2>1, <2>2 DEF Tokens
<1>6. ASSUME NEW c \in Clients PROVE Begun(c)' /\ Storing(c)'
  <2>1. Begun(c) /\ Storing(c) /\ walk' = walk
    BY DEF IInv, process_sync
  <2>2. Begun(c)'
    <3> SUFFICES ASSUME walk[c].at # "idle", walk[c].from # None,
                        NEW e \in Shown, e <= sync.upto, walk[c].from < e
                 PROVE  Kept(e)' \/ Ahead(e)'
      BY <1>0, <2>1 DEF Begun
    <3>1. CASE e <= Upto
      BY <1>3, <1>b, <2>1, <3>1 DEF Begun
    <3>2. CASE Upto < e
      BY <1>4, <3>2
    <3> QED  BY <1>0, <1>a, <3>1, <3>2 DEF Tokens
  <2>3. Storing(c)'
    BY <1>3, <2>1 DEF Storing, Low
  <2> QED  BY <2>2, <2>3
<1> QED  BY <1>1, <1>2, <1>5, <1>6 DEF IInv

(* The token moves to where the batch already stands; an error leaves what *)
(* is stored and forgets how far that was.                                 *)
LEMMA BatchEndsStep ==
  ASSUME IInv, save_sync_token \/ process_sync_fails PROVE IInv'
<1> USE HistoryAssumption
<1>1. TypeOK'
  BY DEF IInv, TypeOK, save_sync_token, process_sync_fails, NoBatch, store, Tokens
<1>2. Ordered'
  BY DEF IInv, TypeOK, Ordered, save_sync_token, process_sync_fails, NoBatch,
         store, Reached, Tokens
<1>3. Upto \in Int /\ Upto' \in Int /\ Upto' <= Upto
  BY DEF IInv, TypeOK, Ordered, save_sync_token, process_sync_fails, NoBatch,
         store, Upto, Reached, Tokens
<1>4. UNCHANGED <<stored, token, done, walk, early, skipped>>
  BY DEF save_sync_token, process_sync_fails, store
<1>5. \A e \in Shown : e \in Int
  BY DEF Shown, Events
<1>6. Behind'
  BY <1>3, <1>4, <1>5 DEF IInv, Behind, Walked, Kept
<1>7. \A c \in Clients : (Begun(c) /\ Storing(c))'
  BY <1>3, <1>4, <1>5 DEF IInv, Begun, Ahead, Walked, Storing, Low, Kept
<1> QED  BY <1>1, <1>2, <1>6, <1>7 DEF IInv

-----------------------------------------------------------------------------
(* A client's own steps leave the sync thread alone.                       *)
LEMMA WalkTypes ==
  ASSUME TypeOK, NEW c \in Clients
  PROVE  walk[c] \in [at : {"idle", "asking", "storing"},
                      from : Tokens \cup {None}, chunk : SUBSET Events,
                      end : Tokens \cup {None}, exhausted : BOOLEAN]
BY DEF TypeOK

LEMMA BackTokenStep == ASSUME IInv, NEW c \in Clients, back_token(c) PROVE IInv'
<1> USE HistoryAssumption
<1>1. TypeOK'
  BY DEF IInv, TypeOK, back_token, store, NoWalk
<1>2. UNCHANGED <<store, head, sync, early, skipped>> /\ Upto' = Upto
  BY DEF back_token, store, Upto, Reached
<1>3. Ordered'
  BY <1>2 DEF IInv, Ordered, Reached, store
<1>4. Behind'
  BY <1>2 DEF IInv, Behind, Walked, Kept, store
<1>5. ASSUME NEW b \in Clients PROVE (Begun(b) /\ Storing(b))'
  <2>1. CASE b = c
    <3>1. walk'[c].at = "asking" /\ walk'[c].from = token /\ ~ done
      BY DEF back_token, IInv, TypeOK, NoWalk
    <3>2. ASSUME NEW e \in Shown, e <= Upto, token # None, token < e
          PROVE  Kept(e)
      BY <3>2 DEF IInv, Behind, Walked
    <3> QED  BY <1>2, <2>1, <3>1, <3>2 DEF Kept, Begun, Storing, store
  <2>2. CASE b # c
    <3>1. walk'[b] = walk[b]
      BY <2>2 DEF back_token, IInv, TypeOK
    <3> QED  BY <1>2, <3>1 DEF IInv, Begun, Ahead, Walked, Storing, Low, Kept, store
  <2> QED  BY <2>1, <2>2
<1> QED  BY <1>1, <1>3, <1>4, <1>5 DEF IInv

(* A page: what it shows between its lower end and where it began.         *)
LEMMA PageTypes ==
  ASSUME IInv, NEW c \in Clients, NEW page \in Pages(c)
  PROVE  /\ page.chunk \in SUBSET Events
         /\ page.end \in Tokens \cup {None}
         /\ page.end = None => Exhausted(page)
         /\ \A e \in Shown :
              /\ e <= Start(c)
              /\ (IF page.end = None THEN 0 ELSE page.end) < e
              => e \in page.chunk
<1> USE HistoryAssumption
<1>1. Start(c) \in Tokens
  BY WalkTypes DEF IInv, TypeOK, Start
<1>0. \A e \in Shown : e \in Events /\ e \notin Hidden
  BY DEF Shown
<1>2. CASE Start(c) = 0
  BY <1>1, <1>2 DEF Pages, Exhausted, Shown, Events, Tokens
<1>3. CASE Start(c) # 0
  <2> DEFINE lo == Later(Start(c) - Page, 0)
  <2>1. lo \in Tokens /\ lo < Start(c)
    BY <1>1, <1>3 DEF Later, Tokens
  <2>2. /\ page.chunk = ((lo + 1) .. Start(c)) \ Hidden
        /\ page.end = lo \/ (lo = 0 /\ page.end = None)
    BY <1>3 DEF Pages
  <2> HIDE DEF lo
  <2>3. (lo + 1) .. Start(c) \subseteq Events
    BY <1>1, <2>1 DEF Events, Tokens
  <2>4. ASSUME NEW e \in Shown, e <= Start(c),
               (IF page.end = None THEN 0 ELSE page.end) < e
        PROVE  e \in page.chunk
    <3>1. lo < e /\ e \in Int
      BY <2>1, <2>2, <2>4, <1>0 DEF Events, Tokens
    <3> QED  BY <1>0, <1>1, <2>1, <2>2, <2>4, <3>1 DEF Tokens
  <2> QED  BY <2>1, <2>2, <2>3, <2>4 DEF Exhausted, Tokens
<1> QED  BY <1>2, <1>3

LEMMA MessagesStep == ASSUME IInv, NEW c \in Clients, messages(c) PROVE IInv'
<1> USE HistoryAssumption
<1>1. PICK page \in Pages(c) :
        walk' = [walk EXCEPT ![c] =
          [walk[c] EXCEPT !.at = "storing", !.from = Start(c), !.chunk = page.chunk,
                          !.end = page.end, !.exhausted = Exhausted(page)]]
  BY DEF messages
<1>2. UNCHANGED <<store, head, sync, early, skipped>> /\ Upto' = Upto
  BY DEF messages, store, Upto, Reached
<1>3. /\ page.chunk \in SUBSET Events
      /\ page.end \in Tokens \cup {None}
      /\ page.end = None => Exhausted(page)
  BY PageTypes
<1>4. Exhausted(page) \in BOOLEAN
  BY DEF Exhausted
<1>0. Start(c) \in Tokens
  BY WalkTypes DEF IInv, TypeOK, Start
<1>5. TypeOK'
  <2>1. [walk[c] EXCEPT !.at = "storing", !.from = Start(c), !.chunk = page.chunk,
                        !.end = page.end, !.exhausted = Exhausted(page)]
          \in [at : {"idle", "asking", "storing"}, from : Tokens \cup {None},
               chunk : SUBSET Events, end : Tokens \cup {None},
               exhausted : BOOLEAN]
    BY <1>0, <1>3, <1>4, WalkTypes DEF IInv
  <2> QED  BY <1>1, <1>2, <2>1 DEF IInv, TypeOK, store
<1>6. Ordered'
  BY <1>2 DEF IInv, Ordered, Reached, store
<1>7. Behind'
  BY <1>2 DEF IInv, Behind, Walked, Kept, store
<1>8. ASSUME NEW b \in Clients PROVE (Begun(b) /\ Storing(b))'
  <2>1. CASE b = c
    <3>1. /\ walk'[c].at = "storing" /\ walk'[c].chunk = page.chunk
          /\ walk'[c].from = Start(c)
          /\ walk'[c].end = page.end /\ walk'[c].exhausted = Exhausted(page)
      BY <1>1, WalkTypes DEF IInv, TypeOK
    <3>2. ASSUME NEW e \in Shown, e <= Upto, Start(c) < e
          PROVE  Kept(e) \/ Ahead(e)
      <4>1. e \in Int /\ Start(c) \in Int
        BY <1>0 DEF Shown, Events, Tokens
      <4>2. Upto <= head
        BY DEF IInv, TypeOK, Ordered, Upto, Reached, Tokens
      <4>3. walk[c].from # None
        BY <3>2, <4>1, <4>2 DEF Start, IInv, TypeOK, Ordered, Upto, Reached, Tokens
      <4>4. Begun(c)
        BY DEF IInv
      <4> QED  BY <3>2, <4>3, <4>4 DEF Begun, Start, messages
    <3>3. Begun(c)'
      BY <1>2, <3>1, <3>2 DEF Begun, Ahead, Walked, Kept, store
    <3>4. Storing(c)'
      <4>1. walk'[c].from # None
        BY <1>0, <3>1 DEF Tokens
      <4>2. ASSUME NEW e \in Shown, Low(c)' < e, e <= Start(c) PROVE e \in page.chunk
        BY <3>1, <4>2, PageTypes DEF Low
      <4> QED  BY <1>3, <3>1, <4>1, <4>2 DEF Storing
    <3> QED  BY <2>1, <3>3, <3>4
  <2>2. CASE b # c
    <3>1. walk'[b] = walk[b]
      BY <1>1, <2>2 DEF IInv, TypeOK
    <3> QED  BY <1>2, <3>1 DEF IInv, Begun, Ahead, Walked, Storing, Low, Kept, store
  <2> QED  BY <2>1, <2>2
<1> QED  BY <1>5, <1>6, <1>7, <1>8 DEF IInv

LEMMA InsertStep == ASSUME IInv, NEW c \in Clients, insert_message(c) PROVE IInv'
<1> USE HistoryAssumption
<1>1. PICK x \in walk[c].chunk :
        /\ stored' = stored \cup ({x} \cap Shown)
        /\ walk' = [walk EXCEPT ![c].chunk = @ \ {x}]
  BY DEF insert_message, Newest
<1>2. UNCHANGED <<head, token, done, row, since, sync, early, skipped>> /\ Upto' = Upto
  BY DEF insert_message, Upto, Reached
<1>3. TypeOK'
  <2>1. [walk[c] EXCEPT !.chunk = @ \ {x}]
          \in [at : {"idle", "asking", "storing"}, from : Tokens \cup {None},
               chunk : SUBSET Events, end : Tokens \cup {None},
               exhausted : BOOLEAN]
    BY WalkTypes DEF IInv
  <2> QED  BY <1>1, <1>2, <2>1 DEF IInv, TypeOK
<1>4. Ordered'
  BY <1>2 DEF IInv, Ordered, Reached
<1>5. \A e \in Shown : Kept(e) \/ e = x => Kept(e)'
  BY <1>1, <1>2 DEF Kept
<1>6. Behind'
  BY <1>2, <1>5 DEF IInv, Behind, Walked
<1>7. ASSUME NEW b \in Clients PROVE (Begun(b) /\ Storing(b))'
  <2>1. /\ walk'[b].at = walk[b].at /\ walk'[b].from = walk[b].from
        /\ walk'[b].end = walk[b].end /\ walk'[b].exhausted = walk[b].exhausted
        /\ walk[b].chunk \subseteq walk'[b].chunk \cup {x}
    BY <1>1, WalkTypes DEF IInv, TypeOK
  <2>2. Begun(b) /\ Storing(b)
    BY DEF IInv
  <2>3. Begun(b)'
    BY <1>2, <1>5, <2>1, <2>2 DEF Begun, Ahead, Walked
  <2>4. Storing(b)'
    BY <1>2, <1>5, <2>1, <2>2 DEF Storing, Low
  <2> QED  BY <2>3, <2>4
<1> QED  BY <1>3, <1>4, <1>6, <1>7 DEF IInv

(* The page is in the store down to the end the edge moves to.             *)
LEMMA SetBackTokenStep ==
  ASSUME IInv, NEW c \in Clients, set_back_token(c) PROVE IInv'
<1> USE HistoryAssumption
<1>1. TypeOK'
  BY WalkTypes DEF IInv, TypeOK, set_back_token, NoWalk
<1>2. UNCHANGED <<head, stored, row, since, sync>> /\ Upto' = Upto
  BY DEF set_back_token, Upto, Reached
<1>3. Ordered'
  BY <1>2 DEF IInv, Ordered, Reached
<1>0. \A e \in Shown : e \in Int /\ e \in Events
  BY DEF Shown, Events
<1>a. \A e \in Shown : Kept(e) => Kept(e)'
  BY DEF Kept, set_back_token
<1>b. walk[c].at = "storing" /\ walk[c].chunk = {} /\ Storing(c) /\ Begun(c)
  BY DEF set_back_token, IInv
<1>4. ASSUME NEW e \in Shown, e <= Upto, Walked(e)' PROVE Kept(e)'
  <2>1. CASE ~ row
    BY <1>4, <1>a, <2>1 DEF IInv, Behind, Walked, set_back_token
  <2>2. CASE row
    <3>1. /\ token' = walk[c].end /\ done' = walk[c].exhausted
          /\ early' = (walk[c].exhausted /\ walk[c].end # None)
          /\ skipped' = skipped \cup
               {x \in Events : walk[c].from < x /\ token # None /\ x <= token}
      BY <2>2 DEF set_back_token
    <3>2. Low(c) < e
      <4>1. 0 < e
        BY DEF Shown, Events
      <4>2. walk[c].end = None \/ (walk[c].end # None /\ walk[c].end < e)
        BY <1>4, <3>1 DEF Walked
      <4> QED  BY <4>1, <4>2 DEF Low
    <3>3. CASE e <= walk[c].from
      BY <1>a, <1>b, <3>2, <3>3 DEF Storing
    <3>4. CASE walk[c].from < e /\ Ahead(e)
      <4>1. token # None /\ e <= token
        BY <1>0, <3>4 DEF Ahead, Walked, IInv, TypeOK, Tokens
      <4> QED  BY <1>0, <3>1, <3>4, <4>1 DEF Kept
    <3>5. CASE walk[c].from < e /\ ~ Ahead(e)
      <4>1. walk[c].at # "idle" /\ walk[c].from # None
        BY <1>b DEF Storing
      <4>2. Kept(e)
        BY <1>4, <1>b, <3>5, <4>1 DEF Begun
      <4> QED  BY <1>a, <4>2
    <3>6. walk[c].from \in Int
      BY <1>b, WalkTypes DEF Storing, IInv, Tokens
    <3> QED  BY <1>0, <3>3, <3>4, <3>5, <3>6
  <2> QED  BY <2>1, <2>2
<1>5. Behind'
  BY <1>2, <1>4 DEF Behind
<1>6. ASSUME NEW e \in Shown, e <= Upto, Ahead(e) PROVE Kept(e)' \/ Ahead(e)'
  <2>1. CASE ~ row
    BY <1>6, <2>1 DEF Ahead, Walked, set_back_token
  <2>2. CASE row /\ walk[c].end = None
    <3>1. Walked(e)'
      BY <1>b, <2>2 DEF Walked, Storing, set_back_token
    <3> QED  BY <1>4, <1>6, <3>1
  <2>3. CASE row /\ walk[c].end # None
    BY <1>4, <1>6, <2>3 DEF Ahead, set_back_token
  <2> QED  BY <2>1, <2>2, <2>3
<1>7. ASSUME NEW b \in Clients PROVE (Begun(b) /\ Storing(b))'
  <2>1. CASE walk'[b] = NoWalk
    BY <2>1 DEF Begun, Storing, NoWalk
  <2>2. CASE walk'[b] = walk[b]
    <3>1. Begun(b) /\ Storing(b)
      BY DEF IInv
    <3>2. Begun(b)'
      BY <1>2, <1>6, <1>a, <2>2, <3>1 DEF Begun
    <3>3. Storing(b)'
      BY <1>a, <2>2, <3>1 DEF Storing, Low
    <3> QED  BY <3>2, <3>3
  <2> QED  BY <2>1, <2>2 DEF IInv, TypeOK, set_back_token
<1> QED  BY <1>1, <1>3, <1>5, <1>7 DEF IInv

LEMMA WalkFailsStep ==
  ASSUME IInv, NEW c \in Clients, do_load_older_fails(c) PROVE IInv'
<1> USE HistoryAssumption
<1>1. TypeOK'
  BY DEF IInv, TypeOK, do_load_older_fails, store, NoWalk
<1>2. UNCHANGED <<head, store, sync, early, skipped>> /\ Upto' = Upto
  BY DEF do_load_older_fails, store, Upto, Reached
<1>3. Ordered' /\ Behind'
  BY <1>2 DEF IInv, Ordered, Behind, Walked, Kept, Reached, store
<1>4. ASSUME NEW b \in Clients PROVE (Begun(b) /\ Storing(b))'
  <2>1. walk'[b] = walk[b] \/ walk'[b] = NoWalk
    BY DEF IInv, TypeOK, do_load_older_fails
  <2> QED  BY <1>2, <2>1 DEF IInv, Begun, Ahead, Walked, Storing, Low, Kept, NoWalk, store
<1> QED  BY <1>1, <1>3, <1>4 DEF IInv

-----------------------------------------------------------------------------
LEMMA NextIInv == IInv /\ [Next]_vars => IInv'
<1> SUFFICES ASSUME IInv, [Next]_vars PROVE IInv'
  OBVIOUS
<1>1. CASE say
  BY <1>1, SayStep
<1>2. CASE SyncStep \/ process_sync_fails
  BY <1>2, SyncOnceStep, ProcessSyncStep, BatchEndsStep DEF SyncStep
<1>3. ASSUME NEW c \in Clients, do_load_older(c) \/ do_load_older_fails(c)
      PROVE  IInv'
  BY <1>3, BackTokenStep, MessagesStep, InsertStep, SetBackTokenStep,
     WalkFailsStep DEF do_load_older
<1>4. CASE UNCHANGED vars
  BY <1>4 DEF IInv, TypeOK, Ordered, Behind, Walked, Kept, Upto, Reached,
              Begun, Ahead, Storing, Low, vars, store
<1> QED  BY <1>1, <1>2, <1>3, <1>4 DEF Next

LEMMA IInvUnbroken == IInv => Unbroken
<1> SUFFICES ASSUME IInv, since # None, NEW e \in Shown, e \in 1 .. since,
                    Walked(e)
             PROVE  e \in stored \cup skipped
  BY DEF Unbroken
<1>1. e <= Upto
  BY HistoryAssumption
  DEF IInv, TypeOK, Ordered, Upto, Reached, Tokens, Shown, Events
<1> QED  BY <1>1 DEF IInv, Behind, Kept

(* Every reachable state is well typed.                                    *)
THEOREM HistoryTypeCorrect == Spec => []TypeOK
<1>1. IInv => TypeOK
  BY DEF IInv
<1> QED  BY InitIInv, NextIInv, <1>1, PTL DEF Spec

(* store.rs back_token, main.rs do_load_older: whatever the sizes of room, *)
(* window and page and whoever pages back, nothing between the edge and    *)
(* the sync token is missing but what the edge was moved past.             *)
THEOREM UnbrokenAlways == Spec => []Unbroken
BY InitIInv, NextIInv, IInvUnbroken, PTL DEF Spec
=============================================================================
