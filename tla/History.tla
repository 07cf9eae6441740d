------------------------------- MODULE History -------------------------------
(***************************************************************************)
(* How the store comes to hold a room's history.  /sync brings the newest  *)
(* events, in a window of bounded size; "load older" walks backwards from  *)
(* the room's edge (room.back_token, back_done) by /messages?dir=b, one    *)
(* page at a time and any number of clients at once (main.rs process_sync, *)
(* do_load_older).  An event is its position in the room, and a pagination *)
(* token the position it stands behind: dir=b from token p goes on with p. *)
(* One action is one lock section or one request.  A crash is every thread *)
(* failing at once.                                                        *)
(***************************************************************************)
EXTENDS Integers

CONSTANTS
  Clients,     \* IPC client threads
  MaxHead,     \* bound on the events of the room
  Quiet,       \* those convert_event makes no message of
  Hidden,      \* those of them the server leaves out of a page
  Window,      \* events of one room in a sync response
  Page,        \* BACKFILL_LIMIT
  None,
  Legacy,      \* rooms of an older version, with no token, are possible
  Faults       \* what may go wrong: "sync", "page"

ASSUME HistoryAssumption ==
  /\ MaxHead \in Nat /\ Window \in Nat \ {0} /\ Page \in Nat \ {0}
  /\ Quiet \subseteq 1 .. MaxHead /\ Hidden \subseteq Quiet
  /\ None \notin Int
  /\ Legacy \in BOOLEAN
  /\ Faults \subseteq {"sync", "page"}

VARIABLES
  head,     \* events the server has
  stored,   \* messages in the store
  row,      \* the room has a row
  token,    \* room.back_token
  done,     \* room.back_done
  since,    \* sync_token: the events before it are never sent again
  sync,     \* the sync thread: where it is and the batch it holds
  walk,     \* do_load_older of each client
  early,    \* history: done was set above the start of the room
  skipped   \* history: positions the edge has passed over

store == <<stored, row, token, done, since>>
vars  == <<head, store, sync, walk, early, skipped>>

Events == 1 .. MaxHead
Shown  == Events \ Quiet
Tokens == 0 .. MaxHead

NoBatch == [at |-> "idle", after |-> 0, upto |-> 0]
(* A walk's `from` is the token it asks with, then where its page begins.   *)
NoWalk  == [at |-> "idle", from |-> None, chunk |-> {}, end |-> None,
            exhausted |-> FALSE]

Init ==
  /\ head \in 1 .. MaxHead
  /\ \/ row = FALSE /\ stored = {} /\ since = None
     \/ Legacy /\ row = TRUE /\ since = head /\ stored \in SUBSET (Shown \cap 1 .. head)
  /\ token = None /\ done = FALSE
  /\ sync = NoBatch
  /\ walk = [c \in Clients |-> NoWalk]
  /\ early = FALSE /\ skipped = {}

-----------------------------------------------------------------------------
(* The server.                                                             *)

say ==
  /\ head < MaxHead
  /\ head' = head + 1
  /\ UNCHANGED <<store, sync, walk, early, skipped>>

(* Where the window of a sync response begins; prev_batch stands there.    *)
Later(p, q) == IF p > q THEN p ELSE q

Reached == IF since = None THEN 0 ELSE since

WindowStart == Later(head - Window, Reached)

-----------------------------------------------------------------------------
(* The sync thread.  A room is in a response if it has news.               *)

sync_once ==
  /\ sync.at = "idle"
  /\ since = None \/ head > Reached
  /\ sync' = [at |-> "batch", after |-> WindowStart, upto |-> head]
  /\ UNCHANGED <<head, store, walk, early, skipped>>

(* Store::seed_back_token.                                                 *)
seed_back_token(p) == token' = IF token = None THEN p ELSE token

(* store.rs back_token, back_done: "how far into the room's history we     *)
(* have walked".  Done says so of all of it, unless it came too early.     *)
Walked(e) == (token # None /\ token < e) \/ (done /\ ~ early)

(* What a limited batch leaves out on this side of the edge will not come  *)
(* this way.                                                               *)
LeftOut == {e \in (Reached + 1) .. sync.after : Walked(e)}

process_sync ==
  /\ sync.at = "batch"
  /\ stored' = stored \cup (Shown \cap (sync.after + 1) .. sync.upto)
  /\ row' = TRUE
  /\ seed_back_token(sync.after)
  /\ sync' = [sync EXCEPT !.at = "stored"]
  /\ skipped' = skipped \cup LeftOut
  /\ UNCHANGED <<head, done, since, walk, early>>

save_sync_token ==
  /\ sync.at = "stored"
  /\ since' = sync.upto
  /\ sync' = NoBatch
  /\ UNCHANGED <<head, stored, row, token, done, walk, early, skipped>>

(* An error in this room or in another one of the batch.                   *)
process_sync_fails ==
  /\ "sync" \in Faults
  /\ sync.at # "idle"
  /\ sync' = NoBatch
  /\ UNCHANGED <<head, store, walk, early, skipped>>

-----------------------------------------------------------------------------
(* do_load_older.  A room without a row reads as not begun.                *)

back_token(c) ==
  /\ walk[c].at = "idle"
  /\ ~ done
  /\ walk' = [walk EXCEPT ![c] = [NoWalk EXCEPT !.at = "asking", !.from = token]]
  /\ UNCHANGED <<head, store, sync, early, skipped>>

(* /messages: the page begins behind the token, or at the newest event; at *)
(* the start of the room the server may or may not give one more token.    *)
(* What it does not show us is missing from the page, which may be empty   *)
(* for that.                                                               *)
Start(c) == IF walk[c].from = None THEN head ELSE walk[c].from

Pages(c) ==
  IF Start(c) = 0 THEN {[chunk |-> {}, end |-> None]}
  ELSE LET lo == Later(Start(c) - Page, 0)
       IN  {[chunk |-> ((lo + 1) .. Start(c)) \ Hidden, end |-> e] :
              e \in {lo} \cup (IF lo = 0 THEN {None} ELSE {})}

Exhausted_empty(page) == page.chunk = {} /\ page.end # None  \* faulty: no end is no sign

Exhausted(page) == page.end = None \/ page.chunk = {}

messages_edge_first(c) ==  \* faulty: the edge moves before the page is stored
  /\ walk[c].at = "asking"
  /\ \E page \in Pages(c) :
       /\ walk' = [walk EXCEPT ![c] =
            [@ EXCEPT !.at = "storing", !.from = Start(c), !.chunk = page.chunk,
                      !.end = page.end, !.exhausted = Exhausted(page)]]
       /\ token' = page.end /\ done' = Exhausted(page)
  /\ UNCHANGED <<head, stored, row, since, sync, early, skipped>>

messages(c) ==
  /\ walk[c].at = "asking"
  /\ \E page \in Pages(c) :
       walk' = [walk EXCEPT ![c] =
         [@ EXCEPT !.at = "storing", !.from = Start(c), !.chunk = page.chunk,
                   !.end = page.end, !.exhausted = Exhausted(page)]]
  /\ UNCHANGED <<head, store, sync, early, skipped>>

(* Newest first, each under a lock of its own.                             *)
Newest(chunk) == {e \in chunk : \A f \in chunk : f <= e}

insert_message_any(c) ==  \* faulty: an event with nothing to show is stored
  /\ walk[c].at = "storing" /\ walk[c].chunk # {}
  /\ \E e \in Newest(walk[c].chunk) :
       /\ stored' = stored \cup {e}
       /\ walk' = [walk EXCEPT ![c].chunk = @ \ {e}]
  /\ UNCHANGED <<head, row, token, done, since, sync, early, skipped>>

insert_message(c) ==
  /\ walk[c].at = "storing" /\ walk[c].chunk # {}
  /\ \E e \in Newest(walk[c].chunk) :
       /\ stored' = stored \cup ({e} \cap Shown)
       /\ walk' = [walk EXCEPT ![c].chunk = @ \ {e}]
  /\ UNCHANGED <<head, row, token, done, since, sync, early, skipped>>

(* Store::set_back_token updates the room's row, if there is one.  A page  *)
(* that began before the edge was seeded leaves out what lies between.     *)
set_back_token(c) ==
  /\ walk[c].at = "storing" /\ walk[c].chunk = {}
  /\ IF row
     THEN /\ token' = walk[c].end /\ done' = walk[c].exhausted
          /\ early' = (walk[c].exhausted /\ walk[c].end # None)
          /\ skipped' = skipped \cup
               {e \in Events : walk[c].from < e /\ token # None /\ e <= token}
     ELSE UNCHANGED <<token, done, early, skipped>>
  /\ walk' = [walk EXCEPT ![c] = NoWalk]
  /\ UNCHANGED <<head, stored, row, since, sync>>

do_load_older_fails(c) ==
  /\ "page" \in Faults
  /\ walk[c].at # "idle"
  /\ walk' = [walk EXCEPT ![c] = NoWalk]
  /\ UNCHANGED <<head, store, sync, early, skipped>>

-----------------------------------------------------------------------------
SyncStep == sync_once \/ process_sync \/ save_sync_token

do_load_older(c) ==
  back_token(c) \/ messages(c) \/ insert_message(c) \/ set_back_token(c)

Next ==
  \/ say
  \/ SyncStep \/ process_sync_fails
  \/ \E c \in Clients : do_load_older(c) \/ do_load_older_fails(c)

Spec == Init /\ [][Next]_vars

(* The sync thread goes round and readers keep asking for more.            *)
Fairness == WF_vars(SyncStep) /\ \A c \in Clients : WF_vars(do_load_older(c))

FairSpec == Spec /\ Fairness

-----------------------------------------------------------------------------
(* Properties.                                                             *)

TypeOK ==
  /\ head \in Tokens /\ stored \subseteq Shown
  /\ row \in BOOLEAN /\ done \in BOOLEAN /\ early \in BOOLEAN
  /\ token \in Tokens \cup {None} /\ since \in Tokens \cup {None}
  /\ sync \in [at : {"idle", "batch", "stored"}, after : Tokens, upto : Tokens]
  /\ walk \in [Clients ->
       [at : {"idle", "asking", "storing"}, from : Tokens \cup {None},
        chunk : SUBSET Events, end : Tokens \cup {None}, exhausted : BOOLEAN]]
  /\ skipped \subseteq Events

(* What lies between the edge and the sync token is in the store, however  *)
(* pages and batches of several threads came in and failed, unless a       *)
(* limited batch, or a page begun before the edge was seeded, has moved    *)
(* the one past it (main.rs process_sync, do_load_older).                  *)
Unbroken ==
  since # None =>
    \A e \in Shown \cap 1 .. since : Walked(e) => e \in stored \cup skipped

(* main.rs do_load_older: once pages have ceased to fail, who keeps asking *)
(* is told that there is no more, also when another client's late page     *)
(* moves the edge back up.                                                 *)
StartIsReached ==
  <>[][\A c \in Clients : ~ do_load_older_fails(c)]_vars => (row ~> done)

(* store.rs: the edge is "Never touched by a room upsert, so a later sync  *)
(* cannot skip history".  A room walked to its start is wholly stored.     *)
HistoryWhole ==
  done /\ ~ early /\ since # None => Shown \cap 1 .. since \subseteq stored

(* What the source says and the code does not do (README, section 5).      *)
(* store.rs back_token: "`done` is set once the server has told us we      *)
(* reached the start of the room"; an empty page is taken to tell it.      *)
DoneIsTheStart == ~ early \/ token = 0
=============================================================================
