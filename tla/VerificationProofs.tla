------------------------- MODULE VerificationProofs -------------------------
(***************************************************************************)
(* Proofs about Verification for any bounds and any set of mishaps.  What  *)
(* the other device has said stays said, and the key its accept committed  *)
(* us to never changes (Moves).  A MAC of ours is made only after the      *)
(* reader has called the emoji of that key a match, whatever the           *)
(* transaction was when the answer came (Word); a MAC of theirs is taken   *)
(* only under the key it is for (Theirs); and the backup key is asked for  *)
(* only behind the announcement that the verification is done (Queues).    *)
(***************************************************************************)
EXTENDS Verification, TLAPS

(* The other device is committed to a key of ours.                         *)
Begun == their \notin {"new", "requested", "started"}

Approved == Begun /\ commit \in approved

TheirKinds == {"request", "start", "key", "mac", "done", "cancel", "secret"}

(* What the other device has said.                                         *)
Feed ==
  \A i \in 1..Len(feed) :
    /\ feed[i].kind \in TheirKinds
    /\ feed[i].kind \in {"mac", "done"} => Begun /\ feed[i].key = commit
    /\ feed[i].kind = "secret" => "mac" \in macs

(* Where there is an answer, a MAC or a done of ours, the reader has       *)
(* called the emoji of the commitment a match.                             *)
Word ==
  /\ answer = "yes" \/ entry.we \/ "mac" \in macs => Approved
  /\ \A i \in 1..Len(mail) : mail[i].kind \in {"mac", "done"} => Approved

(* The transaction has a MAC or a done only if the other device sent it,   *)
(* and no MAC before there is a key of ours to check it under.             *)
Theirs ==
  /\ entry.key = 0 => ~ entry.keyed /\ entry.mac = "none"
  /\ entry.mac # "none" => Begun /\ entry.key = commit /\ Heard("mac", commit)
  /\ entry.done => Begun /\ Heard("done", commit)

Good(k) == Approved /\ k = commit /\ Heard("mac", k) /\ Heard("done", k)

(* What a thread is to do: send a MAC the reader's word allows, announce   *)
(* a verification that is one, ask for the backup key behind that.         *)
Queues ==
  \A t \in Threads : \A i \in 1..Len(step[t]) :
    /\ step[t][i].kind \in {"mac", "done"} => Approved
    /\ step[t][i].kind = "verified" => Good(step[t][i].key)
    /\ step[t][i].kind = "ask" =>
         \/ i = 1 /\ step[t][i].key \in verified
         \/ i > 1 /\ step[t][i - 1] = Msg("verified", step[t][i].key)

Announced ==
  /\ \A k \in verified : Good(k)
  /\ asked \subseteq verified
  /\ backup => "mac" \in macs /\ commit \in verified

IInv == TypeOK /\ Feed /\ Word /\ Theirs /\ Queues /\ Announced

-----------------------------------------------------------------------------
LEMMA InitInv == Init => IInv
<1> SUFFICES ASSUME Init PROVE IInv
  OBVIOUS
<1>1. step \in [Threads -> Seq(Msgs)] /\ feed \in Seq(Msgs) /\ mail \in Seq(Msgs)
  BY DEF Init
<1>2. backup \in BOOLEAN /\ ~ backup /\ known \in BOOLEAN
  BY DEF Init
<1>3. 0 \in Keys
  BY VerificationAssumption DEF Keys
<1>4. TypeOK
  BY <1>1, <1>2, <1>3 DEF Init, TypeOK, NoEntry
<1>5. feed = <<>> /\ mail = <<>> /\ \A t \in Threads : step[t] = <<>>
  BY DEF Init
<1>6. Feed /\ Word /\ Theirs /\ Queues /\ Announced
  BY <1>2, <1>5 DEF Init, Feed, Word, Theirs, Queues, Announced, NoEntry
<1> QED BY <1>4, <1>6 DEF IInv

-----------------------------------------------------------------------------
(* Sequences.                                                              *)
LEMMA AppendFacts ==
  ASSUME NEW S, NEW s \in Seq(S), NEW e \in S
  PROVE  /\ Append(s, e) \in Seq(S) /\ Len(Append(s, e)) = Len(s) + 1
         /\ \A i \in 1..Len(s) : Append(s, e)[i] = s[i]
         /\ Append(s, e)[Len(s) + 1] = e
OBVIOUS

LEMMA TailFacts ==
  ASSUME NEW S, NEW s \in Seq(S), s # <<>>
  PROVE  /\ Head(s) \in S /\ Head(s) = s[1] /\ Len(s) \in Nat \ {0}
         /\ Tail(s) \in Seq(S) /\ Len(Tail(s)) = Len(s) - 1
         /\ \A i \in 1..Len(s) - 1 : Tail(s)[i] = s[i + 1]
OBVIOUS

-----------------------------------------------------------------------------
(* What no step undoes.                                                    *)
Moves ==
  /\ Begun => Begun' /\ commit' = commit
  /\ macs \subseteq macs' /\ approved \subseteq approved' /\ verified \subseteq verified'
  /\ Len(feed) <= Len(feed') /\ \A i \in 1..Len(feed) : feed'[i] = feed[i]

LEMMA Kept ==
  ASSUME TypeOK, TypeOK', Moves
  PROVE  /\ Approved => Approved' /\ commit' = commit
         /\ \A kind, k : Heard(kind, k) => Heard(kind, k)'
         /\ \A k : Good(k) => Good(k)'
<1>1. Approved => Approved' /\ commit' = commit
  BY DEF Moves, Approved
<1>2. ASSUME NEW kind, NEW k, Heard(kind, k) PROVE Heard(kind, k)'
  <2>1. DOMAIN feed = 1..Len(feed) /\ DOMAIN feed' = 1..Len(feed') /\ Len(feed) \in Nat /\ Len(feed') \in Nat
    BY DEF TypeOK
  <2>2. PICK i \in 1..Len(feed) : feed[i] = Msg(kind, k)
    BY <1>2, <2>1 DEF Heard
  <2>3. i \in 1..Len(feed') /\ feed'[i] = Msg(kind, k)
    BY <2>1, <2>2 DEF Moves
  <2> QED BY <2>1, <2>3 DEF Heard, Msg
<1> QED BY <1>1, <1>2 DEF Good

-----------------------------------------------------------------------------
(* The handlers: an entry and a todo as the invariant has them.            *)
Entries == [live : BOOLEAN, key : Keys, keyed : BOOLEAN,
            we : BOOLEAN, mac : {"none", "skipped", "proved"}, done : BOOLEAN]

EntryGood(e) ==
  /\ e \in Entries
  /\ e.key = 0 => ~ e.keyed /\ e.mac = "none"
  /\ e.we => Approved
  /\ e.mac # "none" => Begun /\ e.key = commit /\ Heard("mac", commit)
  /\ e.done => Begun /\ Heard("done", commit)

TodoGood(q) ==
  /\ q \in Seq(Msgs)
  /\ \A i \in 1..Len(q) :
       /\ q[i].kind \in {"mac", "done"} => Approved
       /\ q[i].kind = "verified" => Good(q[i].key)
       /\ q[i].kind = "ask" => i > 1 /\ q[i - 1] = Msg("verified", q[i].key)

LEMMA NoEntryGood == EntryGood(NoEntry) /\ TodoGood(<<>>)
<1>1. NoEntry \in Entries
  BY VerificationAssumption DEF NoEntry, Entries, Keys
<1> QED BY <1>1 DEF EntryGood, TodoGood, NoEntry

(* Messages that promise nothing.                                          *)
Plain == {"ready", "accept", "key", "cancel", "emoji", "cancelled"}

LEMMA PlainTodo ==
  ASSUME NEW a \in Plain, NEW j \in Keys, NEW b \in Plain, NEW k \in Keys
  PROVE  TodoGood(<<Msg(a, j)>>) /\ TodoGood(<<Msg(a, j), Msg(b, k)>>)
<1>1. Msg(a, j) \in Msgs /\ Msg(b, k) \in Msgs
  BY DEF Msg, Msgs, Plain, ToDevice
<1>2. Msg(a, j).kind = a /\ Msg(b, k).kind = b
  BY DEF Msg
<1> HIDE DEF Msg
<1> QED BY <1>1, <1>2 DEF TodoGood, Plain

LEMMA CancelGood == EntryGood(cancel.entry) /\ TodoGood(cancel.todo)
<1>1. 0 \in Keys
  BY VerificationAssumption DEF Keys
<1>2. TodoGood(<<Msg("cancel", 0), Msg("cancelled", 0)>>)
  BY <1>1, PlainTodo DEF Plain
<1> QED BY <1>2, NoEntryGood DEF cancel, Result

LEMMA AnnouncingGood ==
  ASSUME NEW todo, TodoGood(todo), NEW k \in Keys, Good(k),
         NEW v, v = Msg("verified", k), NEW a, a = Msg("ask", k),
         NEW q, q = todo \o <<v, a>>
  PROVE  TodoGood(q)
<1>1. v \in Msgs /\ a \in Msgs /\ v.kind = "verified" /\ v.key = k
      /\ a.kind = "ask" /\ a.key = k
  BY DEF Msg, Msgs
<1>2. todo \in Seq(Msgs) /\ <<v, a>> \in Seq(Msgs) /\ Len(<<v, a>>) = 2
      /\ <<v, a>>[1] = v /\ <<v, a>>[2] = a
  BY <1>1 DEF TodoGood
<1>3. q \in Seq(Msgs) /\ Len(q) = Len(todo) + 2 /\ Len(todo) \in Nat
      /\ (\A i \in 1..Len(todo) : q[i] = todo[i])
      /\ q[Len(todo) + 1] = v /\ q[Len(todo) + 2] = a
  BY <1>2
<1>4. ASSUME NEW i \in 1..Len(q)
      PROVE  /\ q[i].kind \in {"mac", "done"} => Approved
             /\ q[i].kind = "verified" => Good(q[i].key)
             /\ q[i].kind = "ask" => i > 1 /\ q[i - 1] = Msg("verified", q[i].key)
  <2>1. CASE i \in 1..Len(todo)
    <3>1. q[i] = todo[i] /\ (i > 1 => q[i - 1] = todo[i - 1])
      BY <1>3, <2>1
    <3> QED BY <2>1, <3>1 DEF TodoGood
  <2>2. CASE i = Len(todo) + 1
    <3>1. q[i] = v
      BY <1>3, <2>2
    <3>2. q[i].kind = "verified" /\ q[i].key = k
      BY <1>1, <3>1
    <3> QED BY <3>2
  <2>3. CASE i = Len(todo) + 2
    <3>1. q[i] = a /\ q[i - 1] = v /\ i > 1
      <4>1. i - 1 = Len(todo) + 1 /\ i > 1
        BY <1>3, <2>3
      <4> QED BY <1>3, <2>3, <4>1
    <3>2. q[i].kind = "ask" /\ q[i - 1] = Msg("verified", q[i].key)
      BY <1>1, <3>1
    <3> QED BY <3>1, <3>2
  <2> QED BY <1>3, <2>1, <2>2, <2>3
<1> QED BY <1>3, <1>4 DEF TodoGood

(* A completed transaction is announced, and the announcement is right.    *)
LEMMA Completing ==
  ASSUME NEW e, EntryGood(e), NEW todo, TodoGood(todo)
  PROVE  EntryGood(Completed(e, todo).entry) /\ TodoGood(Completed(e, todo).todo)
<1>1. CASE ~ complete(e)
  BY <1>1 DEF Completed, Result
<1>2. CASE complete(e)
  <2>1. Good(e.key) /\ e.key \in Keys
    BY <1>2 DEF complete, EntryGood, Good, Approved, Entries
  <2>2. TodoGood(todo \o <<Msg("verified", e.key), Msg("ask", e.key)>>)
    BY <2>1, AnnouncingGood
  <2> QED BY <1>2, <2>2, NoEntryGood DEF Completed, Result
<1> QED BY <1>1, <1>2

LEMMA LeftGood ==
  ASSUME TypeOK, Word, Theirs, NEW e \in Left(entry)
  PROVE  EntryGood(e)
<1>1. EntryGood(entry)
  BY DEF TypeOK, Entries, EntryGood, Word, Theirs
<1> QED BY <1>1, NoEntryGood DEF Left

LEMMA HandledKey ==
  ASSUME TypeOK, Feed, NEW e, EntryGood(e), NEW i \in 1..Len(feed), feed[i].kind # "secret"
  PROVE  Handled(e, feed[i]).entry.key \in Nat
<1> DEFINE m == feed[i]
<1>1. /\ made \in Nat /\ e \in Entries /\ e.key \in Nat
      /\ m.kind \in {"request", "start", "key", "mac", "done", "cancel"}
  BY DEF TypeOK, Feed, TheirKinds, EntryGood, Entries, Keys
<1>2. NoEntry.key = 0 /\ NewEntry.key = 0 /\ cancel.entry.key = 0
  BY DEF NoEntry, NewEntry, cancel, Result
<1>c. Checked \in {"skipped", "proved"}
  BY DEF Checked
<1>3. /\ Completed([e EXCEPT !.mac = Checked], <<>>).entry.key \in Nat
      /\ Completed([e EXCEPT !.done = TRUE], <<>>).entry.key \in Nat
  BY <1>1, <1>2 DEF Completed, Result, Entries
<1>4. Started(e).key = made + 1
  BY <1>1 DEF Started, Entries
<1>5. [e EXCEPT !.keyed = TRUE].key = e.key
  BY <1>1 DEF Entries
<1> HIDE DEF m
<1>6. verification_request(e).entry.key \in Nat /\ verification_cancel(e).entry.key \in Nat
  BY <1>1, <1>2 DEF verification_request, verification_cancel, Nothing, Result
<1>7. verification_start(e).entry.key \in Nat
  BY <1>1, <1>4 DEF verification_start, Nothing, Result
<1>8. verification_key(e).entry.key \in Nat
  BY <1>1, <1>2, <1>5 DEF verification_key, Nothing, Result, Entries
<1>9. verification_mac(e, m).entry.key \in Nat
  BY <1>1, <1>2, <1>3 DEF verification_mac, Nothing, Result, Entries
<1>10. verification_done(e).entry.key \in Nat
  BY <1>1, <1>3 DEF verification_done, Nothing, Result, Entries
<1> QED BY <1>1, <1>6, <1>7, <1>8, <1>9, <1>10 DEF Handled, m

(* The sync thread's handlers, given an event the other device has sent.   *)
LEMMA HandledGood ==
  ASSUME TypeOK, Feed, NEW e, EntryGood(e),
         NEW i \in 1..Len(feed), feed[i].kind # "secret",
         NEW r, r = Handled(e, feed[i]), r.entry.key =< MaxKeys
  PROVE  EntryGood(r.entry) /\ TodoGood(r.todo)
<1> DEFINE m == feed[i]
<1>0. /\ m \in Msgs /\ m.kind \in TheirKinds
      /\ m.kind \in {"mac", "done"} => Begun /\ m.key = commit
      /\ Heard(m.kind, m.key)
  <2>1. i \in DOMAIN feed /\ feed[i] \in Msgs
    BY DEF TypeOK
  <2>2. feed[i] = Msg(feed[i].kind, feed[i].key)
    BY <2>1 DEF Msgs, Msg
  <2> QED BY <2>1, <2>2 DEF Feed, Heard
<1> HIDE DEF m
<1>e. e \in Entries /\ e.key \in Keys
  BY DEF EntryGood, Entries
<1>n. EntryGood(NewEntry)
  BY NoEntryGood DEF NewEntry, EntryGood, NoEntry, Entries
<1>z. 0 \in Keys
  BY VerificationAssumption DEF Keys
<1>1. CASE m.kind = "request"
  <2>1. r = [entry |-> NewEntry, todo |-> <<Msg("ready", 0)>>]
    BY <1>1 DEF Handled, verification_request, Result, m
  <2>2. TodoGood(<<Msg("ready", 0)>>)
    BY <1>z, PlainTodo DEF Plain
  <2> QED BY <2>1, <2>2, <1>n
<1>2. CASE m.kind = "start"
  <2>1. r = verification_start(e)
    BY <1>2 DEF Handled, m
  <2>2. CASE e.key # 0
    BY <2>1, <2>2, NoEntryGood DEF verification_start, Nothing, Result
  <2>3. CASE e.key = 0
    <3>1. r.entry = Started(e) /\ r.todo = <<Msg("accept", made + 1)>>
      BY <2>1, <2>3 DEF verification_start, Result
    <3>2. r.entry.key = made + 1
      BY <3>1, <1>e DEF Started, Entries
    <3>3. made + 1 \in Keys
      BY <3>2 DEF Keys, TypeOK
    <3>4. /\ Started(e) \in Entries /\ Started(e).key = made + 1
          /\ Started(e).mac = e.mac /\ Started(e).we = e.we /\ Started(e).done = e.done
      BY <1>e, <3>3 DEF Entries, Started
    <3>5. made + 1 # 0
      BY DEF TypeOK, Keys
    <3>6. EntryGood(Started(e))
      BY <2>3, <3>4, <3>5 DEF EntryGood
    <3> QED BY <3>1, <3>3, <3>6, PlainTodo DEF Plain
  <2> QED BY <2>2, <2>3
<1>3. CASE m.kind = "key"
  <2>1. r = verification_key(e)
    BY <1>3 DEF Handled, m
  <2>2. CASE ~ e.live
    BY <2>1, <2>2, NoEntryGood DEF verification_key, Nothing, Result
  <2>3. CASE e.live /\ (e.key = 0 \/ e.keyed)
    BY <2>1, <2>3, CancelGood DEF verification_key
  <2>4. CASE e.live /\ e.key # 0 /\ ~ e.keyed
    <3>1. /\ r.entry = [e EXCEPT !.keyed = TRUE]
          /\ r.todo = <<Msg("key", e.key), Msg("emoji", e.key)>>
      BY <2>1, <2>4 DEF verification_key, Result
    <3>2. TodoGood(r.todo)
      BY <3>1, <1>e, PlainTodo DEF Plain
    <3>3. EntryGood(r.entry)
      BY <3>1, <2>4 DEF EntryGood, Entries
    <3> QED BY <3>2, <3>3
  <2> QED BY <2>2, <2>3, <2>4, <1>e DEF Entries
<1>4. CASE m.kind = "mac"
  <2>1. r = verification_mac(e, m)
    BY <1>4 DEF Handled, m
  <2>2. CASE ~ e.live
    BY <2>1, <2>2, NoEntryGood DEF verification_mac, Nothing, Result
  <2>3. CASE e.live /\ (~ e.keyed \/ m.key # e.key)
    BY <2>1, <2>3, CancelGood, <1>e DEF verification_mac, Entries
  <2>4. CASE e.live /\ e.keyed /\ m.key = e.key
    <3>1. r = Completed([e EXCEPT !.mac = Checked], <<>>)
      BY <2>1, <2>4 DEF verification_mac
    <3>2. EntryGood([e EXCEPT !.mac = Checked])
      BY <2>4, <1>0, <1>4 DEF EntryGood, Entries, Checked
    <3> QED BY <3>1, <3>2, NoEntryGood, Completing
  <2> QED BY <2>2, <2>3, <2>4, <1>e DEF Entries
<1>5. CASE m.kind = "done"
  <2>1. r = verification_done(e)
    BY <1>5 DEF Handled, m
  <2>2. CASE ~ e.live
    BY <2>1, <2>2, NoEntryGood DEF verification_done, Nothing, Result
  <2>3. CASE e.live
    <3>1. r = Completed([e EXCEPT !.done = TRUE], <<>>)
      BY <2>1, <2>3 DEF verification_done
    <3>2. EntryGood([e EXCEPT !.done = TRUE])
      BY <1>0, <1>5 DEF EntryGood, Entries
    <3> QED BY <3>1, <3>2, NoEntryGood, Completing
  <2> QED BY <2>2, <2>3
<1>6. CASE m.kind = "cancel"
  <2>1. r = verification_cancel(e)
    BY <1>6 DEF Handled, m
  <2>2. CASE ~ e.live
    BY <2>1, <2>2, NoEntryGood DEF verification_cancel, Nothing, Result
  <2>3. CASE e.live
    <3>1. r = [entry |-> NoEntry, todo |-> <<Msg("cancelled", 0)>>]
      BY <2>1, <2>3 DEF verification_cancel, Result
    <3>2. TodoGood(<<Msg("cancelled", 0)>>)
      BY <1>z, PlainTodo DEF Plain
    <3> QED BY <3>1, <3>2, NoEntryGood
  <2> QED BY <2>2, <2>3
<1> QED BY <1>0, <1>1, <1>2, <1>3, <1>4, <1>5, <1>6 DEF TheirKinds, m

(* The user's answer, given the word it carries.                           *)
LEMMA ConfirmGood ==
  ASSUME TypeOK, NEW e, EntryGood(e), NEW yes \in BOOLEAN, yes => Approved,
         NEW r, r = confirm_verification(e, yes)
  PROVE  EntryGood(r.entry) /\ TodoGood(r.todo)
<1>e. e \in Entries /\ e.key \in Keys /\ 0 \in Keys
  BY VerificationAssumption DEF EntryGood, Entries, Keys
<1>1. CASE ~ e.live
  <2>1. r = [entry |-> e, todo |-> <<Msg("cancelled", 0)>>]
    BY <1>1 DEF confirm_verification, Result
  <2>2. TodoGood(<<Msg("cancelled", 0)>>)
    BY <1>e, PlainTodo DEF Plain
  <2> QED BY <2>1, <2>2
<1>2. CASE e.live /\ ~ (yes /\ e.keyed)
  BY <1>2, CancelGood DEF confirm_verification
<1>3. CASE e.live /\ yes /\ e.keyed
  <2> DEFINE todo == <<Msg("mac", e.key), Msg("done", e.key)>>
  <2>1. r = Completed([e EXCEPT !.we = TRUE], todo)
    BY <1>3 DEF confirm_verification
  <2>2. EntryGood([e EXCEPT !.we = TRUE])
    BY <1>3 DEF EntryGood, Entries
  <2>3. Msg("mac", e.key) \in Msgs /\ Msg("done", e.key) \in Msgs
    BY <1>e DEF Msgs, Msg, ToDevice
  <2>4. Msg("mac", e.key).kind = "mac" /\ Msg("done", e.key).kind = "done"
    BY DEF Msg
  <2>5. TodoGood(todo)
    BY <1>3, <2>3, <2>4 DEF TodoGood
  <2> QED BY <2>1, <2>2, <2>5, Completing
<1> QED BY <1>1, <1>2, <1>3, <1>e DEF Entries

-----------------------------------------------------------------------------
(* Parts of the invariant that a step leaves alone.                        *)
LEMMA FeedKept ==
  ASSUME TypeOK, TypeOK', Moves, Feed, feed' = feed
  PROVE  Feed'
BY DEF Feed, Moves

LEMMA WordKept ==
  ASSUME TypeOK, TypeOK', Moves, Word, UNCHANGED <<mail, macs>>,
         answer' = "yes" \/ entry'.we => Approved'
  PROVE  Word'
BY Kept DEF Word

LEMMA TheirsKept ==
  ASSUME TypeOK, TypeOK', Moves, Theirs, entry' = entry
  PROVE  Theirs'
<1>1. /\ Begun => Begun' /\ commit' = commit
      /\ \A kind, k : Heard(kind, k) => Heard(kind, k)'
  BY Kept DEF Moves
<1>2. /\ entry.mac # "none" => Begun' /\ entry.key = commit' /\ Heard("mac", commit)'
      /\ entry.done => Begun' /\ Heard("done", commit)'
  <2>1. CASE Begun
    <3>1. Heard("mac", commit) => Heard("mac", commit)'
      BY <1>1, <2>1 DEF Heard
    <3>2. Heard("done", commit) => Heard("done", commit)'
      BY <1>1, <2>1 DEF Heard
    <3> QED BY <1>1, <2>1, <3>1, <3>2 DEF Theirs
  <2>2. CASE ~ Begun
    BY <2>2 DEF Theirs
  <2> QED BY <2>1, <2>2
<1> QED BY <1>2 DEF Theirs

LEMMA AnnouncedKept ==
  ASSUME TypeOK, TypeOK', Moves, Announced, UNCHANGED <<verified, backup>>,
         asked' \subseteq asked
  PROVE  Announced'
<1>1. \A k \in verified' : Good(k)'
  BY Kept DEF Announced
<1>2. backup => commit' = commit
  BY <1>1 DEF Announced, Good, Approved, Moves
<1> QED BY <1>1, <1>2 DEF Announced, Moves

-----------------------------------------------------------------------------
(* The threads' queues.                                                    *)
QueueGood(t) ==
  \A i \in 1..Len(step[t]) :
    /\ step[t][i].kind \in {"mac", "done"} => Approved
    /\ step[t][i].kind = "verified" => Good(step[t][i].key)
    /\ step[t][i].kind = "ask" =>
         \/ i = 1 /\ step[t][i].key \in verified
         \/ i > 1 /\ step[t][i - 1] = Msg("verified", step[t][i].key)

LEMMA QueueKept ==
  ASSUME TypeOK, TypeOK', Moves, Queues, NEW t \in Threads, step'[t] = step[t]
  PROVE  QueueGood(t)'
<1> SUFFICES ASSUME NEW q, q = step[t] PROVE QueueGood(t)'
  OBVIOUS
<1>1. ASSUME NEW i \in 1..Len(q)
      PROVE  /\ q[i].kind \in {"mac", "done"} => Approved'
             /\ q[i].kind = "verified" => Good(q[i].key)'
             /\ q[i].kind = "ask" =>
                  \/ i = 1 /\ q[i].key \in verified'
                  \/ i > 1 /\ q[i - 1] = Msg("verified", q[i].key)
  <2>1. /\ q[i].kind \in {"mac", "done"} => Approved
        /\ q[i].kind = "verified" => Good(q[i].key)
        /\ q[i].kind = "ask" =>
             \/ i = 1 /\ q[i].key \in verified
             \/ i > 1 /\ q[i - 1] = Msg("verified", q[i].key)
    BY DEF Queues
  <2>2. Approved => Approved'
    BY Kept
  <2>3. Good(q[i].key) => Good(q[i].key)'
    BY Kept
  <2> QED BY <2>1, <2>2, <2>3 DEF Moves
<1> QED BY <1>1 DEF QueueGood, Good, Heard, Approved, Begun, Msg

(* An item done: what asks for the backup key now comes first.             *)
LEMMA QueueDone ==
  ASSUME TypeOK, TypeOK', Moves, Queues, NEW t \in Threads, step[t] # <<>>,
         step'[t] = Tail(step[t]),
         Head(step[t]).kind = "verified" => Head(step[t]).key \in verified'
  PROVE  QueueGood(t)'
<1> SUFFICES ASSUME NEW q, q = step[t] PROVE QueueGood(t)'
  OBVIOUS
<1>1. q \in Seq(Msgs) /\ q # <<>>
  BY DEF TypeOK
<1>2. PICK p \in Seq(Msgs) : p = Tail(q)
  <2>1. Tail(q) \in Seq(Msgs)
    BY <1>1, TailFacts
  <2> QED BY <2>1
<1>3. /\ Head(q) = q[1] /\ Len(q) \in Nat \ {0} /\ Len(p) = Len(q) - 1
      /\ \A i \in 1..Len(q) - 1 : p[i] = q[i + 1]
  BY <1>1, <1>2, TailFacts
<1>4. ASSUME NEW i \in 1..Len(p), NEW m, m = q[i + 1]
      PROVE  /\ p[i] = m
             /\ m.kind \in {"mac", "done"} => Approved'
             /\ m.kind = "verified" => Good(m.key)'
             /\ m.kind = "ask" =>
                  \/ i = 1 /\ m.key \in verified'
                  \/ i > 1 /\ p[i - 1] = Msg("verified", m.key)
  <2>1. p[i] = m /\ i + 1 \in 1..Len(q) /\ i \in Nat \ {0} /\ i + 1 # 1 /\ i + 1 > 1
        /\ (i + 1) - 1 = i /\ (i > 1 => p[i - 1] = q[i])
    BY <1>3, <1>4
  <2>2. /\ m.kind \in {"mac", "done"} => Approved
        /\ m.kind = "verified" => Good(m.key)
        /\ m.kind = "ask" => q[i] = Msg("verified", m.key)
    BY <2>1, <1>4 DEF Queues
  <2>3. m.kind = "ask" /\ i = 1 => Head(q).kind = "verified" /\ Head(q).key = m.key
    BY <1>3, <2>2 DEF Msg
  <2>4. Approved => Approved'
    BY Kept
  <2>5. Good(m.key) => Good(m.key)'
    BY Kept
  <2>6. i = 1 \/ i > 1
    BY <2>1
  <2>7. m.kind = "ask" =>
          \/ i = 1 /\ m.key \in verified'
          \/ i > 1 /\ p[i - 1] = Msg("verified", m.key)
    BY <2>1, <2>2, <2>3, <2>6
  <2> QED BY <2>1, <2>2, <2>4, <2>5, <2>7
<1>5. ASSUME NEW i \in 1..Len(p)
      PROVE  /\ p[i].kind \in {"mac", "done"} => Approved'
             /\ p[i].kind = "verified" => Good(p[i].key)'
             /\ p[i].kind = "ask" =>
                  \/ i = 1 /\ p[i].key \in verified'
                  \/ i > 1 /\ p[i - 1] = Msg("verified", p[i].key)
  BY <1>4
<1>6. step'[t] = p
  BY <1>2
<1> QED BY <1>5, <1>6 DEF QueueGood, Good, Heard, Approved, Begun, Msg

LEMMA QueueTaken ==
  ASSUME NEW t \in Threads, NEW q, TodoGood(q), step'[t] = q,
         TypeOK, TypeOK', Moves
  PROVE  QueueGood(t)'
<1>1. Approved => Approved'
  BY Kept
<1>2. \A k : Good(k) => Good(k)'
  BY Kept
<1>3. ASSUME NEW i \in 1..Len(q)
      PROVE  /\ q[i].kind \in {"mac", "done"} => Approved'
             /\ q[i].kind = "verified" => Good(q[i].key)'
             /\ q[i].kind = "ask" => i > 1 /\ q[i - 1] = Msg("verified", q[i].key)
  BY <1>1, <1>2 DEF TodoGood
<1> QED BY <1>3 DEF QueueGood, Good, Heard, Approved, Begun, Msg

-----------------------------------------------------------------------------
(* The invariant after a step, part by part.                               *)
LEMMA QueuesAgain ==
  ASSUME \A t \in Threads : QueueGood(t)'
  PROVE  Queues'
BY DEF Queues, QueueGood

(* Nothing but the queues and the transaction's surroundings moved.        *)
LEMMA SyncMoves ==
  ASSUME IInv, sync_once \/ save_sync_token \/ process_sync_fails
  PROVE  IInv'
<1>1. UNCHANGED <<faults, crypto, step, reader, feed, mail, peer, verified>>
  BY DEF sync_once, save_sync_token, process_sync_fails
<1>2. token' \in Nat /\ at' \in token' .. upto' /\ upto' \in token' .. Len(feed)
  <2>1. token \in Nat /\ at \in token .. upto /\ upto \in token .. Len(feed) /\ Len(feed) \in Nat
    BY DEF IInv, TypeOK
  <2> QED BY <2>1 DEF sync_once, save_sync_token, process_sync_fails
<1>3. TypeOK'
  BY <1>1, <1>2 DEF IInv, TypeOK, crypto, reader, peer
<1>4. Feed' /\ Word' /\ Theirs' /\ Announced'
  BY <1>1 DEF IInv, Feed, Word, Theirs, Announced, Approved, Begun, Good, Heard, crypto,
              reader, peer
<1>5. Queues'
  BY <1>1 DEF IInv, Queues, Approved, Begun, Good, Heard, crypto, reader, peer
<1> QED BY <1>3, <1>4, <1>5 DEF IInv

LEMMA StutterInv ==
  ASSUME IInv, UNCHANGED vars
  PROVE  IInv'
<1>1. UNCHANGED <<faults, crypto, step, sync, reader, feed, mail, peer, verified>>
  BY DEF vars
<1>2. TypeOK'
  BY <1>1 DEF IInv, TypeOK, crypto, sync, reader, peer
<1>3. Feed' /\ Word' /\ Theirs' /\ Announced'
  BY <1>1 DEF IInv, Feed, Word, Theirs, Announced, Approved, Begun, Good, Heard, crypto,
              reader, peer
<1>4. Queues'
  BY <1>1 DEF IInv, Queues, Approved, Begun, Good, Heard, crypto, reader, peer
<1> QED BY <1>2, <1>3, <1>4 DEF IInv

LEMMA TakesType ==
  ASSUME TypeOK, NEW t \in Threads, NEW r, Takes(t, r), EntryGood(r.entry), TodoGood(r.todo)
  PROVE  /\ entry' \in Entries /\ made' \in Keys /\ step' \in [Threads -> Seq(Msgs)]
         /\ step'[t] = r.todo /\ \A u \in Threads \ {t} : step'[u] = step[u]
<1>1. r.entry \in Entries /\ r.todo \in Seq(Msgs) /\ r.entry.key \in Keys
  BY DEF EntryGood, TodoGood, Entries
<1> QED BY <1>1 DEF Takes, TypeOK, Keys

LEMMA EventInv ==
  ASSUME IInv, handle_verification_event
  PROVE  IInv'
<1> USE DEF IInv
<1>1. UNCHANGED <<faults, asked, token, upto, reader, feed, mail, peer, verified>>
  BY DEF handle_verification_event
<1>2. at + 1 \in 1..Len(feed) /\ at' \in token .. upto /\ at \in Nat
  BY DEF handle_verification_event, TypeOK
<1>3. Moves
  BY <1>1 DEF Moves, Begun, reader, peer
<1>k. known' \in BOOLEAN
  BY DEF handle_verification_event, keys_query, TypeOK
<1>4. backup' \in BOOLEAN /\ (backup' => "mac" \in macs /\ commit \in verified)
  <2>1. CASE UNCHANGED backup
    BY <2>1 DEF TypeOK, Announced
  <2>2. CASE handle_secret /\ ~ UNCHANGED backup
    <3>1. backup' \in BOOLEAN
      BY <2>2 DEF handle_secret
    <3>2. ASSUME backup', ~ backup PROVE "mac" \in macs /\ commit \in verified
      <4>1. PICK i \in token + 1 .. upto : feed[i].kind = "secret" /\ feed[i].key \in asked
        BY <2>2, <3>2 DEF handle_secret
      <4>2. i \in 1..Len(feed)
        BY <4>1 DEF TypeOK
      <4>3. "mac" \in macs
        BY <4>1, <4>2 DEF Feed
      <4>4. feed[i].key \in verified /\ Good(feed[i].key)
        BY <4>1 DEF Announced
      <4> QED BY <4>3, <4>4 DEF Good
    <3> QED BY <3>1, <3>2 DEF Announced
  <2> QED BY <2>1, <2>2 DEF handle_verification_event
<1>5. CASE feed[at + 1].kind = "secret"
  <2>1. UNCHANGED <<entry, made, step>>
    BY <1>5 DEF handle_verification_event
  <2>2. TypeOK'
    BY <1>1, <1>2, <1>4, <1>k, <2>1 DEF TypeOK, reader, peer
  <2>3. Feed' /\ Word' /\ Theirs'
    BY <1>1, <1>3, <2>1, <2>2, FeedKept, WordKept, TheirsKept, Kept DEF Word, reader, peer
  <2>4. Queues'
    BY <1>3, <2>1, <2>2, QueueKept, QueuesAgain
  <2>5. Announced'
    BY <1>1, <1>4 DEF Announced, Good, Approved, Begun, Heard, reader, peer
  <2> QED BY <2>2, <2>3, <2>4, <2>5
<1>6. CASE feed[at + 1].kind # "secret"
  <2>1. PICK e \in Left(entry) : Takes("sync", Handled(e, feed[at + 1]))
    BY <1>6 DEF handle_verification_event
  <2> DEFINE r == Handled(e, feed[at + 1])
  <2>2. EntryGood(e)
    BY LeftGood
  <2>3. r.entry.key =< MaxKeys
    <3>1. r.entry.key \in Nat
      BY <1>2, <1>6, <2>2, HandledKey
    <3> HIDE DEF r
    <3>2. Takes("sync", r)
      BY <2>1 DEF r
    <3>3. made \in Nat /\ MaxKeys \in Nat
      BY VerificationAssumption DEF TypeOK, Keys
    <3> QED BY <3>1, <3>2, <3>3 DEF Takes
  <2>4. EntryGood(r.entry) /\ TodoGood(r.todo)
    BY <1>2, <1>6, <2>2, <2>3, HandledGood
  <2> HIDE DEF r
  <2>5. Takes("sync", r)
    BY <2>1 DEF r
  <2>6. /\ entry' \in Entries /\ made' \in Keys /\ step' \in [Threads -> Seq(Msgs)]
        /\ step'["sync"] = r.todo /\ step'["client"] = step["client"]
    BY <2>4, <2>5, TakesType DEF Threads
  <2>7. TypeOK'
    BY <1>1, <1>2, <1>4, <1>k, <2>6 DEF TypeOK, Entries, reader, peer
  <2>8. Feed' /\ Word' /\ Theirs'
    <3>1. EntryGood(entry')
      BY <2>4, <2>5 DEF Takes
    <3>2. Word'
      BY <1>1, <3>1 DEF Word, EntryGood, Approved, Begun, reader, peer
    <3>3. Theirs'
      BY <1>1, <3>1 DEF Theirs, EntryGood, Begun, Heard, reader, peer
    <3> QED BY <1>1, <1>3, <2>7, <3>2, <3>3, FeedKept
  <2>9. Queues'
    BY <1>3, <2>4, <2>6, <2>7, QueueKept, QueueTaken, QueuesAgain DEF Threads
  <2>10. Announced'
    BY <1>1, <1>4 DEF Announced, Good, Approved, Begun, Heard, reader, peer
  <2> QED BY <2>7, <2>8, <2>9, <2>10
<1> QED BY <1>5, <1>6

LEMMA ConfirmInv ==
  ASSUME IInv, do_verify_confirm
  PROVE  IInv'
<1> USE DEF IInv
<1> DEFINE yes == answer = "yes"
           r == confirm_verification(entry, yes)
<1>1. /\ UNCHANGED <<faults, known, asked, backup, sync, screen, approved, feed, mail, peer, verified>>
      /\ answer' = "none" /\ Takes("client", r)
  BY DEF do_verify_confirm
<1>2. Moves
  BY <1>1 DEF Moves, Begun, peer
<1>3. EntryGood(r.entry) /\ TodoGood(r.todo)
  <2>1. entry \in Left(entry)
    BY DEF Left
  <2>2. EntryGood(entry)
    BY <2>1, LeftGood
  <2>3. yes \in BOOLEAN /\ (yes => Approved)
    BY DEF Word
  <2> QED BY <2>2, <2>3, ConfirmGood
<1> HIDE DEF r
<1>4. /\ entry' \in Entries /\ made' \in Keys /\ step' \in [Threads -> Seq(Msgs)]
      /\ step'["client"] = r.todo /\ step'["sync"] = step["sync"]
  BY <1>1, <1>3, TakesType DEF Threads
<1>5. TypeOK'
  BY <1>1, <1>4 DEF TypeOK, Entries, sync, peer
<1>6. EntryGood(entry')
  BY <1>1, <1>3 DEF Takes
<1>7. Word'
  BY <1>1, <1>6 DEF Word, EntryGood, Approved, Begun, peer
<1>8. Theirs'
  BY <1>1, <1>6 DEF Theirs, EntryGood, Begun, Heard, peer
<1>9. Queues'
  BY <1>2, <1>3, <1>4, <1>5, QueueKept, QueueTaken, QueuesAgain DEF Threads
<1>10. Feed' /\ Announced'
  BY <1>1, <1>2, <1>5, FeedKept, AnnouncedKept
<1> QED BY <1>5, <1>7, <1>8, <1>9, <1>10

(* apply_verify_step: the three kinds of effect.                           *)
LEMMA DoneType ==
  ASSUME TypeOK, NEW t \in Threads, step[t] # <<>>, Done(t)
  PROVE  /\ step' \in [Threads -> Seq(Msgs)] /\ Head(step[t]) \in Msgs
         /\ step'[t] = Tail(step[t])
         /\ \A u \in Threads \ {t} : step'[u] = step[u]
<1>1. step[t] \in Seq(Msgs)
  BY DEF TypeOK
<1>2. Tail(step[t]) \in Seq(Msgs) /\ Head(step[t]) \in Msgs
  BY <1>1, TailFacts
<1> QED BY <1>2 DEF Done, TypeOK

LEMMA MailMore ==
  ASSUME TypeOK, Word, NEW m \in Msgs, m.kind \in {"mac", "done"} => Approved,
         mail' \in {mail, Append(mail, m)}
  PROVE  /\ mail' \in Seq(Msgs)
         /\ \A i \in 1..Len(mail') : mail'[i].kind \in {"mac", "done"} => Approved
<1>1. mail \in Seq(Msgs)
  BY DEF TypeOK
<1>2. CASE mail' = mail
  BY <1>1, <1>2 DEF Word
<1>3. CASE mail' = Append(mail, m)
  <2>1. /\ mail' \in Seq(Msgs) /\ Len(mail') = Len(mail) + 1 /\ Len(mail) \in Nat
        /\ \A i \in 1..Len(mail) : mail'[i] = mail[i]
    BY <1>1, <1>3, AppendFacts
  <2>2. mail'[Len(mail) + 1] = m
    BY <1>1, <1>3, AppendFacts
  <2>3. ASSUME NEW i \in 1..Len(mail'), mail'[i].kind \in {"mac", "done"} PROVE Approved
    <3>1. CASE i \in 1..Len(mail)
      BY <2>1, <2>3, <3>1 DEF Word
    <3>2. CASE i = Len(mail) + 1
      BY <2>2, <2>3, <3>2
    <3> QED BY <2>1, <3>1, <3>2
  <2> QED BY <2>1, <2>3
<1> QED BY <1>2, <1>3

LEMMA HeadGood ==
  ASSUME TypeOK, Queues, NEW t \in Threads, step[t] # <<>>
  PROVE  LET m == Head(step[t]) IN
         /\ m.kind \in {"mac", "done"} => Approved
         /\ m.kind = "verified" => Good(m.key)
         /\ m.kind = "ask" => m.key \in verified
<1>1. step[t] \in Seq(Msgs)
  BY DEF TypeOK
<1>2. Head(step[t]) = step[t][1] /\ 1 \in 1..Len(step[t]) /\ ~ (1 > 1)
  BY <1>1, TailFacts
<1> QED BY <1>2 DEF Queues

LEMMA SendInv ==
  ASSUME IInv, NEW t \in Threads, send_to_device(t)
  PROVE  IInv'
<1> USE DEF IInv
<1> DEFINE m == Head(step[t])
<1>1. /\ UNCHANGED <<faults, crypto, sync, reader, feed, peer, verified>>
      /\ step[t] # <<>> /\ m.kind \in ToDevice /\ Done(t)
      /\ mail' \in {mail, Append(mail, m)}
  BY DEF send_to_device
<1>2. Moves
  BY <1>1 DEF Moves, Begun, peer, reader
<1>3. /\ step' \in [Threads -> Seq(Msgs)] /\ m \in Msgs
      /\ step'[t] = Tail(step[t]) /\ \A u \in Threads \ {t} : step'[u] = step[u]
  BY <1>1, DoneType
<1>4. m.kind \in {"mac", "done"} => Approved
  BY <1>1, HeadGood
<1> HIDE DEF m
<1>5. /\ mail' \in Seq(Msgs)
      /\ \A i \in 1..Len(mail') : mail'[i].kind \in {"mac", "done"} => Approved
  BY <1>1, <1>3, <1>4, MailMore
<1>6. TypeOK'
  BY <1>1, <1>3, <1>5 DEF TypeOK, crypto, sync, reader, peer
<1>7. Queues'
  <2>1. Head(step[t]).kind # "verified"
    BY <1>1 DEF m, ToDevice
  <2>2. QueueGood(t)'
    BY <1>1, <1>2, <1>3, <1>6, <2>1, QueueDone
  <2>3. \A u \in Threads \ {t} : QueueGood(u)'
    BY <1>2, <1>3, <1>6, QueueKept
  <2> QED BY <2>2, <2>3, QueuesAgain
<1>8. Word'
  BY <1>1, <1>5 DEF Word, Approved, Begun, crypto, reader, peer
<1>9. Feed' /\ Theirs' /\ Announced'
  BY <1>1, <1>2, <1>6, FeedKept, TheirsKept, AnnouncedKept DEF crypto
<1> QED BY <1>6, <1>7, <1>8, <1>9

LEMMA PublishInv ==
  ASSUME IInv, NEW t \in Threads, publish(t)
  PROVE  IInv'
<1> USE DEF IInv
<1> DEFINE m == Head(step[t])
<1>1. /\ UNCHANGED <<faults, crypto, sync, answer, approved, feed, mail, peer>>
      /\ step[t] # <<>> /\ Done(t)
      /\ screen' = IF m.kind = "emoji" THEN m.key ELSE 0
      /\ verified' = IF m.kind = "verified" THEN verified \cup {m.key} ELSE verified
  BY DEF publish
<1>2. Moves
  BY <1>1 DEF Moves, Begun, peer
<1>3. /\ step' \in [Threads -> Seq(Msgs)] /\ m \in Msgs
      /\ step'[t] = Tail(step[t]) /\ \A u \in Threads \ {t} : step'[u] = step[u]
  BY <1>1, DoneType
<1>4. m.kind = "verified" => Good(m.key)
  BY <1>1, HeadGood
<1>5. TypeOK'
  <2>1. m.key \in Keys /\ 0 \in Keys
    BY <1>3, VerificationAssumption DEF Msgs, Keys
  <2>2. screen' \in Keys /\ verified' \in SUBSET Keys
    BY <1>1, <2>1 DEF TypeOK
  <2> QED BY <1>1, <1>3, <2>2 DEF TypeOK, crypto, sync, peer
<1>6. Queues'
  <2>1. Head(step[t]).kind = "verified" => Head(step[t]).key \in verified'
    BY <1>1
  <2>2. QueueGood(t)'
    BY <1>1, <1>2, <1>3, <1>5, <2>1, QueueDone
  <2>3. \A u \in Threads \ {t} : QueueGood(u)'
    BY <1>2, <1>3, <1>5, QueueKept
  <2> QED BY <2>2, <2>3, QueuesAgain
<1>7. Feed' /\ Word' /\ Theirs'
  BY <1>1, <1>2, <1>5, FeedKept, WordKept, TheirsKept, Kept DEF Word, crypto, peer
<1>8. Announced'
  <2>1. \A k \in verified' : Good(k)
    BY <1>1, <1>4 DEF Announced
  <2>2. \A k \in verified' : Good(k)'
    BY <1>2, <1>5, <2>1, Kept
  <2>3. verified \subseteq verified'
    BY <1>1
  <2> QED BY <1>1, <2>2, <2>3 DEF Announced, crypto, peer
<1> QED BY <1>5, <1>6, <1>7, <1>8

LEMMA AskInv ==
  ASSUME IInv, NEW t \in Threads, request_backup_secret(t)
  PROVE  IInv'
<1> USE DEF IInv
<1> DEFINE m == Head(step[t])
<1>1. /\ UNCHANGED <<faults, entry, made, known, backup, sync, reader, feed, peer, verified>>
      /\ step[t] # <<>> /\ m.kind = "ask" /\ Done(t)
      /\ mail' \in {mail, Append(mail, m)}
      /\ asked' \in {asked, asked \cup {m.key}}
  BY DEF request_backup_secret
<1>2. Moves
  BY <1>1 DEF Moves, Begun, peer, reader
<1>3. /\ step' \in [Threads -> Seq(Msgs)] /\ m \in Msgs
      /\ step'[t] = Tail(step[t]) /\ \A u \in Threads \ {t} : step'[u] = step[u]
  BY <1>1, DoneType
<1>4. m.key \in verified
  BY <1>1, HeadGood
<1> HIDE DEF m
<1>5. /\ mail' \in Seq(Msgs)
      /\ \A i \in 1..Len(mail') : mail'[i].kind \in {"mac", "done"} => Approved
  BY <1>1, <1>3, MailMore
<1>6. TypeOK'
  <2>1. asked' \in SUBSET Keys
    BY <1>1, <1>3 DEF TypeOK, Msgs
  <2> QED BY <1>1, <1>3, <1>5, <2>1 DEF TypeOK, sync, reader, peer
<1>7. Queues'
  <2>1. Head(step[t]).kind # "verified"
    BY <1>1 DEF m
  <2>2. QueueGood(t)'
    BY <1>1, <1>2, <1>3, <1>6, <2>1, QueueDone
  <2>3. \A u \in Threads \ {t} : QueueGood(u)'
    BY <1>2, <1>3, <1>6, QueueKept
  <2> QED BY <2>2, <2>3, QueuesAgain
<1>8. Word'
  BY <1>1, <1>5 DEF Word, Approved, Begun, reader, peer
<1>9. Feed' /\ Theirs'
  BY <1>1, <1>2, <1>6, FeedKept, TheirsKept
<1>10. Announced'
  <2>1. asked' \subseteq verified'
    BY <1>1, <1>4 DEF Announced
  <2> QED BY <1>1, <2>1 DEF Announced, Good, Approved, Begun, Heard, reader, peer
<1> QED BY <1>6, <1>7, <1>8, <1>9, <1>10

LEMMA RestartInv ==
  ASSUME IInv, restart
  PROVE  IInv'
<1> USE DEF IInv
<1>1. /\ UNCHANGED <<faults, made, backup, token, approved, feed, mail, peer, verified>>
      /\ entry' = NoEntry /\ asked' = {} /\ step' = [t \in Threads |-> <<>>]
      /\ at' = token /\ upto' = token /\ screen' = 0 /\ answer' = "none"
      /\ known' \in BOOLEAN
  BY DEF restart
<1>2. Moves
  BY <1>1 DEF Moves, Begun, peer
<1>3. EntryGood(NoEntry) /\ 0 \in Keys
  BY NoEntryGood, VerificationAssumption DEF Keys
<1>4. TypeOK'
  <2>1. step' \in [Threads -> Seq(Msgs)] /\ entry' \in Entries
    BY <1>1, <1>3 DEF EntryGood
  <2>2. token \in Nat /\ token \in 0..Len(feed) /\ Len(feed) \in Nat
    BY DEF TypeOK
  <2> QED BY <1>1, <1>3, <2>1, <2>2 DEF TypeOK, Entries, peer
<1>5. Feed' /\ Word'
  BY <1>1, <1>2, <1>4, FeedKept, WordKept DEF NoEntry, peer
<1>6. Theirs' /\ Queues'
  BY <1>1 DEF Theirs, Queues, NoEntry
<1>7. Announced'
  BY <1>1, <1>2, <1>4, AnnouncedKept
<1> QED BY <1>4, <1>5, <1>6, <1>7

(* The reader's yes is about the key the other device is committed to.     *)
LEMMA ReaderInv ==
  ASSUME IInv, They_match \/ They_dont_match
  PROVE  IInv'
<1> USE DEF IInv
<1>1. /\ UNCHANGED <<faults, crypto, step, sync, feed, mail, peer, verified>>
      /\ screen' = 0 /\ approved \subseteq approved'
      /\ approved' \in SUBSET Keys /\ answer' \in {"yes", "no"}
  BY DEF They_match, They_dont_match, TypeOK
<1>2. answer' = "yes" => Approved'
  BY <1>1 DEF They_match, They_dont_match, BothShown, Approved, Begun, peer
<1>3. Moves
  BY <1>1 DEF Moves, Begun, peer
<1>4. TypeOK'
  <2>1. 0 \in Keys
    BY VerificationAssumption DEF Keys
  <2> QED BY <1>1, <2>1 DEF TypeOK, crypto, sync, peer
<1>5. Feed' /\ Theirs' /\ Announced'
  BY <1>1, <1>3, <1>4, FeedKept, TheirsKept, AnnouncedKept DEF crypto
<1>6. Word'
  BY <1>1, <1>2, <1>3, <1>4, WordKept, Kept DEF Word, crypto, peer
<1>7. Queues'
  BY <1>1, <1>3, <1>4, QueueKept, QueuesAgain
<1> QED BY <1>4, <1>5, <1>6, <1>7

-----------------------------------------------------------------------------
(* The other device: what it may say, and what becomes of it.              *)
Progress ==
  /\ their' \in {"new", "requested", "started", "keyed", "compare",
                 "confirmed", "done", "cancelled"}
  /\ commit' \in Keys /\ macs' \in SUBSET {"mac", "done"}
  /\ Begun => Begun' /\ commit' = commit
  /\ macs \subseteq macs'
  /\ "mac" \in macs' => "mac" \in macs \/ Approved

Honest(m) ==
  /\ m \in Msgs /\ m.kind \in TheirKinds
  /\ m.kind \in {"mac", "done"} => Begun' /\ m.key = commit'
  /\ m.kind = "secret" => "mac" \in macs'

LEMMA FeedMore ==
  ASSUME TypeOK, Feed, Progress, NEW new \in Seq(Msgs),
         \A j \in 1..Len(new) : Honest(new[j]), feed' = feed \o new
  PROVE  /\ feed' \in Seq(Msgs) /\ Len(feed) <= Len(feed')
         /\ \A i \in 1..Len(feed) : feed'[i] = feed[i]
         /\ \A i \in 1..Len(feed') :
              /\ feed'[i].kind \in TheirKinds
              /\ feed'[i].kind \in {"mac", "done"} => Begun' /\ feed'[i].key = commit'
              /\ feed'[i].kind = "secret" => "mac" \in macs'
<1>1. /\ feed \in Seq(Msgs) /\ feed' \in Seq(Msgs) /\ Len(feed') = Len(feed) + Len(new)
      /\ Len(feed) \in Nat /\ Len(new) \in Nat
  BY DEF TypeOK
<1>2. /\ \A i \in 1..Len(feed) : feed'[i] = feed[i]
      /\ \A i \in 1..Len(feed') : i > Len(feed) => feed'[i] = new[i - Len(feed)]
  BY <1>1
<1>3. ASSUME NEW i \in 1..Len(feed')
      PROVE  /\ feed'[i].kind \in TheirKinds
             /\ feed'[i].kind \in {"mac", "done"} => Begun' /\ feed'[i].key = commit'
             /\ feed'[i].kind = "secret" => "mac" \in macs'
  <2>1. CASE i \in 1..Len(feed)
    <3>1. feed'[i] = feed[i]
      BY <1>2, <2>1
    <3> QED BY <2>1, <3>1 DEF Feed, Progress
  <2>2. CASE i > Len(feed)
    <3>1. i - Len(feed) \in 1..Len(new) /\ feed'[i] = new[i - Len(feed)]
      BY <1>1, <1>2, <2>2
    <3> QED BY <3>1 DEF Honest
  <2> QED BY <1>1, <2>1, <2>2
<1> QED BY <1>1, <1>2, <1>3

LEMMA PeerInv ==
  ASSUME IInv, Progress, UNCHANGED <<faults, crypto, step, sync, reader, verified>>,
         mail' = mail \/ (mail # <<>> /\ mail' = Tail(mail)),
         NEW new \in Seq(Msgs), \A j \in 1..Len(new) : Honest(new[j]), feed' = feed \o new
  PROVE  IInv'
<1> USE DEF IInv
<1>1. /\ feed' \in Seq(Msgs) /\ Len(feed) <= Len(feed')
      /\ \A i \in 1..Len(feed) : feed'[i] = feed[i]
  BY FeedMore
<1>2. Feed'
  BY FeedMore DEF Feed, Begun
<1>3. Moves
  BY <1>1 DEF Progress, Moves, reader
<1>4. /\ mail' \in Seq(Msgs)
      /\ \A i \in 1..Len(mail') : mail'[i].kind \in {"mac", "done"} => Approved
  <2>1. mail \in Seq(Msgs)
    BY DEF TypeOK
  <2>2. CASE mail' = mail
    BY <2>1, <2>2 DEF Word
  <2>3. CASE mail # <<>> /\ mail' = Tail(mail)
    <3>1. /\ Len(mail) \in Nat \ {0} /\ mail' \in Seq(Msgs) /\ Len(mail') = Len(mail) - 1
          /\ \A i \in 1..Len(mail) - 1 : mail'[i] = mail[i + 1]
      BY <2>1, <2>3, TailFacts
    <3>2. ASSUME NEW i \in 1..Len(mail'), mail'[i].kind \in {"mac", "done"} PROVE Approved
      <4>1. mail'[i] = mail[i + 1] /\ i + 1 \in 1..Len(mail)
        BY <3>1
      <4> QED BY <3>2, <4>1 DEF Word
    <3> QED BY <3>1, <3>2
  <2> QED BY <2>2, <2>3
<1>5. TypeOK'
  <2>1. upto' \in token' .. Len(feed') /\ token' \in Nat /\ at' \in token' .. upto'
    <3>1. upto \in token .. Len(feed) /\ token \in Nat /\ at \in token .. upto
          /\ Len(feed) \in Nat /\ Len(feed') \in Nat
      BY <1>1 DEF TypeOK
    <3> QED BY <1>1, <3>1 DEF sync
  <2> QED BY <1>1, <1>4, <2>1 DEF TypeOK, Progress, crypto, reader
<1>6. Approved => Approved'
  BY <1>3, <1>5, Kept
<1>7. Word'
  <2>1. answer' = "yes" \/ entry'.we \/ "mac" \in macs' => Approved
    <3>1. answer' = answer /\ entry' = entry
      BY DEF crypto, reader
    <3>2. "mac" \in macs' => Approved
      BY DEF Word, Progress
    <3> QED BY <3>1, <3>2 DEF Word
  <2> QED BY <1>4, <1>6, <2>1 DEF Word
<1>8. Theirs' /\ Queues'
  BY <1>3, <1>5, TheirsKept, QueueKept, QueuesAgain DEF crypto
<1>9. Announced'
  BY <1>3, <1>5, AnnouncedKept DEF crypto
<1> QED BY <1>2, <1>5, <1>7, <1>8, <1>9

PeerOnly ==
  /\ UNCHANGED <<faults, crypto, step, sync, reader, verified>>
  /\ mail' = mail \/ (mail # <<>> /\ mail' = Tail(mail))

LEMMA PeerQuiet ==
  ASSUME IInv, Progress, PeerOnly, feed' = feed
  PROVE  IInv'
<1>1. feed' = feed \o <<>>
  BY DEF IInv, TypeOK
<1>2. <<>> \in Seq(Msgs) /\ \A j \in 1..Len(<<>>) : Honest(<<>>[j])
  OBVIOUS
<1> QED BY <1>1, <1>2, PeerInv DEF PeerOnly

LEMMA PeerSays ==
  ASSUME IInv, Progress, PeerOnly,
         NEW kinds \in Seq(TheirKinds \ {"secret"}), NEW k \in Keys, Says(kinds, k),
         \A j \in 1..Len(kinds) : kinds[j] \in {"mac", "done"} => Begun' /\ k = commit'
  PROVE  IInv'
<1>1. PICK new : new = [i \in DOMAIN kinds |-> Msg(kinds[i], k)]
  OBVIOUS
<1>2. feed' = feed \o new
  BY <1>1 DEF Says
<1>3. \A i \in 1..Len(kinds) : Msg(kinds[i], k) \in Msgs
  BY DEF Msg, Msgs, TheirKinds, ToDevice
<1>4. new \in Seq(Msgs) /\ Len(new) = Len(kinds)
  BY <1>1, <1>3
<1>5. ASSUME NEW j \in 1..Len(new) PROVE Honest(new[j])
  <2>1. new[j] = Msg(kinds[j], k) /\ kinds[j] \in TheirKinds \ {"secret"}
    BY <1>1, <1>4
  <2>2. new[j].kind = kinds[j] /\ new[j].key = k
    BY <2>1 DEF Msg
  <2> QED BY <1>3, <1>4, <2>1, <2>2 DEF Honest
<1> QED BY <1>2, <1>4, <1>5, PeerInv DEF PeerOnly

LEMMA PeerSaysPlain ==
  ASSUME IInv, Progress, PeerOnly, NEW a \in {"request", "start", "key", "cancel"},
         NEW k \in Keys, Says(<<a>>, k)
  PROVE  IInv'
<1>1. <<a>> \in Seq(TheirKinds \ {"secret"}) /\ Len(<<a>>) = 1
  BY DEF TheirKinds
<1>2. \A j \in 1..Len(<<a>>) : <<a>>[j] = a
  BY <1>1
<1>3. \A j \in 1..Len(<<a>>) : <<a>>[j] \notin {"mac", "done"}
  BY <1>2
<1> QED BY <1>1, <1>3, PeerSays

(* Its answers to the events of ours.                                      *)
LEMMA MailInv ==
  ASSUME IInv, their_mail
  PROVE  IInv'
<1>1. /\ PeerOnly /\ mail # <<>>
      /\ Got \in Msgs /\ Got.key \in Keys /\ commit \in Keys /\ macs \in SUBSET {"mac", "done"}
      /\ Got.kind \in {"mac", "done"} => Approved
      /\ 0 \in Keys
  <2>1. mail \in Seq(Msgs) /\ mail # <<>>
    BY DEF IInv, TypeOK, their_mail
  <2>2. Got \in Msgs /\ Got = mail[1] /\ 1 \in 1..Len(mail)
    BY <2>1, TailFacts DEF Got
  <2>3. PeerOnly
    BY <2>1 DEF their_mail, PeerOnly
  <2> QED BY <2>1, <2>2, <2>3, VerificationAssumption DEF IInv, TypeOK, Word, Msgs, Keys
<1>t. their \in {"new", "requested", "started", "keyed", "compare",
                 "confirmed", "done", "cancelled"}
  BY DEF IInv, TypeOK
<1>2. CASE Got.kind = "ready" /\ their = "requested"
  <2>1. their' = "started" /\ Says(<<"start">>, 0) /\ UNCHANGED <<commit, macs>>
    BY <1>2 DEF their_mail
  <2>2. Progress
    BY <1>1, <1>2, <2>1 DEF Progress, Begun
  <2> QED BY <1>1, <2>1, <2>2, PeerSaysPlain
<1>3. CASE Got.kind = "accept" /\ their = "started"
  <2>1. commit' = Got.key /\ their' = "keyed" /\ Says(<<"key">>, Got.key) /\ UNCHANGED macs
    BY <1>3 DEF their_mail
  <2>2. Progress
    BY <1>1, <1>3, <2>1 DEF Progress, Begun
  <2> QED BY <1>1, <2>1, <2>2, PeerSaysPlain
<1>4. CASE Got.kind = "key" /\ their = "keyed" /\ Got.key = commit
  <2>1. their' = "compare" /\ UNCHANGED <<feed, commit, macs>>
    BY <1>4 DEF their_mail
  <2>2. Progress
    BY <1>1, <1>4, <2>1 DEF Progress, Begun
  <2> QED BY <1>1, <2>1, <2>2, PeerQuiet
<1>5. CASE Got.kind = "mac" /\ their \in {"compare", "confirmed"} /\ Got.key = commit
  <2>1. /\ macs' = macs \cup {"mac"} /\ UNCHANGED <<their, commit>>
        /\ IF their = "confirmed" THEN Says(<<"done">>, commit) ELSE UNCHANGED feed
    BY <1>5 DEF their_mail
  <2>2. Progress
    BY <1>1, <1>5, <1>t, <2>1 DEF Progress, Begun
  <2>3. <<"done">> \in Seq(TheirKinds \ {"secret"}) /\ Begun' /\ commit' = commit
    BY <1>5, <2>1 DEF TheirKinds, Begun
  <2> QED BY <1>1, <2>1, <2>2, <2>3, PeerSays, PeerQuiet
<1>6. CASE Got.kind = "done" /\ "mac" \in macs /\ their # "cancelled"
  <2>1. /\ macs' = macs \cup {"done"} /\ UNCHANGED <<feed, commit>>
        /\ their' = IF their = "confirmed" THEN "done" ELSE their
    BY <1>6 DEF their_mail
  <2>2. Progress
    BY <1>1, <1>6, <1>t, <2>1 DEF Progress, Begun
  <2> QED BY <1>1, <2>1, <2>2, PeerQuiet
<1>7. CASE Got.kind = "ask" /\ Trusts
  <2>1. feed' = Append(feed, Msg("secret", Got.key)) /\ UNCHANGED peer
    BY <1>7 DEF their_mail
  <2>2. Progress
    BY <1>1, <1>t, <2>1 DEF Progress, Begun, peer
  <2> DEFINE m == Msg("secret", Got.key)
  <2>3. m \in Msgs /\ m.kind = "secret"
    BY <1>1 DEF Msg, Msgs
  <2>4. Honest(m)
    BY <1>7, <2>1, <2>3 DEF Honest, TheirKinds, Trusts, peer
  <2> HIDE DEF m
  <2>5. <<m>> \in Seq(Msgs) /\ Len(<<m>>) = 1 /\ <<m>>[1] = m
    BY <2>3
  <2>6. feed' = feed \o <<m>>
    BY <2>1, <2>3 DEF m, IInv, TypeOK
  <2>7. \A j \in 1..Len(<<m>>) : <<m>>[j] = m
    BY <2>5
  <2>8. \A j \in 1..Len(<<m>>) : Honest(<<m>>[j])
    BY <2>4, <2>7
  <2> QED BY <1>1, <2>2, <2>5, <2>6, <2>8, PeerInv DEF PeerOnly
<1>8. CASE Got.kind = "cancel" /\ their # "done"
  <2>1. their' = "cancelled" /\ UNCHANGED <<feed, commit, macs>>
    BY <1>8 DEF their_mail
  <2>2. Progress
    BY <1>1, <2>1 DEF Progress, Begun
  <2> QED BY <1>1, <2>1, <2>2, PeerQuiet
<1>9. CASE /\ ~ (Got.kind = "ready" /\ their = "requested")
           /\ ~ (Got.kind = "accept" /\ their = "started")
           /\ ~ (Got.kind = "key" /\ their = "keyed" /\ Got.key = commit)
           /\ ~ (Got.kind = "mac" /\ their \in {"compare", "confirmed"} /\ Got.key = commit)
           /\ ~ (Got.kind = "done" /\ "mac" \in macs /\ their # "cancelled")
           /\ ~ (Got.kind = "ask" /\ Trusts)
           /\ ~ (Got.kind = "cancel" /\ their # "done")
  <2>1. \/ UNCHANGED <<feed, peer>>
        \/ their' = "cancelled" /\ Says(<<"cancel">>, commit) /\ UNCHANGED <<commit, macs>>
    BY <1>9 DEF their_mail
  <2>2. Progress
    BY <1>1, <1>t, <2>1 DEF Progress, Begun, peer
  <2> QED BY <1>1, <2>1, <2>2, PeerQuiet, PeerSaysPlain
<1> QED BY <1>2, <1>3, <1>4, <1>5, <1>6, <1>7, <1>8, <1>9

LEMMA OtherInv ==
  ASSUME IInv, their_request \/ their_confirm \/ their_cancel
  PROVE  IInv'
<1>1. /\ PeerOnly /\ UNCHANGED <<commit, macs>> /\ commit \in Keys /\ 0 \in Keys
      /\ macs \in SUBSET {"mac", "done"}
  BY VerificationAssumption
  DEF IInv, TypeOK, PeerOnly, their_request, their_confirm, their_cancel, Keys
<1>2. CASE their_request
  <2>1. their = "new" /\ their' = "requested" /\ Says(<<"request">>, 0)
    BY <1>2 DEF their_request
  <2>2. Progress
    BY <1>1, <2>1 DEF Progress, Begun
  <2> QED BY <1>1, <2>1, <2>2, PeerSaysPlain
<1>3. CASE their_confirm
  <2> DEFINE kinds == IF "mac" \in macs THEN <<"mac", "done">> ELSE <<"mac">>
  <2>1. /\ their = "compare" /\ Says(kinds, commit)
        /\ their' = IF "done" \in macs THEN "done" ELSE "confirmed"
    BY <1>3 DEF their_confirm
  <2>2. Progress /\ Begun'
    BY <1>1, <2>1 DEF Progress, Begun
  <2>3. kinds \in Seq(TheirKinds \ {"secret"})
    <3>1. <<"mac", "done">> \in Seq(TheirKinds \ {"secret"}) /\ <<"mac">> \in Seq(TheirKinds \ {"secret"})
      BY DEF TheirKinds
    <3> QED BY <3>1
  <2> HIDE DEF kinds
  <2> QED BY <1>1, <2>1, <2>2, <2>3, PeerSays
<1>4. CASE their_cancel
  <2>1. their' = "cancelled" /\ Says(<<"cancel">>, commit)
    BY <1>4 DEF their_cancel
  <2>2. Progress
    BY <1>1, <2>1 DEF Progress, Begun
  <2> QED BY <1>1, <2>1, <2>2, PeerSaysPlain
<1> QED BY <1>2, <1>3, <1>4

-----------------------------------------------------------------------------
LEMMA StepInv == IInv /\ [Next]_vars => IInv'
<1> SUFFICES ASSUME IInv, [Next]_vars PROVE IInv'
  OBVIOUS
<1>1. CASE SyncThread
  BY <1>1, SyncMoves, EventInv, SendInv, PublishInv, AskInv DEF SyncThread, Apply, Threads
<1>2. CASE ClientThread
  BY <1>2, ConfirmInv, SendInv, PublishInv, AskInv DEF ClientThread, Apply, Threads
<1>3. CASE Reader
  BY <1>3, ReaderInv DEF Reader
<1>4. CASE Other
  BY <1>4, MailInv, OtherInv DEF Other
<1>5. CASE restart
  BY <1>5, RestartInv
<1>6. CASE UNCHANGED vars
  BY <1>6, StutterInv
<1> QED BY <1>1, <1>2, <1>3, <1>4, <1>5, <1>6 DEF Next

LEMMA Invariance == Spec => []IInv
BY InitInv, StepInv, PTL DEF Spec

(* The transaction, the threads' queues, the mail and the keys keep their  *)
(* types through every handler (crypto.rs handle_verification).            *)
THEOREM VerificationTypeCorrect == Spec => []TypeOK
<1>1. IInv => TypeOK
  BY DEF IInv
<1> QED BY <1>1, Invariance, PTL

(* A verification is announced done only when the reader called these very *)
(* emoji a match, and the other device has sent its MAC and its done under *)
(* the same key (crypto.rs complete), whatever is repeated, lost, timed    *)
(* out or restarted in between.                                            *)
THEOREM NobodyVerifiesAloneEver == Spec => []NobodyVerifiesAlone
<1>1. IInv => NobodyVerifiesAlone
  BY DEF IInv, Announced, Good, Approved, NobodyVerifiesAlone
<1> QED BY <1>1, Invariance, PTL

(* The other device comes to trust us only after the reader's yes about    *)
(* the key it is committed to, though a yes may reach a transaction that   *)
(* has been started afresh since (crypto.rs confirm_verification).         *)
THEOREM TrustNeedsTheWord == Spec => []TrustedOnlyWhenApproved
<1>1. IInv => TrustedOnlyWhenApproved
  BY DEF IInv, Word, Approved, Trusts, TrustedOnlyWhenApproved
<1> QED BY <1>1, Invariance, PTL

(* A backup key is adopted only from a device that verified us, in answer  *)
(* to a request made behind a verification (crypto.rs handle_secret_send,  *)
(* main.rs handle_secret).                                                 *)
THEOREM BackupComesLast == Spec => []BackupOnlyAfterVerification
<1>1. IInv => BackupOnlyAfterVerification
  BY DEF IInv, Announced, BackupOnlyAfterVerification
<1> QED BY <1>1, Invariance, PTL

(* No step takes back a commitment, or a verification announced under it.  *)
LEMMA CommitmentStands ==
  ASSUME IInv, Begun, [Next]_vars
  PROVE  commit' = commit /\ verified \subseteq verified'
<1>1. CASE their_mail
  BY <1>1 DEF their_mail, Begun, peer
<1>2. CASE sync_once \/ handle_verification_event \/ save_sync_token \/ process_sync_fails
  BY <1>2 DEF sync_once, handle_verification_event, save_sync_token, process_sync_fails, peer
<1>3. ASSUME NEW t \in Threads, Apply(t) PROVE commit' = commit /\ verified \subseteq verified'
  BY <1>3 DEF Apply, send_to_device, publish, request_backup_secret, peer
<1>4. CASE do_verify_confirm \/ restart
  BY <1>4 DEF do_verify_confirm, restart, peer
<1>5. CASE They_match \/ They_dont_match \/ their_request \/ their_confirm \/ their_cancel
  BY <1>5 DEF They_match, They_dont_match, their_request, their_confirm, their_cancel, peer
<1>6. CASE UNCHANGED vars
  BY <1>6 DEF vars, peer
<1> QED BY <1>1, <1>2, <1>3, <1>4, <1>5, <1>6
        DEF Next, SyncThread, ClientThread, Reader, Other, Threads

(* Once a verification has been announced (main.rs apply_verify_step), no  *)
(* step announces one under another key, takes it back, or moves the other *)
(* device's commitment: a repeated request or start makes a new key of     *)
(* ours, and nothing is ever verified under that.                          *)
OneKeyForGood == [][verified # {} => verified' = verified /\ commit' = commit]_vars

(* OneKeyForGood holds of every behaviour.                                 *)
THEOREM OneKeyForever == Spec => OneKeyForGood
<1>1. IInv /\ IInv' /\ [Next]_vars => [verified # {} => verified' = verified /\ commit' = commit]_vars
  <2> SUFFICES ASSUME IInv, IInv', [Next]_vars, verified # {}
               PROVE  verified' = verified /\ commit' = commit
    OBVIOUS
  <2>1. Begun /\ \A k \in verified : k = commit
    BY DEF IInv, Announced, Good, Approved
  <2>2. commit' = commit /\ verified \subseteq verified'
    BY <2>1, CommitmentStands
  <2>3. \A k \in verified' : k = commit'
    BY DEF IInv, Announced, Good
  <2> QED BY <2>1, <2>2, <2>3
<1> QED BY <1>1, Invariance, PTL DEF Spec, OneKeyForGood

=============================================================================
