----------------------------- MODULE VaultProofs -----------------------------
(***************************************************************************)
(* Proofs about Vault for any keys, cells and texts.  Every content a      *)
(* power cut may come back to obeys the same conditions (Good): it bears   *)
(* one key or none, and when it says so it is sealed.  A process that can  *)
(* write has read the login, which proves that its own key, or its having  *)
(* none, is the one those rows bear (Modes).                               *)
(***************************************************************************)
EXTENDS Vault, SequenceTheorems, TLAPS

Entries == {disk[i] : i \in DOMAIN disk}

(* Every value is sealed by k; only what looks sealed may be otherwise.    *)
Pure(db, k) == \A c \in Cells : LET v == db.cells[c] IN
  v = Nothing \/ (v.text # None /\ (v.by = k \/ (v.by = None /\ v.text \in Prefixed)))

(* In the clear a session never looks sealed: it is JSON.                  *)
Good(db) ==
  /\ db.flag => \A c \in Cells : Sealed(db.cells[c])
  /\ \E k \in Keys \cup {None} : Pure(db, k)
  /\ db.cells[Session].text \notin Prefixed

NoLogin(db) == db.cells[Session].text = None

GoodInv == \A db \in Entries : Good(db) /\ (told = "out" => NoLogin(db))

Modes ==
  /\ phase = "reading" => (key # None <=> Db.flag)
  /\ phase = "serving" /\ Db.flag => key # None
  /\ begun => phase = "serving" /\ Pure(Db, key)
  /\ phase = "serving" /\ Db.cells[Session].text # None => begun
  /\ step # "none" => phase = "serving" /\ Db.cells = Blank /\ told = "nothing"

-----------------------------------------------------------------------------
(* The log of commits.                                                     *)
LEMMA AppendFacts ==
  ASSUME NEW S, NEW s \in Seq(S), NEW e \in S
  PROVE  /\ Append(s, e) \in Seq(S) /\ Len(Append(s, e)) = Len(s) + 1
         /\ DOMAIN Append(s, e) = 1 .. Len(s) + 1
         /\ \A i \in 1 .. Len(s) : Append(s, e)[i] = s[i]
         /\ Append(s, e)[Len(s) + 1] = e
OBVIOUS

LEMMA SingleFacts ==
  ASSUME NEW S, NEW e \in S
  PROVE  /\ <<e>> \in Seq(S) /\ Len(<<e>>) = 1 /\ DOMAIN <<e>> = 1 .. 1 /\ <<e>>[1] = e
OBVIOUS

LEMMA DiskFacts ==
  ASSUME TypeOK
  PROVE  /\ Len(disk) \in 1 .. MaxLog /\ DOMAIN disk = 1 .. Len(disk)
         /\ disk \in Seq(Db_Type) /\ Db \in Db_Type /\ Db \in Entries
         /\ Entries \subseteq Db_Type
<1>1. Len(disk) \in 1 .. MaxLog /\ disk \in Seq(Db_Type)
  BY DEF TypeOK
<1>2. DOMAIN disk = 1 .. Len(disk)
  BY <1>1, LenProperties
<1>3. \A i \in 1 .. Len(disk) : disk[i] \in Db_Type
  BY <1>1, ElementOfSeq
<1>4. Len(disk) \in 1 .. Len(disk)
  BY <1>1, VaultAssumption
<1> QED BY <1>1, <1>2, <1>3, <1>4 DEF Db, Entries

(* What a commit, a checkpoint and a power cut do to it.                   *)
DiskOK == disk \in Seq(Db_Type) /\ Len(disk) \in 1 .. MaxLog

LEMMA CommitFacts ==
  ASSUME TypeOK, NEW db \in Db_Type, Commit(db)
  PROVE  DiskOK' /\ Db' = db /\ Entries' \subseteq Entries \cup {db}
<1> USE VaultAssumption
<1>1. /\ disk \in Seq(Db_Type) /\ DOMAIN disk = 1 .. Len(disk)
      /\ Len(disk) \in 1 .. MaxLog /\ Len(disk) < MaxLog
  BY DiskFacts DEF Commit
<1>2. /\ disk' \in Seq(Db_Type) /\ Len(disk') = Len(disk) + 1
      /\ DOMAIN disk' = 1 .. Len(disk) + 1
      /\ \A i \in 1 .. Len(disk) : disk'[i] = disk[i]
      /\ disk'[Len(disk) + 1] = db
  BY <1>1, AppendFacts DEF Commit
<1>3. DiskOK'
  BY <1>1, <1>2 DEF DiskOK
<1>4. \A i \in DOMAIN disk' : i \in DOMAIN disk \/ i = Len(disk) + 1
  BY <1>1, <1>2
<1> QED BY <1>1, <1>2, <1>3, <1>4 DEF Db, Entries

LEMMA OneFacts ==
  ASSUME NEW db \in Db_Type, disk' = <<db>>
  PROVE  DiskOK' /\ Db' = db /\ Entries' = {db}
<1>1. /\ disk' \in Seq(Db_Type) /\ Len(disk') = 1 /\ DOMAIN disk' = 1 .. 1 /\ disk'[1] = db
  BY SingleFacts
<1>2. DiskOK'
  BY <1>1, VaultAssumption DEF DiskOK
<1> QED BY <1>1, <1>2 DEF Db, Entries

LEMMA CutFacts ==
  ASSUME TypeOK, NEW n \in 1 .. Len(disk), disk' = SubSeq(disk, 1, n)
  PROVE  DiskOK' /\ Entries' \subseteq Entries
<1>1. /\ disk \in Seq(Db_Type) /\ DOMAIN disk = 1 .. Len(disk) /\ Len(disk) \in 1 .. MaxLog
  BY DiskFacts
<1>2. n \in Int /\ 1 \in Int /\ 1 <= n /\ \A i \in 1 .. n : disk[i] \in Db_Type
  BY <1>1, ElementOfSeq, VaultAssumption
<1>3. /\ disk' \in Seq(Db_Type)
      /\ Len(disk') = n - 1 + 1
      /\ \A i \in 1 .. n - 1 + 1 : disk'[i] = disk[1 + i - 1]
  BY <1>2, SubSeqProperties
<1>4. Len(disk') = n /\ \A i \in 1 .. n : disk'[i] = disk[i]
  BY <1>2, <1>3
<1>5. DOMAIN disk' = 1 .. n
  BY <1>3, <1>4, LenProperties
<1> QED BY <1>1, <1>3, <1>4, <1>5, VaultAssumption DEF DiskOK, Entries

-----------------------------------------------------------------------------
(* Contents.                                                               *)
LEMMA NothingFacts ==
  /\ Nothing \in [text : Texts \cup {None}, by : Keys \cup {None}]
  /\ Nothing.text = None /\ Nothing.by = None
  /\ Blank \in [Cells -> [text : Texts \cup {None}, by : Keys \cup {None}]]
  /\ \A c \in Cells : Blank[c] = Nothing
BY DEF Nothing, Blank

LEMMA BlankGood ==
  ASSUME NEW db, db.cells = Blank
  PROVE  Good(db) /\ NoLogin(db) /\ \A k \in Keys \cup {None} : Pure(db, k)
<1> USE VaultAssumption
<1>1. \A c \in Cells : db.cells[c] = Nothing
  BY NothingFacts
<1>2. \A k : Pure(db, k)
  BY <1>1 DEF Pure
<1>3. \A c \in Cells : Sealed(db.cells[c])
  BY <1>1, NothingFacts DEF Sealed
<1>4. db.cells[Session].text = None
  BY <1>1, NothingFacts
<1> QED BY <1>2, <1>3, <1>4 DEF Good, NoLogin

LEMMA EmptyFacts ==
  /\ Empty \in Db_Type /\ Empty.cells = Blank /\ Empty.flag = FALSE
  /\ \A db \in Db_Type : [db EXCEPT !.flag = TRUE] \in Db_Type
                         /\ [db EXCEPT !.flag = TRUE].cells = db.cells
BY NothingFacts DEF Empty, Db_Type

(* A value written under the key that the rows bear.                       *)
Put(db, c, k, t) == [db EXCEPT !.cells[c] = protect(k, t)]

LEMMA PutGood ==
  ASSUME NEW db \in Db_Type, Good(db), NEW k \in Keys \cup {None}, Pure(db, k),
         k = None => db.flag = FALSE,
         NEW c \in Cells, NEW t \in Texts, c = Session => t \notin Prefixed
  PROVE  /\ Put(db, c, k, t) \in Db_Type
         /\ Good(Put(db, c, k, t)) /\ Pure(Put(db, c, k, t), k)
         /\ Put(db, c, k, t).flag = db.flag
         /\ c # Session => (NoLogin(db) => NoLogin(Put(db, c, k, t)))
<1> USE VaultAssumption
<1> DEFINE e == Put(db, c, k, t)
<1>1. /\ db.cells \in [Cells -> [text : Texts \cup {None}, by : Keys \cup {None}]]
      /\ db.flag \in BOOLEAN
  BY DEF Db_Type
<1>2. /\ protect(k, t) \in [text : Texts \cup {None}, by : Keys \cup {None}]
      /\ protect(k, t).text = t /\ protect(k, t).by = k
  BY DEF protect, seal
<1>3. /\ e = [flag |-> db.flag, cells |-> [db.cells EXCEPT ![c] = protect(k, t)]]
  BY DEF Db_Type, Put
<1> HIDE DEF e
<1>4. /\ e \in Db_Type /\ e.flag = db.flag
      /\ e.cells = [db.cells EXCEPT ![c] = protect(k, t)]
  BY <1>1, <1>2, <1>3 DEF Db_Type
<1>5. e.cells[c] = protect(k, t) /\ \A d \in Cells \ {c} : e.cells[d] = db.cells[d]
  BY <1>1, <1>4
<1>6. Pure(e, k)
  BY <1>2, <1>5 DEF Pure
<1>7. e.flag => \A d \in Cells : Sealed(e.cells[d])
  BY <1>2, <1>4, <1>5 DEF Good, Sealed, Marked
<1>8. /\ e.cells[Session].text \notin Prefixed
      /\ c # Session => (NoLogin(db) => NoLogin(e))
  BY <1>2, <1>5 DEF Good, NoLogin
<1>9. Good(e)
  BY <1>6, <1>7, <1>8 DEF Good
<1> QED BY <1>4, <1>6, <1>8, <1>9 DEF e

(* The migration of a store in the clear, or of what is left of a sealed   *)
(* one whose flag was lost.                                                *)
LEMMA MigratedGood ==
  ASSUME NEW db \in Db_Type, Good(db), NEW k \in Keys
  PROVE  /\ Migrated(k, db) \in Db_Type /\ Good(Migrated(k, db))
         /\ Migrated(k, db).flag = TRUE
         /\ \A c \in Cells : Migrated(k, db).cells[c].text = db.cells[c].text
<1> USE VaultAssumption
<1> DEFINE V == [text : Texts \cup {None}, by : Keys \cup {None}]
           W(c) == Reseal(k, db.cells[c])
<1>1. ASSUME NEW c \in Cells
      PROVE  /\ db.cells[c] \in V /\ W(c) \in V
             /\ W(c).text = db.cells[c].text
             /\ W(c) = db.cells[c] \/ W(c).by = k
             /\ Sealed(W(c))
             /\ db.cells[c].by # None \/ db.cells[c].text \in Prefixed \/ db.cells[c].text = None
                  => W(c) = db.cells[c]
             /\ db.cells[c].text # None /\ db.cells[c].by = None
                  /\ db.cells[c].text \notin Prefixed => W(c).by = k
  <2>1. db.cells[c] \in V
    BY DEF Db_Type
  <2>2. CASE db.cells[c].text = None \/ Marked(db.cells[c])
    BY <2>1, <2>2 DEF Reseal, Sealed, Marked
  <2>3. CASE ~ (db.cells[c].text = None \/ Marked(db.cells[c]))
    <3>1. W(c) = [text |-> db.cells[c].text, by |-> k]
      BY <2>3 DEF Reseal, seal
    <3> QED BY <2>1, <2>3, <3>1 DEF Sealed, Marked
  <2> QED BY <2>2, <2>3
<1>2. /\ Migrated(k, db).flag = TRUE
      /\ \A c \in Cells : Migrated(k, db).cells[c] = W(c)
  BY DEF Migrated
<1>3. Migrated(k, db) \in Db_Type
  <2>1. [c \in Cells |-> W(c)] \in [Cells -> V]
    BY <1>1
  <2> QED BY <2>1 DEF Migrated, Db_Type
<1> HIDE DEF W, V
<1>4. \E j \in Keys \cup {None} : Pure(Migrated(k, db), j)
  <2>1. PICK j \in Keys \cup {None} : Pure(db, j)
    BY DEF Good
  <2>2. CASE j = None
    <3>1. Pure(Migrated(k, db), k)
      <4>1. ASSUME NEW c \in Cells
            PROVE  W(c) = Nothing \/ (W(c).text # None
                     /\ (W(c).by = k \/ (W(c).by = None /\ W(c).text \in Prefixed)))
        <5>1. CASE db.cells[c] = Nothing
          BY <1>1, <5>1, NothingFacts
        <5>2. CASE db.cells[c] # Nothing
          BY <1>1, <2>1, <2>2, <5>2 DEF Pure
        <5> QED BY <5>1, <5>2
      <4> QED BY <1>2, <4>1 DEF Pure
    <3> QED BY <3>1
  <2>3. CASE j # None
    <3>1. ASSUME NEW c \in Cells PROVE W(c) = db.cells[c]
      BY <1>1, <2>1, <2>3, NothingFacts DEF Pure
    <3>2. Pure(Migrated(k, db), j)
      BY <1>2, <2>1, <3>1 DEF Pure
    <3> QED BY <3>2
  <2> QED BY <2>2, <2>3
<1> QED BY <1>1, <1>2, <1>3, <1>4 DEF Good

-----------------------------------------------------------------------------
(* The rest of the state.                                                  *)
RestOK ==
  /\ keyFile \in Keys \cup {None, Torn} /\ synced \in BOOLEAN
  /\ made \subseteq Keys
  /\ phase \in {"off", "keying", "opening", "reading", "serving"}
  /\ bare \in BOOLEAN /\ begun \in BOOLEAN
  /\ key \in Keys \cup {None}
  /\ step \in {"none", "mark", "vacuum", "checkpoint", "save"}
  /\ op \in {"none", "login", "logout"}
  /\ told \in {"in", "out", "nothing"}

IInv == TypeOK /\ GoodInv /\ Modes

LEMMA InitInv == Init => IInv
<1> SUFFICES ASSUME Init PROVE IInv
  OBVIOUS
<1> USE VaultAssumption
<1>1. DiskOK /\ Db = Empty /\ Entries = {Empty}
  <2>1. /\ disk = <<Empty>> /\ Empty \in Db_Type
    BY EmptyFacts DEF Init
  <2>2. disk \in Seq(Db_Type) /\ Len(disk) = 1 /\ DOMAIN disk = 1 .. 1 /\ disk[1] = Empty
    BY <2>1, SingleFacts
  <2> QED BY <2>2 DEF DiskOK, Db, Entries
<1>2. RestOK
  <2>1. synced = TRUE /\ bare = FALSE /\ begun = FALSE
    BY DEF Init
  <2>2. synced \in BOOLEAN /\ bare \in BOOLEAN /\ begun \in BOOLEAN
    BY <2>1
  <2> QED BY <2>2 DEF Init, RestOK
<1>3. GoodInv
  BY <1>1, EmptyFacts, BlankGood DEF GoodInv
<1>4. Modes
  BY DEF Init, Modes
<1> QED BY <1>1, <1>2, <1>3, <1>4 DEF IInv, TypeOK, RestOK, DiskOK

(* The modes of a process that is not yet serving, or no more.             *)
LEMMA NotServing ==
  ASSUME phase' # "serving", begun' = FALSE, step' = "none",
         phase' = "reading" => (key' # None <=> Db'.flag)
  PROVE  Modes'
BY DEF Modes

(* Steps that leave the store as it is.                                    *)
LEMMA NoWrite ==
  ASSUME UNCHANGED <<disk, told>>
  PROVE  /\ Db' = Db /\ Entries' = Entries /\ (GoodInv => GoodInv')
         /\ (DiskOK => DiskOK')
<1>1. Db' = Db /\ Entries' = Entries
  BY DEF Db, Entries
<1> QED BY <1>1 DEF GoodInv, DiskOK

LEMMA ModesKept ==
  ASSUME Modes, Db' = Db, UNCHANGED <<phase, key, begun, step, told>>
  PROVE  Modes'
BY DEF Modes

LEMMA StartStep ==
  ASSUME IInv,
         \/ read_key \/ create_key \/ key_refused \/ open_agrees \/ open_refused
         \/ exit \/ written_back \/ key_wiped \/ key_restored
  PROVE  IInv'
<1> USE VaultAssumption
<1>1. UNCHANGED <<disk, told>>
  BY DEF read_key, create_key, key_refused, open_agrees, open_refused, exit, written_back,
     key_wiped, key_restored, TakesKey, Opened, process
<1>2. RestOK'
  <2>1. key' \in Keys \cup {None} /\ keyFile' \in Keys \cup {None, Torn} /\ made' \subseteq Keys
    BY DEF IInv, TypeOK, read_key, create_key, key_refused, open_agrees, open_refused, exit,
       written_back, key_wiped, key_restored, TakesKey, Opened, process, file, Off
  <2>2. /\ phase' \in {"off", "keying", "opening", "reading", "serving"}
        /\ step' \in {"none", "mark", "vacuum", "checkpoint", "save"}
        /\ op' \in {"none", "login", "logout"}
    BY DEF IInv, TypeOK, read_key, create_key, key_refused, open_agrees, open_refused, exit,
       written_back, key_wiped, key_restored, TakesKey, Opened, process, file, Off
  <2>3. /\ begun' = begun \/ begun' = FALSE
        /\ synced' = synced \/ synced' = TRUE \/ synced' = FALSE
        /\ bare' = bare
    BY DEF read_key, create_key, key_refused, open_agrees, open_refused, exit,
       written_back, key_wiped, key_restored, TakesKey, Opened, process, file, Off
  <2>4. begun' \in BOOLEAN /\ synced' \in BOOLEAN /\ bare' \in BOOLEAN
    BY <2>3 DEF IInv, TypeOK
  <2> QED BY <1>1, <2>1, <2>2, <2>4 DEF IInv, TypeOK, RestOK
<1>3. Modes'
  <2>1. CASE key_refused \/ open_refused \/ exit
    BY <2>1, NotServing DEF key_refused, open_refused, exit, Off
  <2>2. CASE read_key \/ create_key \/ open_agrees
    <3>1. /\ phase \in {"keying", "opening"} /\ phase' \in {"opening", "reading"}
          /\ UNCHANGED <<begun, step>>
      BY <2>2 DEF read_key, create_key, open_agrees, TakesKey, Opened
    <3>2. begun' = FALSE /\ step' = "none"
      BY <3>1 DEF IInv, Modes, TypeOK
    <3>3. phase' = "reading" => (key' # None <=> Db'.flag)
      <4>1. phase' = "reading" => open_agrees /\ key' = key
        BY <2>2 DEF read_key, create_key, open_agrees, TakesKey, Opened
      <4>2. Db' = Db
        BY <1>1, NoWrite
      <4>3. open_agrees => (key # None <=> Db.flag)
        BY DEF open_agrees
      <4> QED BY <4>1, <4>2, <4>3
    <3> QED BY <3>1, <3>2, <3>3, NotServing
  <2>3. CASE written_back \/ key_wiped \/ key_restored
    <3>1. UNCHANGED process
      BY <2>3 DEF written_back, key_wiped, key_restored
    <3>2. Db' = Db
      BY <1>1, NoWrite
    <3>3. UNCHANGED <<phase, key, begun, step, told>>
      BY <1>1, <3>1 DEF process
    <3> QED BY <3>2, <3>3, ModesKept DEF IInv
  <2> QED BY <2>1, <2>2, <2>3
<1>4. TypeOK'
  BY <1>1, <1>2, NoWrite DEF IInv, TypeOK, RestOK, DiskOK
<1> QED BY <1>1, <1>3, <1>4, NoWrite DEF IInv

(* A login that can be read shows which key its rows bear.                 *)
LEMMA LoadStep ==
  ASSUME IInv, load_session
  PROVE  IInv'
<1> USE VaultAssumption
<1>1. UNCHANGED <<disk, told, file, bare>>
  BY DEF load_session
<1>2. Db' = Db /\ Db \in Db_Type /\ Good(Db)
  BY <1>1, NoWrite, DiskFacts DEF IInv, GoodInv
<1>3. phase = "reading" /\ (key # None <=> Db.flag) /\ step = "none" /\ begun = FALSE
  BY DEF load_session, IInv, Modes, TypeOK
<1>4. RestOK'
  <2>1. begun' = FALSE \/ begun' = (Db.cells[Session].text # None)
    BY DEF load_session, Off
  <2>2. begun' \in BOOLEAN
    BY <2>1
  <2>3. key' \in Keys \cup {None} /\ phase' \in {"off", "serving"}
        /\ step' = "none" /\ op' \in {"none", "login", "logout"}
    BY <1>3 DEF load_session, Off, IInv, TypeOK
  <2> QED BY <1>1, <2>2, <2>3 DEF IInv, TypeOK, RestOK, file
<1>5. Modes'
  <2>1. CASE ~ Reveals(key, Db.cells[Session])
    BY <2>1, NotServing DEF load_session, Off
  <2>2. CASE Reveals(key, Db.cells[Session])
    <3>1. /\ phase' = "serving" /\ begun' = (Db.cells[Session].text # None)
          /\ key' = key /\ step' = step
      BY <2>2 DEF load_session
    <3>2. ASSUME Db.cells[Session].text # None PROVE Pure(Db, key)
      <4>1. PICK k \in Keys \cup {None} : Pure(Db, k)
        BY <1>2 DEF Good
      <4>2. Db.cells[Session].by = k
        BY <1>2, <3>2, <4>1, NothingFacts DEF Pure, Good
      <4>3. key = k
        <5>1. CASE k = None
          BY <1>2, <1>3, <3>2, <4>2, <5>1 DEF Good, Sealed, Marked
        <5>2. CASE k # None
          BY <2>2, <4>2, <5>2 DEF Reveals, Marked
        <5> QED BY <5>1, <5>2
      <4> QED BY <4>1, <4>3
    <3>3. Pure(Db, key) => Pure(Db', key')
      BY <1>2, <3>1
    <3>4. begun' => Pure(Db', key')
      BY <3>1, <3>2, <3>3
    <3>5. Db'.flag => key' # None
      BY <1>2, <1>3, <3>1
    <3>6. Db'.cells[Session].text # None => begun'
      BY <1>2, <3>1
    <3>7. step' = "none" /\ phase' = "serving"
      BY <1>3, <3>1
    <3> QED BY ONLY <3>4, <3>5, <3>6, <3>7 DEF Modes
  <2> QED BY <2>1, <2>2
<1>6. TypeOK'
  BY <1>1, <1>4, NoWrite DEF IInv, TypeOK, RestOK, DiskOK
<1> QED BY <1>1, <1>5, <1>6, NoWrite DEF IInv

(* Steps that write it.                                                    *)
LEMMA Written ==
  ASSUME IInv, NEW db \in Db_Type, Good(db),
         \/ Commit(db) /\ (told' = "out" => told = "out" /\ NoLogin(db))
         \/ disk' = <<db>> /\ (told' = "out" => NoLogin(db))
  PROVE  DiskOK' /\ Db' = db /\ GoodInv'
<1>1. CASE Commit(db) /\ (told' = "out" => told = "out" /\ NoLogin(db))
  <2>1. DiskOK' /\ Db' = db /\ Entries' \subseteq Entries \cup {db}
    BY <1>1, CommitFacts DEF IInv
  <2> QED BY <1>1, <2>1 DEF GoodInv, IInv
<1>2. CASE disk' = <<db>> /\ (told' = "out" => NoLogin(db))
  <2>1. DiskOK' /\ Db' = db /\ Entries' = {db}
    BY <1>2, OneFacts
  <2> QED BY <1>2, <2>1 DEF GoodInv
<1> QED BY <1>1, <1>2

LEMMA BeginStep ==
  ASSUME IInv, NEW reset \in BOOLEAN, NEW plain \in BOOLEAN, Begin(reset, plain)
  PROVE  IInv'
<1>1. /\ phase = "off" /\ phase' = "keying" /\ bare' = plain
      /\ UNCHANGED <<file, key, begun, step, op, told>>
      /\ disk' = <<Empty>> \/ UNCHANGED disk
  BY DEF Begin
<1>2. DiskOK' /\ GoodInv'
  <2>1. CASE disk' = <<Empty>>
    <3>1. Good(Empty) /\ NoLogin(Empty)
      BY EmptyFacts, BlankGood
    <3> QED BY <2>1, <3>1, EmptyFacts, Written
  <2>2. CASE UNCHANGED disk
    BY <1>1, <2>2, NoWrite DEF IInv, TypeOK, DiskOK
  <2> QED BY <1>1, <2>1, <2>2
<1>3. begun' = FALSE /\ step' = "none"
  BY <1>1 DEF IInv, Modes, TypeOK
<1>4. Modes'
  BY <1>1, <1>3, NotServing
<1>5. TypeOK'
  BY <1>1, <1>2 DEF IInv, TypeOK, DiskOK, file
<1> QED BY <1>2, <1>4, <1>5 DEF IInv

LEMMA MigrateStep ==
  ASSUME IInv, encrypt_existing
  PROVE  IInv'
<1> USE VaultAssumption
<1>1. /\ phase = "opening" /\ key \in Keys /\ Commit(Migrated(key, Db))
      /\ phase' = "reading" /\ UNCHANGED <<file, bare, key, begun, step, op, told>>
  BY DEF encrypt_existing, Opened, IInv, TypeOK
<1>2. Db \in Db_Type /\ Good(Db)
  BY DiskFacts DEF IInv, GoodInv
<1>3. /\ Migrated(key, Db) \in Db_Type /\ Good(Migrated(key, Db))
      /\ Migrated(key, Db).flag = TRUE
  BY <1>1, <1>2, MigratedGood
<1>4. DiskOK' /\ Db' = Migrated(key, Db) /\ GoodInv'
  <2>1. told' = "out" => told = "out" /\ NoLogin(Migrated(key, Db))
    BY <1>1, <1>2, MigratedGood, DiskFacts DEF IInv, GoodInv, NoLogin
  <2> QED BY <1>1, <1>3, <2>1, Written
<1>5. begun' = FALSE /\ step' = "none" /\ (key' # None <=> Db'.flag)
  BY <1>1, <1>3, <1>4 DEF IInv, Modes, TypeOK
<1>6. Modes'
  BY <1>1, <1>5, NotServing
<1>7. TypeOK'
  BY <1>1, <1>4 DEF IInv, TypeOK, DiskOK, file
<1> QED BY <1>4, <1>6, <1>7 DEF IInv

LEMMA PowerStep ==
  ASSUME IInv, power_cut
  PROVE  IInv'
<1>1. /\ keyFile' \in Keys \cup {None, Torn} /\ synced' = TRUE
      /\ UNCHANGED <<made, bare, told>> /\ Off
  BY DEF power_cut, IInv, TypeOK
<1>2. PICK n \in 1 .. Len(disk) : disk' = SubSeq(disk, 1, n)
  BY DEF power_cut
<1>3. DiskOK' /\ Entries' \subseteq Entries
  BY <1>2, CutFacts DEF IInv
<1>4. GoodInv'
  BY <1>1, <1>3 DEF IInv, GoodInv
<1>5. Modes'
  BY <1>1, NotServing DEF Off
<1>6. RestOK'
  <2>1. synced' \in BOOLEAN /\ begun' \in BOOLEAN
    BY <1>1 DEF Off
  <2> QED BY <1>1, <2>1 DEF Off, IInv, TypeOK, RestOK
<1>7. TypeOK'
  BY <1>3, <1>6 DEF TypeOK, RestOK, DiskOK
<1> QED BY <1>4, <1>5, <1>7 DEF IInv

(* The modes of a daemon that serves.                                      *)
LEMMA Serving ==
  ASSUME phase' = "serving",
         Db'.flag => key' # None,
         begun' => Pure(Db', key'),
         Db'.cells[Session].text # None => begun',
         step' # "none" => Db'.cells = Blank /\ told' = "nothing"
  PROVE  Modes'
BY DEF Modes

LEMMA PutStep ==
  ASSUME IInv, write \/ save_session
  PROVE  IInv'
<1> USE VaultAssumption
<1>1. /\ phase = "serving" /\ UNCHANGED <<file, phase, bare, key, op>>
      /\ key \in Keys \cup {None}
  BY DEF write, save_session, Free, process, IInv, Modes, TypeOK
<1>2. /\ Db \in Db_Type /\ Good(Db) /\ (Db.flag => key # None) /\ Pure(Db, key)
  <2>1. Db \in Db_Type /\ Good(Db)
    BY DiskFacts DEF IInv, GoodInv
  <2>2. Db.flag => key # None
    BY <1>1 DEF IInv, Modes
  <2>3. Pure(Db, key)
    <3>1. CASE write
      BY <3>1 DEF write, IInv, Modes
    <3>2. CASE save_session
      BY <1>1, <3>2, BlankGood DEF save_session, IInv, Modes
    <3> QED BY <3>1, <3>2
  <2> QED BY <2>1, <2>2, <2>3
<1>3. PICK c \in Cells, t \in Texts :
        /\ Commit(Put(Db, c, key, t))
        /\ c = Session => t \notin Prefixed /\ told' = "in"
        /\ told' = told \/ told' = "in"
        /\ c = Session => begun' = TRUE
        /\ begun' = TRUE /\ step' = "none"
  BY DEF write, save_session, Free, process, IInv, TypeOK, Put
<1> DEFINE e == Put(Db, c, key, t)
<1>4. /\ e \in Db_Type /\ Good(e) /\ Pure(e, key) /\ e.flag = Db.flag
      /\ c # Session => (NoLogin(Db) => NoLogin(e))
  <2>1. c = Session => t \notin Prefixed
    BY <1>3
  <2>2. key = None => Db.flag = FALSE
    BY <1>2 DEF Db_Type
  <2> QED BY ONLY <1>1, <1>2, <2>1, <2>2, PutGood
<1>5. Commit(e) /\ (told' = "out" => told = "out" /\ NoLogin(e))
  BY <1>3, <1>4, DiskFacts DEF IInv, GoodInv
<1> HIDE DEF e
<1>6. DiskOK' /\ Db' = e /\ GoodInv'
  BY <1>4, <1>5, Written
<1>7. Modes'
  <2>1. Pure(Db', key') /\ (Db'.flag => key' # None)
    BY <1>1, <1>2, <1>4, <1>6
  <2> QED BY <1>1, <1>3, <2>1, Serving
<1>8. TypeOK'
  <2>1. begun' \in BOOLEAN /\ told' \in {"in", "out", "nothing"}
    BY <1>3 DEF IInv, TypeOK
  <2> QED BY <1>1, <1>3, <1>6, <2>1 DEF IInv, TypeOK, DiskOK, file
<1> QED BY <1>6, <1>7, <1>8 DEF IInv

LEMMA CheckpointStep ==
  ASSUME IInv, checkpoint \/ statement_fails
  PROVE  IInv'
<1>1. /\ UNCHANGED <<file, phase, bare, key, begun, op, told>>
      /\ phase = "serving" /\ step' = "none"
      /\ disk' = <<Db>> \/ UNCHANGED disk
  BY DEF checkpoint, statement_fails, Free, process, IInv, Modes
<1>2. DiskOK' /\ Db' = Db /\ GoodInv'
  <2>1. CASE disk' = <<Db>>
    <3>1. Db \in Db_Type /\ Good(Db) /\ (told = "out" => NoLogin(Db))
      BY DiskFacts DEF IInv, GoodInv
    <3> QED BY <1>1, <2>1, <3>1, Written
  <2>2. CASE UNCHANGED disk
    BY <1>1, <2>2, NoWrite DEF IInv, TypeOK, DiskOK
  <2> QED BY <1>1, <2>1, <2>2
<1>3. Modes'
  <2>1. /\ Pure(Db, key) => Pure(Db', key')
        /\ Db'.flag = Db.flag /\ Db'.cells = Db.cells
    BY <1>1, <1>2
  <2>2. /\ Db.flag => key # None
        /\ begun => Pure(Db, key)
        /\ Db.cells[Session].text # None => begun
    BY <1>1 DEF IInv, Modes
  <2> QED BY <1>1, <2>1, <2>2, Serving
<1>4. TypeOK'
  BY <1>1, <1>2 DEF IInv, TypeOK, DiskOK, file
<1> QED BY <1>2, <1>3, <1>4 DEF IInv

(* The statements of clear: from the first to the last the store is empty. *)
LEMMA ClearStep ==
  ASSUME IInv,
         \/ \E o \in {"login", "logout"} : clear(o)
         \/ mark_encrypted \/ vacuum \/ clear_ends
  PROVE  IInv'
<1> USE VaultAssumption
<1>1. /\ UNCHANGED <<file, phase, bare, key, begun>> /\ phase = "serving"
      /\ told' \in {"in", "out", "nothing"} /\ op' \in {"none", "login", "logout"}
      /\ step' \in {"none", "mark", "vacuum", "checkpoint", "save"}
      /\ key \in Keys \cup {None}
  BY DEF clear, mark_encrypted, vacuum, clear_ends, Free, IInv, Modes, TypeOK
<1>2. /\ Db \in Db_Type /\ Good(Db) /\ (Db.flag => key # None)
      /\ step # "none" => Db.cells = Blank
  BY <1>1, DiskFacts DEF IInv, GoodInv, Modes
<1>3. /\ step' # "none" => told' = "nothing"
      /\ step' = "none" => clear_ends
  BY DEF clear, mark_encrypted, vacuum, clear_ends, Free, IInv, Modes
<1>4. DiskOK' /\ GoodInv' /\ Db'.cells = Blank /\ (Db'.flag => key # None)
  <2>1. CASE \E o \in {"login", "logout"} : clear(o)
    <3>1. Commit(Empty) /\ told' = "nothing"
      BY <2>1 DEF clear
    <3> QED BY <3>1, EmptyFacts, BlankGood, Written
  <2>2. CASE mark_encrypted /\ key = None
    <3>1. disk' = disk /\ told' = told
      BY <2>2 DEF mark_encrypted
    <3>2. step # "none"
      BY <2>2 DEF mark_encrypted
    <3> QED BY <1>2, <3>1, <3>2, NoWrite DEF IInv, TypeOK, DiskOK
  <2>3. CASE mark_encrypted /\ key # None
    <3>1. Commit([Db EXCEPT !.flag = TRUE]) /\ told' = told /\ step # "none"
      BY <2>3 DEF mark_encrypted
    <3>2. [Db EXCEPT !.flag = TRUE] \in Db_Type /\ [Db EXCEPT !.flag = TRUE].cells = Blank
      BY <1>2, <3>1, EmptyFacts
    <3>3. told' = "nothing"
      BY <3>1 DEF IInv, Modes
    <3>4. DiskOK' /\ Db' = [Db EXCEPT !.flag = TRUE] /\ GoodInv'
      BY <3>1, <3>2, <3>3, BlankGood, Written
    <3> QED BY <2>3, <3>2, <3>4
  <2>4. CASE vacuum
    <3>1. Commit(Db) /\ told' = told /\ step # "none"
      BY <2>4 DEF vacuum
    <3>2. told' = "nothing"
      BY <3>1 DEF IInv, Modes
    <3>3. DiskOK' /\ Db' = Db /\ GoodInv'
      BY <1>2, <3>1, <3>2, Written
    <3> QED BY <1>2, <3>1, <3>3
  <2>5. CASE clear_ends
    <3>1. disk' = <<Db>> /\ step # "none"
      BY <2>5 DEF clear_ends
    <3>2. NoLogin(Db)
      BY <1>2, <3>1, BlankGood
    <3>3. DiskOK' /\ Db' = Db /\ GoodInv'
      BY <1>2, <3>1, <3>2, Written
    <3> QED BY <1>2, <3>1, <3>3
  <2> QED BY <2>1, <2>2, <2>3, <2>4, <2>5
<1>5. Modes'
  <2>1. Pure(Db', key') /\ NoLogin(Db')
    BY <1>1, <1>4, BlankGood
  <2>2. Db'.cells[Session].text = None
    BY <2>1 DEF NoLogin
  <2> QED BY <1>1, <1>3, <1>4, <2>1, <2>2, Serving
<1>6. TypeOK'
  BY <1>1, <1>4 DEF IInv, TypeOK, DiskOK, file
<1> QED BY <1>4, <1>5, <1>6 DEF IInv

LEMMA StepInv == IInv /\ [Next]_vars => IInv'
<1> SUFFICES ASSUME IInv, [Next]_vars PROVE IInv'
  OBVIOUS
<1>1. CASE UNCHANGED vars
  <2>1. UNCHANGED <<disk, told>> /\ UNCHANGED <<file, process>>
    BY <1>1 DEF vars
  <2>2. Modes'
    BY <2>1, NoWrite, ModesKept DEF process, IInv
  <2> QED BY <2>1, <2>2, NoWrite DEF IInv, TypeOK, DiskOK, file, process
<1>2. CASE run
  BY <1>2, BeginStep, StartStep, MigrateStep, LoadStep DEF run
<1>3. CASE serve
  BY <1>3, PutStep, CheckpointStep, ClearStep DEF serve
<1>4. CASE Device
  BY <1>4, StartStep, PowerStep DEF Device
<1> QED BY <1>1, <1>2, <1>3, <1>4 DEF Next

LEMMA Invariance == Spec => []IInv
BY InitInv, StepInv, PTL DEF Spec

-----------------------------------------------------------------------------
(* The database, the key file and the steps of run and of clear are well   *)
(* typed, and the log of commits within its bound.                         *)
THEOREM VaultTypeCorrect == Spec => []TypeOK
<1>1. IInv => TypeOK
  BY DEF IInv
<1> QED BY <1>1, Invariance, PTL

LEMMA EntryGood ==
  ASSUME IInv, NEW i \in DOMAIN disk
  PROVE  Good(disk[i]) /\ (told = "out" => NoLogin(disk[i]))
BY DEF IInv, GoodInv, Entries

(* A store that says it is encrypted holds nothing in the clear, wherever  *)
(* a crash or a power cut falls between encrypt_existing, clear and        *)
(* mark_encrypted.                                                         *)
THEOREM SealedAtRest == Spec => []AtRest
<1>1. IInv => AtRest
  BY EntryGood DEF AtRest, Good
<1> QED BY <1>1, Invariance, PTL

(* However many keys are made, wiped and brought back, no content of the   *)
(* store has rows of two of them (encrypt_existing, load_session, clear).  *)
THEOREM OneKeyAlways == Spec => []OneKey
<1>1. IInv => OneKey
  <2> SUFFICES ASSUME IInv, NEW i \in DOMAIN disk, NEW c \in Cells, NEW d \in Cells,
                      disk[i].cells[c].by # None, disk[i].cells[d].by # None
               PROVE  disk[i].cells[c].by = disk[i].cells[d].by
    BY DEF OneKey
  <2>1. PICK k : Pure(disk[i], k)
    BY EntryGood DEF Good
  <2>2. disk[i].cells[c].by = k /\ disk[i].cells[d].by = k
    BY <2>1, NothingFacts DEF Pure
  <2> QED BY <2>2
<1> QED BY <1>1, Invariance, PTL

(* What a serving daemon's login has stored it can read, whichever key or  *)
(* none it was started with: load_session refuses every other store        *)
(* (unseal).                                                               *)
THEOREM ReadsBack == Spec => []ReadBack
<1>1. IInv => ReadBack
  <2> SUFFICES ASSUME IInv, phase = "serving", Db.cells[Session].text # None,
                      NEW c \in Cells
               PROVE  \/ Reveals(key, Db.cells[c])
                      \/ Db.cells[c].by = None /\ Db.cells[c].text \in Prefixed
    BY DEF ReadBack
  <2>1. Pure(Db, key)
    BY DEF IInv, Modes
  <2>2. CASE Db.cells[c] = Nothing
    BY <2>2, NothingFacts, VaultAssumption DEF Reveals, Marked
  <2>3. CASE Db.cells[c] # Nothing
    BY <2>1, <2>3 DEF Pure, Reveals, Marked
  <2> QED BY <2>2, <2>3
<1> QED BY <1>1, Invariance, PTL

(* After a logout was answered no commit that a power cut could come back  *)
(* to holds a token (Store::clear: vacuum and checkpoint before the        *)
(* answer).                                                                *)
THEOREM LogoutSticksAlways == Spec => []LogoutSticks
<1>1. IInv => LogoutSticks
  BY EntryGood DEF LogoutSticks, NoLogin
<1> QED BY <1>1, Invariance, PTL

-----------------------------------------------------------------------------
(* The refinement.                                                         *)
Read(db) == [c \in Cells |-> db.cells[c].text]

Readable == [Cells -> Texts \cup {None}]

LEMMA ContentsFacts ==
  ASSUME NEW s \in Seq(Db_Type)
  PROVE  /\ Contents(s) \in Seq(Readable) /\ Len(Contents(s)) = Len(s)
         /\ \A i \in 1 .. Len(s) : Contents(s)[i] = Read(s[i])
<1>1. /\ Len(s) \in Nat /\ DOMAIN s = 1 .. Len(s)
      /\ \A i \in 1 .. Len(s) : s[i] \in Db_Type
  BY LenProperties, ElementOfSeq
<1>2. \A db \in Db_Type : Read(db) \in Readable
  BY DEF Db_Type, Read, Readable
<1>3. Contents(s) = [i \in 1 .. Len(s) |-> Read(s[i])]
  BY <1>1 DEF Contents, Read
<1>4. Contents(s) \in [1 .. Len(s) -> Readable]
  BY <1>1, <1>2, <1>3
<1>5. Contents(s) \in Seq(Readable)
  BY <1>1, <1>4, SeqDef
<1>6. DOMAIN Contents(s) = 1 .. Len(s) /\ DOMAIN Contents(s) = 1 .. Len(Contents(s))
      /\ Len(Contents(s)) \in Nat
  BY <1>3, <1>5, LenProperties
<1>7. Len(Contents(s)) = Len(s)
  BY <1>1, <1>6
<1> QED BY <1>3, <1>5, <1>7

LEMMA ContentsAppend ==
  ASSUME NEW s \in Seq(Db_Type), NEW db \in Db_Type
  PROVE  Contents(Append(s, db)) = Append(Contents(s), Read(db))
<1> DEFINE a == Contents(Append(s, db))
           b == Append(Contents(s), Read(db))
<1>1. /\ Append(s, db) \in Seq(Db_Type) /\ Len(Append(s, db)) = Len(s) + 1
      /\ \A i \in 1 .. Len(s) : Append(s, db)[i] = s[i]
      /\ Append(s, db)[Len(s) + 1] = db
      /\ Len(s) \in Nat
  BY AppendFacts, LenProperties
<1>2. /\ a \in Seq(Readable) /\ Len(a) = Len(s) + 1
      /\ \A i \in 1 .. Len(s) + 1 : a[i] = Read(Append(s, db)[i])
  BY <1>1, ContentsFacts
<1>3. Read(db) \in Readable
  BY DEF Db_Type, Read, Readable
<1>4. /\ b \in Seq(Readable) /\ Len(b) = Len(s) + 1
      /\ \A i \in 1 .. Len(s) : b[i] = Read(s[i])
      /\ b[Len(s) + 1] = Read(db)
  BY <1>3, ContentsFacts, AppendFacts
<1> HIDE DEF a, b
<1>5. \A i \in 1 .. Len(s) + 1 : a[i] = b[i]
  <2>1. \A i \in 1 .. Len(s) + 1 : i \in 1 .. Len(s) \/ i = Len(s) + 1
    BY <1>1
  <2> QED BY <1>1, <1>2, <1>4, <2>1
<1>6. a = b
  BY <1>2, <1>4, <1>5, SeqEqual
<1> QED BY <1>6 DEF a, b

LEMMA ContentsOne ==
  ASSUME NEW db \in Db_Type
  PROVE  Contents(<<db>>) = <<Read(db)>>
<1>1. /\ Contents(<<db>>) \in Seq(Readable) /\ Len(Contents(<<db>>)) = 1
      /\ Contents(<<db>>)[1] = Read(db)
  <2>1. <<db>> \in Seq(Db_Type) /\ Len(<<db>>) = 1 /\ <<db>>[1] = db
    BY SingleFacts
  <2>2. 1 \in 1 .. 1
    OBVIOUS
  <2> QED BY <2>1, <2>2, ContentsFacts
<1>2. Read(db) \in Readable
  BY DEF Db_Type, Read, Readable
<1>3. <<Read(db)>> \in Seq(Readable) /\ Len(<<Read(db)>>) = 1 /\ <<Read(db)>>[1] = Read(db)
  BY <1>2, SingleFacts
<1>4. \A i \in 1 .. 1 : Contents(<<db>>)[i] = <<Read(db)>>[i]
  BY <1>1, <1>3
<1> QED BY <1>1, <1>3, <1>4, SeqEqual

LEMMA ContentsCut ==
  ASSUME NEW s \in Seq(Db_Type), NEW n \in 1 .. Len(s)
  PROVE  Contents(SubSeq(s, 1, n)) = SubSeq(Contents(s), 1, n)
<1> DEFINE a == Contents(SubSeq(s, 1, n))
           b == SubSeq(Contents(s), 1, n)
<1>1. n \in Nat /\ n >= 1 /\ n <= Len(s) /\ Len(s) \in Nat
  BY LenProperties
<1>2. \A i \in 1 .. n : s[i] \in Db_Type /\ Contents(s)[i] \in Readable
                        /\ Contents(s)[i] = Read(s[i])
  <2>1. Contents(s) \in Seq(Readable) /\ Len(Contents(s)) = Len(s)
        /\ \A i \in 1 .. Len(s) : Contents(s)[i] = Read(s[i])
    BY ContentsFacts
  <2>2. \A i \in 1 .. n : i \in 1 .. Len(s)
    BY <1>1
  <2> QED BY <2>1, <2>2, ElementOfSeq
<1>3. /\ SubSeq(s, 1, n) \in Seq(Db_Type)
      /\ Len(SubSeq(s, 1, n)) = n - 1 + 1
      /\ \A i \in 1 .. n - 1 + 1 : SubSeq(s, 1, n)[i] = s[1 + i - 1]
  BY <1>1, <1>2, SubSeqProperties
<1>4. /\ b \in Seq(Readable)
      /\ Len(b) = n - 1 + 1
      /\ \A i \in 1 .. n - 1 + 1 : b[i] = Contents(s)[1 + i - 1]
  BY <1>1, <1>2, SubSeqProperties
<1>5. /\ Len(SubSeq(s, 1, n)) = n /\ \A i \in 1 .. n : SubSeq(s, 1, n)[i] = s[i]
  BY <1>1, <1>3
<1>6. /\ Len(b) = n /\ \A i \in 1 .. n : b[i] = Contents(s)[i]
  BY <1>1, <1>4
<1>7. /\ a \in Seq(Readable) /\ Len(a) = n
      /\ \A i \in 1 .. n : a[i] = Read(SubSeq(s, 1, n)[i])
  BY <1>3, <1>5, ContentsFacts
<1> HIDE DEF a, b
<1>8. \A i \in 1 .. n : a[i] = b[i]
  BY <1>2, <1>5, <1>6, <1>7
<1>9. a = b
  BY <1>4, <1>6, <1>7, <1>8, SeqEqual
<1> QED BY <1>9 DEF a, b

Log == Contents(disk)

LEMMA LogFacts ==
  ASSUME TypeOK
  PROVE  /\ disk \in Seq(Db_Type) /\ Len(Log) = Len(disk)
         /\ Plain!Content = Read(Db) /\ Db \in Db_Type
<1>1. disk \in Seq(Db_Type) /\ Len(disk) \in 1 .. MaxLog /\ Db \in Db_Type
  BY DiskFacts
<1>2. Len(disk) \in 1 .. Len(disk)
  BY <1>1, VaultAssumption
<1>3. Len(Log) = Len(disk) /\ Log[Len(disk)] = Read(disk[Len(disk)])
  BY <1>1, <1>2, ContentsFacts DEF Log
<1> QED BY <1>1, <1>3 DEF Plain!Content, Log, Db

LEMMA BlankRead == Read(Empty) = Plain!Blank
BY EmptyFacts, NothingFacts DEF Read, Plain!Blank

LEMMA LogCommit ==
  ASSUME TypeOK, NEW db \in Db_Type, Commit(db)
  PROVE  Log' = Append(Log, Read(db))
<1>1. disk' = Append(disk, db) /\ disk \in Seq(Db_Type)
  BY DiskFacts DEF Commit
<1>2. Contents(disk') = Append(Contents(disk), Read(db))
  BY <1>1, ContentsAppend
<1> QED BY <1>2 DEF Log

LEMMA LogOne ==
  ASSUME NEW db \in Db_Type, disk' = <<db>>
  PROVE  Log' = <<Read(db)>>
<1>1. Contents(disk') = <<Read(db)>>
  BY ContentsOne
<1> QED BY <1>1 DEF Log

LEMMA LogPut ==
  ASSUME TypeOK, NEW c \in Cells, NEW t \in Texts, Commit(Put(Db, c, key, t))
  PROVE  Plain!Next
<1>1. Db \in Db_Type /\ Plain!Content = Read(Db) /\ key \in Keys \cup {None}
  BY LogFacts DEF TypeOK
<1>2. /\ Put(Db, c, key, t) = [flag |-> Db.flag,
                               cells |-> [Db.cells EXCEPT ![c] = [text |-> t, by |-> key]]]
      /\ Db.cells \in [Cells -> [text : Texts \cup {None}, by : Keys \cup {None}]]
      /\ Db.flag \in BOOLEAN
  BY <1>1 DEF Put, protect, seal, Db_Type
<1>3. [text |-> t, by |-> key] \in [text : Texts \cup {None}, by : Keys \cup {None}]
  BY <1>1
<1>4. Put(Db, c, key, t) \in Db_Type
  BY <1>2, <1>3 DEF Db_Type
<1>5. Read(Put(Db, c, key, t)) = [Read(Db) EXCEPT ![c] = t]
  <2>1. \A d \in Cells : Put(Db, c, key, t).cells[d]
                           = IF d = c THEN [text |-> t, by |-> key] ELSE Db.cells[d]
    BY <1>2
  <2>2. \A d \in Cells : Put(Db, c, key, t).cells[d].text
                           = IF d = c THEN t ELSE Db.cells[d].text
    BY <2>1
  <2> QED BY <2>2 DEF Read
<1>6. Log' = Append(Log, [Plain!Content EXCEPT ![c] = t])
  BY <1>1, <1>4, <1>5, LogCommit
<1> QED BY <1>6 DEF Plain!Next, Plain!Put, Log

(* Encryption is invisible: whatever run, the sync thread's writes, clear, *)
(* its failures and the battery do, the contents, keys left out, move as   *)
(* Ledger's.                                                               *)
THEOREM InvisibleEncryption == Spec => Invisible
<1>1. Init => Plain!Init
  <2> SUFFICES ASSUME Init PROVE Plain!Init
    OBVIOUS
  <2>1. Contents(disk) = <<Read(Empty)>>
    BY EmptyFacts, ContentsOne DEF Init
  <2> QED BY <2>1, BlankRead DEF Plain!Init
<1>2. IInv /\ [Next]_vars => [Plain!Next]_(Contents(disk))
  <2> SUFFICES ASSUME IInv, [Next]_vars
               PROVE  Plain!Next \/ Log' = Log
    BY DEF Log
  <2>1. TypeOK /\ Db \in Db_Type /\ Plain!Content = Read(Db) /\ Len(Log) = Len(disk)
        /\ disk \in Seq(Db_Type) /\ Len(disk) \in 1 .. MaxLog
    BY LogFacts, DiskFacts DEF IInv
  <2>2. ASSUME UNCHANGED disk PROVE Log' = Log
    BY <2>2 DEF Log
  <2>3. ASSUME disk' = <<Db>> PROVE Plain!Next
    BY <2>1, <2>3, LogOne DEF Plain!Next, Plain!Fold, Log
  <2>4. CASE write \/ save_session
    <3>1. PICK c \in Cells, t \in Texts : Commit(Put(Db, c, key, t))
      BY <2>4, VaultAssumption DEF write, save_session, Put
    <3> QED BY <2>1, <3>1, LogPut
  <2>5. ASSUME NEW o \in {"login", "logout"}, clear(o) PROVE Plain!Next
    <3>1. Log' = Append(Log, Plain!Blank)
      BY <2>1, <2>5, EmptyFacts, BlankRead, LogCommit DEF clear
    <3> QED BY <3>1 DEF Plain!Next, Plain!Wipe, Log
  <2>6. CASE encrypt_existing
    <3>1. Commit(Migrated(key, Db)) /\ key \in Keys
      BY <2>6, <2>1 DEF encrypt_existing, TypeOK
    <3>2. /\ Migrated(key, Db) \in Db_Type
          /\ \A c \in Cells : Migrated(key, Db).cells[c].text = Db.cells[c].text
      BY <2>1, <3>1, MigratedGood, DiskFacts DEF IInv, GoodInv
    <3>3. Read(Migrated(key, Db)) = Read(Db)
      BY <3>2 DEF Read
    <3>4. Log' = Append(Log, Plain!Content)
      BY <2>1, <3>1, <3>2, <3>3, LogCommit
    <3> QED BY <3>4 DEF Plain!Next, Plain!Touch, Log
  <2>7. CASE mark_encrypted \/ vacuum
    <3>1. CASE UNCHANGED disk
      BY <2>2, <3>1
    <3>2. CASE \E db \in Db_Type : Commit(db) /\ Read(db) = Read(Db)
      <4>1. Log' = Append(Log, Plain!Content)
        BY <2>1, <3>2, LogCommit
      <4> QED BY <4>1 DEF Plain!Next, Plain!Touch, Log
    <3>3. [Db EXCEPT !.flag = TRUE] \in Db_Type
          /\ Read([Db EXCEPT !.flag = TRUE]) = Read(Db)
      BY <2>1, EmptyFacts DEF Read
    <3> QED BY <2>1, <2>7, <3>1, <3>2, <3>3 DEF mark_encrypted, vacuum
  <2>8. CASE checkpoint \/ clear_ends
    BY <2>3, <2>8 DEF checkpoint, clear_ends
  <2>9. CASE power_cut
    <3>1. PICK n \in 1 .. Len(disk) : disk' = SubSeq(disk, 1, n)
      BY <2>9 DEF power_cut
    <3>2. Contents(disk') = SubSeq(Contents(disk), 1, n)
      BY <2>1, <3>1, ContentsCut
    <3> QED BY <2>1, <3>2 DEF Plain!Next, Plain!Tear, Log
  <2>10. ASSUME NEW reset \in BOOLEAN, NEW plain \in BOOLEAN, Begin(reset, plain)
         PROVE  Plain!Next \/ Log' = Log
    <3>1. CASE disk' = <<Empty>>
      <4>1. Log' = <<Plain!Blank>>
        BY <3>1, EmptyFacts, LogOne, BlankRead
      <4> QED BY <4>1 DEF Plain!Next, Plain!Reset, Log
    <3>2. CASE UNCHANGED disk
      BY <2>2, <3>2
    <3> QED BY <2>10, <3>1, <3>2 DEF Begin
  <2>11. CASE \/ read_key \/ create_key \/ key_refused \/ open_agrees \/ open_refused
              \/ load_session \/ statement_fails \/ exit \/ written_back
              \/ key_wiped \/ key_restored \/ UNCHANGED vars
    <3>1. UNCHANGED disk
      BY <2>11 DEF read_key, create_key, key_refused, open_agrees, open_refused, load_session,
         statement_fails, exit, written_back, key_wiped, key_restored, TakesKey, Opened, vars
    <3> QED BY <2>2, <3>1
  <2> QED
    BY <2>4, <2>5, <2>6, <2>7, <2>8, <2>9, <2>10, <2>11 DEF Next, run, serve, Device
<1> QED BY <1>1, <1>2, Invariance, PTL DEF Spec, Invisible, Plain!Spec
=============================================================================
