---------------------------- MODULE DaemonProofs ----------------------------
(***************************************************************************)
(* Proofs about Daemon for any number of processes and connections.  The   *)
(* port file is right because it is written and removed under the lock:    *)
(* whoever is past take_lock has it (Locked).  A connection goes one way   *)
(* only, and no probe gets as far as the Bus (Connections).                *)
(***************************************************************************)
EXTENDS Daemon, TLAPS

Locked ==
  \A d \in Daemons : phase[d] \in {"opening", "serving", "leaving", "exiting"} => lock = d

Connections ==
  \A c \in Conns :
    /\ peer[c] = "unused" => thread[c] = "none" /\ to[c] = None
    /\ thread[c] \in {"welcomed", "subscribed", "last"} => c \notin Probes

IInv == TypeOK /\ Locked /\ ServingIsFindable /\ Connections /\ ProbesStopNothing

-----------------------------------------------------------------------------
LEMMA InitInv == Init => IInv
<1> SUFFICES ASSUME Init PROVE IInv
  OBVIOUS
<1>1. lost \in BOOLEAN /\ asleep \in BOOLEAN /\ reconnect \in BOOLEAN
  <2>1. lost = FALSE /\ asleep = FALSE /\ reconnect = FALSE
    BY DEF Init
  <2> QED BY <2>1
<1>2. TypeOK
  BY <1>1, DaemonAssumption DEF Init, TypeOK
<1>3. Locked /\ ServingIsFindable /\ Connections /\ ProbesStopNothing
  BY DEF Init, Locked, ServingIsFindable, Connections, ProbesStopNothing
<1> QED BY <1>2, <1>3 DEF IInv

-----------------------------------------------------------------------------
(* How connections and processes move.                                     *)
Threads == {"none", "queued", "accepted", "welcomed", "subscribed", "last", "ended"}

(* Connections already made only go on; at most one is new.                *)
NetStep ==
  /\ to' \in [Conns -> Daemons \cup {None}]
  /\ peer' \in [Conns -> {"unused", "open", "closed"}]
  /\ thread' \in [Conns -> Threads]
  /\ \A c \in Conns :
       /\ peer'[c] = "unused" => thread'[c] = "none" /\ to'[c] = None
       /\ thread'[c] \in {"welcomed", "subscribed", "last"} => c \notin Probes
       /\ thread[c] = "ended" => thread'[c] = "ended" /\ to'[c] = to[c]

LEMMA NetKept ==
  ASSUME TypeOK, Connections, UNCHANGED <<to, thread>>,
         peer' \in [Conns -> {"unused", "open", "closed"}],
         \A c \in Conns : peer'[c] = "unused" => peer[c] = "unused"
  PROVE  NetStep
BY DEF TypeOK, Connections, NetStep, Threads

LEMMA HangsKept ==
  ASSUME TypeOK, Connections, UNCHANGED <<to, thread>>, NEW c \in Conns \cup {None}, Hangs(c)
  PROVE  NetStep
<1>1. /\ peer' \in [Conns -> {"unused", "open", "closed"}]
      /\ \A b \in Conns : peer'[b] = "unused" => peer[b] = "unused"
  BY DEF Hangs, TypeOK
<1> QED BY <1>1, NetKept

LEMMA ThreadStep ==
  ASSUME TypeOK, Connections, UNCHANGED <<to, peer>>,
         thread' \in [Conns -> Threads],
         \A c \in Conns : thread'[c] # thread[c] =>
           /\ to[c] # None /\ thread[c] # "ended"
           /\ thread'[c] \in {"welcomed", "subscribed", "last"} => c \notin Probes
  PROVE  NetStep
BY DEF TypeOK, Connections, NetStep, Threads

LEMMA EndedStep ==
  ASSUME TypeOK, Connections, UNCHANGED <<to, peer>>, NEW T \in SUBSET Conns,
         \A c \in T : to[c] # None, Ended(T)
  PROVE  NetStep /\ \A c \in T : thread'[c] = "ended"
<1>1. /\ thread' \in [Conns -> Threads]
      /\ \A c \in Conns : thread'[c] = IF c \in T THEN "ended" ELSE thread[c]
  BY DEF Ended, TypeOK, Threads
<1>2. NetStep
  BY <1>1, ThreadStep
<1> QED BY <1>1, <1>2

LEMMA ConnectsStep ==
  ASSUME TypeOK, Connections, NEW c \in Conns, NEW d \in Daemons, Connects(c, d)
  PROVE  NetStep
<1> USE DaemonAssumption
<1>1. peer[c] = "unused" /\ thread[c] = "none"
  BY DEF Connects, Connections
<1>2. /\ to' \in [Conns -> Daemons \cup {None}]
      /\ peer' \in [Conns -> {"unused", "open", "closed"}]
      /\ thread' \in [Conns -> Threads]
      /\ peer'[c] = "open" /\ thread'[c] = "queued"
      /\ \A b \in Conns \ {c} : peer'[b] = peer[b] /\ thread'[b] = thread[b] /\ to'[b] = to[b]
  BY DEF Connects, TypeOK, Threads
<1> QED BY <1>1, <1>2 DEF Connections, NetStep

(* No process stops running in this step.                                  *)
LEMMA StopKept ==
  ASSUME TypeOK, ProbesStopNothing, NetStep, UNCHANGED running
  PROVE  ProbesStopNothing'
BY DEF ProbesStopNothing, NetStep, Of, TypeOK

LEMMA ConnectionsStep == NetStep => Connections'
BY DEF NetStep, Connections

(* The phases of a step that is not the main thread's.                     *)
LEMMA PhaseKept ==
  ASSUME Locked, ServingIsFindable, UNCHANGED <<phase, lock, portFile>>
  PROVE  Locked' /\ ServingIsFindable'
BY DEF Locked, ServingIsFindable

(* Or whose process is or comes to be without the lock.                    *)
LEMMA PhaseFree ==
  ASSUME TypeOK, Locked, ServingIsFindable, UNCHANGED portFile,
         NEW d \in Daemons, NEW p \in {"starting", "dead"}, Phase(d, p),
         lock' = lock \/ (lock = d /\ lock' = None)
  PROVE  Locked' /\ ServingIsFindable'
BY DEF TypeOK, Locked, ServingIsFindable, Phase

-----------------------------------------------------------------------------
Phases == {"unborn", "starting", "opening", "serving", "leaving", "exiting", "dead"}

(* The type of what is not the network's.                                  *)
OthersOK ==
  /\ phase \in [Daemons -> Phases]
  /\ running \in [Daemons -> BOOLEAN] /\ woken \in [Daemons -> BOOLEAN]
  /\ bus \in [Daemons -> SUBSET Conns]
  /\ lock \in Daemons \cup {None} /\ portFile \in Daemons \cup {None}
  /\ conn \in Conns \cup {None} /\ polls \in 0 .. Tries
  /\ lost \in BOOLEAN /\ asleep \in BOOLEAN /\ reconnect \in BOOLEAN

LEMMA Combine ==
  ASSUME OthersOK', NetStep, Locked', ServingIsFindable', ProbesStopNothing'
  PROVE  IInv'
BY ConnectionsStep DEF OthersOK, NetStep, IInv, TypeOK, Phases, Threads

LEMMA Parts ==
  ASSUME IInv
  PROVE  TypeOK /\ OthersOK /\ Connections /\ Locked /\ ServingIsFindable /\ ProbesStopNothing
BY DEF IInv, TypeOK, OthersOK, Phases

LEMMA MainStep ==
  ASSUME IInv, NEW d \in Daemons, Main(d) \/ Fault(d)
  PROVE  IInv'
<1> USE DaemonAssumption, Parts
<1>1. CASE take_lock(d)
  <2>1. UNCHANGED <<running, woken, bus, portFile, net, plugin>> /\ phase[d] = "starting"
        /\ \/ lock = None /\ lock' = d /\ Phase(d, "opening")
           \/ lock # None /\ lock' = lock /\ Phase(d, "dead")
    BY <1>1 DEF take_lock
  <2>2. Locked' /\ ServingIsFindable'
    BY <2>1 DEF TypeOK, Locked, ServingIsFindable, Phase
  <2>3. OthersOK'
    BY <2>1 DEF OthersOK, Phase, Phases, plugin
  <2>4. NetStep
    BY <2>1, NetKept DEF net, TypeOK
  <2> QED BY <2>1, <2>2, <2>3, <2>4, StopKept, Combine
<1>2. CASE open_fails(d) \/ exit(d) \/ crash(d)
  <2>1. /\ Phase(d, "dead") /\ lock = d /\ lock' = None
        /\ UNCHANGED <<running, woken, bus, portFile, to, peer, plugin>>
    BY <1>2 DEF open_fails, exit, crash, Dies, Locked, net
  <2>2. Locked' /\ ServingIsFindable'
    BY <2>1, PhaseFree
  <2>3. OthersOK'
    BY <2>1 DEF OthersOK, Phase, Phases, plugin
  <2>4. NetStep
    <3>1. CASE open_fails(d)
      BY <2>1, <3>1, NetKept DEF open_fails, net, TypeOK
    <3>2. CASE exit(d) \/ crash(d)
      <4>1. Ended(Of(d)) /\ Of(d) \in SUBSET Conns /\ \A c \in Of(d) : to[c] # None
        BY <3>2 DEF exit, crash, Dies, Of
      <4> QED BY <2>1, <4>1, EndedStep
    <3> QED BY <1>2, <3>1, <3>2
  <2> QED BY <2>1, <2>2, <2>3, <2>4, StopKept, Combine
<1>3. CASE listen(d) \/ remove_own_port_file(d)
  <2>1. /\ UNCHANGED <<running, woken, bus, lock, net, plugin>>
        /\ \/ phase[d] = "opening" /\ Phase(d, "serving") /\ portFile' = d
           \/ phase[d] = "leaving" /\ Phase(d, "exiting")
              /\ portFile' = IF portFile = d THEN None ELSE portFile
    BY <1>3 DEF listen, remove_own_port_file
  <2>2. Locked' /\ ServingIsFindable'
    BY <2>1 DEF TypeOK, Locked, ServingIsFindable, Phase
  <2>3. OthersOK'
    BY <2>1 DEF OthersOK, Phase, Phases, plugin
  <2>4. NetStep
    BY <2>1, NetKept DEF net, TypeOK
  <2> QED BY <2>1, <2>2, <2>3, <2>4, StopKept, Combine
<1>4. CASE accept(d)
  <2>1. /\ UNCHANGED <<daemon, to, peer, plugin>>
        /\ \E c \in Queued(d) : thread' = [thread EXCEPT ![c] = "accepted"]
    BY <1>4 DEF accept
  <2>2. NetStep
    <3>1. PICK c \in Queued(d) : thread' = [thread EXCEPT ![c] = "accepted"]
      BY <2>1
    <3>2. c \in Conns /\ to[c] # None /\ thread[c] = "queued"
      BY DEF Queued, Of
    <3>3. thread' \in [Conns -> Threads]
      BY <3>1 DEF TypeOK, Threads
    <3>4. \A b \in Conns : thread'[b] = IF b = c THEN "accepted" ELSE thread[b]
      BY <3>1 DEF TypeOK
    <3> QED BY <2>1, <3>2, <3>3, <3>4, ThreadStep
  <2>3. Locked' /\ ServingIsFindable'
    BY <2>1, PhaseKept DEF daemon
  <2>4. OthersOK' /\ UNCHANGED running
    BY <2>1 DEF OthersOK, daemon, plugin
  <2> QED BY <2>2, <2>3, <2>4, StopKept, Combine
<1>5. CASE serve_ends(d)
  <2>1. /\ UNCHANGED <<running, woken, bus, lock, portFile, to, peer, plugin>>
        /\ phase[d] = "serving" /\ Phase(d, "leaving") /\ Ended(Queued(d))
    BY <1>5 DEF serve_ends
  <2>2. NetStep
    <3>1. Queued(d) \in SUBSET Conns /\ \A c \in Queued(d) : to[c] # None
      BY DEF Queued, Of
    <3> QED BY <2>1, <3>1, EndedStep
  <2>3. Locked' /\ ServingIsFindable'
    BY <2>1 DEF TypeOK, Locked, ServingIsFindable, Phase
  <2>4. OthersOK'
    BY <2>1 DEF OthersOK, Phase, Phases, plugin
  <2> QED BY <2>1, <2>2, <2>3, <2>4, StopKept, Combine
<1>6. CASE publish(d)
  <2>1. UNCHANGED <<phase, running, woken, lock, portFile, net, plugin>>
    BY <1>6 DEF publish
  <2>2. bus' \in [Daemons -> SUBSET Conns]
    BY <1>6 DEF publish, OthersOK
  <2>3. NetStep
    BY <2>1, NetKept DEF net, TypeOK
  <2>4. OthersOK'
    BY <2>1, <2>2 DEF OthersOK, plugin
  <2> QED BY <2>1, <2>3, <2>4, PhaseKept, StopKept, Combine
<1> QED BY <1>1, <1>2, <1>3, <1>4, <1>5, <1>6 DEF Main, Fault

LEMMA HandlerStep ==
  ASSUME IInv, NEW c \in Conns, Handler(c) \/ shutdown(c)
  PROVE  IInv'
<1> USE DaemonAssumption, Parts
<1>1. /\ UNCHANGED <<phase, lock, portFile, to, peer, plugin>>
      /\ to[c] \in Daemons
  BY DEF Handler, hello, bus_add, hang_up, last_leaves, shutdown, Alive, daemon, TypeOK
<1>2. Locked' /\ ServingIsFindable'
  BY <1>1, PhaseKept
<1>3. /\ bus' \in [Daemons -> SUBSET Conns]
      /\ woken' \in [Daemons -> BOOLEAN] /\ running' \in [Daemons -> BOOLEAN]
  <2>1. \/ UNCHANGED bus
        \/ \E T \in SUBSET Conns : bus' = [bus EXCEPT ![to[c]] = T]
    <3>1. bus[to[c]] \cup {c} \in SUBSET Conns /\ bus[to[c]] \ {c} \in SUBSET Conns
      BY <1>1 DEF OthersOK
    <3> QED
      BY <3>1 DEF Handler, hello, bus_add, hang_up, last_leaves, shutdown, Unsubscribed, daemon
  <2>2. UNCHANGED <<running, woken>> \/ stop_serving(to[c])
    BY DEF Handler, hello, bus_add, hang_up, last_leaves, shutdown, daemon
  <2>3. bus' \in [Daemons -> SUBSET Conns]
    BY <2>1 DEF OthersOK
  <2>4. woken' \in [Daemons -> BOOLEAN]
    BY <2>2 DEF OthersOK, stop_serving
  <2>5. running' \in [Daemons -> BOOLEAN]
    BY <2>2 DEF OthersOK, stop_serving
  <2> QED BY <2>3, <2>4, <2>5
<1>4. OthersOK'
  BY <1>1, <1>3 DEF OthersOK, plugin
<1>5. /\ thread' \in [Conns -> Threads]
      /\ \A b \in Conns \ {c} : thread'[b] = thread[b]
      /\ thread[c] # "ended"
      /\ thread'[c] \in {"welcomed", "subscribed", "last"} => c \notin Probes
  <2>1. CASE Ended({c}) /\ thread[c] # "ended"
    BY <2>1 DEF Ended, TypeOK, Threads
  <2>2. CASE /\ thread[c] # "ended"
             /\ \E t \in {"welcomed", "subscribed", "last"} : thread' = [thread EXCEPT ![c] = t]
             /\ c \notin Probes
    BY <2>2 DEF TypeOK, Threads
  <2>3. CASE /\ thread[c] # "ended" /\ thread' = [thread EXCEPT ![c] = "ended"]
    BY <2>3 DEF TypeOK, Threads
  <2> QED
    BY <2>1, <2>2, <2>3 DEF Handler, hello, bus_add, hang_up, last_leaves, shutdown, Connections
<1>6. NetStep
  BY <1>1, <1>5, ThreadStep
<1>7. ProbesStopNothing'
  <2>1. CASE UNCHANGED running
    BY <1>6, <2>1, StopKept
  <2>2. CASE stop_serving(to[c]) /\ Ended({c}) /\ c \notin Probes
    <3>1. thread'[c] = "ended" /\ to'[c] = to[c] /\ c \in Of(to[c])'
      BY <1>1, <2>2 DEF Ended, Of
    <3>2. \A d \in Daemons \ {to[c]} : running'[d] = running[d]
      BY <2>2 DEF stop_serving, TypeOK
    <3>3. ASSUME NEW d \in Daemons, ~ running'[d]
          PROVE  \E b \in Of(d)' \ Probes : thread'[b] = "ended"
      <4>1. CASE d = to[c]
        BY <1>1, <2>2, <3>1, <4>1 DEF Of
      <4>2. CASE d # to[c]
        BY <1>6, <3>2, <3>3, <4>2 DEF ProbesStopNothing, NetStep, Of
      <4> QED BY <4>1, <4>2
    <3> QED BY <3>3 DEF ProbesStopNothing
  <2> QED
    BY <2>1, <2>2 DEF Handler, hello, bus_add, hang_up, last_leaves, shutdown, daemon, Connections
<1> QED BY <1>2, <1>4, <1>6, <1>7, Combine

-----------------------------------------------------------------------------
(* The plugin launches a process at most, and opens one connection.        *)
PluginMoves ==
  /\ UNCHANGED <<running, woken, bus, lock, portFile>>
  /\ \/ UNCHANGED phase
     \/ \E d \in Daemons : phase[d] = "unborn" /\ Phase(d, "starting")
  /\ NetStep
  /\ conn' \in Conns \cup {None} /\ polls' \in 0 .. Tries

LEMMA PluginOK ==
  ASSUME IInv, PluginMoves,
         lost' \in BOOLEAN, asleep' \in BOOLEAN, reconnect' \in BOOLEAN
  PROVE  IInv'
<1> USE Parts
<1>1. Locked' /\ ServingIsFindable'
  <2>1. CASE UNCHANGED phase
    BY <2>1, PhaseKept DEF PluginMoves
  <2>2. CASE \E d \in Daemons : Phase(d, "starting")
    BY <2>2, PhaseFree DEF PluginMoves
  <2> QED BY <2>1, <2>2 DEF PluginMoves
<1>2. phase' \in [Daemons -> Phases]
  BY DEF PluginMoves, Phase, OthersOK, Phases
<1>3. OthersOK'
  BY <1>2 DEF PluginMoves, OthersOK
<1> QED BY <1>1, <1>3, StopKept, Combine DEF PluginMoves

LEMMA StillNet ==
  ASSUME IInv, UNCHANGED net
  PROVE  NetStep
BY Parts, NetKept DEF net, TypeOK

LEMMA OpenMoves ==
  ASSUME IInv, Listening(portFile), openConnection
  PROVE  NetStep /\ conn' \in Conns \cup {None}
<1>1. portFile \in Daemons
  BY Parts DEF Listening, TypeOK
<1>2. PICK c \in Conns \ Probes : Connects(c, portFile) /\ conn' = c
  BY DEF openConnection
<1> QED BY <1>1, <1>2, Parts, ConnectsStep

LEMMA EnsureMoves ==
  ASSUME IInv, ensureConnected
  PROVE  PluginMoves
<1> USE DaemonAssumption
<1>1. conn \in Conns \cup {None} /\ polls \in 0 .. Tries /\ Tries \in 0 .. Tries /\ 0 \in 0 .. Tries
  BY Parts DEF TypeOK
<1>2. CASE Listening(portFile) /\ openConnection /\ polls' = 0 /\ UNCHANGED daemon
  BY <1>1, <1>2, OpenMoves DEF PluginMoves, daemon
<1>3. CASE /\ spawnDaemon /\ polls' = Tries
           /\ UNCHANGED <<running, woken, bus, lock, portFile, net, conn>>
  BY <1>1, <1>3, StillNet DEF PluginMoves, spawnDaemon
<1>4. CASE UNCHANGED <<daemon, net, conn>> /\ polls' \in {0, polls}
  BY <1>1, <1>4, StillNet DEF PluginMoves, daemon
<1> QED BY <1>2, <1>3, <1>4 DEF ensureConnected

LEMMA TeardownMoves ==
  ASSUME IInv, teardownConnection, UNCHANGED daemon
  PROVE  PluginMoves
<1>1. conn \in Conns \cup {None} /\ 0 \in 0 .. Tries
  BY Parts, DaemonAssumption DEF TypeOK
<1>2. NetStep
  BY <1>1, Parts, HangsKept DEF teardownConnection
<1> QED BY <1>1, <1>2 DEF PluginMoves, teardownConnection, daemon

LEMMA PluginStep ==
  ASSUME IInv,
         \/ openMatrix \/ releaseIfHidden \/ onSuspend \/ onResume \/ probe \/ probe_leaves
         \/ UI
  PROVE  IInv'
<1> USE DaemonAssumption, Parts
<1>1. PluginMoves
  <2>1. CASE openMatrix
    BY <2>1, EnsureMoves DEF openMatrix
  <2>2. CASE releaseIfHidden \/ onSuspend \/ onDaemonDisconnect
    BY <2>2, TeardownMoves DEF releaseIfHidden, onSuspend, onDaemonDisconnect
  <2>3. CASE onResume
    <3>1. CASE ensureConnected
      BY <3>1, EnsureMoves
    <3>2. CASE UNCHANGED <<daemon, net, conn, polls>>
      BY <3>2, StillNet DEF PluginMoves, daemon, TypeOK
    <3> QED BY <2>3, <3>1, <3>2 DEF onResume
  <2>4. CASE probe
    <3>1. /\ UNCHANGED <<daemon, plugin>>
          /\ \E c \in Probes, d \in Daemons : Connects(c, d)
      BY <2>4 DEF probe
    <3>2. NetStep
      BY <3>1, ConnectsStep
    <3> QED BY <3>1, <3>2 DEF PluginMoves, daemon, plugin, TypeOK
  <2>5. CASE probe_leaves
    <3>1. /\ UNCHANGED <<daemon, to, thread, plugin>>
          /\ \E c \in Probes : Hangs(c)
      BY <2>5 DEF probe_leaves
    <3>2. NetStep
      BY <3>1, HangsKept
    <3> QED BY <3>1, <3>2 DEF PluginMoves, daemon, plugin, TypeOK
  <2>6. CASE pollForDaemon
    <3>1. UNCHANGED daemon /\ polls > 0 /\ polls \in 0 .. Tries
      BY <2>6 DEF pollForDaemon, TypeOK
    <3>2. CASE Listening(portFile) /\ openConnection /\ polls' = 0
      <4>1. 0 \in 0 .. Tries
        OBVIOUS
      <4> QED BY <3>1, <3>2, <4>1, OpenMoves DEF PluginMoves, daemon
    <3>3. CASE polls' = TriesLeft(polls) /\ UNCHANGED <<net, conn>>
      <4>1. polls' \in 0 .. Tries
        BY <3>1, <3>3 DEF TriesLeft
      <4> QED BY <3>1, <3>3, <4>1, StillNet DEF PluginMoves, daemon, TypeOK
    <3> QED BY <2>6, <3>2, <3>3 DEF pollForDaemon
  <2>7. CASE fail
    <3>1. UNCHANGED <<daemon, to, thread, polls>> /\ Hangs(conn) /\ conn' = None
      BY <2>7 DEF fail
    <3>2. NetStep
      BY <3>1, HangsKept DEF TypeOK
    <3> QED BY <3>1, <3>2 DEF PluginMoves, daemon, TypeOK
  <2> QED BY <2>1, <2>2, <2>3, <2>4, <2>5, <2>6, <2>7 DEF UI
<1>2. lost' \in BOOLEAN
  <2>1. lost' = lost \/ lost' = TRUE \/ lost' = FALSE
    BY DEF openMatrix, releaseIfHidden, onSuspend, onResume, probe, probe_leaves,
       UI, pollForDaemon, fail, onDaemonDisconnect, plugin
  <2> QED BY <2>1 DEF TypeOK
<1>3. asleep' \in BOOLEAN
  <2>1. asleep' = asleep \/ asleep' = TRUE \/ asleep' = FALSE
    BY DEF openMatrix, releaseIfHidden, onSuspend, onResume, probe, probe_leaves,
       UI, pollForDaemon, fail, onDaemonDisconnect, plugin
  <2> QED BY <2>1 DEF TypeOK
<1>4. reconnect' \in BOOLEAN
  <2>1. reconnect' = reconnect \/ reconnect' = (conn # None) \/ reconnect' = FALSE
    BY DEF openMatrix, releaseIfHidden, onSuspend, onResume, probe, probe_leaves,
       UI, pollForDaemon, fail, onDaemonDisconnect, plugin
  <2> QED BY <2>1 DEF TypeOK
<1> QED BY <1>1, <1>2, <1>3, <1>4, PluginOK

-----------------------------------------------------------------------------
LEMMA StepInv == IInv /\ [Next]_vars => IInv'
<1> SUFFICES ASSUME IInv, [Next]_vars PROVE IInv'
  OBVIOUS
<1>1. CASE UNCHANGED vars
  <2>1. UNCHANGED <<daemon, net, plugin>>
    BY <1>1 DEF vars
  <2>2. PluginMoves
    BY <2>1, StillNet, Parts DEF PluginMoves, daemon, plugin, TypeOK
  <2> QED BY <2>1, <2>2, PluginOK, Parts DEF plugin, TypeOK
<1>2. ASSUME NEW d \in Daemons, Main(d) \/ Fault(d) PROVE IInv'
  BY <1>2, MainStep
<1>3. ASSUME NEW c \in Conns, Handler(c) \/ shutdown(c) PROVE IInv'
  BY <1>3, HandlerStep
<1>4. ASSUME \/ openMatrix \/ releaseIfHidden \/ onSuspend \/ onResume
             \/ probe \/ probe_leaves \/ UI
      PROVE  IInv'
  BY <1>4, PluginStep
<1> QED BY <1>1, <1>2, <1>3, <1>4 DEF Next, User

LEMMA Invariance == Spec => []IInv
BY InitInv, StepInv, PTL DEF Spec

(* The phases of run, the Bus, the sockets' two ends and the plugin's      *)
(* flags are well typed.                                                   *)
THEOREM DaemonTypeCorrect == Spec => []TypeOK
<1>1. IInv => TypeOK
  BY DEF IInv
<1> QED BY <1>1, Invariance, PTL

(* However many daemons are launched, crash and leave, one that takes      *)
(* connections is the one the port file names (main.rs run, InstanceLock,  *)
(* remove_own_port_file).                                                  *)
THEOREM FindableAlways == Spec => []ServingIsFindable
<1>1. IInv => ServingIsFindable
  BY DEF IInv
<1> QED BY <1>1, Invariance, PTL

(* A daemon is told to stop by a reader that was on its Bus, never by a    *)
(* connection that said nothing (ipc.rs handle_client).                    *)
THEOREM ProbesStopNothingEver == Spec => []ProbesStopNothing
<1>1. IInv => ProbesStopNothing
  BY DEF IInv
<1> QED BY <1>1, Invariance, PTL
=============================================================================
