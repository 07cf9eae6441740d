------------------------------- MODULE Daemon -------------------------------
(***************************************************************************)
(* How long a daemon runs.  The plugin finds a daemon by its port file,    *)
(* starts one where there is none, and hangs up when its last screen       *)
(* closes or the device sleeps (main.lua, kmatrix_ipc.lua); the daemon     *)
(* takes the data directory's lock, listens, counts its readers on the Bus *)
(* and stops with the last of them (main.rs run, ipc.rs).  Each connection *)
(* has a thread of its own.                                                *)
(***************************************************************************)
EXTENDS Naturals, FiniteSets

CONSTANTS
  Daemons,  \* processes the plugin may launch
  Conns,    \* connections
  Probes,   \* those of them made by something that is not the plugin
  None,
  Tries,    \* DAEMON_POLL_TRIES
  Faults    \* what may go wrong: "open", "crash", "slow"

ASSUME DaemonAssumption ==
  /\ Probes \subseteq Conns
  /\ None \notin Conns \cup Daemons
  /\ Tries \in Nat \ {0}
  /\ Faults \subseteq {"open", "crash", "slow"}

VARIABLES
  phase,     \* how far run has come
  running,   \* Shared.running
  woken,     \* stop_serving has connected to its own listener
  bus,       \* Bus.clients
  lock,      \* who holds kmatrix.lock
  portFile,  \* whose port and token kmatrix.port holds
  to,        \* a connection's daemon
  peer,      \* the state of its client's end
  thread,    \* and of its handle_client thread
  conn,      \* the plugin's connection
  polls,     \* port-file probes left, 0 when none is scheduled
  lost,      \* the teardown of onDaemonDisconnect is due next tick
  asleep,    \* the device is suspended
  reconnect  \* reconnect_on_resume

daemon == <<phase, running, woken, bus, lock, portFile>>
net    == <<to, peer, thread>>
plugin == <<conn, polls, lost, asleep, reconnect>>
vars   == <<daemon, net, plugin>>

Init ==
  /\ phase = [d \in Daemons |-> "unborn"]
  /\ running = [d \in Daemons |-> TRUE]
  /\ woken = [d \in Daemons |-> FALSE]
  /\ bus = [d \in Daemons |-> {}]
  /\ lock = None /\ portFile = None
  /\ to = [c \in Conns |-> None]
  /\ peer = [c \in Conns |-> "unused"]
  /\ thread = [c \in Conns |-> "none"]
  /\ conn = None /\ polls = 0
  /\ lost = FALSE /\ asleep = FALSE /\ reconnect = FALSE

-----------------------------------------------------------------------------
(* run.                                                                    *)
Phase(d, p) == phase' = [phase EXCEPT ![d] = p]

(* The threads in T stop where they are, their ends of the sockets close.  *)
Ended(T) == thread' = [c \in Conns |-> IF c \in T THEN "ended" ELSE thread[c]]

Of(d) == {c \in Conns : to[c] = d}

Queued(d) == {c \in Of(d) : thread[c] = "queued"}

(* InstanceLock::take: never waits.                                        *)
take_lock_blind(d) ==  \* faulty: the lock is not taken
  /\ phase[d] = "starting"
  /\ lock' = d
  /\ Phase(d, "opening")
  /\ UNCHANGED <<running, woken, bus, portFile, net, plugin>>

take_lock(d) ==
  /\ phase[d] = "starting"
  /\ lock' = IF lock = None THEN d ELSE lock
  /\ Phase(d, IF lock = None THEN "opening" ELSE "dead")
  /\ UNCHANGED <<running, woken, bus, portFile, net, plugin>>

open_fails(d) ==
  /\ "open" \in Faults
  /\ phase[d] = "opening"
  /\ Phase(d, "dead") /\ lock' = None
  /\ UNCHANGED <<running, woken, bus, portFile, net, plugin>>

listen(d) ==
  /\ phase[d] = "opening"
  /\ Phase(d, "serving") /\ portFile' = d
  /\ UNCHANGED <<running, woken, bus, lock, net, plugin>>

accept(d) ==
  /\ phase[d] = "serving" /\ running[d]
  /\ \E c \in Queued(d) : thread' = [thread EXCEPT ![c] = "accepted"]
  /\ UNCHANGED <<daemon, to, peer, plugin>>

(* incoming() is blocked until something connects; returning from serve    *)
(* closes the listener.                                                    *)
serve_ends(d) ==
  /\ phase[d] = "serving" /\ ~ running[d]
  /\ woken[d] \/ Queued(d) # {}
  /\ Phase(d, "leaving")
  /\ Ended(Queued(d))
  /\ UNCHANGED <<running, woken, bus, lock, portFile, to, peer, plugin>>

remove_own_port_file(d) ==
  /\ phase[d] = "leaving"
  /\ portFile' = IF portFile = d THEN None ELSE portFile
  /\ Phase(d, "exiting")
  /\ UNCHANGED <<running, woken, bus, lock, net, plugin>>

(* The process ends, and with it its threads, sockets and lock.            *)
Dies(d) ==
  /\ Phase(d, "dead")
  /\ lock' = IF lock = d THEN None ELSE lock
  /\ Ended(Of(d))
  /\ UNCHANGED <<running, woken, bus, portFile, to, peer, plugin>>

exit(d) == phase[d] = "exiting" /\ Dies(d)

crash(d) ==
  /\ "crash" \in Faults
  /\ phase[d] \in {"opening", "serving", "leaving", "exiting"}
  /\ Dies(d)

-----------------------------------------------------------------------------
(* handle_client.                                                          *)
Alive(c) == to[c] # None /\ phase[to[c]] # "dead"

(* The reply may fail once the client is gone.                             *)
hello(c) ==
  /\ Alive(c) /\ c \notin Probes /\ thread[c] = "accepted"
  /\ \/ thread' = [thread EXCEPT ![c] = "welcomed"]
     \/ peer[c] = "closed" /\ Ended({c})
  /\ UNCHANGED <<daemon, to, peer, plugin>>

bus_add(c) ==
  /\ Alive(c) /\ thread[c] = "welcomed"
  /\ bus' = [bus EXCEPT ![to[c]] = @ \cup {c}]
  /\ thread' = [thread EXCEPT ![c] = "subscribed"]
  /\ UNCHANGED <<phase, running, woken, lock, portFile, to, peer, plugin>>

(* client_loop is over: a reader is taken off the bus, and whoever finds   *)
(* nobody left on it goes on to stop_serving.                              *)
Unsubscribed(c) == [bus EXCEPT ![to[c]] = @ \ {c}]

Last_before(c) == bus[to[c]] = {} /\ running[to[c]]  \* faulty: counted too early

Last(c) == Unsubscribed(c)[to[c]] = {} /\ running[to[c]]

hang_up_any(c) ==  \* faulty: whoever leaves may be the last
  /\ Alive(c) /\ peer[c] = "closed"
  /\ thread[c] \in {"accepted", "subscribed"}
  /\ bus' = Unsubscribed(c)
  /\ thread' = [thread EXCEPT ![c] = IF Last(c) THEN "last" ELSE "ended"]
  /\ UNCHANGED <<phase, running, woken, lock, portFile, to, peer, plugin>>

hang_up(c) ==
  /\ Alive(c) /\ peer[c] = "closed"
  /\ \/ c \in Probes /\ thread[c] = "accepted"
        /\ Ended({c}) /\ UNCHANGED bus
     \/ thread[c] = "subscribed"
        /\ bus' = Unsubscribed(c)
        /\ thread' = [thread EXCEPT ![c] = IF Last(c) THEN "last" ELSE "ended"]
  /\ UNCHANGED <<phase, running, woken, lock, portFile, to, peer, plugin>>

stop_serving_asleep(d) ==  \* faulty: the accept loop is not woken
  /\ running' = [running EXCEPT ![d] = FALSE]
  /\ UNCHANGED woken

stop_serving(d) ==
  /\ running' = [running EXCEPT ![d] = FALSE]
  /\ woken' = [woken EXCEPT ![d] = TRUE]

last_leaves(c) ==
  /\ Alive(c) /\ thread[c] = "last"
  /\ stop_serving(to[c])
  /\ Ended({c})
  /\ UNCHANGED <<phase, bus, lock, portFile, to, peer, plugin>>

(* The `shutdown` command, from the plugin's menu.                         *)
shutdown(c) ==
  /\ Alive(c) /\ thread[c] = "subscribed" /\ conn = c
  /\ stop_serving(to[c])
  /\ bus' = Unsubscribed(c)
  /\ Ended({c})
  /\ UNCHANGED <<phase, lock, portFile, to, peer, plugin>>

(* Bus::publish drops the subscribers it cannot write to: those gone, and  *)
(* those that have not read for BUS_WRITE_TIMEOUT.                         *)
Unwritable(d) == {c \in bus[d] : peer[c] = "closed" \/ "slow" \in Faults}

publish(d) ==
  /\ phase[d] = "serving"
  /\ \E gone \in SUBSET Unwritable(d) \ {{}} :
       bus' = [bus EXCEPT ![d] = @ \ gone]
  /\ UNCHANGED <<phase, running, woken, lock, portFile, net, plugin>>

-----------------------------------------------------------------------------
(* The plugin.                                                             *)
Listening(d) == d # None /\ phase[d] = "serving"

Hangs(c) == peer' = IF c = None THEN peer ELSE [peer EXCEPT ![c] = "closed"]

teardownConnection ==
  /\ Hangs(conn)
  /\ conn' = None /\ polls' = 0
  /\ UNCHANGED <<to, thread>>

(* Connects to the daemon of the port file and sends `hello`.              *)
Connects(c, d) ==
  /\ peer[c] = "unused"
  /\ to' = [to EXCEPT ![c] = d]
  /\ peer' = [peer EXCEPT ![c] = "open"]
  /\ thread' = [thread EXCEPT ![c] = "queued"]

openConnection ==
  \E c \in Conns \ Probes : Connects(c, portFile) /\ conn' = c

spawnDaemon ==
  \E d \in Daemons : phase[d] = "unborn" /\ Phase(d, "starting")

(* Nobody answers at the port, or not within CONNECT_TIMEOUT.              *)
Unreachable == ~ Listening(portFile) \/ "slow" \in Faults

(* Only the first attempt may launch a daemon, if its binary is there; the *)
(* rest is polling.                                                        *)
ensureConnected ==
  \/ conn # None /\ UNCHANGED <<daemon, net, conn, polls>>
  \/ /\ conn = None /\ Listening(portFile)
     /\ openConnection /\ polls' = 0
     /\ UNCHANGED daemon
  \/ /\ conn = None /\ Unreachable
     /\ spawnDaemon /\ polls' = Tries
     /\ UNCHANGED <<running, woken, bus, lock, portFile, net, conn>>
  \/ /\ conn = None /\ Unreachable
     /\ polls' = 0
     /\ UNCHANGED <<daemon, net, conn>>

openMatrix ==
  /\ ~ asleep
  /\ ensureConnected
  /\ UNCHANGED <<lost, asleep, reconnect>>

TriesLeft_up(n) == n + 1  \* faulty: counted the wrong way

TriesLeft(n) == n - 1

pollForDaemon ==
  /\ polls > 0
  /\ \/ Listening(portFile) /\ openConnection /\ polls' = 0
     \/ /\ Unreachable
        /\ polls' = TriesLeft(polls)
        /\ UNCHANGED <<net, conn>>
  /\ UNCHANGED <<daemon, lost, asleep, reconnect>>

releaseIfHidden ==
  /\ ~ asleep /\ conn # None
  /\ teardownConnection
  /\ UNCHANGED <<daemon, lost, asleep, reconnect>>

onSuspend ==
  /\ ~ asleep /\ asleep' = TRUE
  /\ reconnect' = (conn # None)
  /\ teardownConnection
  /\ UNCHANGED <<daemon, lost>>

onResume ==
  /\ asleep /\ asleep' = FALSE
  /\ reconnect' = FALSE
  /\ IF reconnect THEN ensureConnected ELSE UNCHANGED <<daemon, net, conn, polls>>
  /\ UNCHANGED lost

(* IPC:fail, when the daemon's end has closed: the teardown is put off.    *)
fail ==
  /\ conn # None /\ thread[conn] = "ended"
  /\ Hangs(conn) /\ conn' = None
  /\ lost' = TRUE
  /\ UNCHANGED <<daemon, to, thread, polls, asleep, reconnect>>

onDaemonDisconnect ==
  /\ lost /\ lost' = FALSE
  /\ teardownConnection
  /\ UNCHANGED <<daemon, asleep, reconnect>>

(* Anything on the device may connect to the port, say nothing and leave.  *)
probe ==
  /\ \E c \in Probes, d \in Daemons : phase[d] = "serving" /\ Connects(c, d)
  /\ UNCHANGED <<daemon, plugin>>

probe_leaves ==
  /\ \E c \in Probes : peer[c] = "open" /\ Hangs(c)
  /\ UNCHANGED <<daemon, to, thread, plugin>>

-----------------------------------------------------------------------------
Main(d) ==
  \/ take_lock(d) \/ listen(d) \/ accept(d)
  \/ serve_ends(d) \/ remove_own_port_file(d) \/ exit(d)

Handler(c) == hello(c) \/ bus_add(c) \/ hang_up(c) \/ last_leaves(c)

User ==
  \/ openMatrix \/ releaseIfHidden \/ onSuspend \/ onResume
  \/ probe \/ probe_leaves
  \/ \E c \in Conns : shutdown(c)

UI == pollForDaemon \/ fail \/ onDaemonDisconnect

Fault(d) == open_fails(d) \/ crash(d) \/ publish(d)

Next ==
  \/ \E d \in Daemons : Main(d) \/ Fault(d)
  \/ \E c \in Conns : Handler(c)
  \/ User \/ UI

Spec == Init /\ [][Next]_vars

(* The main thread and the handlers run; the UI loop comes round.          *)
Fairness ==
  /\ \A d \in Daemons : WF_vars(Main(d))
  /\ \A c \in Conns : WF_vars(Handler(c))
  /\ WF_vars(UI)

FairSpec == Spec /\ Fairness

-----------------------------------------------------------------------------
(* Properties.                                                             *)

TypeOK ==
  /\ phase \in [Daemons -> {"unborn", "starting", "opening", "serving",
                            "leaving", "exiting", "dead"}]
  /\ running \in [Daemons -> BOOLEAN] /\ woken \in [Daemons -> BOOLEAN]
  /\ bus \in [Daemons -> SUBSET Conns]
  /\ lock \in Daemons \cup {None} /\ portFile \in Daemons \cup {None}
  /\ to \in [Conns -> Daemons \cup {None}]
  /\ peer \in [Conns -> {"unused", "open", "closed"}]
  /\ thread \in [Conns -> {"none", "queued", "accepted", "welcomed",
                           "subscribed", "last", "ended"}]
  /\ conn \in Conns \cup {None} /\ polls \in 0 .. Tries
  /\ lost \in BOOLEAN /\ asleep \in BOOLEAN /\ reconnect \in BOOLEAN

(* main.rs run: never "a live daemon nothing can find".  A daemon that     *)
(* still takes connections is the one the port file names, whatever        *)
(* daemons were launched, crashed or left around it.                       *)
ServingIsFindable ==
  \A d \in Daemons : phase[d] = "serving" => portFile = d

(* ipc.rs handle_client: connections that never get through `hello` do not *)
(* stop the daemon among themselves: where it has been stopped, a          *)
(* connection that may say `hello` has come and gone.                      *)
ProbesStopNothing ==
  \A d \in Daemons :
    ~ running[d] => \E c \in Of(d) \ Probes : thread[c] = "ended"

(* The reader who leaves last stops the daemon: its thread ends and, where *)
(* no other connection is left, the daemon does too (ipc.rs                *)
(* handle_client).                                                         *)
LastReaderStopsIt ==
  \A c \in Conns, d \in Daemons :
    (to[c] = d /\ peer[c] = "closed" /\ thread[c] = "subscribed") ~>
      \/ phase[d] = "dead"
      \/ \E b \in Of(d) \ {c} : thread[b] # "ended"

(* A daemon told to stop does stop, though its accept loop is blocked      *)
(* (ipc.rs stop_serving), and hands over the lock.                         *)
StoppedDaemonsExit ==
  \A d \in Daemons : ~ running[d] ~> phase[d] = "dead" /\ lock # d

(* What the source says and the code does not do (README, section 5).      *)
(* ipc.rs handle_client: "Once the last reader has gone".  Nobody who was  *)
(* answered `hello` and is still there is stopped under.                   *)
StopsOnlyAlone ==
  \A c \in Conns :
    thread[c] = "last" =>
      \A b \in Of(to[c]) :
        thread[b] \in {"welcomed", "subscribed"} => peer[b] = "closed"
=============================================================================
