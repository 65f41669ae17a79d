--------------------------- MODULE DeviceInfoServer ---------------------------
(***************************************************************************)
(* deviceInfoServer and xpuInfoExporter (xpumd/exporter/intelxpuinfo/      *)
(* deviceinfo.go, exporter.go): the exporter caches the translated health  *)
(* data and streams it, and hardware events, to the gRPC clients.          *)
(*                                                                         *)
(* Goroutines: one handler per client stream (WatchDeviceHealth,           *)
(* WatchDeviceEvents), the callers of pushMetrics() and pushLogs(), and    *)
(* shutdown() with the goroutine it starts.  stream.Send() blocks while    *)
(* the client does not read and fails once the stream is closed or its     *)
(* handler has returned.  healthDataLock is a Go RWMutex: it is held for   *)
(* reading during Send(), and a waiting writer keeps new readers out.      *)
(***************************************************************************)
EXTENDS Integers, FiniteSets

CONSTANTS
  HealthClients, EventClients,    \* client streams of the two calls
  MetricPushers, LogPushers,      \* goroutines that push metrics, logs
  NoClient,                       \* no stream
  Workloads                       \* bounds: which clients connect, which goroutines
                                  \* push, how many calls of pushMetrics() and how
                                  \* many events of pushLogs() there are

ASSUME DeviceInfoAssumption ==
  /\ HealthClients \cap EventClients = {}
  /\ MetricPushers \cap LogPushers = {}
  /\ NoClient \notin HealthClients \cup EventClients
  /\ Workloads \subseteq [clients : SUBSET (HealthClients \cup EventClients),
                           pushers : SUBSET (MetricPushers \cup LogPushers),
                           health : Nat, events : Nat]

Clients == HealthClients \cup EventClients
Pushers == MetricPushers \cup LogPushers

VARIABLES
  load,         \* the workload, which never changes
  healthData,   \* the cached data, numbered as it is stored, 0 for nil
  registered,   \* deviceHealthClients and deviceEventClients
  errChan,      \* clients with an error in their channel of capacity 1
  handler,      \* program counter of each stream's handler
  pusher,       \* program counter of each pusher
  todo,         \* Range(): registered when it began, not visited yet
  visited,      \* Range(): visited
  current,      \* the client a pusher is sending to
  unsent,       \* number of events of the batch still to be sent to it
  batch,        \* number of events of the pusher's batch
  closed,       \* streams closed by the client or by Stop()
  stopChan,     \* stopChan is closed
  exporter,     \* progress of shutdown()
  stopper,      \* progress of the goroutine shutdown() starts
  nHealth, nEvents,   \* pushes so far, events so far
  received,     \* history: the last health data a client has received
  gotEvents,    \* history: the last event of a pusher that a client has received
  pushed,       \* history: healthData stored by a metric pusher's last push,
                \* number of a log pusher's events so far
  owed          \* history: clients registered when its last Range began

lifecycle == <<stopChan, exporter, stopper, load>>
ranging == <<todo, visited, current, unsent>>
history == <<received, gotEvents, pushed, owed>>
vars == <<healthData, registered, errChan, handler, pusher, ranging, batch, closed,
          lifecycle, nHealth, nEvents, history>>

TypeOK ==
  /\ healthData \in Nat
  /\ registered \subseteq Clients /\ errChan \subseteq Clients
  /\ handler \in [Clients -> {"none", "initial", "sending", "store", "select",
                              "returned"}]
  /\ pusher \in [Pushers -> {"idle", "lock", "range", "rlock", "sending"}]
  /\ todo \in [Pushers -> SUBSET Clients]
  /\ visited \in [Pushers -> SUBSET Clients]
  /\ current \in [Pushers -> Clients \cup {NoClient}]
  /\ unsent \in [Pushers -> Nat] /\ batch \in [Pushers -> Nat]
  /\ closed \subseteq Clients
  /\ stopChan \in BOOLEAN
  /\ exporter \in {"started", "stopping", "graceful", "forced"}
  /\ stopper \in {"none", "stop", "drain", "done"}
  /\ load \in Workloads /\ nHealth \in 0..load.health /\ nEvents \in 0..load.events
  /\ received \in [HealthClients -> Nat]
  /\ gotEvents \in [LogPushers -> [EventClients -> Nat]]
  /\ pushed \in [Pushers -> Nat]
  /\ owed \in [Pushers -> SUBSET Clients]
  /\ registered = {c \in Clients : handler[c] = "select"}

Init ==
  /\ load \in Workloads
  /\ healthData = 0
  /\ registered = {} /\ errChan = {} /\ closed = {}
  /\ handler = [c \in Clients |-> "none"]
  /\ pusher = [p \in Pushers |-> "idle"]
  /\ todo = [p \in Pushers |-> {}] /\ visited = [p \in Pushers |-> {}]
  /\ current = [p \in Pushers |-> NoClient]
  /\ unsent = [p \in Pushers |-> 0] /\ batch = [p \in Pushers |-> 0]
  /\ stopChan = FALSE /\ exporter = "started" /\ stopper = "none"
  /\ nHealth = 0 /\ nEvents = 0
  /\ received = [c \in HealthClients |-> 0]
  /\ gotEvents = [p \in LogPushers |-> [c \in EventClients |-> 0]]
  /\ pushed = [p \in Pushers |-> 0] /\ owed = [p \in Pushers |-> {}]

-----------------------------------------------------------------------------
(* healthDataLock *)

ReadLocked ==
  \/ \E c \in HealthClients : handler[c] = "sending"
  \/ \E p \in MetricPushers : pusher[p] = "sending"
WriterWaiting == \E p \in MetricPushers : pusher[p] = "lock"

(* stream.Send() on a stream that is closed or whose handler has returned. *)
SendFails(c) == c \in closed \/ handler[c] = "returned"

-----------------------------------------------------------------------------
(* WatchDeviceHealth(), WatchDeviceEvents() *)

(* Mutant: the client is registered before the initial data is sent.       *)
ConnectMutant(c) ==
  /\ handler[c] = "none" /\ c \in load.clients
  /\ stopper \in {"none", "stop"} /\ exporter # "forced"
  /\ handler' = [handler EXCEPT ![c] = IF c \in HealthClients THEN "initial"
                                       ELSE "store"]
  /\ registered' = registered \cup ({c} \cap HealthClients)
  /\ UNCHANGED <<healthData, errChan, pusher, ranging, batch, closed, lifecycle,
                 nHealth, nEvents, history>>

(* The server accepts calls until GracefulStop() or Stop().                *)
Connect(c) ==
  /\ handler[c] = "none" /\ c \in load.clients
  /\ stopper \in {"none", "stop"} /\ exporter # "forced"
  /\ handler' = [handler EXCEPT ![c] = IF c \in HealthClients THEN "initial"
                                       ELSE "store"]
  /\ UNCHANGED <<healthData, registered, errChan, pusher, ranging, batch, closed,
                 lifecycle, nHealth, nEvents, history>>

(* sendHealthData() before the client is registered: take the lock for     *)
(* reading; with no data yet there is nothing to send.                     *)
InitialLock(c) ==
  /\ handler[c] = "initial" /\ ~WriterWaiting
  /\ handler' = [handler EXCEPT ![c] = IF healthData = 0 THEN "store" ELSE "sending"]
  /\ UNCHANGED <<healthData, registered, errChan, pusher, ranging, batch, closed,
                 lifecycle, nHealth, nEvents, history>>

InitialSent(c) ==
  /\ handler[c] = "sending" /\ ~SendFails(c)
  /\ received' = [received EXCEPT ![c] = healthData]
  /\ handler' = [handler EXCEPT ![c] = "store"]
  /\ UNCHANGED <<healthData, registered, errChan, pusher, ranging, batch, closed,
                 lifecycle, nHealth, nEvents, gotEvents, pushed, owed>>

(* The initial send fails: the handler bails out.                          *)
InitialFailed(c) ==
  /\ handler[c] = "sending" /\ SendFails(c)
  /\ handler' = [handler EXCEPT ![c] = "returned"]
  /\ UNCHANGED <<healthData, registered, errChan, pusher, ranging, batch, closed,
                 lifecycle, nHealth, nEvents, history>>

Register(c) ==
  /\ handler[c] = "store"
  /\ registered' = registered \cup {c}
  /\ handler' = [handler EXCEPT ![c] = "select"]
  /\ UNCHANGED <<healthData, errChan, pusher, ranging, batch, closed, lifecycle,
                 nHealth, nEvents, history>>

(* Mutant: the handler does not listen to its error channel.               *)
HandlerReturnMutant(c) ==
  /\ handler[c] = "select"
  /\ stopChan
  /\ handler' = [handler EXCEPT ![c] = "returned"]
  /\ registered' = registered \ {c}
  /\ UNCHANGED <<healthData, errChan, pusher, ranging, batch, closed, lifecycle,
                 nHealth, nEvents, history>>

(* The handler's select: the server stops, the stream's context is done,   *)
(* or a send to the client has failed.  The deferred Delete() follows.     *)
HandlerReturn(c) ==
  /\ handler[c] = "select"
  /\ stopChan \/ c \in closed \/ c \in errChan
  /\ handler' = [handler EXCEPT ![c] = "returned"]
  /\ registered' = registered \ {c}
  /\ UNCHANGED <<healthData, errChan, pusher, ranging, batch, closed, lifecycle,
                 nHealth, nEvents, history>>

Disconnect(c) ==
  /\ handler[c] \notin {"none", "returned"}
  /\ c \notin closed
  /\ closed' = closed \cup {c}
  /\ UNCHANGED <<healthData, registered, errChan, handler, pusher, ranging, batch,
                 lifecycle, nHealth, nEvents, history>>

-----------------------------------------------------------------------------
(* pushMetrics(): updateHealthData(), broadcastHealthData() *)

(* The metrics are translated; the lock is asked for.                      *)
PushMetrics(p) ==
  /\ pusher[p] = "idle" /\ p \in load.pushers /\ nHealth < load.health
  /\ nHealth' = nHealth + 1
  /\ pusher' = [pusher EXCEPT ![p] = "lock"]
  /\ UNCHANGED <<healthData, registered, errChan, handler, ranging, batch, closed,
                 lifecycle, nEvents, history>>

BeginRange(p, clients) ==
  /\ todo' = [todo EXCEPT ![p] = registered \cap clients]
  /\ visited' = [visited EXCEPT ![p] = {}]
  /\ owed' = [owed EXCEPT ![p] = registered \cap clients]

(* The data is stored under the lock; Range() begins after it is released. *)
StoreHealthData(p) ==
  /\ pusher[p] = "lock" /\ ~ReadLocked
  /\ healthData' = healthData + 1
  /\ pushed' = [pushed EXCEPT ![p] = healthData + 1]
  /\ BeginRange(p, HealthClients)
  /\ pusher' = [pusher EXCEPT ![p] = "range"]
  /\ UNCHANGED <<registered, errChan, handler, current, unsent, batch, closed,
                 lifecycle, nHealth, nEvents, received, gotEvents>>

(* pushLogs(): broadcastEvents() of a batch of k translated events.  Every *)
(* event listener, one for a driver, has its own events.                   *)
PushLogs(p, k) ==
  /\ pusher[p] = "idle" /\ p \in load.pushers /\ nEvents + k <= load.events
  /\ nEvents' = nEvents + k
  /\ pushed' = [pushed EXCEPT ![p] = @ + k]
  /\ batch' = [batch EXCEPT ![p] = k]
  /\ BeginRange(p, EventClients)
  /\ pusher' = [pusher EXCEPT ![p] = "range"]
  /\ UNCHANGED <<healthData, registered, errChan, handler, current, unsent,
                 closed, lifecycle, nHealth, received, gotEvents>>

ClientsOf(p) == IF p \in MetricPushers THEN HealthClients ELSE EventClients

(* sync.Map.Range() visits every key that stays in the map, may visit keys *)
(* stored or deleted meanwhile, and visits none twice.                     *)
RangeNext(p) ==
  /\ pusher[p] = "range"
  /\ \E c \in (todo[p] \cup (registered \cap ClientsOf(p))) \ visited[p] :
       /\ todo' = [todo EXCEPT ![p] = @ \ {c}]
       /\ visited' = [visited EXCEPT ![p] = @ \cup {c}]
       /\ current' = [current EXCEPT ![p] = c]
  /\ unsent' = [unsent EXCEPT ![p] = batch[p]]
  /\ pusher' = [pusher EXCEPT ![p] = IF p \in MetricPushers THEN "rlock"
                                     ELSE "sending"]
  /\ UNCHANGED <<healthData, registered, errChan, handler, batch, closed, lifecycle,
                 nHealth, nEvents, history>>

RangeEnd(p) ==
  /\ pusher[p] = "range"
  /\ todo[p] \cap registered = {}
  /\ pusher' = [pusher EXCEPT ![p] = "idle"]
  /\ todo' = [todo EXCEPT ![p] = {}] /\ visited' = [visited EXCEPT ![p] = {}]
  /\ UNCHANGED <<healthData, registered, errChan, handler, current, unsent, batch,
                 closed, lifecycle, nHealth, nEvents, history>>

(* sendHealthData() of the broadcast takes the lock for reading.           *)
PusherLock(p) ==
  /\ pusher[p] = "rlock" /\ ~WriterWaiting
  /\ pusher' = [pusher EXCEPT ![p] = "sending"]
  /\ UNCHANGED <<healthData, registered, errChan, handler, ranging, batch, closed,
                 lifecycle, nHealth, nEvents, history>>

(* Mutant: a pusher sends the data it has translated itself.               *)
HealthSentMutant(p) ==
  /\ p \in MetricPushers
  /\ pusher[p] = "sending" /\ ~SendFails(current[p])
  /\ received' = [received EXCEPT ![current[p]] = pushed[p]]
  /\ pusher' = [pusher EXCEPT ![p] = "range"]
  /\ current' = [current EXCEPT ![p] = NoClient]
  /\ UNCHANGED <<healthData, registered, errChan, handler, todo, visited, unsent,
                 batch, closed, lifecycle, nHealth, nEvents, gotEvents, pushed, owed>>

(* The cached data, which may be newer than this push, reaches the client. *)
HealthSent(p) ==
  /\ p \in MetricPushers
  /\ pusher[p] = "sending" /\ ~SendFails(current[p])
  /\ received' = [received EXCEPT ![current[p]] = healthData]
  /\ pusher' = [pusher EXCEPT ![p] = "range"]
  /\ current' = [current EXCEPT ![p] = NoClient]
  /\ UNCHANGED <<healthData, registered, errChan, handler, todo, visited, unsent,
                 batch, closed, lifecycle, nHealth, nEvents, gotEvents, pushed, owed>>

(* Mutant: the loop over the events ends after the first one.              *)
EventSentMutant(p) ==
  /\ p \in LogPushers
  /\ pusher[p] = "sending" /\ ~SendFails(current[p])
  /\ gotEvents' = [gotEvents EXCEPT ![p][current[p]] = pushed[p] - unsent[p] + 1]
  /\ unsent' = [unsent EXCEPT ![p] = 0]
  /\ pusher' = [pusher EXCEPT ![p] = "range"]
  /\ current' = [current EXCEPT ![p] = NoClient]
  /\ UNCHANGED <<healthData, registered, errChan, handler, todo, visited, batch,
                 closed, lifecycle, nHealth, nEvents, received, pushed, owed>>

(* One event of the batch reaches the client.                              *)
EventSent(p) ==
  /\ p \in LogPushers
  /\ pusher[p] = "sending" /\ ~SendFails(current[p])
  /\ gotEvents' = [gotEvents EXCEPT ![p][current[p]] = pushed[p] - unsent[p] + 1]
  /\ unsent' = [unsent EXCEPT ![p] = @ - 1]
  /\ pusher' = [pusher EXCEPT ![p] = IF unsent[p] = 1 THEN "range" ELSE "sending"]
  /\ current' = [current EXCEPT ![p] = IF unsent[p] = 1 THEN NoClient ELSE @]
  /\ UNCHANGED <<healthData, registered, errChan, handler, todo, visited, batch,
                 closed, lifecycle, nHealth, nEvents, received, pushed, owed>>

(* Mutant: the first failing client ends the broadcast.                    *)
PusherSendFailedMutant(p) ==
  /\ pusher[p] = "sending" /\ SendFails(current[p])
  /\ errChan' = errChan \cup {current[p]}
  /\ pusher' = [pusher EXCEPT ![p] = "idle"]
  /\ todo' = [todo EXCEPT ![p] = {}] /\ visited' = [visited EXCEPT ![p] = {}]
  /\ unsent' = [unsent EXCEPT ![p] = 0]
  /\ current' = [current EXCEPT ![p] = NoClient]
  /\ UNCHANGED <<healthData, registered, handler, batch, closed, lifecycle, nHealth,
                 nEvents, history>>

(* The send fails: the handler is told unless it already was, the other    *)
(* events are not tried, Range() goes on with the next client.             *)
PusherSendFailed(p) ==
  /\ pusher[p] = "sending" /\ SendFails(current[p])
  /\ errChan' = errChan \cup {current[p]}
  /\ pusher' = [pusher EXCEPT ![p] = "range"]
  /\ unsent' = [unsent EXCEPT ![p] = 0]
  /\ current' = [current EXCEPT ![p] = NoClient]
  /\ UNCHANGED <<healthData, registered, handler, todo, visited, batch, closed,
                 lifecycle, nHealth, nEvents, history>>

-----------------------------------------------------------------------------
(* xpuInfoExporter.shutdown().  A second call finds started = FALSE and    *)
(* does nothing.                                                           *)

ShutdownBegin ==
  /\ exporter = "started"
  /\ exporter' = "stopping" /\ stopper' = "stop"
  /\ UNCHANGED <<healthData, registered, errChan, handler, pusher, ranging, batch,
                 closed, load, stopChan, nHealth, nEvents, history>>

(* infoServer.stop(), then grpcServer.GracefulStop().                      *)
StopperStop ==
  /\ stopper = "stop"
  /\ stopChan' = TRUE /\ stopper' = "drain"
  /\ UNCHANGED <<healthData, registered, errChan, handler, pusher, ranging, batch,
                 closed, load, exporter, nHealth, nEvents, history>>

(* GracefulStop() returns when no handler is running.                      *)
StopperDrained ==
  /\ stopper = "drain"
  /\ \A c \in Clients : handler[c] \in {"none", "returned"}
  /\ stopper' = "done"
  /\ UNCHANGED <<healthData, registered, errChan, handler, pusher, ranging, batch,
                 closed, load, stopChan, exporter, nHealth, nEvents, history>>

ShutdownGraceful ==
  /\ exporter = "stopping" /\ stopper = "done"
  /\ exporter' = "graceful"
  /\ UNCHANGED <<healthData, registered, errChan, handler, pusher, ranging, batch,
                 closed, load, stopChan, stopper, nHealth, nEvents, history>>

(* Mutant: after the timeout the streams are left open.                    *)
ShutdownTimeoutMutant ==
  /\ exporter = "stopping"
  /\ exporter' = "forced"
  /\ UNCHANGED <<healthData, registered, errChan, handler, pusher, ranging, batch,
                 closed, load, stopChan, stopper, nHealth, nEvents, history>>

(* shutdownTimeout has passed: Stop() closes every stream.                 *)
ShutdownTimeout ==
  /\ exporter = "stopping"
  /\ exporter' = "forced"
  /\ closed' = closed \cup {c \in Clients : handler[c] \notin {"none", "returned"}}
  /\ UNCHANGED <<healthData, registered, errChan, handler, pusher, ranging, batch,
                 load, stopChan, stopper, nHealth, nEvents, history>>

-----------------------------------------------------------------------------
Handle(c) ==
  InitialLock(c) \/ InitialFailed(c) \/ Register(c) \/ HandlerReturn(c)
Push(p) ==
  \/ RangeNext(p) \/ RangeEnd(p) \/ PusherLock(p) \/ PusherSendFailed(p)
  \/ p \in MetricPushers /\ StoreHealthData(p)
Shutdown ==
  StopperStop \/ StopperDrained \/ ShutdownGraceful \/ ShutdownTimeout

Next ==
  \/ \E c \in Clients : Connect(c) \/ Disconnect(c) \/ Handle(c) \/ InitialSent(c)
  \/ \E p \in MetricPushers : PushMetrics(p)
  \/ \E p \in LogPushers, k \in 1..load.events : PushLogs(p, k)
  \/ \E p \in Pushers : Push(p) \/ HealthSent(p) \/ EventSent(p)
  \/ ShutdownBegin
  \/ Shutdown

Spec == Init /\ [][Next]_vars

(* Every goroutine that can run does, and one that asks for the lock again *)
(* and again gets it.  A client need not read, so nothing makes Send()     *)
(* return while the stream is open; nobody has to push, to connect or to   *)
(* call shutdown().                                                        *)
Fairness ==
  /\ \A c \in HealthClients : SF_vars(Handle(c))
  /\ \A c \in EventClients : WF_vars(Handle(c))
  /\ \A p \in MetricPushers : SF_vars(Push(p))
  /\ \A p \in LogPushers : WF_vars(Push(p))
  /\ WF_vars(StopperStop) /\ WF_vars(StopperDrained)
  /\ WF_vars(ShutdownGraceful \/ ShutdownTimeout)

FairSpec == Spec /\ Fairness

-----------------------------------------------------------------------------
(* Correctness properties *)

(* The initial send of WatchDeviceHealth() and a broadcast never use the   *)
(* same stream at the same time; a gRPC stream allows one Send() only.     *)
InitialSendAlone ==
  \A c \in HealthClients, p \in MetricPushers :
    ~(handler[c] = "sending" /\ pusher[p] = "sending" /\ current[p] = c)

(* A client never receives older health data after newer data, although    *)
(* pushes overlap, and never an older event of a listener after a newer.   *)
NeverBackwards ==
  [][/\ \A c \in HealthClients : received'[c] >= received[c]
     /\ \A c \in EventClients, p \in LogPushers :
          gotEvents'[p][c] >= gotEvents[p][c]]_<<received, gotEvents>>

Failed(c) == c \in closed \/ handler[c] = "returned"

(* The last of what p pushes that c has received.                          *)
Received(c, p) == IF p \in MetricPushers THEN received[c] ELSE gotEvents[p][c]

(* When a push is through, every client that was registered when its       *)
(* broadcast began has received that push or something newer, unless its   *)
(* stream has failed: a failing client does not cut off the others.        *)
BroadcastComplete ==
  \A p \in Pushers : pusher[p] = "idle" =>
    \A c \in owed[p] : Received(c, p) >= pushed[p] \/ Failed(c)

(* A client that does not read holds the lock for reading, and a push      *)
(* waits for it: whoever asks for the lock next waits too.                 *)
Stalled == WriterWaiting /\ ReadLocked

(* The handler of a client whose stream broke returns, unless a client     *)
(* that never reads keeps the lock from everyone for ever; and shutdown()  *)
(* frees every goroutine, that stall included: the handlers return and no  *)
(* push stays blocked.                                                     *)
ClientsFreed ==
  /\ \/ <>[]Stalled
     \/ \A c \in Clients :
          c \in closed /\ handler[c] # "none" ~> handler[c] = "returned"
  /\ exporter = "stopping" ~>
       /\ exporter \in {"graceful", "forced"}
       /\ \A c \in Clients : handler[c] \in {"none", "returned"}
       /\ \A p \in Pushers : pusher[p] = "idle"
=============================================================================
