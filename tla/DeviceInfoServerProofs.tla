------------------------ MODULE DeviceInfoServerProofs ------------------------
(* Theorems about DeviceInfoServer, for any clients, pushers and bounds.   *)
EXTENDS DeviceInfoServer, TLAPS

-----------------------------------------------------------------------------
(* The inductive invariant *)

Known == {c \in Clients : handler[c] \in {"select", "returned"}}

(* A broadcast deals only with clients of its kind that have registered.   *)
PushInv ==
  /\ \A c \in Clients : handler[c] \in {"initial", "sending"} => c \in HealthClients
  /\ \A p \in Pushers :
       /\ todo[p] \subseteq Known \cap ClientsOf(p)
       /\ visited[p] \subseteq Known \cap ClientsOf(p)
       /\ owed[p] \subseteq Known \cap ClientsOf(p)
       /\ pusher[p] \in {"lock", "rlock"} => p \in MetricPushers
       /\ pusher[p] \in {"rlock", "sending"} => current[p] \in visited[p]

(* What clients have received is what was pushed to them so far; a client  *)
(* that is not visited yet has nothing of the batch, the current one has   *)
(* the events that are not unsent.                                         *)
ReceivedInv ==
  /\ \A c \in HealthClients : received[c] <= healthData
  /\ \A p \in MetricPushers : pushed[p] <= healthData
  /\ \A p \in LogPushers :
       /\ batch[p] <= pushed[p]
       /\ \A c \in EventClients : gotEvents[p][c] <= pushed[p]
       /\ pusher[p] = "sending" =>
            /\ unsent[p] \in 1..batch[p]
            /\ gotEvents[p][current[p]] <= pushed[p] - unsent[p]
       /\ pusher[p] # "idle" =>
            /\ batch[p] >= 1
            /\ \A c \in EventClients \ visited[p] :
                 gotEvents[p][c] <= pushed[p] - batch[p]

(* A client that is owed a push is still to be visited, is being sent to,  *)
(* has got it or has failed.                                               *)
Served(c, p) == Received(c, p) >= pushed[p] \/ Failed(c)

OwedInv ==
  \A p \in Pushers :
    /\ pusher[p] = "range" => \A c \in owed[p] : c \in todo[p] \/ Served(c, p)
    /\ pusher[p] \in {"rlock", "sending"} =>
         \A c \in owed[p] : c \in todo[p] \/ c = current[p] \/ Served(c, p)

(* A step takes back nothing that was received.                            *)
NoOlder ==
  /\ \A c \in HealthClients : received'[c] >= received[c]
  /\ \A c \in EventClients, p \in LogPushers : gotEvents'[p][c] >= gotEvents[p][c]

IInv == TypeOK /\ PushInv /\ ReceivedInv /\ OwedInv /\ BroadcastComplete

-----------------------------------------------------------------------------
(* The initial state *)

(* Before the first client connects nothing is owed.                       *)
LEMMA InitIInv == Init => IInv
<1> SUFFICES ASSUME Init PROVE IInv
  OBVIOUS
<1> USE DEF Init, Clients, Pushers
<1>1. TypeOK
  <2>1. load.health \in Nat /\ load.events \in Nat
    BY DeviceInfoAssumption
  <2>2. registered = {c \in Clients : handler[c] = "select"}
    OBVIOUS
  <2>3. nHealth \in 0..load.health /\ nEvents \in 0..load.events
    BY <2>1
  <2>4. /\ received \in [HealthClients -> Nat]
        /\ gotEvents \in [LogPushers -> [EventClients -> Nat]]
        /\ healthData \in Nat /\ pushed \in [Pushers -> Nat]
        /\ unsent \in [Pushers -> Nat] /\ batch \in [Pushers -> Nat]
    OBVIOUS
  <2>5. /\ todo \in [Pushers -> SUBSET Clients] /\ visited \in [Pushers -> SUBSET Clients]
        /\ owed \in [Pushers -> SUBSET Clients]
        /\ current \in [Pushers -> Clients \cup {NoClient}]
        /\ registered \subseteq Clients /\ errChan \subseteq Clients /\ closed \subseteq Clients
    OBVIOUS
  <2>6. /\ handler \in [Clients -> {"none", "initial", "sending", "store", "select",
                                    "returned"}]
        /\ pusher \in [Pushers -> {"idle", "lock", "range", "rlock", "sending"}]
        /\ stopChan \in BOOLEAN /\ exporter = "started" /\ stopper = "none"
        /\ load \in Workloads
    OBVIOUS
  <2> HIDE DEF Init, Clients, Pushers
  <2> QED BY <2>2, <2>3, <2>4, <2>5, <2>6 DEF TypeOK
<1>2. PushInv
  BY DEF PushInv
<1>3. ReceivedInv
  BY DEF ReceivedInv
<1>4. OwedInv /\ BroadcastComplete
  BY DEF OwedInv, BroadcastComplete
<1> QED BY <1>1, <1>2, <1>3, <1>4 DEF IInv

-----------------------------------------------------------------------------
(* Steps *)

(* The clients of a pusher are clients.                                    *)
LEMMA ClientsOfType ==
  ASSUME NEW p \in Pushers
  PROVE  /\ ClientsOf(p) \subseteq Clients
         /\ p \in MetricPushers => ClientsOf(p) = HealthClients
         /\ p \in LogPushers => ClientsOf(p) = EventClients /\ p \notin MetricPushers
         /\ p \in MetricPushers \/ p \in LogPushers
         /\ p \in MetricPushers => p \notin LogPushers
  BY DeviceInfoAssumption DEF ClientsOf, Clients, Pushers

(* Every step keeps the types: an event sent is one that was unsent.       *)
LEMMA TypeStep == TypeOK /\ PushInv /\ ReceivedInv /\ [Next]_vars => TypeOK'
<1> SUFFICES ASSUME TypeOK, PushInv, ReceivedInv, [Next]_vars PROVE TypeOK'
  OBVIOUS
<1> USE DEF lifecycle, ranging, history
<1>1. ASSUME NEW c \in Clients, Connect(c) PROVE TypeOK'
  BY <1>1, SMTT(60) DEF Connect, TypeOK
<1>2. ASSUME NEW c \in Clients, Disconnect(c) PROVE TypeOK'
  BY <1>2, SMTT(60) DEF Disconnect, TypeOK
<1>3. ASSUME NEW c \in Clients, InitialLock(c) PROVE TypeOK'
  BY <1>3, SMTT(60) DEF InitialLock, TypeOK
<1>4. ASSUME NEW c \in Clients, InitialSent(c) PROVE TypeOK'
  <2>1. /\ received' \in [HealthClients -> Nat]
        /\ handler' \in [Clients -> {"none", "initial", "sending", "store", "select",
                                     "returned"}]
        /\ handler[c] = "sending" /\ handler' = [handler EXCEPT ![c] = "store"]
    BY <1>4 DEF InitialSent, TypeOK
  <2>2. UNCHANGED <<healthData, registered, errChan, pusher, ranging, batch, closed,
                    lifecycle, nHealth, nEvents, gotEvents, pushed, owed>>
    BY <1>4 DEF InitialSent
  <2> QED BY <2>1, <2>2, SMTT(60) DEF TypeOK
<1>5. ASSUME NEW c \in Clients, InitialFailed(c) PROVE TypeOK'
  BY <1>5, SMTT(60) DEF InitialFailed, TypeOK
<1>6. ASSUME NEW c \in Clients, Register(c) PROVE TypeOK'
  BY <1>6, SMTT(60) DEF Register, TypeOK
<1>7. ASSUME NEW c \in Clients, HandlerReturn(c) PROVE TypeOK'
  BY <1>7, SMTT(60) DEF HandlerReturn, TypeOK
<1>8. ASSUME NEW p \in MetricPushers, PushMetrics(p) PROVE TypeOK'
  <2>1. p \in Pushers
    BY DEF Pushers
  <2>2. nHealth' \in 0..load.health
    BY <1>8, DeviceInfoAssumption DEF PushMetrics, TypeOK
  <2>3. pusher' \in [Pushers -> {"idle", "lock", "range", "rlock", "sending"}]
    BY <1>8, <2>1 DEF PushMetrics, TypeOK
  <2>4. UNCHANGED <<healthData, registered, errChan, handler, ranging, batch, closed,
                    lifecycle, nEvents, history>>
    BY <1>8 DEF PushMetrics
  <2> QED BY <2>2, <2>3, <2>4, SMTT(60) DEF TypeOK
<1>9. ASSUME NEW p \in MetricPushers, StoreHealthData(p) PROVE TypeOK'
  <2>1. p \in Pushers
    BY DEF Pushers
  <2> QED BY <1>9, <2>1, SMTT(60) DEF StoreHealthData, BeginRange, TypeOK
<1>10. ASSUME NEW p \in LogPushers, NEW k \in 1..load.events, PushLogs(p, k) PROVE TypeOK'
  <2>1. p \in Pushers
    BY DEF Pushers
  <2>2. nEvents' \in 0..load.events /\ k \in Nat
    BY <1>10, DeviceInfoAssumption DEF PushLogs, TypeOK
  <2>3. /\ pushed' \in [Pushers -> Nat] /\ batch' \in [Pushers -> Nat]
        /\ todo' \in [Pushers -> SUBSET Clients] /\ visited' \in [Pushers -> SUBSET Clients]
        /\ owed' \in [Pushers -> SUBSET Clients]
        /\ pusher' \in [Pushers -> {"idle", "lock", "range", "rlock", "sending"}]
    BY <1>10, <2>1, <2>2, SMTT(60) DEF PushLogs, BeginRange, TypeOK
  <2>4. UNCHANGED <<healthData, registered, errChan, handler, current, unsent,
                    closed, lifecycle, nHealth, received, gotEvents>>
    BY <1>10 DEF PushLogs
  <2> QED BY <2>2, <2>3, <2>4, SMTT(60) DEF TypeOK
<1>11. ASSUME NEW p \in Pushers, RangeNext(p) PROVE TypeOK'
  <2>1. PICK c \in (todo[p] \cup (registered \cap ClientsOf(p))) \ visited[p] :
          /\ todo' = [todo EXCEPT ![p] = @ \ {c}]
          /\ visited' = [visited EXCEPT ![p] = @ \cup {c}]
          /\ current' = [current EXCEPT ![p] = c]
    BY <1>11 DEF RangeNext
  <2>2. c \in Clients
    BY DEF TypeOK
  <2>3. /\ todo' \in [Pushers -> SUBSET Clients] /\ visited' \in [Pushers -> SUBSET Clients]
        /\ current' \in [Pushers -> Clients \cup {NoClient}]
    BY <2>1, <2>2 DEF TypeOK
  <2>4. /\ unsent' \in [Pushers -> Nat]
        /\ pusher' \in [Pushers -> {"idle", "lock", "range", "rlock", "sending"}]
        /\ UNCHANGED <<healthData, registered, errChan, handler, batch, closed, lifecycle,
                       nHealth, nEvents, history>>
    BY <1>11 DEF RangeNext, TypeOK
  <2> QED BY <2>3, <2>4, SMTT(60) DEF TypeOK
<1>12. ASSUME NEW p \in Pushers, RangeEnd(p) PROVE TypeOK'
  BY <1>12, SMTT(60) DEF RangeEnd, TypeOK
<1>13. ASSUME NEW p \in Pushers, PusherLock(p) PROVE TypeOK'
  BY <1>13, SMTT(60) DEF PusherLock, TypeOK
<1>14. ASSUME NEW p \in Pushers, HealthSent(p) PROVE TypeOK'
  <2>1. /\ received' \in [HealthClients -> Nat]
        /\ pusher' \in [Pushers -> {"idle", "lock", "range", "rlock", "sending"}]
        /\ current' \in [Pushers -> Clients \cup {NoClient}]
    BY <1>14 DEF HealthSent, TypeOK
  <2>2. UNCHANGED <<healthData, registered, errChan, handler, todo, visited, unsent,
                    batch, closed, lifecycle, nHealth, nEvents, gotEvents, pushed, owed>>
    BY <1>14 DEF HealthSent
  <2> QED BY <2>1, <2>2, SMTT(60) DEF TypeOK

<1>15. ASSUME NEW p \in Pushers, EventSent(p) PROVE TypeOK'
  <2>1. /\ batch[p] \in Nat /\ pushed[p] \in Nat /\ unsent[p] \in 1..batch[p]
        /\ batch[p] <= pushed[p]
    BY <1>15 DEF EventSent, ReceivedInv, TypeOK
  <2>2. unsent[p] - 1 \in Nat /\ pushed[p] - unsent[p] + 1 \in Nat
    BY <2>1
  <2>3. /\ unsent' \in [Pushers -> Nat]
        /\ gotEvents' \in [LogPushers -> [EventClients -> Nat]]
    BY <1>15, <2>2 DEF EventSent, TypeOK
  <2>4. /\ pusher' \in [Pushers -> {"idle", "lock", "range", "rlock", "sending"}]
        /\ current' \in [Pushers -> Clients \cup {NoClient}]
    BY <1>15 DEF EventSent, TypeOK
  <2>5. UNCHANGED <<healthData, registered, errChan, handler, todo, visited, batch,
                    closed, lifecycle, nHealth, nEvents, received, pushed, owed>>
    BY <1>15 DEF EventSent
  <2> QED BY <2>3, <2>4, <2>5, SMTT(60) DEF TypeOK
<1>16. ASSUME NEW p \in Pushers, PusherSendFailed(p) PROVE TypeOK'
  <2>1. current[p] \in Clients
    BY <1>16, ClientsOfType DEF PusherSendFailed, PushInv, Known
  <2>2. /\ errChan' \subseteq Clients
        /\ pusher' \in [Pushers -> {"idle", "lock", "range", "rlock", "sending"}]
        /\ unsent' \in [Pushers -> Nat]
        /\ current' \in [Pushers -> Clients \cup {NoClient}]
    BY <1>16, <2>1 DEF PusherSendFailed, TypeOK
  <2>3. UNCHANGED <<healthData, registered, handler, todo, visited, batch, closed,
                    lifecycle, nHealth, nEvents, history>>
    BY <1>16 DEF PusherSendFailed
  <2> QED BY <2>2, <2>3, SMTT(60) DEF TypeOK
<1>17. CASE ShutdownBegin \/ Shutdown
  <2>1. /\ stopChan' \in BOOLEAN
        /\ exporter' \in {"started", "stopping", "graceful", "forced"}
        /\ stopper' \in {"none", "stop", "drain", "done"}
        /\ closed' \subseteq Clients
        /\ UNCHANGED <<healthData, registered, errChan, handler, pusher, ranging, batch,
                       load, nHealth, nEvents, history>>
    BY <1>17 DEF ShutdownBegin, Shutdown, StopperStop, StopperDrained, ShutdownGraceful,
                 ShutdownTimeout, TypeOK
  <2> QED BY <2>1, SMTT(60) DEF TypeOK
<1>18. CASE UNCHANGED vars
  BY <1>18, SMTT(60) DEF vars, TypeOK
<1> QED BY <1>1, <1>2, <1>3, <1>4, <1>5, <1>6, <1>7, <1>8, <1>9, <1>10, <1>11, <1>12,
           <1>13, <1>14, <1>15, <1>16, <1>17, <1>18 DEF Next, Handle, Push

(* Handlers go from the registration to the return, and stay there.        *)
LEMMA KnownGrows ==
  ASSUME TypeOK, [Next]_vars
  PROVE  /\ Known \subseteq Known'
         /\ \A c \in Clients : handler'[c] \in {"initial", "sending"} =>
              handler[c] \in {"initial", "sending"} \/ c \in HealthClients
         /\ \A c \in Clients : Failed(c) => Failed(c)'
<1>1. CASE UNCHANGED <<handler, closed>>
  BY <1>1 DEF Known, Failed
<1>2. ASSUME NEW c \in Clients,
             \/ Connect(c) \/ Disconnect(c) \/ InitialLock(c) \/ InitialSent(c)
             \/ InitialFailed(c) \/ Register(c) \/ HandlerReturn(c)
      PROVE  /\ handler' \in [Clients -> {handler[x] : x \in Clients}
                                        \cup {"initial", "sending", "store", "select",
                                              "returned"}]
             /\ \A x \in Clients \ {c} : handler'[x] = handler[x]
             /\ handler[c] = "select" => handler'[c] \in {"select", "returned"}
             /\ handler[c] = "returned" => handler'[c] = "returned"
             /\ handler'[c] = "initial" => c \in HealthClients \/ handler[c] = "initial"
             /\ handler'[c] = "sending" => handler[c] \in {"initial", "sending"}
             /\ closed \subseteq closed'
  BY <1>2 DEF Connect, Disconnect, InitialLock, InitialSent, InitialFailed, Register,
              HandlerReturn, TypeOK
<1>3. CASE \E c \in Clients :
             \/ Connect(c) \/ Disconnect(c) \/ InitialLock(c) \/ InitialSent(c)
             \/ InitialFailed(c) \/ Register(c) \/ HandlerReturn(c)
  <2>1. PICK c \in Clients :
             \/ Connect(c) \/ Disconnect(c) \/ InitialLock(c) \/ InitialSent(c)
             \/ InitialFailed(c) \/ Register(c) \/ HandlerReturn(c)
    BY <1>3
  <2> QED BY <1>2, <2>1 DEF Known, Failed
<1>4. CASE ShutdownBegin \/ Shutdown
  <2>1. UNCHANGED handler /\ closed \subseteq closed'
    BY <1>4 DEF ShutdownBegin, Shutdown, StopperStop, StopperDrained, ShutdownGraceful,
                ShutdownTimeout
  <2> QED BY <2>1 DEF Known, Failed
<1>5. ASSUME NEW p \in Pushers,
             PushMetrics(p) \/ StoreHealthData(p) \/ Push(p) \/ HealthSent(p) \/ EventSent(p)
      PROVE  UNCHANGED <<handler, closed>>
  BY <1>5 DEF PushMetrics, StoreHealthData, Push, RangeNext, RangeEnd, PusherLock,
              PusherSendFailed, HealthSent, EventSent
<1>6. ASSUME NEW p \in Pushers, NEW k, PushLogs(p, k)
      PROVE  UNCHANGED <<handler, closed>>
  BY <1>6 DEF PushLogs
<1> QED BY <1>1, <1>3, <1>4, <1>5, <1>6 DEF Next, Handle, Pushers, vars

(* Who is broadcast to has registered, in every interleaving.              *)
LEMMA PushStep == TypeOK /\ PushInv /\ [Next]_vars => PushInv'
<1> SUFFICES ASSUME TypeOK, PushInv, [Next]_vars PROVE PushInv'
  OBVIOUS
<1>1. /\ Known \subseteq Known'
      /\ \A c \in Clients : handler'[c] \in {"initial", "sending"} => c \in HealthClients
  BY KnownGrows DEF PushInv
<1>2. registered \subseteq Known
  BY DEF TypeOK, Known
<1> DEFINE PI(p) == /\ todo[p] \subseteq Known \cap ClientsOf(p)
                    /\ visited[p] \subseteq Known \cap ClientsOf(p)
                    /\ owed[p] \subseteq Known \cap ClientsOf(p)
                    /\ pusher[p] \in {"lock", "rlock"} => p \in MetricPushers
                    /\ pusher[p] \in {"rlock", "sending"} => current[p] \in visited[p]
           Same(p) == /\ todo'[p] = todo[p] /\ visited'[p] = visited[p]
                      /\ owed'[p] = owed[p] /\ pusher'[p] = pusher[p]
                      /\ current'[p] = current[p]
<1>3. ASSUME NEW p \in Pushers, Same(p) PROVE PI(p)'
  BY <1>1, <1>3 DEF PushInv, ClientsOf
<1>4. SUFFICES \A p \in Pushers : PI(p)'
  BY <1>1 DEF PushInv
<1>5. CASE UNCHANGED <<todo, visited, owed, pusher, current>>
  BY <1>3, <1>5
<1>6. ASSUME NEW q \in Pushers,
             \/ PushMetrics(q) /\ q \in MetricPushers
             \/ RangeEnd(q) \/ PusherLock(q)
             \/ HealthSent(q) \/ EventSent(q) \/ PusherSendFailed(q)
      PROVE  \A p \in Pushers : PI(p)'
  <2>1. \A p \in Pushers \ {q} : Same(p)
    BY <1>6 DEF PushMetrics, RangeEnd, PusherLock, HealthSent, EventSent, PusherSendFailed,
                ranging, history, TypeOK
  <2>2. /\ todo'[q] \in {todo[q], {}} /\ owed'[q] = owed[q]
        /\ pusher'[q] = "sending" => /\ pusher[q] \in {"rlock", "sending"}
                                     /\ current'[q] = current[q] /\ visited'[q] = visited[q]
        /\ pusher'[q] # "rlock" /\ (pusher'[q] = "lock" => q \in MetricPushers)
        /\ visited'[q] \in {visited[q], {}}
    BY <1>6 DEF PushMetrics, RangeEnd, PusherLock, HealthSent, EventSent, PusherSendFailed,
                ranging, history, TypeOK
  <2>3. PI(q)'
    BY <1>1, <2>2 DEF PushInv, ClientsOf
  <2> QED BY <1>3, <2>1, <2>3
<1>7. ASSUME NEW q \in Pushers, StoreHealthData(q), q \in MetricPushers
      PROVE  \A p \in Pushers : PI(p)'
  <2>1. \A p \in Pushers \ {q} : Same(p)
    BY <1>7 DEF StoreHealthData, BeginRange, TypeOK
  <2>2. /\ todo'[q] = registered \cap HealthClients /\ visited'[q] = {}
        /\ owed'[q] = registered \cap HealthClients /\ pusher'[q] = "range"
    BY <1>7 DEF StoreHealthData, BeginRange, TypeOK
  <2>3. PI(q)'
    BY <1>1, <1>2, <1>7, <2>2 DEF ClientsOf
  <2> QED BY <1>3, <2>1, <2>3
<1>8. ASSUME NEW q \in LogPushers, NEW k, PushLogs(q, k)
      PROVE  \A p \in Pushers : PI(p)'
  <2>0. q \in Pushers /\ ClientsOf(q) = EventClients
    BY ClientsOfType DEF Pushers
  <2>1. \A p \in Pushers \ {q} : Same(p)
    BY <1>8 DEF PushLogs, BeginRange, TypeOK
  <2>2. /\ todo'[q] = registered \cap EventClients /\ visited'[q] = {}
        /\ owed'[q] = registered \cap EventClients /\ pusher'[q] = "range"
    BY <1>8, <2>0 DEF PushLogs, BeginRange, TypeOK
  <2>3. PI(q)'
    BY <1>1, <1>2, <2>0, <2>2 DEF ClientsOf
  <2> QED BY <1>3, <2>1, <2>3
<1>9. ASSUME NEW q \in Pushers, RangeNext(q)
      PROVE  \A p \in Pushers : PI(p)'
  <2>1. PICK c \in (todo[q] \cup (registered \cap ClientsOf(q))) \ visited[q] :
          /\ todo' = [todo EXCEPT ![q] = @ \ {c}]
          /\ visited' = [visited EXCEPT ![q] = @ \cup {c}]
          /\ current' = [current EXCEPT ![q] = c]
    BY <1>9 DEF RangeNext
  <2>2. c \in Known \cap ClientsOf(q)
    BY <1>2, <2>1 DEF PushInv
  <2>3. \A p \in Pushers \ {q} : Same(p)
    BY <1>9, <2>1 DEF RangeNext, history, TypeOK
  <2>4. /\ todo'[q] = todo[q] \ {c} /\ visited'[q] = visited[q] \cup {c}
        /\ owed'[q] = owed[q] /\ current'[q] = c
        /\ pusher'[q] = IF q \in MetricPushers THEN "rlock" ELSE "sending"
    BY <1>9, <2>1 DEF RangeNext, history, TypeOK
  <2>5. PI(q)'
    BY <1>1, <2>2, <2>4 DEF PushInv, ClientsOf
  <2> QED BY <1>3, <2>3, <2>5
<1>10. ASSUME NEW c \in Clients,
              \/ Connect(c) \/ Disconnect(c) \/ InitialLock(c) \/ InitialSent(c)
              \/ InitialFailed(c) \/ Register(c) \/ HandlerReturn(c)
       PROVE  UNCHANGED <<todo, visited, owed, pusher, current>>
  BY <1>10 DEF Connect, Disconnect, InitialLock, InitialSent, InitialFailed, Register,
               HandlerReturn, ranging, history
<1>11. CASE ShutdownBegin \/ Shutdown
  BY <1>5, <1>11 DEF ShutdownBegin, Shutdown, StopperStop, StopperDrained, ShutdownGraceful,
                     ShutdownTimeout, ranging, history
<1>12. CASE UNCHANGED vars
  BY <1>5, <1>12 DEF vars, ranging, history
<1> HIDE DEF PI
<1> QED BY <1>5, <1>6, <1>7, <1>8, <1>9, <1>10, <1>11, <1>12 DEF Next, Handle, Push, Pushers

(* What was received so far is what was pushed so far, whoever overlaps.   *)
LEMMA ReceivedStep ==
  TypeOK /\ PushInv /\ ReceivedInv /\ [Next]_vars => ReceivedInv' /\ NoOlder
<1> SUFFICES ASSUME TypeOK, PushInv, ReceivedInv, [Next]_vars PROVE ReceivedInv' /\ NoOlder
  OBVIOUS
<1>1. /\ healthData \in Nat /\ received \in [HealthClients -> Nat]
      /\ gotEvents \in [LogPushers -> [EventClients -> Nat]]
      /\ pushed \in [Pushers -> Nat] /\ batch \in [Pushers -> Nat]
      /\ unsent \in [Pushers -> Nat] /\ visited \in [Pushers -> SUBSET Clients]
      /\ pusher \in [Pushers -> {"idle", "lock", "range", "rlock", "sending"}]
      /\ current \in [Pushers -> Clients \cup {NoClient}]
  BY DEF TypeOK
<1>2. /\ MetricPushers \subseteq Pushers /\ LogPushers \subseteq Pushers
      /\ MetricPushers \cap LogPushers = {} /\ Pushers = MetricPushers \cup LogPushers
  BY DeviceInfoAssumption DEF Pushers
<1>3. \A p \in LogPushers :
        /\ pusher[p] \notin {"lock", "rlock"}
        /\ pusher[p] = "sending" => current[p] \in visited[p] /\ current[p] \in EventClients
  BY <1>2, ClientsOfType DEF PushInv
<1> DEFINE Health == /\ \A c \in HealthClients : received[c] <= healthData
                     /\ \A p \in MetricPushers : pushed[p] <= healthData
           EI(p) == /\ batch[p] <= pushed[p]
                    /\ \A c \in EventClients : gotEvents[p][c] <= pushed[p]
                    /\ pusher[p] = "sending" =>
                         /\ unsent[p] \in 1..batch[p]
                         /\ gotEvents[p][current[p]] <= pushed[p] - unsent[p]
                    /\ pusher[p] # "idle" =>
                         /\ batch[p] >= 1
                         /\ \A c \in EventClients \ visited[p] :
                              gotEvents[p][c] <= pushed[p] - batch[p]
           Same(p) == /\ batch'[p] = batch[p] /\ pushed'[p] = pushed[p]
                      /\ gotEvents'[p] = gotEvents[p] /\ pusher'[p] = pusher[p]
                      /\ unsent'[p] = unsent[p] /\ current'[p] = current[p]
                      /\ visited'[p] = visited[p]
<1>4. Health /\ \A p \in LogPushers : EI(p)
  BY DEF ReceivedInv
<1>5. ASSUME NEW p \in LogPushers, Same(p) PROVE EI(p)'
  BY <1>4, <1>5
<1>6. SUFFICES /\ Health' /\ \A p \in LogPushers : EI(p)'
               /\ \A c \in HealthClients : received'[c] >= received[c]
               /\ \A c \in EventClients, p \in LogPushers :
                    gotEvents'[p][c] >= gotEvents[p][c]
  BY DEF ReceivedInv, NoOlder
<1>7. CASE UNCHANGED <<healthData, batch, pushed, received, gotEvents, pusher, unsent,
                       current, visited>>
  BY <1>1, <1>4, <1>5, <1>7
<1>8. ASSUME NEW c \in Clients, InitialSent(c)
      PROVE  /\ UNCHANGED <<healthData, batch, pushed, gotEvents, pusher, unsent, current,
                            visited>>
             /\ received' = [received EXCEPT ![c] = healthData]
  BY <1>8 DEF InitialSent, ranging
<1>9. CASE \E c : /\ UNCHANGED <<healthData, batch, pushed, gotEvents, pusher, unsent,
                                 current, visited>>
                  /\ received' = [received EXCEPT ![c] = healthData]
  <2>1. \A p \in LogPushers : EI(p)'
    BY <1>5, <1>9
  <2>2. Health' /\ \A c \in HealthClients : received'[c] >= received[c]
    BY <1>1, <1>2, <1>4, <1>9
  <2>3. UNCHANGED gotEvents
    BY <1>9
  <2> QED BY <1>1, <2>1, <2>2, <2>3
<1>10. ASSUME NEW q \in MetricPushers, HealthSent(q)
       PROVE  /\ Health' /\ \A p \in LogPushers : EI(p)'
              /\ \A c \in HealthClients : received'[c] >= received[c]
              /\ UNCHANGED gotEvents
  <2>1. \A p \in LogPushers : Same(p)
    BY <1>1, <1>2, <1>10 DEF HealthSent
  <2>2. /\ UNCHANGED <<healthData, pushed, gotEvents>>
        /\ received' = [received EXCEPT ![current[q]] = healthData]
    BY <1>10 DEF HealthSent
  <2>3. Health' /\ \A c \in HealthClients : received'[c] >= received[c]
    BY <1>1, <1>2, <1>4, <2>2
  <2> QED BY <1>5, <2>1, <2>2, <2>3
<1>11. ASSUME NEW q \in MetricPushers,
              PushMetrics(q) \/ RangeNext(q) \/ RangeEnd(q) \/ PusherLock(q)
              \/ PusherSendFailed(q) \/ StoreHealthData(q)
       PROVE  /\ Health' /\ \A p \in LogPushers : EI(p)'
              /\ UNCHANGED <<received, gotEvents>>
  <2>1. \A p \in LogPushers : Same(p)
    BY <1>1, <1>2, <1>11 DEF PushMetrics, RangeNext, RangeEnd, PusherLock, PusherSendFailed,
                             StoreHealthData, BeginRange, ranging, history
  <2>2. /\ UNCHANGED <<received, gotEvents>>
        /\ \/ UNCHANGED <<healthData, pushed>>
           \/ /\ healthData' = healthData + 1
              /\ pushed' = [pushed EXCEPT ![q] = healthData + 1]
    BY <1>11 DEF PushMetrics, RangeNext, RangeEnd, PusherLock, PusherSendFailed,
                 StoreHealthData, history
  <2>3. Health'
    BY <1>1, <1>2, <1>4, <2>2
  <2> QED BY <1>5, <2>1, <2>2, <2>3
<1>12. ASSUME NEW q \in LogPushers,
              RangeNext(q) \/ RangeEnd(q) \/ PusherLock(q) \/ PusherSendFailed(q)
       PROVE  /\ Health' /\ \A p \in LogPushers : EI(p)'
              /\ UNCHANGED <<received, gotEvents>>
  <2>1. \A p \in LogPushers \ {q} : Same(p)
    BY <1>1, <1>2, <1>12 DEF RangeNext, RangeEnd, PusherLock, PusherSendFailed, ranging,
                             history
  <2>2. UNCHANGED <<healthData, pushed, received, gotEvents, batch>>
    BY <1>12 DEF RangeNext, RangeEnd, PusherLock, PusherSendFailed, history
  <2>3. Health'
    BY <1>4, <2>2
  <2>4. EI(q)'
    <3>1. CASE RangeNext(q)
      <4>1. PICK c \in (todo[q] \cup (registered \cap ClientsOf(q))) \ visited[q] :
              /\ visited' = [visited EXCEPT ![q] = @ \cup {c}]
              /\ current' = [current EXCEPT ![q] = c]
        BY <3>1 DEF RangeNext
      <4>2. /\ visited'[q] = visited[q] \cup {c} /\ current'[q] = c
            /\ unsent'[q] = batch[q] /\ pusher'[q] = "sending" /\ pusher[q] = "range"
        BY <1>1, <1>2, <3>1, <4>1 DEF RangeNext
      <4>3. c \in EventClients \ visited[q]
        <5>1. registered \cap ClientsOf(q) \subseteq EventClients /\ todo[q] \subseteq EventClients
          BY <1>2, ClientsOfType DEF PushInv
        <5> QED BY <4>1, <5>1
      <4>4. /\ batch[q] >= 1 /\ batch[q] \in Nat /\ gotEvents[q][c] <= pushed[q] - batch[q]
        BY <1>1, <1>2, <1>4, <4>2, <4>3
      <4> QED BY <1>1, <1>2, <1>4, <2>2, <4>2, <4>4
    <3>2. CASE RangeEnd(q)
      <4>1. pusher'[q] = "idle"
        BY <1>1, <1>2, <3>2 DEF RangeEnd
      <4> QED BY <1>4, <2>2, <4>1
    <3>3. CASE PusherLock(q)
      BY <1>3, <3>3 DEF PusherLock
    <3>4. CASE PusherSendFailed(q)
      <4>1. pusher'[q] = "range" /\ pusher[q] = "sending" /\ visited'[q] = visited[q]
        BY <1>1, <1>2, <3>4 DEF PusherSendFailed
      <4> QED BY <1>4, <2>2, <4>1
    <3> QED BY <1>12, <3>1, <3>2, <3>3, <3>4
  <2> QED BY <1>5, <2>1, <2>2, <2>3, <2>4
<1>13. ASSUME NEW q \in LogPushers, EventSent(q)
       PROVE  /\ Health' /\ \A p \in LogPushers : EI(p)'
              /\ UNCHANGED received
              /\ \A c \in EventClients, p \in LogPushers : gotEvents'[p][c] >= gotEvents[p][c]
  <2>1. \A p \in LogPushers \ {q} : Same(p)
    BY <1>1, <1>2, <1>13 DEF EventSent
  <2>2. /\ UNCHANGED <<healthData, pushed, received, batch, visited>>
        /\ gotEvents' = [gotEvents EXCEPT ![q][current[q]] = pushed[q] - unsent[q] + 1]
        /\ pusher[q] = "sending"
        /\ pusher'[q] = IF unsent[q] = 1 THEN "range" ELSE "sending"
        /\ current'[q] = IF unsent[q] = 1 THEN NoClient ELSE current[q]
        /\ unsent'[q] = unsent[q] - 1
    BY <1>1, <1>2, <1>13 DEF EventSent
  <2>3. /\ current[q] \in visited[q] /\ current[q] \in EventClients
        /\ batch[q] \in Nat /\ pushed[q] \in Nat /\ unsent[q] \in 1..batch[q]
        /\ batch[q] <= pushed[q]
        /\ gotEvents[q][current[q]] \in Nat
        /\ gotEvents[q][current[q]] <= pushed[q] - unsent[q]
    BY <1>1, <1>2, <1>3, <1>4, <2>2
  <2>4. /\ gotEvents'[q][current[q]] = pushed[q] - unsent[q] + 1
        /\ \A c \in EventClients \ {current[q]} : gotEvents'[q][c] = gotEvents[q][c]
    BY <1>1, <2>2, <2>3
  <2>5. EI(q)'
    <3>1. /\ batch[q] >= 1
          /\ \A c \in EventClients \ visited[q] : gotEvents[q][c] <= pushed[q] - batch[q]
          /\ \A c \in EventClients : gotEvents[q][c] <= pushed[q]
      BY <1>4, <2>2
    <3>2. \A c \in EventClients : gotEvents'[q][c] <= pushed[q]
      BY <2>3, <2>4, <3>1
    <3>3. \A c \in EventClients \ visited[q] : gotEvents'[q][c] <= pushed[q] - batch[q]
      BY <2>3, <2>4, <3>1
    <3>4. pusher'[q] = "sending" =>
            /\ unsent'[q] \in 1..batch[q] /\ current'[q] = current[q]
            /\ gotEvents'[q][current[q]] <= pushed[q] - unsent'[q]
      BY <2>2, <2>3, <2>4
    <3> QED BY <2>2, <2>3, <3>1, <3>2, <3>3, <3>4
  <2>6. Health'
    BY <1>4, <2>2
  <2>7. \A c \in EventClients, p \in LogPushers : gotEvents'[p][c] >= gotEvents[p][c]
    BY <1>1, <2>1, <2>3, <2>4
  <2> QED BY <1>5, <2>1, <2>2, <2>5, <2>6, <2>7
<1>14. ASSUME NEW q \in LogPushers, NEW k \in 1..load.events, PushLogs(q, k)
       PROVE  /\ Health' /\ \A p \in LogPushers : EI(p)'
              /\ UNCHANGED <<received, gotEvents>>
  <2>1. \A p \in LogPushers \ {q} : Same(p)
    BY <1>1, <1>2, <1>14 DEF PushLogs, BeginRange
  <2>2. /\ UNCHANGED <<healthData, received, gotEvents>>
        /\ pushed'[q] = pushed[q] + k /\ batch'[q] = k /\ pusher'[q] = "range"
        /\ \A p \in MetricPushers : pushed'[p] = pushed[p]
    BY <1>1, <1>2, <1>14 DEF PushLogs
  <2>3. k \in Nat /\ k >= 1 /\ pushed[q] \in Nat
    BY <1>1, <1>2, DeviceInfoAssumption DEF TypeOK
  <2>4. \A c \in EventClients : gotEvents[q][c] \in Nat /\ gotEvents[q][c] <= pushed[q]
    BY <1>1, <1>4
  <2>5. EI(q)'
    BY <2>2, <2>3, <2>4
  <2>6. Health'
    BY <1>4, <2>2
  <2> QED BY <1>5, <2>1, <2>2, <2>5, <2>6
<1>15. ASSUME NEW c \in Clients,
              \/ Connect(c) \/ Disconnect(c) \/ InitialLock(c) \/ InitialFailed(c)
              \/ Register(c) \/ HandlerReturn(c)
       PROVE  UNCHANGED <<healthData, batch, pushed, received, gotEvents, pusher, unsent,
                          current, visited>>
  BY <1>15 DEF Connect, Disconnect, InitialLock, InitialFailed, Register, HandlerReturn,
               ranging, history
<1>16. CASE ShutdownBegin \/ Shutdown
  BY <1>7, <1>16 DEF ShutdownBegin, Shutdown, StopperStop, StopperDrained, ShutdownGraceful,
                     ShutdownTimeout, ranging, history
<1>17. CASE UNCHANGED vars
  BY <1>7, <1>17 DEF vars, ranging, history
<1>18. \A q \in Pushers : HealthSent(q) => q \in MetricPushers
  BY DEF HealthSent
<1>19. \A q \in Pushers : EventSent(q) => q \in LogPushers
  BY DEF EventSent
<1>20. /\ UNCHANGED received => \A c \in HealthClients : received'[c] >= received[c]
       /\ UNCHANGED gotEvents =>
            \A c \in EventClients, p \in LogPushers : gotEvents'[p][c] >= gotEvents[p][c]
  BY <1>1
<1> DEFINE G == /\ Health' /\ \A p \in LogPushers : EI(p)'
                /\ \A c \in HealthClients : received'[c] >= received[c]
                /\ \A c \in EventClients, p \in LogPushers :
                     gotEvents'[p][c] >= gotEvents[p][c]
<1> HIDE DEF Health, EI
<1>21. ASSUME NEW c \in Clients, Connect(c) \/ Disconnect(c) \/ Handle(c) \/ InitialSent(c)
       PROVE  G
  BY <1>7, <1>8, <1>9, <1>15, <1>21 DEF Handle
<1>22. ASSUME NEW q \in Pushers, Push(q) \/ HealthSent(q) \/ EventSent(q) PROVE G
  BY <1>2, <1>10, <1>11, <1>12, <1>13, <1>18, <1>19, <1>20, <1>22 DEF Push
<1>23. ASSUME NEW q \in MetricPushers, PushMetrics(q) PROVE G
  BY <1>11, <1>20, <1>23
<1>24. ASSUME NEW q \in LogPushers, NEW k \in 1..load.events, PushLogs(q, k) PROVE G
  BY <1>14, <1>20, <1>24
<1>25. G
  BY <1>16, <1>17, <1>21, <1>22, <1>23, <1>24 DEF Next
<1> QED BY <1>25

(* Nobody who is owed a push is forgotten, and the end of the range finds  *)
(* only clients that got it or have failed.                                *)
LEMMA OwedStep ==
  TypeOK /\ PushInv /\ ReceivedInv /\ OwedInv /\ BroadcastComplete /\ [Next]_vars =>
    OwedInv' /\ BroadcastComplete'
<1> SUFFICES ASSUME TypeOK, PushInv, ReceivedInv, OwedInv, BroadcastComplete, [Next]_vars
             PROVE  OwedInv' /\ BroadcastComplete'
  OBVIOUS
<1> DEFINE OI(p) == /\ pusher[p] = "range" => \A c \in owed[p] : c \in todo[p] \/ Served(c, p)
                    /\ pusher[p] \in {"rlock", "sending"} =>
                         \A c \in owed[p] : c \in todo[p] \/ c = current[p] \/ Served(c, p)
                    /\ pusher[p] = "idle" => \A c \in owed[p] : Served(c, p)
           Same(p) == /\ todo'[p] = todo[p] /\ owed'[p] = owed[p] /\ pusher'[p] = pusher[p]
                      /\ current'[p] = current[p] /\ pushed'[p] = pushed[p]
<1>1. /\ todo \in [Pushers -> SUBSET Clients] /\ owed \in [Pushers -> SUBSET Clients]
      /\ pusher \in [Pushers -> {"idle", "lock", "range", "rlock", "sending"}]
      /\ current \in [Pushers -> Clients \cup {NoClient}]
      /\ pushed \in [Pushers -> Nat] /\ healthData \in Nat
      /\ received \in [HealthClients -> Nat]
      /\ gotEvents \in [LogPushers -> [EventClients -> Nat]]
  BY DEF TypeOK
<1>2. \A p \in Pushers : OI(p)
  BY DEF OwedInv, BroadcastComplete, Served
<1>3. NoOlder /\ \A c \in Clients : Failed(c) => Failed(c)'
  BY ReceivedStep, KnownGrows
<1>4. ASSUME NEW p \in Pushers, NEW c \in owed[p], pushed'[p] = pushed[p], Served(c, p)
      PROVE  Served(c, p)'
  <2>1. c \in Clients
    BY <1>1
  <2>2. CASE Failed(c)
    BY <1>3, <2>1, <2>2 DEF Served
  <2>3. CASE p \in MetricPushers /\ Received(c, p) >= pushed[p]
    <3>1. c \in HealthClients
      BY <2>3, ClientsOfType DEF PushInv
    <3>2. /\ received'[c] >= received[c] /\ received[c] >= pushed[p]
          /\ received[c] \in Nat /\ pushed[p] \in Nat
          /\ received' \in [HealthClients -> Nat]
      BY <1>1, <1>3, <2>3, <3>1, TypeStep DEF NoOlder, Received, TypeOK
    <3>3. received'[c] >= pushed'[p]
      BY <1>4, <3>1, <3>2
    <3> QED BY <2>3, <3>3 DEF Served, Received
  <2>4. CASE p \notin MetricPushers /\ Received(c, p) >= pushed[p]
    <3>1. p \in LogPushers /\ c \in EventClients
      BY <2>4, ClientsOfType DEF PushInv
    <3>2. /\ gotEvents'[p][c] >= gotEvents[p][c] /\ gotEvents[p][c] >= pushed[p]
          /\ gotEvents[p][c] \in Nat /\ pushed[p] \in Nat
          /\ gotEvents' \in [LogPushers -> [EventClients -> Nat]]
      BY <1>1, <1>3, <2>4, <3>1, TypeStep DEF NoOlder, Received, TypeOK
    <3>3. gotEvents'[p][c] >= pushed'[p]
      BY <1>4, <3>1, <3>2
    <3> QED BY <2>4, <3>3 DEF Served, Received
  <2> QED BY <1>4, <2>2, <2>3, <2>4 DEF Served
<1>5. ASSUME NEW p \in Pushers, Same(p) PROVE OI(p)'
  BY <1>2, <1>4, <1>5
<1>6. SUFFICES \A p \in Pushers : OI(p)'
  BY DEF OwedInv, BroadcastComplete, Served
<1>7. CASE UNCHANGED <<todo, owed, pusher, current, pushed>>
  BY <1>5, <1>7
<1>8. ASSUME NEW q \in Pushers, RangeNext(q) PROVE \A p \in Pushers : OI(p)'
  <2>1. PICK c : /\ todo' = [todo EXCEPT ![q] = @ \ {c}]
                 /\ current' = [current EXCEPT ![q] = c]
    BY <1>8 DEF RangeNext
  <2>2. /\ UNCHANGED <<owed, pushed>> /\ pusher[q] = "range"
        /\ pusher' = [pusher EXCEPT ![q] = IF q \in MetricPushers THEN "rlock" ELSE "sending"]
    BY <1>8 DEF RangeNext, history
  <2>3. \A p \in Pushers \ {q} : Same(p)
    BY <1>1, <2>1, <2>2
  <2>4. /\ todo'[q] = todo[q] \ {c} /\ current'[q] = c
        /\ pusher'[q] \in {"rlock", "sending"}
    BY <1>1, <2>1, <2>2
  <2>5. \A x \in owed[q] : x \in todo'[q] \/ x = current'[q] \/ Served(x, q)
    BY <1>2, <2>2, <2>4
  <2>6. OI(q)'
    BY <1>4, <2>2, <2>4, <2>5
  <2> QED BY <1>5, <2>3, <2>6
<1>9. ASSUME NEW q \in Pushers, RangeEnd(q) PROVE \A p \in Pushers : OI(p)'
  <2>1. /\ UNCHANGED <<owed, pushed, current>> /\ pusher[q] = "range"
        /\ todo[q] \cap registered = {}
        /\ \A p \in Pushers \ {q} : Same(p)
        /\ pusher'[q] = "idle"
    BY <1>1, <1>9 DEF RangeEnd, history
  <2>2. ASSUME NEW c \in owed[q], c \in todo[q] PROVE Failed(c)
    <3>1. c \in Clients /\ handler[c] \in {"select", "returned"}
      BY DEF PushInv, Known
    <3>2. c \notin registered
      BY <2>1, <2>2
    <3> QED BY <3>1, <3>2 DEF TypeOK, Failed
  <2>3. \A c \in owed[q] : Served(c, q)
    BY <1>2, <2>1, <2>2 DEF Served
  <2>4. OI(q)'
    BY <1>4, <2>1, <2>3
  <2> QED BY <1>5, <2>1, <2>4
<1>10. ASSUME NEW q \in Pushers, PusherLock(q) PROVE \A p \in Pushers : OI(p)'
  <2>1. /\ UNCHANGED <<owed, pushed, current, todo>> /\ pusher[q] = "rlock"
        /\ \A p \in Pushers \ {q} : Same(p)
        /\ pusher'[q] = "sending"
    BY <1>1, <1>10 DEF PusherLock, ranging, history
  <2>2. OI(q)'
    BY <1>2, <1>4, <2>1
  <2> QED BY <1>5, <2>1, <2>2
<1>11. ASSUME NEW q \in Pushers, HealthSent(q) PROVE \A p \in Pushers : OI(p)'
  <2>1. /\ UNCHANGED <<owed, pushed, todo>> /\ pusher[q] = "sending"
        /\ \A p \in Pushers \ {q} : Same(p)
        /\ pusher'[q] = "range" /\ q \in MetricPushers
        /\ received' = [received EXCEPT ![current[q]] = healthData]
    BY <1>1, <1>11 DEF HealthSent
  <2>2. current[q] \in HealthClients
    BY <2>1, ClientsOfType DEF PushInv
  <2>3. \A c : c = current[q] => Served(c, q)'
    <3>1. received'[current[q]] = healthData /\ pushed'[q] = pushed[q] /\ pushed[q] <= healthData
      BY <1>1, <2>1, <2>2 DEF ReceivedInv
    <3>2. received'[current[q]] >= pushed'[q]
      BY <1>1, <3>1
    <3>3. \A x : received'[x] >= pushed'[q] => Served(x, q)'
      BY <2>1 DEF Served, Received
    <3> QED BY <3>2, <3>3
  <2>4. OI(q)'
    BY <1>2, <1>4, <2>1, <2>3
  <2> QED BY <1>5, <2>1, <2>4
<1>12. ASSUME NEW q \in Pushers, EventSent(q) PROVE \A p \in Pushers : OI(p)'
  <2>1. /\ UNCHANGED <<owed, pushed, todo>> /\ pusher[q] = "sending"
        /\ \A p \in Pushers \ {q} : Same(p)
        /\ q \in LogPushers /\ q \notin MetricPushers
        /\ gotEvents' = [gotEvents EXCEPT ![q][current[q]] = pushed[q] - unsent[q] + 1]
        /\ pusher'[q] = IF unsent[q] = 1 THEN "range" ELSE "sending"
        /\ current'[q] = IF unsent[q] = 1 THEN NoClient ELSE current[q]
    BY <1>1, <1>12, ClientsOfType DEF EventSent
  <2>2. current[q] \in EventClients
    BY <2>1, ClientsOfType DEF PushInv
  <2>3. CASE unsent[q] = 1
    <3>1. gotEvents'[q][current[q]] = pushed[q] - 1 + 1 /\ pushed[q] \in Nat /\ pushed'[q] = pushed[q]
      BY <1>1, <2>1, <2>2, <2>3
    <3>2. gotEvents'[q][current[q]] >= pushed'[q]
      BY <3>1
    <3>3. \A x : gotEvents'[q][x] >= pushed'[q] => Served(x, q)'
      BY <2>1 DEF Served, Received
    <3>4. \A c : c = current[q] => Served(c, q)'
      BY <3>2, <3>3
    <3>5. OI(q)'
      BY <1>2, <1>4, <2>1, <2>3, <3>4
    <3> QED BY <1>5, <2>1, <3>5
  <2>4. CASE unsent[q] # 1
    <3>1. Same(q)
      BY <2>1, <2>4
    <3> QED BY <1>5, <2>1, <3>1
  <2> QED BY <2>3, <2>4
<1>13. ASSUME NEW q \in Pushers, PusherSendFailed(q) PROVE \A p \in Pushers : OI(p)'
  <2>1. /\ UNCHANGED <<owed, pushed, todo>> /\ pusher[q] = "sending"
        /\ \A p \in Pushers \ {q} : Same(p)
        /\ pusher'[q] = "range" /\ SendFails(current[q])
    BY <1>1, <1>13 DEF PusherSendFailed, history
  <2>2. Served(current[q], q)
    BY <2>1 DEF SendFails, Served, Failed
  <2>3. \A c \in owed[q] : c \in todo[q] \/ Served(c, q)
    BY <1>2, <2>1, <2>2
  <2>4. OI(q)'
    BY <1>4, <2>1, <2>3
  <2> QED BY <1>5, <2>1, <2>4
<1>14. ASSUME NEW q \in MetricPushers, PushMetrics(q) PROVE \A p \in Pushers : OI(p)'
  <2>1. q \in Pushers
    BY DEF Pushers
  <2>2. pusher'[q] = "lock" /\ \A p \in Pushers \ {q} : Same(p)
    BY <1>1, <1>14, <2>1 DEF PushMetrics, ranging, history
  <2> QED BY <1>5, <2>1, <2>2
<1>15. ASSUME NEW q \in Pushers,
              StoreHealthData(q) \/ (\E k : PushLogs(q, k))
       PROVE \A p \in Pushers : OI(p)'
  <2>1. /\ pusher'[q] = "range" /\ owed'[q] = todo'[q]
        /\ \A p \in Pushers \ {q} : Same(p)
    <3>1. CASE StoreHealthData(q)
      BY <1>1, <3>1, SMTT(30) DEF StoreHealthData, BeginRange
    <3>2. CASE \E k : PushLogs(q, k)
      BY <1>1, <3>2, SMTT(30) DEF PushLogs, BeginRange
    <3> QED BY <1>15, <3>1, <3>2
  <2> QED BY <1>5, <2>1
<1>16. ASSUME NEW c \in Clients, Connect(c) \/ Disconnect(c) \/ Handle(c) \/ InitialSent(c)
       PROVE  UNCHANGED <<todo, owed, pusher, current, pushed>>
  BY <1>16 DEF Connect, Disconnect, Handle, InitialLock, InitialSent, InitialFailed,
               Register, HandlerReturn, ranging, history
<1>17. CASE ShutdownBegin \/ Shutdown
  BY <1>7, <1>17 DEF ShutdownBegin, Shutdown, StopperStop, StopperDrained, ShutdownGraceful,
                     ShutdownTimeout, ranging, history
<1>18. CASE UNCHANGED vars
  BY <1>7, <1>18 DEF vars, ranging, history
<1> HIDE DEF OI
<1> QED BY <1>7, <1>8, <1>9, <1>10, <1>11, <1>12, <1>13, <1>14, <1>15, <1>16, <1>17, <1>18
    DEF Next, Push, Pushers

-----------------------------------------------------------------------------
(* Theorems *)

(* IInv holds in every reachable state.                                    *)
THEOREM Invariance == Spec => []IInv
<1>1. IInv /\ [Next]_vars => IInv'
  BY TypeStep, PushStep, ReceivedStep, OwedStep DEF IInv
<1> QED BY InitIInv, <1>1, PTL DEF Spec

(* The initial send to a client and a broadcast to it never overlap: the   *)
(* client is registered after the initial data has been sent.              *)
THEOREM InitialSendIsAlone == Spec => []InitialSendAlone
<1>1. IInv => InitialSendAlone
  BY DEF IInv, PushInv, Known, Pushers, InitialSendAlone
<1> QED BY Invariance, <1>1, PTL

(* A push that is through has reached every client that was registered     *)
(* when its broadcast began, unless the client's stream has failed.        *)
THEOREM BroadcastIsComplete == Spec => []BroadcastComplete
<1>1. IInv => BroadcastComplete
  BY DEF IInv
<1> QED BY Invariance, <1>1, PTL

(* However pushes overlap, no client receives older data after newer.      *)
THEOREM ClientsNeverGoBack == Spec => NeverBackwards
<1>1. IInv /\ [Next]_vars => NoOlder
  BY ReceivedStep DEF IInv
<1>2. IInv /\ [Next]_vars =>
        [/\ \A c \in HealthClients : received'[c] >= received[c]
         /\ \A c \in EventClients, p \in LogPushers :
              gotEvents'[p][c] >= gotEvents[p][c]]_<<received, gotEvents>>
  BY <1>1 DEF NoOlder
<1> QED BY Invariance, <1>2, PTL DEF Spec, NeverBackwards
=============================================================================
