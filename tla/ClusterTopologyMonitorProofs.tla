-------------------- MODULE ClusterTopologyMonitorProofs --------------------
(***************************************************************************)
(* Theorems about ClusterTopologyMonitor, for any cluster, any number of   *)
(* application threads and any number of failures.                         *)
(***************************************************************************)
EXTENDS ClusterTopologyMonitor, TLAPS

-----------------------------------------------------------------------------
(* Type correctness.                                                       *)

(* The initial state has the types.                                        *)
LEMMA InitType == Init => TypeOK
<1> SUFFICES ASSUME Init PROVE TypeOK
  OBVIOUS
<1> USE ConstantsAssumption DEF Init, ConstantsAssumption
<1>1. ClusterType
  BY DEF ClusterType, Budgets
<1>2. HandleType
  BY DEF HandleType
<1>3. MonitorType
  BY DEF MonitorType, TopologyOrNone
<1>4. MainType
  BY DEF MainType, MainPc, TopologyOrNone
<1>5. NodeType
  BY DEF NodeType, NodePc, TopologyOrNone
<1>6. ClientType
  BY DEF ClientType, ClientPc, TopologyOrNone
<1>7. QED
  BY <1>1, <1>2, <1>3, <1>4, <1>5, <1>6 DEF TypeOK

(* GetWriterId answers a host or none.                                     *)
LEMMA WriterInfosType ==
    ASSUME TypeOK, NEW h
    PROVE  WriterInfos(h) \subseteq HostInfos
<1>1. GetWriterId(h) \subseteq Hosts \cup {Unnamed}
  BY DEF TypeOK, ClusterType, GetWriterId
<1> QED BY <1>1 DEF WriterInfos, HostInfos

(* It answers the host that was asked, unless that is not the writer; and  *)
(* then none, but for the Multi-AZ dialect.                                *)
LEMMA WriterInfosMatch ==
    ASSUME TypeOK, NEW h, conn[h] \in Hosts, NEW info \in WriterInfos(h)
    PROVE  /\ info # None
           /\ \/ info.host = conn[h]
              \/ info.by = "unverified" /\ ("multi_az" \in Dialects \/ info.host = Unnamed)
<1>1. info # None
  BY WriterInfosType, ConstantsAssumption DEF ConstantsAssumption
<1>2. PICK id \in GetWriterId(h) :
        info = [host |-> id,
                by |-> IF conn[h] = cluster.writer THEN "id" ELSE "unverified"]
  BY DEF WriterInfos
<1>3. CASE conn[h] = cluster.writer
  BY <1>1, <1>2, <1>3 DEF GetWriterId
<1>4. CASE conn[h] # cluster.writer
  <2>1. info.by = "unverified" /\ info.host = id
    BY <1>2, <1>4
  <2>2. dialect # "multi_az" => id = Unnamed
    BY <1>2, <1>4 DEF GetWriterId
  <2>3. dialect \in Dialects
    BY DEF TypeOK, ClusterType
  <2> QED BY <1>1, <2>1, <2>2, <2>3
<1> QED BY <1>3, <1>4

(* The host info that comes with a connection names its host.              *)
LEMMA EndpointNamesHost ==
    ASSUME NEW host \in Hosts
    PROVE  Endpoint(host) # None /\ Endpoint(host).host = host
<1>1. Endpoint(host) \in HostInfos
  BY DEF Endpoint, HostInfos
<1> QED BY <1>1, ConstantsAssumption DEF ConstantsAssumption, Endpoint

(* A topology query answers a topology with a writer, or nothing.          *)
LEMMA FetchTopologyType ==
    ASSUME TypeOK, NEW h
    PROVE  FetchTopology(h) \in TopologyOrNone
BY DEF TypeOK, ClusterType, FetchTopology, TopologyOrNone, Topology

(* DisconnectAndFree leaves every handle what a handle may be.             *)
LEMMA FreeingType ==
    ASSUME TypeOK, NEW hs
    PROVE  Freeing(hs) \in [Handles -> Hosts \cup {Freed, Broken}]
BY DEF TypeOK, HandleType, Freeing

(* AllocDbc gives a handle that nothing is connected through.              *)
LEMMA NewHandleIsFree ==
    ASSUME \E h \in Handles : conn[h] = Freed
    PROVE  NewHandle \in Handles /\ conn[NewHandle] = Freed
BY DEF NewHandle

(* A failure of the environment is one less of those that are left.        *)
LEMMA FaultType ==
    ASSUME budget \in Budgets, NEW kind, Fault(kind)
    PROVE  budget' \in Budgets
BY DEF Fault, Budgets

(* A connection attempt, whether it succeeds or fails, changes only the    *)
(* handle of its slot.                                                     *)
LEMMA ConnectsType ==
    ASSUME TypeOK, NEW slot \in HandleSlots, NEW at \in SUBSET Hosts,
           Connects(slot, at) \/ ConnectFails(slot, at)
    PROVE  /\ conn' \in [Handles -> Hosts \cup {Freed, Broken}]
           /\ hdbc' \in [HandleSlots -> Handles \cup {None}]
           /\ budget' \in Budgets
<1> USE FreeingType DEF TypeOK, ClusterType, HandleType
<1>1. CASE Connects(slot, at)
  BY <1>1, NewHandleIsFree DEF Connects, NoFault
<1>2. CASE ConnectFails(slot, at)
  BY <1>2, FaultType DEF ConnectFails, NoFault
<1>3. QED
  BY <1>1, <1>2

(* UpdateTopologyCache stores a topology and counts up its version.        *)
LEMMA UpdateTopologyCacheType ==
    ASSUME TypeOK, NEW hosts \in TopologyOrNone, UpdateTopologyCache(hosts)
    PROVE  topology_map' \in TopologyOrNone /\ updated' \in [Clients -> BOOLEAN]
BY DEF TypeOK, ClientType, UpdateTopologyCache

(* Each step of the environment, of the monitoring threads, of the clients *)
(* and of the destructor keeps the types.                                  *)
LEMMA EnvironmentType == TypeOK /\ Environment => TypeOK'
<1> USE ConstantsAssumption
    DEF ConstantsAssumption, TypeOK, ClusterType, HandleType, MonitorType,
        MainType, NodeType, ClientType, MonitorVars, mutexVars, cacheVars,
        writerVars, shareVars, localVars, nodeVars, threadVars, clientVars,
        clusterVars, handleVars
<1> SUFFICES ASSUME TypeOK, Environment PROVE TypeOK'
  OBVIOUS
<1>1. CASE FailoverBegins
  BY <1>1, FaultType DEF FailoverBegins
<1>2. CASE FailoverEnds
  BY <1>2 DEF FailoverEnds
<1>3. CASE HostAdded
  BY <1>3, FaultType DEF HostAdded
<1>4. CASE ConnectionBreaks
  BY <1>4, FaultType DEF ConnectionBreaks
<1>5. CASE UpdateDialect
  BY <1>5 DEF UpdateDialect
<1>6. CASE IgnoreWindowEnds
  BY <1>6 DEF IgnoreWindowEnds
<1>7. QED
  BY <1>1, <1>2, <1>3, <1>4, <1>5, <1>6 DEF Environment

(* The main thread: each mode it is in, and the calls between them.        *)
LEMMA MainThreadType == TypeOK /\ MainThread => TypeOK'
<1> DEFINE Others == UNCHANGED <<clusterVars, is_running, clientVars, dpc>>
<1> SUFFICES ASSUME TypeOK, MainThread PROVE TypeOK'
  OBVIOUS
<1>0. Others
  BY DEF MainThread
<1> USE <1>0
    DEF TypeOK, ClusterType, HandleType, MonitorType, MainType, NodeType,
        ClientType, mutexVars, cacheVars, writerVars, shareVars, localVars,
        nodeVars, threadVars, clientVars, clusterVars, handleVars, MainPc,
        HandleSlots, Slots, TopologyOrNone
<1>1. CASE RunLoop
  BY <1>1 DEF RunLoop, NextTurn, PanicOrRegular
<1>2. CASE InitNodeMonitors
  <2>1. HandleType'
    BY <1>2 DEF InitNodeMonitors, Freeing
  <2>2. ClusterType' /\ MonitorType'
    BY <1>2 DEF InitNodeMonitors
  <2>3. MainType' /\ NodeType' /\ ClientType'
    BY <1>2 DEF InitNodeMonitors
  <2>4. QED
    BY <2>1, <2>2, <2>3
<1>3. CASE OpenAnyConn
  <2>1. /\ conn' \in [Handles -> Hosts \cup {Freed, Broken}]
        /\ hdbc' \in [HandleSlots -> Handles \cup {None}]
        /\ budget' \in Budgets
    BY <1>3, ConnectsType DEF OpenAnyConn
  <2>2. QED
    BY <1>3, <2>1 DEF OpenAnyConn
<1>4. CASE SetMainConn
  <2>1. main_writer_host_info' \in HostInfos \cup {None}
    BY <1>4, WriterInfosType DEF SetMainConn
  <2>2. budget' \in Budgets
    BY <1>4, FaultType DEF SetMainConn, DetectRole, NoFault
  <2>3. is_writer_connection' \in BOOLEAN /\ thread_writer_verified' \in BOOLEAN
    BY <1>4 DEF SetMainConn
  <2>4. HandleType'
    <3>1. conn' \in [Handles -> Hosts \cup {Freed, Broken}]
      BY <1>4, FreeingType DEF SetMainConn
    <3>2. hdbc' \in [HandleSlots -> Handles \cup {None}]
      <4>1. \/ hdbc' = [hdbc EXCEPT !["local"] = None]
            \/ hdbc' = [hdbc EXCEPT !["main"] = hdbc["local"], !["local"] = None]
        BY <1>4 DEF SetMainConn
      <4>2. hdbc["local"] \in Handles \cup {None}
        OBVIOUS
      <4>3. QED
        BY <4>1, <4>2
    <3>3. QED
      BY <1>4, <3>1, <3>2 DEF SetMainConn
  <2>5. QED
    BY <1>4, <2>1, <2>2, <2>3, <2>4 DEF SetMainConn
<1>5. CASE OpenFetchBegins
  BY <1>5 DEF OpenFetchBegins
<1>6. CASE OpenFetchEnds
  BY <1>6, FetchTopologyType DEF OpenFetchEnds
<1>7. CASE OpenUpdates
  <2>1. topology_map' \in TopologyOrNone /\ updated' \in [Clients -> BOOLEAN]
    BY <1>7, UpdateTopologyCacheType DEF OpenUpdates
  <2>2. ignore_topology_request_end' \in {"epoch", "running", "passed"}
    BY <1>7 DEF OpenUpdates, OpenIgnoreWindow, StartIgnoreWindow
  <2>3. thread_writer_verified' \in BOOLEAN
    BY <1>7 DEF OpenUpdates, OpenIgnoreWindow
  <2>4. QED
    BY <1>7, <2>1, <2>2, <2>3 DEF OpenUpdates
<1>8. CASE OpenFails
  <2>1. HandleType'
    BY <1>8 DEF OpenFails, DropMainConn, OpenIgnoreWindow, StartIgnoreWindow, Freeing
  <2>2. ClusterType' /\ MonitorType'
    <3>1. ClusterType'
      BY <1>8 DEF OpenFails
    <3>2. is_writer_connection' \in BOOLEAN
      BY <1>8 DEF OpenFails, DropMainConn
    <3>3. ignore_topology_request_end' \in {"epoch", "running", "passed"}
      BY <1>8 DEF OpenFails, OpenIgnoreWindow, StartIgnoreWindow
    <3>4. MonitorType'
      BY <1>8, <3>2, <3>3 DEF OpenFails
    <3>5. QED
      BY <3>1, <3>4
  <2>3. MainType' /\ NodeType' /\ ClientType'
    BY <1>8 DEF OpenFails, DropMainConn, OpenIgnoreWindow, StartIgnoreWindow
  <2>4. QED
    BY <2>1, <2>2, <2>3
<1>9. CASE SpawnNodeMonitors
  BY <1>9 DEF SpawnNodeMonitors, StartNodeThreads, NoTopology, NodePc
<1>10. CASE LockWriterConn
  BY <1>10 DEF LockWriterConn
<1>11. CASE AdoptWriterConn
  <2>1. HandleType'
    BY <1>11 DEF AdoptWriterConn, StartIgnoreWindow, Freeing
  <2>2. ClusterType' /\ MonitorType'
    <3>1. main_writer_host_info' \in HostInfos
      BY <1>11 DEF AdoptWriterConn, WriterConnReady, HandedHostInfo, Endpoint, HostInfos
    <3>2. QED
      BY <1>11, <3>1 DEF AdoptWriterConn, StartIgnoreWindow
  <2>3. MainType' /\ NodeType' /\ ClientType'
    BY <1>11 DEF AdoptWriterConn, StartIgnoreWindow
  <2>4. QED
    BY <2>1, <2>2, <2>3
<1>12. CASE JoinNodeMonitors
  BY <1>12 DEF JoinNodeMonitors, ClearNodeThreads, NodeThreadsCleared, NodePc
<1>13. CASE NoPossibleWriterConn
  BY <1>13 DEF NoPossibleWriterConn, StartNodeThreads, NodePc
<1>14. CASE RegularJoin
  BY <1>14 DEF RegularJoin, ClearNodeThreads, NodeThreadsCleared, NodePc
<1>15. CASE RegularFetch
  BY <1>15, FetchTopologyType DEF RegularFetch
<1>16. CASE RegularUpdate
  BY <1>16, UpdateTopologyCacheType DEF RegularUpdate
<1>17. CASE RegularFail
  <2>1. HandleType'
    BY <1>17 DEF RegularFail, DropMainConn, Freeing
  <2>2. ClusterType' /\ MonitorType'
    <3>1. ClusterType'
      BY <1>17 DEF RegularFail
    <3>2. MonitorType'
      BY <1>17 DEF RegularFail, DropMainConn
    <3>3. QED
      BY <3>1, <3>2
  <2>3. MainType' /\ NodeType' /\ ClientType'
    BY <1>17 DEF RegularFail, DropMainConn
  <2>4. QED
    BY <2>1, <2>2, <2>3
<1>18. CASE DelayEnds
  BY <1>18 DEF DelayEnds
<1>19. CASE RunEnds
  BY <1>19 DEF RunEnds, ClearNodeThreads, NodeThreadsCleared, NodePc
<1>20. QED
  BY <1>1, <1>2, <1>3, <1>4, <1>5, <1>6, <1>7, <1>8, <1>9, <1>10, <1>11,
     <1>12, <1>13, <1>14, <1>15, <1>16, <1>17, <1>18, <1>19 DEF MainThread

(* The node threads.                                                       *)
LEMMA NodeThreadType ==
    ASSUME TypeOK, NEW t \in Hosts, NodeThread(t)
    PROVE  TypeOK'
<1> DEFINE Others == UNCHANGED <<clusterVars, hdbc_mutex, is_running,
                                 writerVars, mpc, localVars, writer_host_info,
                                 clientVars, dpc>>
<1>0. Others
  BY DEF NodeThread
<1> USE <1>0
    DEF TypeOK, ClusterType, HandleType, MonitorType, MainType, NodeType,
        ClientType, mutexVars, cacheVars, writerVars, shareVars, localVars,
        nodeVars, threadVars, clientVars, clusterVars, handleVars, NodePc,
        NodeGoto, HandleSlots, Slots, TopologyOrNone
<1>1. CASE NodeCheck(t)
  <2>0. t \in HandleSlots
    OBVIOUS
  <2>1. HandleType'
    <3>1. conn' \in [Handles -> Hosts \cup {Freed, Broken}]
      BY <1>1, FreeingType DEF NodeCheck
    <3>2. hdbc' \in [HandleSlots -> Handles \cup {None}]
      BY <1>1, <2>0 DEF NodeCheck
    <3>3. QED
      BY <1>1, <3>1, <3>2 DEF NodeCheck
  <2>2. ClusterType' /\ MonitorType'
    BY <1>1 DEF NodeCheck
  <2>3. MainType' /\ NodeType' /\ ClientType'
    BY <1>1 DEF NodeCheck
  <2>4. QED
    BY <2>1, <2>2, <2>3
<1>2. CASE HandleReconnect(t)
  <2>0. t \in HandleSlots /\ {t} \in SUBSET Hosts
    OBVIOUS
  <2>1. /\ conn' \in [Handles -> Hosts \cup {Freed, Broken}]
        /\ hdbc' \in [HandleSlots -> Handles \cup {None}]
        /\ budget' \in Budgets
    BY <1>2, <2>0, ConnectsType DEF HandleReconnect
  <2>2. HandleType' /\ ClusterType'
    BY <1>2, <2>1 DEF HandleReconnect
  <2>3. MonitorType' /\ MainType' /\ NodeType' /\ ClientType'
    BY <1>2 DEF HandleReconnect
  <2>4. QED
    BY <2>2, <2>3
<1>3. CASE NodeRole(t)
  BY <1>3, FaultType DEF NodeRole, DetectRole, NoFault
<1>4. CASE HandleWriterConn(t)
  <2>0. t \in HandleSlots
    OBVIOUS
  <2>1. HandleType'
    <3>1. conn' \in [Handles -> Hosts \cup {Freed, Broken}]
      BY <1>4, FreeingType DEF HandleWriterConn
    <3>2. hdbc' \in [HandleSlots -> Handles \cup {None}]
      BY <1>4, <2>0 DEF HandleWriterConn
    <3>3. QED
      BY <1>4, <3>1, <3>2 DEF HandleWriterConn
  <2>2. ClusterType' /\ MonitorType'
    <3>1. ClusterType'
      BY <1>4 DEF HandleWriterConn
    <3>2. MonitorType'
      BY <1>4 DEF HandleWriterConn
    <3>3. QED
      BY <3>1, <3>2
  <2>3. MainType' /\ NodeType' /\ ClientType'
    BY <1>4 DEF HandleWriterConn
  <2>4. QED
    BY <2>1, <2>2, <2>3
<1>5. CASE WriterConnFetch(t)
  BY <1>5, FetchTopologyType DEF WriterConnFetch
<1>6. CASE WriterConnUpdate(t)
  <2>1. topology_map' \in TopologyOrNone /\ updated' \in [Clients -> BOOLEAN]
    BY <1>6, UpdateTopologyCacheType DEF WriterConnUpdate
  <2>2. QED
    BY <1>6, <2>1 DEF WriterConnUpdate, AnnounceWriter
<1>7. CASE HandleReaderConn(t)
  <2>0. t \in HandleSlots
    OBVIOUS
  <2>1. HandleType'
    <3>1. conn' \in [Handles -> Hosts \cup {Freed, Broken}]
      BY <1>7, FreeingType DEF HandleReaderConn
    <3>2. hdbc' \in [HandleSlots -> Handles \cup {None}]
      BY <1>7, <2>0 DEF HandleReaderConn, ShareReaderConn
    <3>3. QED
      BY <1>7, <3>1, <3>2 DEF HandleReaderConn
  <2>2. ClusterType' /\ MonitorType'
    BY <1>7 DEF HandleReaderConn, ShareReaderConn
  <2>3. MainType' /\ NodeType' /\ ClientType'
    BY <1>7 DEF HandleReaderConn, ShareReaderConn
  <2>4. QED
    BY <2>1, <2>2, <2>3
<1>8. CASE ReaderThreadFetchTopology(t)
  BY <1>8, FetchTopologyType DEF ReaderThreadFetchTopology
<1>9. CASE ReaderThreadUpdate(t)
  <2>1. topology_map' \in TopologyOrNone /\ updated' \in [Clients -> BOOLEAN]
    BY <1>9, UpdateTopologyCacheType DEF ReaderThreadUpdate
  <2>2. QED
    BY <1>9, <2>1 DEF ReaderThreadUpdate
<1>10. QED
  BY <1>1, <1>2, <1>3, <1>4, <1>5, <1>6, <1>7, <1>8, <1>9 DEF NodeThread

(* The clients that force a refresh or wait for one.                       *)
LEMMA ClientThreadType ==
    ASSUME TypeOK, NEW c \in Clients, Client(c)
    PROVE  TypeOK'
<1>0. ClientFrame
  BY DEF Client, ClientProceeds
<1> USE <1>0
    DEF TypeOK, ClusterType, HandleType, MonitorType, MainType, NodeType,
        ClientType, mutexVars, cacheVars, shareVars, localVars, nodeVars,
        threadVars, clientVars, clusterVars, handleVars, ClientFrame,
        ClientPc, ClientGoto, Returns, TopologyOrNone, HandleSlots, Slots
<1>1. ASSUME NEW kind \in budget.calls, ForceRefresh(c, kind)
      PROVE  TypeOK'
  <2>1. budget.calls \subseteq {"verify", "noverify", "hdbc"}
    BY DEF Budgets
  <2>2. QED
    BY <1>1, <2>1 DEF ForceRefresh
<1>2. CASE InvalidateMainConn(c)
  <2>1. HandleType'
    <3>1. conn' \in [Handles -> Hosts \cup {Freed, Broken}]
      BY <1>2, FreeingType DEF InvalidateMainConn, DropMainConn
    <3>2. hdbc' \in [HandleSlots -> Handles \cup {None}]
      BY <1>2 DEF InvalidateMainConn, DropMainConn
    <3>3. QED
      BY <1>2, <3>1, <3>2 DEF InvalidateMainConn
  <2>2. ClusterType' /\ MonitorType'
    <3>1. ClusterType'
      BY <1>2 DEF InvalidateMainConn
    <3>2. MonitorType'
      BY <1>2 DEF InvalidateMainConn, DropMainConn
    <3>3. QED
      BY <3>1, <3>2
  <2>3. MainType' /\ NodeType' /\ ClientType'
    BY <1>2 DEF InvalidateMainConn, DropMainConn
  <2>4. QED
    BY <2>1, <2>2, <2>3
<1>3. CASE RequestTopologyUpdate(c)
  BY <1>3 DEF RequestTopologyUpdate
<1>4. CASE WaitReturns(c)
  BY <1>4 DEF WaitReturns
<1>5. CASE SetHosts(c)
  BY <1>5 DEF SetHosts
<1>6. CASE ClientFetch(c)
  BY <1>6 DEF ClientFetch, Topology
<1>7. CASE ClientUpdate(c)
  BY <1>7, UpdateTopologyCacheType DEF ClientUpdate
<1>8. QED
  BY <1>1, <1>2, <1>3, <1>4, <1>5, <1>6, <1>7
     DEF Client, ClientProceeds, TopologyUpdated, WaitTimesOut

(* Stopping the monitor.                                                   *)
LEMMA DestructorType == TypeOK /\ Destructor => TypeOK'
<1> SUFFICES ASSUME TypeOK, Destructor PROVE TypeOK'
  OBVIOUS
<1> USE DEF TypeOK, ClusterType, HandleType, MonitorType, MainType, NodeType,
            ClientType, mutexVars, cacheVars, writerVars, shareVars,
            localVars, nodeVars, threadVars, clientVars, clusterVars,
            handleVars, Destructor
<1>1. CASE StopRunning
  <2>1. ClusterType' /\ HandleType' /\ MonitorType'
    BY <1>1 DEF StopRunning
  <2>2. MainType' /\ NodeType' /\ ClientType'
    BY <1>1 DEF StopRunning
  <2>3. QED
    BY <2>1, <2>2
<1>2. CASE StopNodeThreads
  BY <1>2 DEF StopNodeThreads
<1>3. CASE CleanUpHandles
  BY <1>3 DEF CleanUpHandles
<1>4. QED
  BY <1>1, <1>2, <1>3

(* A step that changes nothing.                                            *)
LEMMA StutterType == TypeOK /\ UNCHANGED vars => TypeOK'
BY DEF TypeOK, ClusterType, HandleType, MonitorType, MainType, NodeType,
       ClientType, vars, mutexVars, cacheVars, writerVars, shareVars,
       localVars, nodeVars, threadVars, clientVars, clusterVars, handleVars

(* Whatever the threads do, every field of the monitor keeps a value its   *)
(* declaration allows.                                                     *)
THEOREM TypeCorrect == Spec => []TypeOK
<1>1. TypeOK /\ [Next]_vars => TypeOK'
  BY EnvironmentType, MainThreadType, NodeThreadType, ClientThreadType,
     DestructorType, StutterType DEF Next
<1>2. QED
  BY InitType, <1>1, PTL DEF Spec

-----------------------------------------------------------------------------
(* The hand-off of the writer connection and the end of panic mode.        *)

(* Who holds node_threads_writer_hdbc_mutex_.                              *)
WriterMutexHeld ==
    /\ \A t \in Hosts : npc[t] \in {"writer_fetch", "writer_update"}
                          => writer_hdbc_mutex = t
    /\ mpc \in {"possible_locked", "join_nodes"}
         => writer_hdbc_mutex = "main_thread"

(* No node thread exists from the decision to start them until they start, *)
(* nor after the end of the main thread.                                   *)
NoNodeThread == \A t \in Hosts : npc[t] = "none"

PanicStartsWithoutThreads ==
    mpc \in {"init", "open", "open_set", "open_fetch", "open_query",
             "open_update", "open_fail", "spawn", "done"} => NoNodeThread

(* A connection taken for the writer's is there, and by then the node      *)
(* threads have been joined or are about to be.                            *)
WriterConnected ==
    is_writer_connection =>
      /\ hdbc["main"] # None \/ mpc = "done"
      /\ NoNodeThread \/ mpc = "join_nodes"

(* Looking for a writer among the node threads, the monitor has none.      *)
SearchesInPanicOnly ==
    mpc \in {"possible", "possible_locked"} => ~is_writer_connection

OpenedConnIsLocal == mpc = "open_set" => hdbc["local"] # None

(* The destructor frees the connections after the main thread has ended.   *)
DestroyedWhenDone == dpc = "destroyed" => mpc = "done"

HandoffInv ==
    /\ WriterMutexHeld
    /\ WriterHandoffComplete
    /\ PanicStartsWithoutThreads
    /\ WriterConnected
    /\ SearchesInPanicOnly
    /\ OpenedConnIsLocal
    /\ DestroyedWhenDone
    /\ RegularModeJoinsNoThread

(* Which host each connection of the monitor leads to.                     *)
NodeConnsMatchHosts ==
    \A t \in Hosts : hdbc[t] # None => conn[hdbc[t]] \in {t, Broken}

WriterConnMatchesHost ==
    hdbc["writer"] # None =>
      conn[hdbc["writer"]] \in {Broken, IF writer_hdbc_mutex \in Hosts
                                       THEN writer_hdbc_mutex
                                       ELSE node_threads_writer_host_info}

(* The connections the node threads query are in their places: a thread    *)
(* holds the mutex while the writer's is there, and the readers' stays     *)
(* until every thread is joined.                                           *)
SharedConnsPresent ==
    /\ \A t \in Hosts :
         /\ npc[t] \in {"role", "writer", "reader"} => hdbc[t] # None
         /\ npc[t] = "writer_fetch" => hdbc["writer"] # None
    /\ \A t \in Hosts : /\ reader_update_topology[t] => hdbc["reader"] # None
                        /\ npc[t] = "reader_fetch" => reader_update_topology[t]
                        /\ npc[t] = "none" => ~reader_update_topology[t]

ConnectionInv ==
    /\ HandlesOwnedOnce
    /\ NoHandleLeaks
    /\ NodeConnsMatchHosts
    /\ WriterConnMatchesHost
    /\ MainConnMatchesWriterHost
    /\ SharedConnsPresent

-----------------------------------------------------------------------------
(* The invariants of the hand-off are inductive.                           *)

(* At first no thread runs and nothing is handed over.                     *)
LEMMA InitHandoff == Init => HandoffInv
BY ConstantsAssumption
   DEF Init, ConstantsAssumption, HandoffInv, WriterMutexHeld,
       WriterHandoffComplete, PanicStartsWithoutThreads, WriterConnected,
       SearchesInPanicOnly, OpenedConnIsLocal, DestroyedWhenDone,
       RegularModeJoinsNoThread, NoNodeThread, HandleSlots, Slots

(* Every step keeps the invariant.                                         *)
LEMMA HandoffStep == TypeOK /\ HandoffInv /\ [Next]_vars => HandoffInv'
<1> SUFFICES ASSUME TypeOK, HandoffInv, [Next]_vars PROVE HandoffInv'
  OBVIOUS
<1> USE ConstantsAssumption
    DEF ConstantsAssumption, TypeOK, HandleType, MonitorType, NodeType,
        HandleSlots, Slots, NodePc, clusterVars, handleVars, mutexVars,
        cacheVars, writerVars, shareVars, localVars, threadVars, nodeVars,
        clientVars, HandoffInv, WriterMutexHeld, WriterHandoffComplete,
        PanicStartsWithoutThreads, WriterConnected, SearchesInPanicOnly,
        OpenedConnIsLocal, DestroyedWhenDone, RegularModeJoinsNoThread,
        NoNodeThread
<1>1. CASE Environment
  BY <1>1 DEF Environment, FailoverBegins, FailoverEnds, HostAdded,
                ConnectionBreaks, UpdateDialect, IgnoreWindowEnds, MonitorVars
<1>2. CASE MainThread
  <2>0. UNCHANGED <<clusterVars, is_running, clientVars, dpc>>
    BY <1>2 DEF MainThread
  <2>1. CASE RunLoop
    BY <2>0, <2>1 DEF RunLoop, NextTurn, PanicOrRegular, InPanicMode
  <2>2. CASE InitNodeMonitors
    BY <2>0, <2>2 DEF InitNodeMonitors
  <2>3. CASE OpenAnyConn
    BY <2>0, <2>3, NewHandleIsFree DEF OpenAnyConn, Connects, ConnectFails, NewHandle
  <2>4. CASE SetMainConn
    BY <2>0, <2>4 DEF SetMainConn
  <2>5. CASE OpenFetchBegins
    BY <2>0, <2>5 DEF OpenFetchBegins
  <2>6. CASE OpenFetchEnds
    BY <2>0, <2>6 DEF OpenFetchEnds
  <2>7. CASE OpenUpdates
    BY <2>0, <2>7 DEF OpenUpdates
  <2>8. CASE OpenFails
    BY <2>0, <2>8 DEF OpenFails, DropMainConn
  <2>9. CASE SpawnNodeMonitors
    BY <2>0, <2>9 DEF SpawnNodeMonitors, StartNodeThreads, HostsToMonitor
  <2>10. CASE LockWriterConn
    BY <2>0, <2>10 DEF LockWriterConn
  <2>11. CASE AdoptWriterConn
    BY <2>0, <2>11 DEF AdoptWriterConn, WriterConnReady, Usable
  <2>12. CASE JoinNodeMonitors
    BY <2>0, <2>12 DEF JoinNodeMonitors, ClearNodeThreads, NodeThreadsCleared
  <2>13. CASE NoPossibleWriterConn
    BY <2>0, <2>13 DEF NoPossibleWriterConn, StartNodeThreads
  <2>14. CASE RegularJoin
    BY <2>0, <2>14 DEF RegularJoin, ClearNodeThreads, NodeThreadsCleared
  <2>15. CASE RegularFetch
    BY <2>0, <2>15 DEF RegularFetch
  <2>16. CASE RegularUpdate
    BY <2>0, <2>16 DEF RegularUpdate
  <2>17. CASE RegularFail
    BY <2>0, <2>17 DEF RegularFail, DropMainConn
  <2>18. CASE DelayEnds
    BY <2>0, <2>18 DEF DelayEnds
  <2>19. CASE RunEnds
    BY <2>0, <2>19 DEF RunEnds, ClearNodeThreads, NodeThreadsCleared
  <2>20. QED
    BY <1>2, <2>1, <2>2, <2>3, <2>4, <2>5, <2>6, <2>7, <2>8, <2>9, <2>10,
       <2>11, <2>12, <2>13, <2>14, <2>15, <2>16, <2>17, <2>18, <2>19 DEF MainThread
<1>3. ASSUME NEW t \in Hosts, NodeThread(t) PROVE HandoffInv'
  <2>0. UNCHANGED <<clusterVars, hdbc_mutex, is_running, writerVars, mpc,
                    localVars, writer_host_info, clientVars, dpc>>
    BY <1>3 DEF NodeThread
  <2>1. CASE NodeCheck(t)
    BY <2>0, <2>1 DEF NodeCheck, NodeGoto
  <2>2. CASE HandleReconnect(t)
    BY <2>0, <2>2, NewHandleIsFree DEF HandleReconnect, NodeGoto, Connects, ConnectFails
  <2>3. CASE NodeRole(t)
    BY <2>0, <2>3 DEF NodeRole, NodeGoto
  <2>4. CASE HandleWriterConn(t)
    BY <2>0, <2>4 DEF HandleWriterConn, NodeGoto
  <2>5. CASE WriterConnFetch(t)
    BY <2>0, <2>5 DEF WriterConnFetch, NodeGoto
  <2>6. CASE WriterConnUpdate(t)
    BY <2>0, <2>6 DEF WriterConnUpdate, NodeGoto, AnnounceWriter
  <2>7. CASE HandleReaderConn(t)
    BY <2>0, <2>7 DEF HandleReaderConn, NodeGoto, ShareReaderConn
  <2>8. CASE ReaderThreadFetchTopology(t)
    BY <2>0, <2>8 DEF ReaderThreadFetchTopology, NodeGoto
  <2>9. CASE ReaderThreadUpdate(t)
    BY <2>0, <2>9 DEF ReaderThreadUpdate, NodeGoto
  <2>10. QED
    BY <1>3, <2>1, <2>2, <2>3, <2>4, <2>5, <2>6, <2>7, <2>8, <2>9 DEF NodeThread
<1>4. ASSUME NEW c \in Clients, Client(c) PROVE HandoffInv'
  <2>1. ClientFrame
    BY <1>4 DEF Client, ClientProceeds
  <2>2. CASE InvalidateMainConn(c)
    BY <2>1, <2>2 DEF ClientFrame, InvalidateMainConn, DropMainConn
  <2>3. CASE UNCHANGED <<handleVars, is_writer_connection>>
    BY <2>1, <2>3 DEF ClientFrame
  <2>4. QED
    BY <1>4, <2>2, <2>3
       DEF Client, ClientProceeds, ForceRefresh, RequestTopologyUpdate,
           TopologyUpdated, WaitTimesOut, WaitReturns, SetHosts, ClientFetch,
           ClientUpdate
<1>5. CASE Destructor
  BY <1>5 DEF Destructor, StopRunning, StopNodeThreads, CleanUpHandles
<1>6. CASE UNCHANGED vars
  BY <1>6 DEF vars
<1>7. QED
  BY <1>1, <1>2, <1>3, <1>4, <1>5, <1>6 DEF Next

(* The main thread never joins a node thread it has not told to stop, and  *)
(* never sees half of a hand-off.                                          *)
THEOREM HandoffCorrect ==
    Spec => [](RegularModeJoinsNoThread /\ WriterHandoffComplete)
<1>1. HandoffInv => RegularModeJoinsNoThread /\ WriterHandoffComplete
  BY DEF HandoffInv
<1>2. QED
  BY InitHandoff, HandoffStep, TypeCorrect, <1>1, PTL DEF Spec

(* The pointers other than the given ones, and what they lead to, are as   *)
(* they were.                                                              *)
OthersKept(slots) ==
    \A s \in HandleSlots \ slots :
      hdbc'[s] = hdbc[s] /\ (hdbc[s] # None => conn'[hdbc[s]] = conn[hdbc[s]])

(* DisconnectAndFree and a null pointer.                                   *)
LEMMA ReleaseConn ==
    ASSUME TypeOK, HandlesOwnedOnce, NoHandleLeaks, NEW slot \in HandleSlots,
           conn' = Freeing({hdbc[slot]}),
           hdbc' = [hdbc EXCEPT ![slot] = None]
    PROVE  /\ HandlesOwnedOnce' /\ NoHandleLeaks'
           /\ hdbc'[slot] = None /\ OthersKept({slot})
<1> USE ConstantsAssumption
    DEF TypeOK, HandleType, Freeing, HandlesOwnedOnce, ConstantsAssumption
<1>1. hdbc'[slot] = None /\ OthersKept({slot})
  BY DEF OthersKept
<1>2. HandlesOwnedOnce'
  BY <1>1 DEF OthersKept
<1>3. NoHandleLeaks'
  BY <1>1 DEF OthersKept, NoHandleLeaks
<1>4. QED
  BY <1>1, <1>2, <1>3

(* A connection handed from one pointer to another, which is null.         *)
LEMMA MoveConn ==
    ASSUME TypeOK, HandlesOwnedOnce, NoHandleLeaks,
           NEW from \in HandleSlots, NEW to \in HandleSlots, from # to,
           hdbc[to] = None, conn' = conn,
           hdbc' = [hdbc EXCEPT ![to] = hdbc[from], ![from] = None]
    PROVE  /\ HandlesOwnedOnce' /\ NoHandleLeaks'
           /\ hdbc'[to] = hdbc[from] /\ hdbc'[from] = None
           /\ OthersKept({from, to})
<1> USE ConstantsAssumption
    DEF TypeOK, HandleType, HandlesOwnedOnce, ConstantsAssumption
<1>1. hdbc'[to] = hdbc[from] /\ hdbc'[from] = None /\ OthersKept({from, to})
  BY DEF OthersKept
<1>2. HandlesOwnedOnce'
  BY <1>1 DEF OthersKept
<1>3. NoHandleLeaks'
  BY <1>1 DEF OthersKept, NoHandleLeaks
<1>4. QED
  BY <1>1, <1>2, <1>3

(* A new connection replaces the one of its slot, or the attempt fails.    *)
LEMMA ConnectConn ==
    ASSUME TypeOK, HandlesOwnedOnce, NoHandleLeaks,
           NEW slot \in HandleSlots, NEW at \in SUBSET Hosts,
           Connects(slot, at) \/ ConnectFails(slot, at)
    PROVE  /\ HandlesOwnedOnce' /\ NoHandleLeaks' /\ OthersKept({slot})
           /\ hdbc'[slot] # None => conn'[hdbc'[slot]] \in at
           /\ Connects(slot, at) => hdbc'[slot] # None
<1>1. CASE ConnectFails(slot, at)
  <2>1. conn' = Freeing({hdbc[slot]}) /\ hdbc' = [hdbc EXCEPT ![slot] = None]
    BY <1>1 DEF ConnectFails
  <2>2. hdbc'[slot] = None /\ HandlesOwnedOnce' /\ NoHandleLeaks' /\ OthersKept({slot})
    BY <2>1, ReleaseConn
  <2>3. ~Connects(slot, at)
    BY <2>2, ConstantsAssumption, NewHandleIsFree
       DEF Connects, ConstantsAssumption, TypeOK, HandleType
  <2>4. QED
    BY <2>2, <2>3
<1>2. CASE Connects(slot, at)
  <2> USE ConstantsAssumption DEF ConstantsAssumption, TypeOK, HandleType
  <2>1. PICK s \in at : /\ conn' = [Freeing({hdbc[slot]}) EXCEPT ![NewHandle] = s]
                        /\ hdbc' = [hdbc EXCEPT ![slot] = NewHandle]
    BY <1>2 DEF Connects
  <2>2. NewHandle \in Handles /\ conn[NewHandle] = Freed
    BY <1>2, NewHandleIsFree DEF Connects
  <2>3. \A r \in HandleSlots : hdbc[r] # NewHandle
    BY <2>2 DEF HandlesOwnedOnce
  <2>4. hdbc'[slot] = NewHandle /\ conn'[NewHandle] = s
    BY <2>1, <2>2 DEF Freeing
  <2>5. OthersKept({slot})
    BY <2>1, <2>2, <2>3 DEF OthersKept, Freeing, HandlesOwnedOnce
  <2>6. HandlesOwnedOnce'
    BY <2>3, <2>4, <2>5 DEF OthersKept, HandlesOwnedOnce
  <2>7. NoHandleLeaks'
    BY <2>1, <2>2, <2>4, <2>5 DEF OthersKept, NoHandleLeaks, Freeing
  <2>8. QED
    BY <1>2, <2>2, <2>4, <2>5, <2>6, <2>7
<1>3. QED
  BY <1>1, <1>2

-----------------------------------------------------------------------------
(* The invariants of the connections are inductive.                        *)

ConnectionsLeadWhereTheyShould ==
    /\ NodeConnsMatchHosts
    /\ WriterConnMatchesHost
    /\ MainConnMatchesWriterHost
    /\ SharedConnsPresent

(* At first there are no connections.                                      *)
LEMMA InitConnection == Init => ConnectionInv
BY ConstantsAssumption
   DEF Init, ConstantsAssumption, ConnectionInv, HandlesOwnedOnce,
       NoHandleLeaks, NodeConnsMatchHosts, WriterConnMatchesHost,
       MainConnMatchesWriterHost, SharedConnsPresent, HandleSlots, Slots

(* The cluster breaks connections; it moves no handle.                     *)
LEMMA EnvironmentConnection ==
    TypeOK /\ ConnectionInv /\ Environment => ConnectionInv'
<1> USE ConstantsAssumption
    DEF ConstantsAssumption, TypeOK, HandleType, ConnectionInv, MonitorVars,
        mutexVars, cacheVars, writerVars, shareVars, localVars, nodeVars,
        threadVars, clientVars, clusterVars, handleVars
<1> SUFFICES ASSUME TypeOK, ConnectionInv, Environment PROVE ConnectionInv'
  OBVIOUS
<1>1. /\ UNCHANGED <<hdbc, npc, reader_update_topology, writer_hdbc_mutex,
                     node_threads_writer_host_info, is_writer_connection,
                     main_writer_host_info>>
      /\ conn' \in [Handles -> Hosts \cup {Freed, Broken}]
      /\ \A h \in Handles : \/ conn'[h] = conn[h]
                            \/ conn[h] \in Hosts /\ conn'[h] = Broken
  <2>1. CASE FailoverBegins
    BY <2>1 DEF FailoverBegins, ClusterType
  <2>2. CASE ConnectionBreaks
    BY <2>2 DEF ConnectionBreaks
  <2>3. CASE FailoverEnds \/ HostAdded \/ UpdateDialect \/ IgnoreWindowEnds
    BY <2>3 DEF FailoverEnds, HostAdded, UpdateDialect, IgnoreWindowEnds
  <2>4. QED
    BY <2>1, <2>2, <2>3 DEF Environment
<1>2. HandlesOwnedOnce' /\ NoHandleLeaks'
  BY <1>1 DEF HandlesOwnedOnce, NoHandleLeaks
<1>3. NodeConnsMatchHosts'
  BY <1>1 DEF NodeConnsMatchHosts, HandleSlots
<1>4. WriterConnMatchesHost'
  BY <1>1 DEF WriterConnMatchesHost, HandleSlots, Slots
<1>5. MainConnMatchesWriterHost'
  BY <1>1 DEF MainConnMatchesWriterHost, HandleSlots, Slots, Usable
<1>6. SharedConnsPresent'
  BY <1>1 DEF SharedConnsPresent
<1>7. QED
  BY <1>2, <1>3, <1>4, <1>5, <1>6

(* The main thread moves a handle from one pointer to another, or frees it *)
(* with the pointer.                                                       *)
LEMMA MainThreadConnection ==
    TypeOK /\ HandoffInv /\ ConnectionInv /\ MainThread => ConnectionInv'
<1> SUFFICES ASSUME TypeOK, HandoffInv, ConnectionInv, MainThread
             PROVE  ConnectionInv'
  OBVIOUS
<1> USE ConstantsAssumption
    DEF ConstantsAssumption, TypeOK, HandleType, MonitorType, NodeType,
        mutexVars, writerVars, shareVars, localVars, nodeVars, threadVars,
        handleVars, HandleSlots, Slots, ConnectionInv,
        ConnectionsLeadWhereTheyShould, NodeConnsMatchHosts,
        WriterConnMatchesHost, MainConnMatchesWriterHost, SharedConnsPresent
<1>1. CASE InitNodeMonitors
  <2>1. HandlesOwnedOnce' /\ NoHandleLeaks'
    BY <1>1 DEF InitNodeMonitors, HandlesOwnedOnce, NoHandleLeaks, Freeing, NodeConns
  <2>2. OthersKept({"writer", "reader"})
    BY <1>1 DEF InitNodeMonitors, HandlesOwnedOnce, OthersKept, Freeing, NodeConns
  <2>3. NoNodeThread
    BY <1>1 DEF InitNodeMonitors, HandoffInv, PanicStartsWithoutThreads
  <2>4. NodeConnsMatchHosts' /\ WriterConnMatchesHost'
    BY <1>1, <2>2 DEF InitNodeMonitors, OthersKept
  <2>5. MainConnMatchesWriterHost'
    BY <1>1, <2>2 DEF InitNodeMonitors, OthersKept, Usable
  <2>6. SharedConnsPresent'
    BY <1>1, <2>2, <2>3 DEF InitNodeMonitors, OthersKept, NoNodeThread
  <2>7. QED
    BY <2>1, <2>4, <2>5, <2>6
<1>2. CASE OpenAnyConn
  <2>1. HandlesOwnedOnce' /\ NoHandleLeaks' /\ OthersKept({"local"})
    BY <1>2, ConnectConn DEF OpenAnyConn
  <2>2. ConnectionsLeadWhereTheyShould'
    BY <1>2, <2>1 DEF OpenAnyConn, OthersKept, Usable
  <2>3. QED
    BY <2>1, <2>2
<1>3. CASE SetMainConn
  <2>1. CASE hdbc["main"] # None
    <3>1. HandlesOwnedOnce' /\ NoHandleLeaks' /\ OthersKept({"local"})
      BY <1>3, <2>1, ReleaseConn DEF SetMainConn
    <3>2. ConnectionsLeadWhereTheyShould'
      <4>1. UNCHANGED <<is_writer_connection, main_writer_host_info, writer_hdbc_mutex,
                        node_threads_writer_host_info, npc, reader_update_topology>>
        BY <1>3, <2>1 DEF SetMainConn
      <4>2. MainConnMatchesWriterHost'
        BY <2>1, <3>1, <4>1 DEF OthersKept, Usable
      <4> HIDE DEF MainConnMatchesWriterHost
      <4>3. NodeConnsMatchHosts' /\ WriterConnMatchesHost' /\ SharedConnsPresent'
        BY <3>1, <4>1 DEF OthersKept
      <4>4. QED
        BY <4>2, <4>3
    <3>3. QED
      BY <3>1, <3>2
  <2>2. CASE hdbc["main"] = None
    <3>1. /\ HandlesOwnedOnce' /\ NoHandleLeaks'
          /\ hdbc'["main"] = hdbc["local"]
          /\ OthersKept({"local", "main"})
      BY <1>3, <2>2, MoveConn DEF SetMainConn
    <3>2. ~is_writer_connection
      BY <1>3, <2>2 DEF SetMainConn, HandoffInv, WriterConnected
    <3>3. NodeConnsMatchHosts' /\ WriterConnMatchesHost' /\ SharedConnsPresent'
      BY <1>3, <2>2, <3>1 DEF SetMainConn, OthersKept
    <3>4. MainConnMatchesWriterHost'
      <4>1. \/ ~is_writer_connection'
            \/ main_writer_host_info' \in WriterInfos(hdbc["local"])
        BY <1>3, <2>2, <3>2 DEF SetMainConn
      <4>2. conn'[hdbc'["main"]] = conn[hdbc["local"]]
        BY <1>3, <2>2, <3>1 DEF SetMainConn
      <4>3. QED
        BY <3>1, <4>1, <4>2, WriterInfosMatch DEF Usable
    <3>5. QED
      BY <3>1, <3>3, <3>4
  <2>3. QED
    BY <2>1, <2>2
<1>4. CASE OpenFails \/ RegularFail
  <2>1. DropMainConn
    BY <1>4 DEF OpenFails, RegularFail
  <2>2. HandlesOwnedOnce' /\ NoHandleLeaks' /\ OthersKept({"main"})
    BY <2>1, ReleaseConn DEF DropMainConn
  <2>3. /\ UNCHANGED <<npc, reader_update_topology, writer_hdbc_mutex,
                       node_threads_writer_host_info>>
        /\ ~is_writer_connection'
    BY <1>4, <2>1 DEF OpenFails, RegularFail, DropMainConn
  <2>4. NodeConnsMatchHosts' /\ WriterConnMatchesHost'
    BY <2>2, <2>3 DEF OthersKept
  <2>5. MainConnMatchesWriterHost' /\ SharedConnsPresent'
    BY <2>2, <2>3 DEF OthersKept
  <2>6. QED
    BY <2>2, <2>4, <2>5
<1>5. CASE AdoptWriterConn
  <2>1. /\ HandlesOwnedOnce' /\ NoHandleLeaks'
    BY <1>5 DEF AdoptWriterConn, WriterConnReady, Usable, HandlesOwnedOnce,
                NoHandleLeaks, Freeing
  <2>2. OthersKept({"main", "writer"}) /\ hdbc'["main"] = hdbc["writer"]
    BY <1>5 DEF AdoptWriterConn, HandlesOwnedOnce, OthersKept, Freeing
  <2>3. conn'[hdbc'["main"]] = conn[hdbc["writer"]]
    BY <1>5, <2>2 DEF AdoptWriterConn, WriterConnReady, Usable, Freeing, HandlesOwnedOnce
  <2>4. writer_hdbc_mutex = "main_thread"
    BY <1>5 DEF AdoptWriterConn, HandoffInv, WriterMutexHeld
  <2>5. NodeConnsMatchHosts'
    BY <1>5, <2>2 DEF AdoptWriterConn, OthersKept
  <2>6. SharedConnsPresent'
    BY <1>5, <2>2, <2>4 DEF AdoptWriterConn, OthersKept, HandoffInv, WriterMutexHeld
  <2>7. WriterConnMatchesHost' /\ MainConnMatchesWriterHost'
    <3>1. conn[hdbc["writer"]] = node_threads_writer_host_info
      BY <1>5, <2>4 DEF AdoptWriterConn, WriterConnReady, Usable
    <3>2. /\ main_writer_host_info' = Endpoint(node_threads_writer_host_info)
          /\ node_threads_writer_host_info # None
      BY <1>5 DEF AdoptWriterConn, WriterConnReady, HandedHostInfo
    <3>3. main_writer_host_info' # None /\ main_writer_host_info'.host = conn'[hdbc'["main"]]
      BY <2>3, <3>1, <3>2, EndpointNamesHost
    <3>4. WriterConnMatchesHost'
      BY <1>5, <2>2 DEF AdoptWriterConn
    <3>5. QED
      BY <3>3, <3>4
  <2>8. QED
    BY <2>1, <2>5, <2>6, <2>7
<1>6. CASE JoinNodeMonitors \/ RegularJoin \/ RunEnds
  <2>1. UNCHANGED <<conn, hdbc, is_writer_connection, main_writer_host_info,
                    node_threads_writer_host_info>>
    BY <1>6 DEF JoinNodeMonitors, RegularJoin, RunEnds
  <2>2. npc' = [t \in Hosts |-> "none"]
        /\ reader_update_topology' = [t \in Hosts |-> FALSE]
    BY <1>6 DEF JoinNodeMonitors, RegularJoin, RunEnds, ClearNodeThreads,
                NodeThreadsCleared
  <2>3. writer_hdbc_mutex' \in Hosts => writer_hdbc_mutex' = writer_hdbc_mutex
    BY <1>6 DEF JoinNodeMonitors, RegularJoin, RunEnds
  <2>4. writer_hdbc_mutex \in Hosts => writer_hdbc_mutex' = writer_hdbc_mutex
    BY <1>6 DEF JoinNodeMonitors, RegularJoin, RunEnds, HandoffInv, WriterMutexHeld
  <2>5. QED
    BY <2>1, <2>2, <2>3, <2>4 DEF HandlesOwnedOnce, NoHandleLeaks, Usable
<1>7. CASE SpawnNodeMonitors \/ NoPossibleWriterConn
  <2>1. UNCHANGED <<conn, hdbc, is_writer_connection, main_writer_host_info,
                    node_threads_writer_host_info, reader_update_topology>>
    BY <1>7 DEF SpawnNodeMonitors, NoPossibleWriterConn, StartNodeThreads
  <2>2. \A t \in Hosts : npc'[t] = npc[t] \/ npc'[t] = "check"
    BY <1>7 DEF SpawnNodeMonitors, NoPossibleWriterConn, StartNodeThreads
  <2>3. \/ writer_hdbc_mutex' = writer_hdbc_mutex
        \/ writer_hdbc_mutex = "main_thread" /\ writer_hdbc_mutex' = None
    BY <1>7 DEF SpawnNodeMonitors, NoPossibleWriterConn, HandoffInv,
                WriterMutexHeld
  <2>4. HandlesOwnedOnce' /\ NoHandleLeaks' /\ NodeConnsMatchHosts'
    BY <2>1 DEF HandlesOwnedOnce, NoHandleLeaks
  <2>5. WriterConnMatchesHost' /\ MainConnMatchesWriterHost'
    BY <2>1, <2>3 DEF Usable
  <2>6. SharedConnsPresent'
    BY <2>1, <2>2
  <2>7. QED
    BY <2>4, <2>5, <2>6
<1>8. CASE \/ RunLoop \/ OpenFetchBegins \/ OpenFetchEnds \/ OpenUpdates
           \/ LockWriterConn \/ RegularFetch \/ RegularUpdate \/ DelayEnds
  <2>1. UNCHANGED <<conn, hdbc, is_writer_connection, main_writer_host_info,
                    node_threads_writer_host_info, npc, reader_update_topology>>
    BY <1>8 DEF RunLoop, OpenFetchBegins, OpenFetchEnds, OpenUpdates,
                LockWriterConn, RegularFetch, RegularUpdate, DelayEnds
  <2>2. \/ writer_hdbc_mutex' = writer_hdbc_mutex
        \/ writer_hdbc_mutex = None /\ writer_hdbc_mutex' = "main_thread"
    BY <1>8 DEF RunLoop, OpenFetchBegins, OpenFetchEnds, OpenUpdates,
                LockWriterConn, RegularFetch, RegularUpdate, DelayEnds
  <2>3. QED
    BY <2>1, <2>2 DEF HandlesOwnedOnce, NoHandleLeaks, Usable
<1>9. QED
  BY <1>1, <1>2, <1>3, <1>4, <1>5, <1>6, <1>7, <1>8 DEF MainThread

(* The connections of the other node threads are where they were.          *)
LEMMA NodeConnReleased ==
    ASSUME NodeConnsMatchHosts, NEW t \in Hosts, OthersKept({t}), hdbc'[t] = None
    PROVE  NodeConnsMatchHosts'
BY DEF NodeConnsMatchHosts, OthersKept, HandleSlots

(* A node thread does so with its own, and gives it away once.             *)
LEMMA NodeThreadConnection ==
    ASSUME TypeOK, HandoffInv, ConnectionInv, NEW t \in Hosts, NodeThread(t)
    PROVE  ConnectionInv'
<1> DEFINE Frame == UNCHANGED <<is_writer_connection, main_writer_host_info>>
<1> USE ConstantsAssumption
    DEF ConstantsAssumption, TypeOK, HandleType, NodeType, handleVars,
        shareVars, threadVars, HandleSlots, Slots, NodePc, NodeGoto,
        ConnectionInv, ConnectionsLeadWhereTheyShould, NodeConnsMatchHosts,
        WriterConnMatchesHost, MainConnMatchesWriterHost, SharedConnsPresent
<1>0. Frame /\ t \in HandleSlots /\ t \notin Slots
  BY DEF NodeThread, writerVars
<1>1. CASE NodeCheck(t)
  <2>1. CASE node_threads_stop
    <3>1. HandlesOwnedOnce' /\ NoHandleLeaks' /\ OthersKept({t})
      BY <1>0, <1>1, <2>1, ReleaseConn DEF NodeCheck
    <3>2. hdbc'[t] = None
      BY <1>0, <1>1, <2>1 DEF NodeCheck
    <3>3. NodeConnsMatchHosts' /\ WriterConnMatchesHost'
      <4>1. NodeConnsMatchHosts'
        BY <3>1, <3>2, NodeConnReleased
      <4>2. WriterConnMatchesHost'
        BY <1>0, <1>1, <3>1, <3>2 DEF NodeCheck, OthersKept
      <4>3. QED
        BY <4>1, <4>2
    <3>4. MainConnMatchesWriterHost' /\ SharedConnsPresent'
      BY <1>0, <1>1, <3>1, <3>2 DEF NodeCheck, OthersKept, Usable
    <3>5. QED
      BY <3>1, <3>3, <3>4
  <2>2. CASE ~node_threads_stop
    BY <1>0, <1>1, <2>2 DEF NodeCheck, HandlesOwnedOnce, NoHandleLeaks, Usable
  <2>3. QED
    BY <2>1, <2>2
<1>2. CASE HandleReconnect(t)
  <2>1. /\ HandlesOwnedOnce' /\ NoHandleLeaks' /\ OthersKept({t})
        /\ hdbc'[t] # None => conn'[hdbc'[t]] \in {t}
    BY <1>0, <1>2, ConnectConn DEF HandleReconnect
  <2>2. NodeConnsMatchHosts' /\ WriterConnMatchesHost'
    BY <1>0, <1>2, <2>1 DEF HandleReconnect, OthersKept
  <2>3. MainConnMatchesWriterHost' /\ SharedConnsPresent'
    BY <1>0, <1>2, <2>1 DEF HandleReconnect, OthersKept, Usable
  <2>4. QED
    BY <2>1, <2>2, <2>3
<1>3. CASE HandleWriterConn(t)
  <2>1. CASE hdbc["writer"] # None
    <3>1. HandlesOwnedOnce' /\ NoHandleLeaks' /\ OthersKept({t})
      BY <1>0, <1>3, <2>1, ReleaseConn DEF HandleWriterConn
    <3>2. hdbc'[t] = None
      BY <1>0, <1>3, <2>1 DEF HandleWriterConn
    <3>3. NodeConnsMatchHosts' /\ WriterConnMatchesHost'
      <4>1. UNCHANGED <<writer_hdbc_mutex, node_threads_writer_host_info>>
        BY <1>3, <2>1 DEF HandleWriterConn
      <4>2. NodeConnsMatchHosts'
        BY <3>1, <3>2, NodeConnReleased
      <4>3. WriterConnMatchesHost'
        BY <1>0, <3>1, <4>1 DEF OthersKept
      <4>4. QED
        BY <4>2, <4>3
    <3>4. MainConnMatchesWriterHost'
      BY <1>0, <1>3, <2>1, <3>1 DEF HandleWriterConn, OthersKept, Usable
    <3>5. /\ npc' = [npc EXCEPT ![t] = "check"]
          /\ UNCHANGED reader_update_topology
      BY <1>3, <2>1 DEF HandleWriterConn
    <3>6. SharedConnsPresent'
      BY <1>0, <3>1, <3>5 DEF OthersKept
    <3>7. QED
      BY <3>1, <3>3, <3>4, <3>6
  <2>2. CASE hdbc["writer"] = None
    <3>1. /\ HandlesOwnedOnce' /\ NoHandleLeaks' /\ OthersKept({t, "writer"})
          /\ hdbc'["writer"] = hdbc[t] /\ hdbc'[t] = None
      BY <1>0, <1>3, <2>2, MoveConn DEF HandleWriterConn
    <3>2. writer_hdbc_mutex' = t /\ npc' = [npc EXCEPT ![t] = "writer_fetch"]
      BY <1>3, <2>2 DEF HandleWriterConn
    <3>3. NodeConnsMatchHosts' /\ WriterConnMatchesHost'
      BY <1>0, <1>3, <2>2, <3>1, <3>2 DEF HandleWriterConn, OthersKept
    <3>4. MainConnMatchesWriterHost'
      BY <1>0, <1>3, <2>2, <3>1 DEF HandleWriterConn, OthersKept, Usable
    <3>5. SharedConnsPresent'
      <4> HIDE DEF MainConnMatchesWriterHost, NodeConnsMatchHosts, WriterConnMatchesHost
      <4>1. UNCHANGED reader_update_topology /\ npc[t] = "writer"
        BY <1>3, <2>2 DEF HandleWriterConn
      <4>2. hdbc'["writer"] # None
        BY <3>1, <4>1
      <4>3. hdbc'["reader"] = hdbc["reader"]
        BY <1>0, <3>1 DEF OthersKept
      <4>4. ASSUME NEW u \in Hosts, u # t
            PROVE  npc'[u] = npc[u] /\ hdbc'[u] = hdbc[u]
        BY <3>1, <3>2, <4>4 DEF OthersKept
      <4>5. npc'[t] = "writer_fetch"
        BY <3>2
      <4>6. QED
        BY <4>1, <4>2, <4>3, <4>4, <4>5
    <3>6. QED
      BY <3>1, <3>3, <3>4, <3>5
  <2>3. QED
    BY <2>1, <2>2
<1>4. CASE WriterConnUpdate(t)
  <2>1. writer_hdbc_mutex = t
    BY <1>4 DEF WriterConnUpdate, HandoffInv, WriterMutexHeld
  <2>2. HandlesOwnedOnce' /\ NoHandleLeaks'
    BY <1>4 DEF WriterConnUpdate, HandlesOwnedOnce, NoHandleLeaks
  <2>3. ConnectionsLeadWhereTheyShould'
    BY <1>0, <1>4, <2>1 DEF WriterConnUpdate, AnnounceWriter, Usable
  <2>4. QED
    BY <2>2, <2>3
<1>5. CASE HandleReaderConn(t)
  <2>1. CASE UNCHANGED hdbc
    <3>1. HandlesOwnedOnce' /\ NoHandleLeaks'
      BY <1>5, <2>1 DEF HandleReaderConn, HandlesOwnedOnce, NoHandleLeaks
    <3>2. NodeConnsMatchHosts' /\ WriterConnMatchesHost' /\ MainConnMatchesWriterHost'
      BY <1>0, <1>5, <2>1 DEF HandleReaderConn, Usable
    <3>3. SharedConnsPresent'
      BY <1>0, <1>5, <2>1 DEF HandleReaderConn, ShareReaderConn
    <3>4. QED
      BY <3>1, <3>2, <3>3
  <2>2. CASE /\ hdbc["writer"] = None
             /\ ~reader_update_topology[t] /\ hdbc["reader"] = None
    <3>1. /\ HandlesOwnedOnce' /\ NoHandleLeaks' /\ OthersKept({t, "reader"})
          /\ hdbc'["reader"] = hdbc[t] /\ hdbc'[t] = None
      BY <1>0, <1>5, <2>2, MoveConn DEF HandleReaderConn, ShareReaderConn
    <3>2. NodeConnsMatchHosts' /\ WriterConnMatchesHost'
      BY <1>0, <1>5, <3>1 DEF HandleReaderConn, OthersKept
    <3>3. MainConnMatchesWriterHost'
      BY <1>0, <1>5, <3>1 DEF HandleReaderConn, OthersKept, Usable
    <3>4. /\ npc' = [npc EXCEPT ![t] = "reader_fetch"]
          /\ reader_update_topology' = [reader_update_topology EXCEPT ![t] = TRUE]
          /\ hdbc[t] # None
      BY <1>5, <2>2 DEF HandleReaderConn
    <3>5. SharedConnsPresent'
      BY <1>0, <3>1, <3>4 DEF OthersKept
    <3>6. QED
      BY <3>1, <3>2, <3>3, <3>5
  <2>3. QED
    BY <1>5, <2>1, <2>2 DEF HandleReaderConn
<1>6. CASE \/ NodeRole(t) \/ WriterConnFetch(t)
           \/ ReaderThreadFetchTopology(t) \/ ReaderThreadUpdate(t)
  <2>1. UNCHANGED <<conn, hdbc, writer_hdbc_mutex, reader_update_topology,
                    node_threads_writer_host_info>>
    BY <1>6 DEF NodeRole, WriterConnFetch, ReaderThreadFetchTopology,
                ReaderThreadUpdate
  <2>2. HandlesOwnedOnce' /\ NoHandleLeaks'
    BY <2>1 DEF HandlesOwnedOnce, NoHandleLeaks
  <2>3. NodeConnsMatchHosts' /\ WriterConnMatchesHost' /\ MainConnMatchesWriterHost'
    BY <1>0, <2>1 DEF Usable
  <2>4. \E pc \in NodePc \ {"none", "role", "writer_fetch", "reader_fetch"} :
          /\ npc' = [npc EXCEPT ![t] = pc]
          /\ pc \in {"writer", "reader"} => npc[t] = "role"
    BY <1>6 DEF NodeRole, WriterConnFetch, ReaderThreadFetchTopology,
                ReaderThreadUpdate
  <2>5. SharedConnsPresent'
    BY <2>1, <2>4
  <2>6. QED
    BY <2>2, <2>3, <2>5
<1>7. QED
  BY <1>1, <1>2, <1>3, <1>4, <1>5, <1>6 DEF NodeThread

(* A client opens no connection and drops none but the main one.           *)
LEMMA ClientConnection ==
    ASSUME TypeOK, ConnectionInv, NEW c \in Clients, Client(c)
    PROVE  ConnectionInv'
<1> USE DEF TypeOK, HandleType, handleVars, mutexVars, shareVars, threadVars,
            nodeVars, HandleSlots, Slots, ConnectionInv, NodeConnsMatchHosts,
            WriterConnMatchesHost, MainConnMatchesWriterHost,
            SharedConnsPresent
<1>1. UNCHANGED <<npc, reader_update_topology, writer_hdbc_mutex,
                  node_threads_writer_host_info, main_writer_host_info>>
  BY DEF Client, ClientProceeds, ClientFrame
<1>2. CASE InvalidateMainConn(c) /\ dialect # "multi_az"
  <2>1. DropMainConn
    BY <1>2 DEF InvalidateMainConn
  <2>2. HandlesOwnedOnce' /\ NoHandleLeaks' /\ OthersKept({"main"})
    BY <2>1, ReleaseConn DEF DropMainConn
  <2>3. ~is_writer_connection'
    BY <2>1 DEF DropMainConn
  <2>4. NodeConnsMatchHosts' /\ WriterConnMatchesHost'
    BY <1>1, <2>2, ConstantsAssumption DEF OthersKept, ConstantsAssumption
  <2>5. MainConnMatchesWriterHost' /\ SharedConnsPresent'
    BY <1>1, <2>2, <2>3, ConstantsAssumption DEF OthersKept, ConstantsAssumption
  <2>6. QED
    BY <2>2, <2>4, <2>5
<1>3. CASE UNCHANGED handleVars /\ (is_writer_connection' => is_writer_connection)
  <2>1. HandlesOwnedOnce' /\ NoHandleLeaks'
    BY <1>3 DEF HandlesOwnedOnce, NoHandleLeaks
  <2>2. NodeConnsMatchHosts' /\ WriterConnMatchesHost'
    BY <1>1, <1>3
  <2>3. MainConnMatchesWriterHost' /\ SharedConnsPresent'
    BY <1>1, <1>3 DEF Usable
  <2>4. QED
    BY <2>1, <2>2, <2>3
<1>4. CASE InvalidateMainConn(c) /\ dialect = "multi_az"
  BY <1>3, <1>4 DEF InvalidateMainConn
<1>5. CASE ~InvalidateMainConn(c)
  <2>1. UNCHANGED <<handleVars, is_writer_connection>>
    BY <1>5 DEF Client, ClientProceeds, ForceRefresh, RequestTopologyUpdate,
                TopologyUpdated, WaitTimesOut, WaitReturns, SetHosts,
                ClientFetch, ClientUpdate
  <2>2. QED
    BY <2>1, <1>3
<1>6. QED
  BY <1>2, <1>4, <1>5

(* The destructor frees the handles once no node thread is left.           *)
LEMMA DestructorConnection ==
    TypeOK /\ HandoffInv /\ ConnectionInv /\ Destructor => ConnectionInv'
<1> SUFFICES ASSUME TypeOK, HandoffInv, ConnectionInv, Destructor
             PROVE  ConnectionInv'
  OBVIOUS
<1> USE DEF TypeOK, HandleType, handleVars, mutexVars, writerVars, shareVars,
            threadVars, nodeVars, HandleSlots, Slots, ConnectionInv,
            HandlesOwnedOnce, NoHandleLeaks, NodeConnsMatchHosts,
            WriterConnMatchesHost, MainConnMatchesWriterHost,
            SharedConnsPresent, Usable
<1>1. CASE CleanUpHandles
  <2>1. NoNodeThread
    BY <1>1 DEF CleanUpHandles, HandoffInv, PanicStartsWithoutThreads
  <2>2. QED
    BY <1>1, <2>1, ConstantsAssumption
       DEF Destructor, CleanUpHandles, NoNodeThread, ConstantsAssumption
<1>2. CASE StopRunning \/ StopNodeThreads
  BY <1>2 DEF Destructor, StopRunning, StopNodeThreads
<1>3. QED
  BY <1>1, <1>2 DEF Destructor

(* Every step keeps the invariant.                                         *)
LEMMA ConnectionStep ==
    TypeOK /\ HandoffInv /\ ConnectionInv /\ [Next]_vars => ConnectionInv'
<1>1. TypeOK /\ ConnectionInv /\ UNCHANGED vars => ConnectionInv'
  BY DEF vars, handleVars, mutexVars, writerVars, shareVars, threadVars,
         nodeVars, ConnectionInv, HandlesOwnedOnce, NoHandleLeaks,
         NodeConnsMatchHosts, WriterConnMatchesHost,
         MainConnMatchesWriterHost, SharedConnsPresent, Usable
<1>2. QED
  BY <1>1, EnvironmentConnection, MainThreadConnection, NodeThreadConnection,
     ClientConnection, DestructorConnection DEF Next

(* The invariant holds in every behaviour.                                 *)
LEMMA ConnectionAlways == Spec => [](TypeOK /\ ConnectionInv)
<1>1. Spec => [](TypeOK /\ HandoffInv)
  BY InitHandoff, HandoffStep, TypeCorrect, PTL DEF Spec
<1>2. QED
  BY <1>1, InitConnection, ConnectionStep, PTL DEF Spec

(* However the threads interleave and whatever fails, no connection handle *)
(* is held by two pointers or by one that DisconnectAndFree left behind,   *)
(* and a node thread queries no handle that was freed.                     *)
THEOREM ConnectionsCorrect ==
    Spec => [](HandlesOwnedOnce /\ NodeThreadsQueryLiveHandles)
<1>1. TypeOK /\ ConnectionInv => HandlesOwnedOnce /\ NodeThreadsQueryLiveHandles
  BY DEF TypeOK, HandleType, ConnectionInv, HandlesOwnedOnce,
         SharedConnsPresent, NodeThreadsQueryLiveHandles, HandleSlots, Slots
<1>2. QED
  BY <1>1, ConnectionAlways, PTL

(* None is lost on any of the failure paths.                               *)
THEOREM NoConnectionLost == Spec => []NoHandleLeaks
<1>1. ConnectionInv => NoHandleLeaks
  BY DEF ConnectionInv
<1>2. QED
  BY <1>1, ConnectionAlways, PTL

(* The connection the monitor takes for the writer's leads to the host it  *)
(* takes for the writer, unless that host was named while the query for    *)
(* the role failed (IsWriter, GetWriterId).                                *)
THEOREM WriterConnectionCorrect == Spec => []MainConnMatchesWriterHost
<1>1. ConnectionInv => MainConnMatchesWriterHost
  BY DEF ConnectionInv
<1>2. QED
  BY <1>1, ConnectionAlways, PTL
=============================================================================
