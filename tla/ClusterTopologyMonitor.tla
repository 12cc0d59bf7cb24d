---------------------- MODULE ClusterTopologyMonitor ----------------------
(***************************************************************************)
(* The cluster topology monitor of driver/host_list_providers: one main    *)
(* monitoring thread, one node monitoring thread per host while the        *)
(* monitor is in panic mode, and the application threads that call         *)
(* ForceRefresh.  They share connections (SQLHDBC handles) and the         *)
(* topology cache, under hdbc_mutex_ and node_threads_writer_hdbc_mutex_.  *)
(*                                                                         *)
(* Data abstraction.  A topology is its writer and its set of hosts.  A    *)
(* handle is a member of Handles, and conn[h] is the host it is connected  *)
(* to, Broken (allocated, but no query on it succeeds) or Freed.  Time is  *)
(* reduced to the three positions of ignore_topology_request_end_ms_; every*)
(* bounded wait may end at any moment, so request_update_topology_ and the *)
(* refresh rates, which only shorten waits, are left out.  The mutexes that*)
(* are only taken around single assignments are the atomicity of an action.*)
(***************************************************************************)
EXTENDS Naturals, FiniteSets

CONSTANTS
    Hosts,        \* the hosts the cluster may have
    Clients,      \* application threads
    Handles,      \* SQLHDBC values, more than there are pointers to them
    FirstWriter,  \* the writer to start with
    Scenarios,    \* bounds, of which a behaviour has one: see Budgets
    Reachable,    \* the hosts a monitoring connection can be opened to
    Dialects,     \* the dialects UpdateDialect may install
    MayDestroy,   \* whether the monitor is destroyed at some point
    None, Freed, Broken, Unnamed

Slots == {"main", "local", "writer", "reader"}
HandleSlots == Slots \cup Hosts

(* A HostInfo names a host by its endpoint, as the topology does, or by the *)
(* id that GetWriterId answered, which never equals an endpoint; or it is   *)
(* such an id of which the host that was asked had not said that it is the  *)
(* writer.                                                                  *)
HostInfos == [host : Hosts \cup {Unnamed}, by : {"endpoint", "id", "unverified"}]

(* Bounds: the hosts of the cluster to start with, how many failures of the*)
(* environment there may be, of which kinds, and the ForceRefresh overloads*)
(* the clients use.                                                        *)
Budgets == [hosts : SUBSET Hosts, faults : Nat,
            kinds : SUBSET {"failover", "scale", "break", "connect", "role"},
            calls : SUBSET {"verify", "noverify", "hdbc"}]

ASSUME ConstantsAssumption ==
    /\ IsFiniteSet(Hosts) /\ IsFiniteSet(Handles)
    /\ Cardinality(Handles) > Cardinality(HandleSlots)
    /\ Reachable \subseteq Hosts
    /\ Scenarios \subseteq Budgets /\ \A s \in Scenarios : FirstWriter \in s.hosts
    /\ Dialects # {} /\ Dialects \subseteq {"aurora", "multi_az"}
    /\ MayDestroy \in BOOLEAN
    /\ Hosts \cap (Slots \cup Clients \cup {"main_thread"}) = {}
    /\ "main_thread" \notin Clients
    /\ None \notin Handles /\ None \notin Hosts \cup Clients \cup {"main_thread"}
    /\ Freed \notin Hosts /\ Broken \notin Hosts /\ Freed # Broken
    /\ Unnamed \notin Hosts \cup {None} /\ None \notin HostInfos

VARIABLES
    (* the cluster *)
    cluster,                  \* [writer, hosts]: what a topology query sees
    budget,                   \* the scenario, with the failures that are left
    dialect,                  \* dialect_ (with topology_util_)
    (* connections *)
    conn,                     \* what each handle is
    hdbc,                     \* the handle each pointer of HandleSlots holds
    hdbc_mutex, writer_hdbc_mutex,   \* their holders
    (* the monitor's fields *)
    topology_map,             \* the cache entry GetHosts and SetHosts use
    is_running, is_writer_connection, main_writer_host_info,
    ignore_topology_request_end, node_threads_stop, node_threads_writer_host_info,
    node_threads_latest_topology,
    (* the main thread *)
    mpc, mhosts, querying, thread_writer_verified,
    (* the node monitoring threads, by the host each monitors *)
    npc, nhosts, reader_update_topology, writer_changed, writer_host_info,
    (* the application threads *)
    cpc, call, chosts, updated,
    dpc                       \* the destructor

clusterVars == <<cluster, dialect>>
handleVars  == <<conn, hdbc>>
mutexVars   == <<hdbc_mutex, writer_hdbc_mutex>>
cacheVars   == <<topology_map, updated>>
writerVars  == <<is_writer_connection, main_writer_host_info,
                 ignore_topology_request_end>>
shareVars   == <<node_threads_stop, node_threads_writer_host_info,
                 node_threads_latest_topology>>
localVars   == <<mhosts, querying, thread_writer_verified>>
threadVars  == <<nhosts, reader_update_topology, writer_changed>>
nodeVars    == <<npc, threadVars, writer_host_info>>
clientVars  == <<cpc, call, chosts>>

vars == <<clusterVars, budget, handleVars, mutexVars, cacheVars, is_running,
          writerVars, shareVars, mpc, localVars, nodeVars, clientVars, dpc>>

NoTopology == [writer |-> None, hosts |-> {}]
Topology == [writer : Hosts, hosts : SUBSET Hosts]

Init ==
    /\ budget \in Scenarios
    /\ cluster = [writer |-> FirstWriter, hosts |-> budget.hosts]
    /\ dialect \in Dialects
    /\ conn = [h \in Handles |-> Freed]
    /\ hdbc = [s \in HandleSlots |-> None]
    /\ hdbc_mutex = None /\ writer_hdbc_mutex = None
    /\ topology_map = NoTopology
    /\ is_running = TRUE              \* StartMonitor
    /\ is_writer_connection = FALSE
    /\ main_writer_host_info = None
    /\ ignore_topology_request_end = "epoch"
    /\ node_threads_stop = FALSE
    /\ node_threads_writer_host_info = None
    /\ node_threads_latest_topology = NoTopology
    /\ mpc = "loop" /\ mhosts = NoTopology /\ querying = None
    /\ thread_writer_verified = FALSE
    /\ npc = [t \in Hosts |-> "none"]
    /\ nhosts = [t \in Hosts |-> NoTopology]
    /\ reader_update_topology = [t \in Hosts |-> FALSE]
    /\ writer_changed = [t \in Hosts |-> FALSE]
    /\ writer_host_info = [t \in Hosts |-> None]
    /\ cpc = [c \in Clients |-> "idle"]
    /\ call = [c \in Clients |-> None]
    /\ chosts = [c \in Clients |-> NoTopology]
    /\ updated = [c \in Clients |-> FALSE]
    /\ dpc = "live"

-----------------------------------------------------------------------------
(* The environment: faults are counted, so that it is quiet in the end.    *)

Fault(kind) ==
    /\ kind \in budget.kinds
    /\ budget.faults > 0
    /\ budget' = [budget EXCEPT !.faults = @ - 1]

NoFault == UNCHANGED budget

MonitorVars == <<hdbc, mutexVars, cacheVars, is_running, writerVars, shareVars,
                 mpc, localVars, nodeVars, clientVars, dpc>>

(* The writer is gone and no host has been promoted yet; its connections   *)
(* may have been cut.                                                      *)
FailoverBegins ==
    /\ cluster.writer # None
    /\ Fault("failover")
    /\ cluster' = [cluster EXCEPT !.writer = None]
    /\ \E cut \in BOOLEAN :
         conn' = [h \in Handles |-> IF cut /\ conn[h] = cluster.writer
                                    THEN Broken ELSE conn[h]]
    /\ UNCHANGED <<MonitorVars, dialect>>

FailoverEnds ==
    /\ cluster.writer = None
    /\ \E h \in cluster.hosts : cluster' = [cluster EXCEPT !.writer = h]
    /\ UNCHANGED <<MonitorVars, budget, dialect, conn>>

HostAdded ==
    /\ Fault("scale")
    /\ \E h \in Hosts \ cluster.hosts :
         cluster' = [cluster EXCEPT !.hosts = @ \cup {h}]
    /\ UNCHANGED <<MonitorVars, dialect, conn>>

ConnectionBreaks ==
    /\ Fault("break")
    /\ \E h \in Handles : /\ conn[h] \in Hosts
                          /\ conn' = [conn EXCEPT ![h] = Broken]
    /\ UNCHANGED <<MonitorVars, clusterVars>>

UpdateDialect ==
    /\ dpc = "live"
    /\ \E d \in Dialects \ {dialect} : dialect' = d
    /\ UNCHANGED <<MonitorVars, budget, cluster, conn>>

(* The end of the ignore window passes.                                    *)
IgnoreWindowEnds ==
    /\ ignore_topology_request_end = "running"
    /\ ignore_topology_request_end' = "passed"
    /\ UNCHANGED <<clusterVars, budget, handleVars, mutexVars, cacheVars,
                   is_running, is_writer_connection, main_writer_host_info,
                   shareVars, mpc, localVars, nodeVars, clientVars, dpc>>

Environment == \/ FailoverBegins \/ FailoverEnds \/ HostAdded
               \/ ConnectionBreaks \/ UpdateDialect \/ IgnoreWindowEnds

-----------------------------------------------------------------------------
(* Connections and queries.                                                *)

Usable(h) == h # None /\ conn[h] \in Hosts        \* GetNodeId is not empty

Freeing(hs) == [h \in Handles |-> IF h \in hs THEN Freed ELSE conn[h]]

(* GetNodeId, then QueryTopology, whose VerifyWriter drops a topology that *)
(* names no writer (mutant: it does not).                                  *)
FetchTopologyUnverified(h) == IF Usable(h) THEN cluster ELSE NoTopology

FetchTopology(h) ==
    IF Usable(h) /\ cluster.writer # None THEN cluster ELSE NoTopology

(* GetConnectionRole answers WRITER when its query fails.                  *)
DetectRole(h, role) ==
    \/ /\ role = (IF conn[h] \in {cluster.writer, Broken}
                 THEN "WRITER" ELSE "READER")
       /\ NoFault
    \/ role = "WRITER" /\ Fault("role")

(* The host as the topology names it.                                     *)
Endpoint(host) == [host |-> host, by |-> "endpoint"]

(* On a host that is not the writer GetWriterId finds nothing, but with the *)
(* Multi-AZ dialect the source of its replication (while there is no writer *)
(* whichever that is).                                                      *)
GetWriterId(h) ==
    IF conn[h] \notin Hosts THEN {Unnamed}
    ELSE IF conn[h] = cluster.writer THEN {conn[h]}
    ELSE IF dialect # "multi_az" THEN {Unnamed}
    ELSE IF cluster.writer = None THEN cluster.hosts ELSE {cluster.writer}

WriterInfos(h) ==
    {[host |-> id, by |-> IF conn[h] = cluster.writer THEN "id" ELSE "unverified"] :
        id \in GetWriterId(h)}

(* AllocDbc.  Handles are interchangeable, so any free one will do.        *)
NewHandle == CHOOSE h \in Handles : conn[h] = Freed

(* plugin_head_->Connect to one of the hosts in `at`.                      *)
Connects(slot, at) ==
    \E s \in at \cap cluster.hosts \cap Reachable :
      /\ \E h \in Handles : conn[h] = Freed
      /\ conn' = [Freeing({hdbc[slot]}) EXCEPT ![NewHandle] = s]
      /\ hdbc' = [hdbc EXCEPT ![slot] = NewHandle]
      /\ NoFault

ConnectFails(slot, at) ==
    /\ \/ at \cap cluster.hosts \cap Reachable = {} /\ NoFault
       \/ Fault("connect")
    /\ conn' = Freeing({hdbc[slot]})
    /\ hdbc' = [hdbc EXCEPT ![slot] = None]

(* Mutant: the version is not incremented.                                 *)
UpdateTopologyCacheSilently(hosts) == topology_map' = hosts /\ UNCHANGED updated

UpdateTopologyCache(hosts) ==
    /\ topology_map' = hosts
    /\ updated' = [c \in Clients |-> cpc[c] = "waiting"]

(* CleanUpDbc(main_hdbc_) with is_writer_connection_ = false, which the    *)
(* mutant forgets.                                                         *)
DropMainConnOnly ==
    /\ conn' = Freeing({hdbc["main"]})
    /\ hdbc' = [hdbc EXCEPT !["main"] = None]
    /\ UNCHANGED is_writer_connection

DropMainConn ==
    /\ conn' = Freeing({hdbc["main"]})
    /\ hdbc' = [hdbc EXCEPT !["main"] = None]
    /\ is_writer_connection' = FALSE

InPanicMode == hdbc["main"] = None \/ ~is_writer_connection

NodeThreadsFinished == \A t \in Hosts : npc[t] \in {"none", "ended"}

NodeThreadsCleared ==
    /\ npc' = [t \in Hosts |-> "none"]
    /\ nhosts' = [t \in Hosts |-> NoTopology]
    /\ reader_update_topology' = [t \in Hosts |-> FALSE]
    /\ writer_changed' = [t \in Hosts |-> FALSE]
    /\ writer_host_info' = [t \in Hosts |-> None]

(* node_monitoring_threads_.clear(): joins and destroys every thread.      *)
ClearNodeThreads == NodeThreadsFinished /\ NodeThreadsCleared

(* A new NodeMonitoringThread for each host of ts, none of which has one.  *)
StartNodeThreads(ts) ==
    /\ npc' = [t \in Hosts |-> IF t \in ts THEN "check" ELSE npc[t]]
    /\ UNCHANGED <<nhosts, reader_update_topology, writer_changed>>
    /\ writer_host_info' = [t \in Hosts |-> IF t \in ts
                              THEN main_writer_host_info
                              ELSE writer_host_info[t]]

(* compare_exchange from epoch: the first verified writer opens the window.*)
StartIgnoreWindow ==
    ignore_topology_request_end' =
      IF ignore_topology_request_end = "epoch" THEN "running"
      ELSE ignore_topology_request_end

-----------------------------------------------------------------------------
(* The main thread: Run.                                                   *)

PanicOrRegular ==
    IF ~InPanicMode THEN "regular"
    ELSE IF \A t \in Hosts : npc[t] = "none" THEN "init" ELSE "possible"

(* One turn of the loop (mutant: it does not look at is_running_).         *)
NextTurnAlways == PanicOrRegular

NextTurn == IF is_running THEN PanicOrRegular ELSE "exit"

RunLoop ==
    /\ mpc = "loop"
    /\ mpc' = NextTurn
    /\ UNCHANGED <<writerVars, handleVars, cacheVars, shareVars, mutexVars,
                   nodeVars, localVars, budget>>

(* What InitNodeMonitors cleans up (mutant: not the readers' connection).  *)
NodeConnsWriterOnly == {hdbc["writer"]}
NodeConns == {hdbc["writer"], hdbc["reader"]}

InitNodeMonitors ==
    /\ mpc = "init"
    /\ writer_hdbc_mutex = None
    /\ node_threads_stop' = FALSE
    /\ conn' = Freeing(NodeConns)
    /\ hdbc' = [hdbc EXCEPT !["writer"] = None, !["reader"] = None]
    /\ node_threads_writer_host_info' = None
    /\ node_threads_latest_topology' = NoTopology
    /\ mhosts' = topology_map
    /\ mpc' = IF topology_map # NoTopology THEN "spawn"
              ELSE IF hdbc["main"] = None THEN "open" ELSE "open_fetch"
    /\ UNCHANGED <<writerVars, cacheVars, mutexVars, nodeVars, budget,
                   querying, thread_writer_verified>>

(* OpenAnyConnGetHosts, first part: a connection of its own.  The host it  *)
(* reaches is whatever the cluster endpoint resolves to.                   *)
OpenAnyConn ==
    /\ mpc = "open"
    /\ \/ Connects("local", Hosts) /\ mpc' = "open_set"
       \/ ConnectFails("local", Hosts) /\ mpc' = "spawn"
    /\ UNCHANGED <<writerVars, cacheVars, shareVars, mutexVars, nodeVars,
                   localVars>>

(* Under hdbc_mutex_ the connection becomes main_hdbc_, unless that is set.*)
SetMainConn ==
    /\ mpc = "open_set"
    /\ hdbc_mutex = None
    /\ mpc' = "open_fetch"
    /\ IF hdbc["main"] # None
       THEN /\ conn' = Freeing({hdbc["local"]})
            /\ hdbc' = [hdbc EXCEPT !["local"] = None]
            /\ NoFault
            /\ UNCHANGED <<is_writer_connection, main_writer_host_info,
                           thread_writer_verified>>
       ELSE /\ hdbc' = [hdbc EXCEPT !["main"] = hdbc["local"],
                                    !["local"] = None]
            /\ UNCHANGED conn
            /\ \E role \in {"WRITER", "READER"} :
                 /\ DetectRole(hdbc["local"], role)
                 /\ IF role = "WRITER"
                    THEN /\ writer_hdbc_mutex = None
                         /\ is_writer_connection' = TRUE
                         /\ thread_writer_verified' = TRUE
                         /\ main_writer_host_info' \in WriterInfos(hdbc["local"])
                    ELSE UNCHANGED <<is_writer_connection,
                                     main_writer_host_info,
                                     thread_writer_verified>>
    /\ UNCHANGED <<cacheVars, shareVars, mutexVars, nodeVars,
                   ignore_topology_request_end, mhosts, querying>>

(* *main_hdbc_ is read without hdbc_mutex_.  A null pointer ends the       *)
(* process.                                                                *)
OpenFetchBegins ==
    /\ mpc = "open_fetch"
    /\ querying' = hdbc["main"]
    /\ mpc' = IF hdbc["main"] = None THEN "crashed" ELSE "open_query"
    /\ UNCHANGED <<writerVars, handleVars, cacheVars, shareVars, mutexVars,
                   nodeVars, budget, mhosts, thread_writer_verified>>

(* Querying a handle freed meanwhile may end the process or find nothing.  *)
OpenFetchEnds ==
    /\ mpc = "open_query"
    /\ querying' = None
    /\ mhosts' = FetchTopology(querying)
    /\ mpc' \in IF mhosts' # NoTopology THEN {"open_update"}
                ELSE {"open_fail"} \cup
                     (IF conn[querying] = Freed THEN {"crashed"} ELSE {})
    /\ UNCHANGED <<writerVars, handleVars, cacheVars, shareVars, mutexVars,
                   nodeVars, budget, thread_writer_verified>>

OpenIgnoreWindow ==
    /\ IF thread_writer_verified THEN StartIgnoreWindow
       ELSE UNCHANGED ignore_topology_request_end
    /\ thread_writer_verified' = FALSE

OpenUpdates ==
    /\ mpc = "open_update"
    /\ UpdateTopologyCache(mhosts)
    /\ OpenIgnoreWindow
    /\ mpc' = "spawn"
    /\ UNCHANGED <<handleVars, shareVars, mutexVars, nodeVars, budget,
                   is_writer_connection, main_writer_host_info, mhosts,
                   querying>>

OpenFails ==
    /\ mpc = "open_fail"
    /\ hdbc_mutex = None
    /\ DropMainConn
    /\ OpenIgnoreWindow
    /\ mpc' = "spawn"
    /\ UNCHANGED <<cacheVars, shareVars, mutexVars, nodeVars, budget,
                   main_writer_host_info, mhosts, querying>>

(* The end of InitNodeMonitors: a thread per host, unless the connection   *)
(* just opened is to the writer.                                           *)
HostsToMonitor == IF is_writer_connection THEN {} ELSE mhosts.hosts

SpawnNodeMonitors ==
    /\ mpc = "spawn"
    /\ StartNodeThreads(HostsToMonitor)
    /\ mhosts' = NoTopology
    /\ mpc' = "delay_timing"
    /\ UNCHANGED <<writerVars, handleVars, cacheVars, shareVars, mutexVars,
                   budget, querying, thread_writer_verified>>

(* GetPossibleWriterConn takes node_threads_writer_hdbc_mutex_ first ...   *)
LockWriterConn ==
    /\ mpc = "possible"
    /\ writer_hdbc_mutex = None
    /\ writer_hdbc_mutex' = "main_thread"
    /\ mpc' = "possible_locked"
    /\ UNCHANGED <<writerVars, handleVars, cacheVars, shareVars, nodeVars,
                   localVars, budget, hdbc_mutex>>

(* The host info comes with the connection.                                *)
HandedHostInfo == Endpoint(node_threads_writer_host_info)

WriterConnReady == Usable(hdbc["writer"]) /\ node_threads_writer_host_info # None

(* ... then hdbc_mutex_, to adopt the connection a node thread found.      *)
AdoptWriterConn ==
    /\ mpc = "possible_locked"
    /\ WriterConnReady
    /\ hdbc_mutex = None
    /\ hdbc_mutex' = "main_thread"
    /\ conn' = Freeing({hdbc["main"]})
    /\ hdbc' = [hdbc EXCEPT !["main"] = hdbc["writer"], !["writer"] = None]
    /\ main_writer_host_info' = HandedHostInfo
    /\ is_writer_connection' = TRUE
    /\ StartIgnoreWindow
    /\ node_threads_stop' = TRUE
    /\ mpc' = "join_nodes"
    /\ UNCHANGED <<cacheVars, nodeVars, localVars, budget, writer_hdbc_mutex,
                   node_threads_writer_host_info,
                   node_threads_latest_topology>>

(* Both mutexes are still held while the node threads are joined.          *)
JoinNodeMonitors ==
    /\ mpc = "join_nodes"
    /\ ClearNodeThreads
    /\ hdbc_mutex' = None /\ writer_hdbc_mutex' = None
    /\ mpc' = "delay"
    /\ UNCHANGED <<writerVars, handleVars, cacheVars, shareVars, localVars,
                   budget>>

(* No writer yet: a thread for every host of the latest topology.          *)
NoPossibleWriterConn ==
    /\ mpc = "possible_locked"
    /\ ~WriterConnReady
    /\ StartNodeThreads({t \in node_threads_latest_topology.hosts :
                           npc[t] = "none"})
    /\ writer_hdbc_mutex' = None
    /\ mpc' = "delay_timing"
    /\ UNCHANGED <<writerVars, handleVars, cacheVars, shareVars, localVars,
                   budget, hdbc_mutex>>

RegularJoin ==
    /\ mpc = "regular"
    /\ ClearNodeThreads
    /\ mpc' = "regular_fetch"
    /\ UNCHANGED <<writerVars, handleVars, cacheVars, shareVars, mutexVars,
                   localVars, budget>>

(* HandleRegularMode fetches under hdbc_mutex_.                            *)
RegularFetch ==
    /\ mpc = "regular_fetch"
    /\ hdbc_mutex = None
    /\ mhosts' = FetchTopology(hdbc["main"])
    /\ IF mhosts' # NoTopology
       THEN hdbc_mutex' = "main_thread" /\ mpc' = "regular_update"
       ELSE UNCHANGED hdbc_mutex /\ mpc' = "regular_fail"
    /\ UNCHANGED <<writerVars, handleVars, cacheVars, shareVars, nodeVars,
                   budget, writer_hdbc_mutex, querying,
                   thread_writer_verified>>

RegularUpdate ==
    /\ mpc = "regular_update"
    /\ UpdateTopologyCache(mhosts)
    /\ hdbc_mutex' = None
    /\ mhosts' = NoTopology
    /\ mpc' = "delay_timing"
    /\ UNCHANGED <<writerVars, handleVars, shareVars, nodeVars, budget,
                   writer_hdbc_mutex, querying, thread_writer_verified>>

RegularFail ==
    /\ mpc = "regular_fail"
    /\ hdbc_mutex = None
    /\ DropMainConn
    /\ mpc' = "loop"
    /\ UNCHANGED <<cacheVars, shareVars, mutexVars, nodeVars, localVars,
                   budget, main_writer_host_info, ignore_topology_request_end>>

(* DelayMainThread ends by its timeout, a request or a notification; then  *)
(* HandleIgnoreTopologyTiming, unless a writer has just been adopted.      *)
DelayEnds ==
    /\ mpc \in {"delay", "delay_timing"}
    /\ ignore_topology_request_end' =
         IF mpc = "delay_timing" /\ ignore_topology_request_end = "passed"
         THEN "epoch" ELSE ignore_topology_request_end
    /\ mpc' = "loop"
    /\ UNCHANGED <<handleVars, cacheVars, shareVars, mutexVars, nodeVars,
                   localVars, budget, is_writer_connection,
                   main_writer_host_info>>

RunEnds ==
    /\ mpc = "exit"
    /\ ClearNodeThreads
    /\ mpc' = "done"
    /\ UNCHANGED <<writerVars, handleVars, cacheVars, shareVars, mutexVars,
                   localVars, budget>>

MainThread ==
    /\ \/ RunLoop \/ InitNodeMonitors \/ OpenAnyConn \/ SetMainConn
       \/ OpenFetchBegins \/ OpenFetchEnds \/ OpenUpdates \/ OpenFails
       \/ SpawnNodeMonitors \/ LockWriterConn \/ AdoptWriterConn
       \/ JoinNodeMonitors \/ NoPossibleWriterConn \/ RegularJoin
       \/ RegularFetch \/ RegularUpdate \/ RegularFail \/ DelayEnds \/ RunEnds
    /\ UNCHANGED <<clusterVars, is_running, clientVars, dpc>>

-----------------------------------------------------------------------------
(* A node monitoring thread: NodeMonitoringThread::Run.  Its handle, which *)
(* the constructor allocates, starts out unconnected.                      *)

NodeGoto(t, pc) == npc' = [npc EXCEPT ![t] = pc]

NodeCheck(t) ==
    /\ npc[t] = "check"
    /\ IF node_threads_stop
       THEN /\ conn' = Freeing({hdbc[t]})
            /\ hdbc' = [hdbc EXCEPT ![t] = None]
            /\ NodeGoto(t, "ended")
       ELSE /\ NodeGoto(t, IF Usable(hdbc[t]) THEN "role" ELSE "reconnect")
            /\ UNCHANGED handleVars
    /\ UNCHANGED <<cacheVars, shareVars, threadVars, budget,
                   writer_hdbc_mutex>>

HandleReconnect(t) ==
    /\ npc[t] = "reconnect"
    /\ Connects(t, {t}) \/ ConnectFails(t, {t})
    /\ NodeGoto(t, "check")
    /\ UNCHANGED <<cacheVars, shareVars, threadVars, writer_hdbc_mutex>>

NodeRole(t) ==
    /\ npc[t] = "role"
    /\ \E role \in {"WRITER", "READER"} :
         /\ DetectRole(hdbc[t], role)
         /\ NodeGoto(t, IF role = "WRITER" THEN "writer" ELSE "reader")
    /\ UNCHANGED <<handleVars, cacheVars, shareVars, threadVars,
                   writer_hdbc_mutex>>

(* The first writer connection goes to the monitor, any other is closed.   *)
HandleWriterConn(t) ==
    /\ npc[t] = "writer"
    /\ writer_hdbc_mutex = None
    /\ IF hdbc["writer"] # None
       THEN /\ conn' = Freeing({hdbc[t]})
            /\ hdbc' = [hdbc EXCEPT ![t] = None]
            /\ node_threads_stop' = TRUE
            /\ NodeGoto(t, "check")
            /\ UNCHANGED writer_hdbc_mutex
       ELSE /\ hdbc' = [hdbc EXCEPT !["writer"] = hdbc[t], ![t] = None]
            /\ writer_hdbc_mutex' = t
            /\ NodeGoto(t, "writer_fetch")
            /\ UNCHANGED <<conn, node_threads_stop>>
    /\ UNCHANGED <<cacheVars, threadVars, budget,
                   node_threads_writer_host_info,
                   node_threads_latest_topology>>

WriterConnFetch(t) ==
    /\ npc[t] = "writer_fetch"
    /\ nhosts' = [nhosts EXCEPT ![t] = FetchTopology(hdbc["writer"])]
    /\ NodeGoto(t, "writer_update")
    /\ UNCHANGED <<handleVars, cacheVars, shareVars, budget,
                   writer_hdbc_mutex, reader_update_topology, writer_changed>>

(* Mutant: the host info is left out.                                      *)
StopOtherThreads(t) ==
    node_threads_stop' = TRUE /\ UNCHANGED node_threads_writer_host_info

AnnounceWriter(t) ==
    node_threads_stop' = TRUE /\ node_threads_writer_host_info' = t

WriterConnUpdate(t) ==
    /\ npc[t] = "writer_update"
    /\ IF nhosts[t] # NoTopology THEN UpdateTopologyCache(nhosts[t])
       ELSE UNCHANGED cacheVars
    /\ AnnounceWriter(t)
    /\ writer_hdbc_mutex' = None
    /\ nhosts' = [nhosts EXCEPT ![t] = NoTopology]
    /\ NodeGoto(t, "check")
    /\ UNCHANGED <<handleVars, budget, reader_update_topology,
                   writer_changed, node_threads_latest_topology>>

(* The first reader connection is shared by the readers (mutant: and still *)
(* held by its thread).                                                    *)
KeepAndShareReaderConn(t) == [hdbc EXCEPT !["reader"] = hdbc[t]]
ShareReaderConn(t) == [hdbc EXCEPT !["reader"] = hdbc[t], ![t] = None]

HandleReaderConn(t) ==
    /\ npc[t] = "reader"
    /\ IF hdbc["writer"] # None
       THEN NodeGoto(t, "check") /\ UNCHANGED <<hdbc, reader_update_topology>>
       ELSE /\ NodeGoto(t, "reader_fetch")
            /\ reader_update_topology' = [reader_update_topology EXCEPT ![t] = TRUE]
            /\ hdbc' = IF ~reader_update_topology[t] /\ hdbc["reader"] = None
                       THEN ShareReaderConn(t)
                       ELSE hdbc
    /\ UNCHANGED <<cacheVars, shareVars, budget, writer_hdbc_mutex, nhosts,
                   writer_changed, conn>>

ReaderThreadFetchTopology(t) ==
    /\ npc[t] = "reader_fetch"
    /\ IF Usable(hdbc["reader"])
       THEN /\ nhosts' = [nhosts EXCEPT ![t] = FetchTopology(hdbc["reader"])]
            /\ node_threads_latest_topology' = nhosts'[t]
            /\ NodeGoto(t, "reader_update")
       ELSE NodeGoto(t, "check") /\ UNCHANGED <<nhosts, node_threads_latest_topology>>
    /\ UNCHANGED <<handleVars, cacheVars, budget, writer_hdbc_mutex,
                   reader_update_topology, writer_changed, node_threads_stop,
                   node_threads_writer_host_info>>

(* The cache is updated once the writer is seen to have changed.           *)
ReaderThreadUpdate(t) ==
    /\ npc[t] = "reader_update"
    /\ writer_changed' = [writer_changed EXCEPT ![t] = @ \/
         /\ nhosts[t] # NoTopology
         /\ writer_host_info[t] \notin {None, Endpoint(nhosts[t].writer)}]
    /\ IF writer_changed'[t] THEN UpdateTopologyCache(nhosts[t])
       ELSE UNCHANGED cacheVars
    /\ nhosts' = [nhosts EXCEPT ![t] = NoTopology]
    /\ NodeGoto(t, "check")
    /\ UNCHANGED <<handleVars, shareVars, budget, writer_hdbc_mutex,
                   reader_update_topology>>

NodeThread(t) ==
    /\ \/ NodeCheck(t) \/ HandleReconnect(t) \/ NodeRole(t)
       \/ HandleWriterConn(t) \/ WriterConnFetch(t) \/ WriterConnUpdate(t)
       \/ HandleReaderConn(t) \/ ReaderThreadFetchTopology(t)
       \/ ReaderThreadUpdate(t)
    /\ UNCHANGED <<clusterVars, hdbc_mutex, is_running, writerVars, mpc,
                   localVars, writer_host_info, clientVars, dpc>>

-----------------------------------------------------------------------------
(* Application threads: the two ForceRefresh overloads.                    *)

ClientGoto(c, pc) == cpc' = [cpc EXCEPT ![c] = pc]

(* Outside the ignore window's meaning the code compares now > end.        *)
AnswersFromCache ==
    ignore_topology_request_end = "passed" /\ topology_map # NoTopology

ForceRefresh(c, kind) ==
    /\ cpc[c] = "idle" /\ dpc = "live"
    /\ IF kind # "hdbc" /\ AnswersFromCache
       THEN UNCHANGED <<cpc, call>>
       ELSE /\ call' = [call EXCEPT ![c] = kind]
            /\ ClientGoto(c, CASE kind = "verify" -> "verify"
                               [] kind = "noverify" -> "version"
                               [] kind = "hdbc" -> IF is_writer_connection
                                                   THEN "version" ELSE "fetch")
    /\ UNCHANGED <<handleVars, cacheVars, is_writer_connection, chosts>>

Returns(c) == ClientGoto(c, "idle") /\ call' = [call EXCEPT ![c] = None]

(* verify_writer: the monitor has to find the writer again.  A Multi-AZ    *)
(* monitor keeps its connection.                                           *)
InvalidateMainConn(c) ==
    /\ cpc[c] = "verify"
    /\ hdbc_mutex = None
    /\ IF dialect = "multi_az"
       THEN is_writer_connection' = FALSE /\ UNCHANGED handleVars
       ELSE DropMainConn
    /\ ClientGoto(c, "version")
    /\ UNCHANGED <<cacheVars, call, chosts>>

(* WaitForTopologyUpdate: updated[c] is topology_version_ # version_before.*)
RequestTopologyUpdate(c) ==
    /\ cpc[c] = "version"
    /\ updated' = [updated EXCEPT ![c] = FALSE]
    /\ ClientGoto(c, "waiting")
    /\ UNCHANGED <<handleVars, is_writer_connection, topology_map, call,
                   chosts>>

WaitReturns(c) ==
    /\ cpc[c] = "waiting"
    /\ updated' = [updated EXCEPT ![c] = FALSE]
    /\ IF call[c] = "hdbc" THEN Returns(c) /\ UNCHANGED chosts
       ELSE /\ chosts' = [chosts EXCEPT ![c] = topology_map]
            /\ ClientGoto(c, "set_hosts") /\ UNCHANGED call
    /\ UNCHANGED <<handleVars, is_writer_connection, topology_map>>

TopologyUpdated(c) == updated[c] /\ WaitReturns(c)
WaitTimesOut(c) == ~updated[c] /\ WaitReturns(c)

(* ForceRefresh(verify_writer) puts what it read back into the cache.      *)
SetHosts(c) ==
    /\ cpc[c] = "set_hosts"
    /\ topology_map' = IF chosts[c] # NoTopology THEN chosts[c] ELSE topology_map
    /\ chosts' = [chosts EXCEPT ![c] = NoTopology]
    /\ Returns(c)
    /\ UNCHANGED <<handleVars, is_writer_connection, updated>>

(* ForceRefresh(hdbc) without a verified writer queries on the caller's    *)
(* own connection, which may be to any host or dead.                       *)
ClientFetch(c) ==
    /\ cpc[c] = "fetch"
    /\ \/ Returns(c) /\ UNCHANGED chosts
       \/ /\ cluster.writer # None
          /\ chosts' = [chosts EXCEPT ![c] = cluster]
          /\ ClientGoto(c, "publish") /\ UNCHANGED call
    /\ UNCHANGED <<handleVars, cacheVars, is_writer_connection>>

ClientUpdate(c) ==
    /\ cpc[c] = "publish"
    /\ UpdateTopologyCache(chosts[c])
    /\ chosts' = [chosts EXCEPT ![c] = NoTopology]
    /\ Returns(c)
    /\ UNCHANGED <<handleVars, is_writer_connection>>

ClientFrame ==
    UNCHANGED <<clusterVars, budget, mutexVars, is_running,
                main_writer_host_info, ignore_topology_request_end, shareVars,
                mpc, localVars, nodeVars, dpc>>

(* The steps of a thread that is inside the monitor and not kept waiting.  *)
ClientProceeds(c) ==
    /\ \/ InvalidateMainConn(c) \/ RequestTopologyUpdate(c)
       \/ TopologyUpdated(c) \/ SetHosts(c) \/ ClientFetch(c)
       \/ ClientUpdate(c)
    /\ ClientFrame

Client(c) ==
    \/ ClientProceeds(c)
    \/ (WaitTimesOut(c) \/ \E kind \in budget.calls : ForceRefresh(c, kind)) /\ ClientFrame

-----------------------------------------------------------------------------
(* The destructor, once no application thread is inside the monitor.       *)

StopRunning ==
    /\ dpc = "live" /\ MayDestroy
    /\ \A c \in Clients : cpc[c] = "idle"
    /\ is_running' = FALSE
    /\ dpc' = "stop_nodes"
    /\ UNCHANGED <<handleVars, cacheVars, shareVars>>

StopNodeThreads ==
    /\ dpc = "stop_nodes"
    /\ node_threads_stop' = TRUE
    /\ dpc' = "join"
    /\ UNCHANGED <<handleVars, cacheVars, is_running,
                   node_threads_writer_host_info,
                   node_threads_latest_topology>>

(* Joins the main thread; FreeEnv frees every handle that is left.         *)
CleanUpHandles ==
    /\ dpc = "join"
    /\ mpc = "done"
    /\ conn' = [h \in Handles |-> Freed]
    /\ hdbc' = [s \in HandleSlots |-> None]
    /\ dpc' = "destroyed"
    /\ UNCHANGED <<cacheVars, shareVars, is_running>>

Destructor ==
    /\ StopRunning \/ StopNodeThreads \/ CleanUpHandles
    /\ UNCHANGED <<clusterVars, budget, mutexVars, cacheVars, writerVars, mpc,
                   localVars, nodeVars, clientVars>>

-----------------------------------------------------------------------------
Next ==
    \/ MainThread
    \/ \E t \in Hosts : NodeThread(t)
    \/ \E c \in Clients : Client(c)
    \/ Destructor
    \/ Environment

Spec == Init /\ [][Next]_vars

(* Every thread that can run eventually runs, and a failover completes.    *)
(* Nothing makes a client call, lets its wait time out (a wait may be as   *)
(* long as the caller says), or destroys the monitor.  A node thread gets  *)
(* node_threads_writer_hdbc_mutex_ if it is free again and again: between  *)
(* two times the main thread takes it lies a wait of at least 50 ms.       *)
Fairness ==
    /\ WF_vars(MainThread)
    /\ \A t \in Hosts : /\ WF_vars(NodeThread(t))
                        /\ SF_vars(npc[t] = "writer" /\ NodeThread(t))
    /\ \A c \in Clients : WF_vars(ClientProceeds(c))
    /\ WF_vars(dpc # "live" /\ Destructor)
    /\ WF_vars(FailoverEnds)

FairSpec == Spec /\ Fairness

-----------------------------------------------------------------------------
MainPc == {"loop", "init", "open", "open_set", "open_fetch", "open_query",
           "open_update", "open_fail", "spawn", "possible",
           "possible_locked", "join_nodes", "regular", "regular_fetch",
           "regular_update", "regular_fail", "delay", "delay_timing", "exit",
           "done", "crashed"}
NodePc == {"none", "check", "reconnect", "role", "writer", "writer_fetch",
           "writer_update", "reader", "reader_fetch", "reader_update",
           "ended"}
ClientPc == {"idle", "verify", "version", "waiting", "set_hosts",
             "fetch", "publish"}
TopologyOrNone == Topology \cup {NoTopology}

ClusterType ==
    /\ cluster \in [writer : Hosts \cup {None}, hosts : SUBSET Hosts]
    /\ budget \in Budgets
    /\ dialect \in Dialects
HandleType ==
    /\ conn \in [Handles -> Hosts \cup {Freed, Broken}]
    /\ hdbc \in [HandleSlots -> Handles \cup {None}]
    /\ hdbc_mutex \in {None, "main_thread"}
    /\ writer_hdbc_mutex \in Hosts \cup {None, "main_thread"}
MonitorType ==
    /\ topology_map \in TopologyOrNone
    /\ is_running \in BOOLEAN /\ is_writer_connection \in BOOLEAN
    /\ main_writer_host_info \in HostInfos \cup {None}
    /\ ignore_topology_request_end \in {"epoch", "running", "passed"}
    /\ node_threads_stop \in BOOLEAN
    /\ node_threads_writer_host_info \in Hosts \cup {None}
    /\ node_threads_latest_topology \in TopologyOrNone
    /\ dpc \in {"live", "stop_nodes", "join", "destroyed"}
MainType ==
    /\ mpc \in MainPc
    /\ mhosts \in TopologyOrNone
    /\ querying \in Handles \cup {None}
    /\ thread_writer_verified \in BOOLEAN
NodeType ==
    /\ npc \in [Hosts -> NodePc]
    /\ nhosts \in [Hosts -> TopologyOrNone]
    /\ reader_update_topology \in [Hosts -> BOOLEAN]
    /\ writer_changed \in [Hosts -> BOOLEAN]
    /\ writer_host_info \in [Hosts -> HostInfos \cup {None}]
ClientType ==
    /\ cpc \in [Clients -> ClientPc]
    /\ call \in [Clients -> {"verify", "noverify", "hdbc", None}]
    /\ chosts \in [Clients -> TopologyOrNone]
    /\ updated \in [Clients -> BOOLEAN]

(* Every field holds a value its declaration allows.                       *)
TypeOK == /\ ClusterType /\ HandleType /\ MonitorType
          /\ MainType /\ NodeType /\ ClientType

-----------------------------------------------------------------------------
(* Safety.                                                                 *)

(* DisconnectAndFree is called at many places on pointers that are moved   *)
(* between threads; no two of them ever hold the same handle, and none     *)
(* still holds a handle that was freed.                                    *)
HandlesOwnedOnce ==
    \A s \in HandleSlots : hdbc[s] # None =>
      /\ conn[hdbc[s]] # Freed
      /\ \A r \in HandleSlots \ {s} : hdbc[r] # hdbc[s]

(* Every allocated handle is still held by some pointer, whichever of the  *)
(* failure paths ran: nothing but FreeEnv could free it otherwise.         *)
NoHandleLeaks ==
    \A h \in Handles : conn[h] # Freed => \E s \in HandleSlots : hdbc[s] = h

(* HandleRegularMode clears node_monitoring_threads_ without setting       *)
(* node_threads_stop_, so a thread left over from panic mode would be      *)
(* joined while it still runs.                                             *)
RegularModeJoinsNoThread ==
    mpc = "regular" => \A t \in Hosts : npc[t] = "none"

(* HandleWriterConn publishes the connection, the topology and the host    *)
(* info in three assignments.  Once its mutex is free GetPossibleWriterConn*)
(* finds all of them, and the node threads have been told to stop.         *)
WriterHandoffComplete ==
    hdbc["writer"] # None /\ writer_hdbc_mutex \notin Hosts
      => node_threads_writer_host_info # None /\ node_threads_stop

(* The connection and the host the monitor takes for the writer are set at *)
(* different places; they are about the same host.  Only if the query for  *)
(* the role failed, which OpenAnyConnGetHosts takes for the answer of a    *)
(* writer, may the host info name none or, with the Multi-AZ dialect, the  *)
(* host that the one it is connected to takes for the writer.              *)
MainConnMatchesWriterHost ==
    LET info == main_writer_host_info IN
    is_writer_connection /\ Usable(hdbc["main"]) =>
      /\ info # None
      /\ \/ info.host = conn[hdbc["main"]]
         \/ info.by = "unverified" /\ ("multi_az" \in Dialects \/ info.host = Unnamed)

(* ReaderThreadFetchTopology dereferences node_threads_reader_hdbc_ without*)
(* its mutex, and HandleWriterConn queries a connection it has given away. *)
NodeThreadsQueryLiveHandles ==
    \A t \in Hosts :
      /\ npc[t] = "reader_fetch" =>
           hdbc["reader"] # None /\ conn[hdbc["reader"]] # Freed
      /\ npc[t] = "writer_fetch" =>
           hdbc["writer"] # None /\ conn[hdbc["writer"]] # Freed

(* Liveness.                                                               *)

(* Panic mode "indicates ... that we need to find and update the topology":*)
(* the monitor leaves it, unless it is destroyed.                          *)
PanicEnds == InPanicMode ~> ~InPanicMode \/ ~is_running

(* A thread in WaitForTopologyUpdate is woken by a new topology and not    *)
(* only by its timeout.                                                    *)
RequestServed ==
    \A c \in Clients : cpc[c] = "waiting" ~> (updated[c] \/ cpc[c] # "waiting")

(* The destructor returns: it stops the node threads and joins the rest.   *)
DestructorReturns == dpc = "stop_nodes" ~> dpc = "destroyed"

=============================================================================
