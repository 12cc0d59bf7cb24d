---------------------------- MODULE ConnectRouting ----------------------------
(***************************************************************************)
(* Connect of the Aurora initial connection strategy plugin, which looks   *)
(* for a host of the role asked for until it has one or its time is up     *)
(* (driver/plugin/aurora_initial_connection_strategy), over the limitless  *)
(* plugin and the plugins that connect.                                    *)
(***************************************************************************)
EXTENDS LimitlessRouting

CONSTANTS
    Hosts,           \* instances of the cluster
    Setups,          \* of a connection: the role verified and LIMITLESS_MODE
    MaxCalls,        \* bound: calls of Connect
    MaxFailovers     \* bound: changes of the writer

Verifications == {"none", "writer", "reader"}

ASSUME SetupsAssumption == Setups \subseteq
    [Conns -> [verify : Verifications, mode : {"off", "immediate", "lazy"}]]
(* The endpoint of a shard group is not one of a cluster.                  *)
ASSUME EndpointsAssumption == \A setup \in Setups : \A c \in Conns :
    setup[c].mode # "off" => setup[c].verify = "none"
ASSUME BoundsAssumption == MaxCalls \in Nat /\ MaxFailovers \in Nat

VARIABLES
    verify,          \* VERIFY_INITIAL_CONNECTION_TYPE, or what the endpoint says
    pc,              \* of a connection: where Connect is
    time_up,         \* the time to retry is over
    result,          \* of the last call
    asked,           \* KEY_SERVER: a host, or None for the endpoint
    writer,          \* the writer of the cluster
    topology,        \* the cached one: hosts by role
    calls, failovers

callVars == <<verify, pc, time_up, result, asked>>
clusterVars == <<writer, topology>>
countVars == <<calls, failovers>>
vars == <<limitlessVars, callVars, clusterVars, countVars>>

Topology(hosts, w) == [writers |-> hosts \cap {w}, readers |-> hosts \ {w}]
NoTopology == [writers |-> {}, readers |-> {}]

Init ==
    /\ \E setup \in Setups :
         /\ verify = [c \in Conns |-> setup[c].verify]
         /\ limitless = [c \in Conns |-> setup[c].mode]
    /\ LimitlessInit
    /\ pc = [c \in Conns |-> "idle"] /\ time_up = [c \in Conns |-> FALSE]
    /\ result = [c \in Conns |-> "none"]
    /\ asked = [c \in Conns |-> None]
    /\ writer \in Hosts /\ topology = NoTopology
    /\ calls = 0 /\ failovers = 0

Phases == {"idle", "freeing", "refresh", "loop", "endpoint", "candidate", "as_it_is",
           "info", "role", "recheck"}
TypeOK ==
    /\ LimitlessTypeOK
    /\ verify \in [Conns -> Verifications] /\ time_up \in [Conns -> BOOLEAN]
    /\ pc \in [Conns -> Phases] /\ result \in [Conns -> Outcomes]
    /\ asked \in [Conns -> Hosts \cup {None}] /\ writer \in Hosts
    /\ topology \in [writers : SUBSET Hosts, readers : SUBSET Hosts]
    /\ server \in [Conns -> Hosts \cup Routers \cup {None}]
    /\ calls \in 0 .. MaxCalls /\ failovers \in 0 .. MaxFailovers

-----------------------------------------------------------------------------
Moves(c, p) == pc' = [pc EXCEPT ![c] = p]
Returns(c, rc) == Moves(c, "idle") /\ result' = [result EXCEPT ![c] = rc]

(* The next plugin is called, and has answered.                            *)
CallsNext(c, then) ==
    Moves(c, then) /\ search' = [search EXCEPT ![c] = [NoSearch EXCEPT !.at = "start"]]
NextAnswered(c) ==
    search[c].at = "done" /\ search' = [search EXCEPT ![c] = NoSearch]
Disconnect(c) == server' = [server EXCEPT ![c] = None]

otherVars == <<limitless, enabled, service, monitorVars, round_robin, verify, time_up,
               countVars>>
Unrouted == <<otherVars, search, server>>

(* The application connects a handle that is not connected; its connection *)
(* string enables the limitless plugin again.  A custom endpoint says      *)
(* nothing of a role.                                                      *)
Connect(c) ==
    /\ pc[c] = "idle" /\ server[c] = None /\ calls < MaxCalls /\ calls' = calls + 1
    /\ enabled' = [enabled EXCEPT ![c] = limitless[c] # "off"]
    /\ time_up' = [time_up EXCEPT ![c] = FALSE]
    /\ result' = [result EXCEPT ![c] = "none"]
    /\ IF verify[c] = "none" THEN CallsNext(c, "as_it_is")
       ELSE Moves(c, IF topology = NoTopology THEN "refresh" ELSE "loop")
            /\ UNCHANGED search
    /\ asked' = [asked EXCEPT ![c] = None]
    /\ UNCHANGED <<limitless, service, monitorVars, round_robin, server, verify,
                   clusterVars, failovers>>

ForceRefreshes == topology' \in {topology, Topology(Hosts, writer)}

ForceRefreshHosts(c) ==
    /\ pc[c] = "refresh" /\ ForceRefreshes /\ Moves(c, "loop")
    /\ UNCHANGED <<Unrouted, asked, result, writer>>

(* GetReader: none where the round robin throws, which it does for a host  *)
(* with the weight 0.                                                      *)
Candidates(c) ==
    IF verify[c] = "writer" THEN topology.writers
    ELSE topology.readers

(* A turn of the loop of GetVerifiedWriter or GetVerifiedReader.           *)
TriesCandidate(c) ==
    /\ pc[c] = "loop" /\ ~time_up[c]
    /\ \E host \in Candidates(c) : asked' = [asked EXCEPT ![c] = host]
    /\ CallsNext(c, "candidate")
    /\ UNCHANGED <<otherVars, server, result, clusterVars>>
TriesEndpoint(c) ==
    /\ pc[c] = "loop" /\ ~time_up[c]
    /\ Candidates(c) = {} \/ verify[c] = "reader"
    /\ CallsNext(c, "endpoint")
    /\ UNCHANGED <<otherVars, asked, server, result, clusterVars>>
GivesUp(c) ==
    /\ pc[c] = "loop" /\ time_up[c] /\ CallsNext(c, "as_it_is")
    /\ UNCHANGED <<otherVars, asked, server, result, clusterVars>>

(* A connection that is not verified is returned as it is.                 *)
ReturnsUnverified(c) ==
    /\ pc[c] = "as_it_is" \/ (pc[c] = "candidate" /\ verify[c] = "writer"
                                                  /\ search[c].rc = "ok")
    /\ NextAnswered(c) /\ Returns(c, search[c].rc)
    /\ UNCHANGED <<otherVars, asked, server, clusterVars>>

AttemptFails(c) ==
    /\ pc[c] \in {"endpoint", "candidate"} /\ NextAnswered(c) /\ search[c].rc # "ok"
    /\ Disconnect(c)
    /\ IF search[c].rc = "network" THEN Moves(c, "loop") /\ UNCHANGED result
       ELSE Returns(c, search[c].rc)
    /\ UNCHANGED <<otherVars, asked, clusterVars>>

(* The role of the connection is asked for: of the topology, made anew, or *)
(* of the server.                                                          *)
Verifies(c) ==
    /\ NextAnswered(c) /\ search[c].rc = "ok"
    /\ \/ pc[c] = "endpoint" /\ ForceRefreshes /\ Moves(c, "info")
       \/ /\ pc[c] = "candidate" /\ verify[c] = "reader" /\ Moves(c, "role")
          /\ UNCHANGED topology
    /\ UNCHANGED <<otherVars, asked, server, result, writer>>

KeepsInvalid(c) ==             \* mutant: a connection of the wrong role is left
    Moves(c, "loop") /\ UNCHANGED <<server, result>>
Refuses(c) ==
    Moves(c, "loop") /\ Disconnect(c) /\ UNCHANGED result
Accepts(c) == Returns(c, "ok") /\ UNCHANGED server

(* HasNoReadersAndTopologyIsHealthy: true if there is a host that is not   *)
(* the writer.                                                             *)
HasNoReaders == topology.readers # {}

GetConnectionInfo(c) ==
    /\ pc[c] = "info"
    /\ \/ Refuses(c)    \* the instance is not known
       \/ /\ server[c] \in IF verify[c] = "writer" THEN topology.writers
                           ELSE topology.readers
          /\ Accepts(c)
       \/ /\ server[c] \in topology.writers /\ verify[c] = "reader"
          /\ IF HasNoReaders THEN Accepts(c) ELSE Refuses(c)
    /\ UNCHANGED <<otherVars, asked, search, clusterVars>>

GetConnectionRole(c) ==
    /\ pc[c] = "role"
    /\ \/ server[c] # writer /\ Accepts(c) /\ UNCHANGED topology
       \/ /\ Moves(c, "recheck") /\ ForceRefreshes
          /\ UNCHANGED <<server, result>>
    /\ UNCHANGED <<otherVars, asked, search, writer>>
RechecksTopology(c) ==
    /\ pc[c] = "recheck"
    /\ IF HasNoReaders THEN Accepts(c) ELSE Refuses(c)
    /\ UNCHANGED <<otherVars, asked, search, clusterVars>>

(* The plugin that connects: a host, or one an endpoint leads to.          *)
Reachable(c) == IF asked[c] = None THEN Hosts ELSE {asked[c]}

RoutingStep(c) ==
    \/ (EstablishConnection(c) \/ DirectConnect(c, Reachable(c)))
         /\ UNCHANGED <<callVars, clusterVars, countVars>>
    \/ ForceRefreshHosts(c) \/ TriesCandidate(c) \/ TriesEndpoint(c) \/ GivesUp(c)
    \/ ReturnsUnverified(c) \/ AttemptFails(c) \/ Verifies(c)
    \/ GetConnectionInfo(c) \/ GetConnectionRole(c) \/ RechecksTopology(c)

TimePasses(c) ==
    /\ pc[c] \in {"refresh", "loop"} /\ ~time_up[c]
    /\ time_up' = [time_up EXCEPT ![c] = TRUE]
    /\ UNCHANGED <<limitlessVars, verify, pc, result, asked, clusterVars, countVars>>

-----------------------------------------------------------------------------
(* The application disconnects, or frees the handle: its plugins with it.  *)

SQLDisconnect(c) ==
    /\ pc[c] = "idle" /\ server[c] # None /\ Disconnect(c)
    /\ UNCHANGED <<otherVars, search, pc, result, asked, clusterVars>>
FreeConnect(c) ==
    /\ pc[c] = "idle" /\ server[c] = None /\ service[c]
    /\ \/ StopsMonitor(c) /\ Moves(c, "freeing")
       \/ Uncounts(c) /\ UNCHANGED pc
    /\ UNCHANGED <<limitless, enabled, round_robin, search, server, verify, time_up,
                   result, asked, clusterVars, countVars>>
Freed(c) ==
    /\ pc[c] = "freeing" /\ Joined(c) /\ Moves(c, "idle")
    /\ UNCHANGED <<limitless, enabled, round_robin, search, server, verify, time_up,
                   result, asked, clusterVars, countVars>>

(* The cluster fails over; the monitor of its topology notices.            *)
FailsOver ==
    /\ failovers < MaxFailovers /\ failovers' = failovers + 1
    /\ writer' \in Hosts \ {writer}
    /\ UNCHANGED <<limitlessVars, callVars, topology, calls>>
TopologyUpdated ==
    /\ topology' = Topology(Hosts, writer)
    /\ UNCHANGED <<limitlessVars, callVars, writer, countVars>>

Next ==
    \/ \E c \in Conns :
         \/ Connect(c) \/ RoutingStep(c) \/ TimePasses(c)
         \/ SQLDisconnect(c) \/ FreeConnect(c) \/ Freed(c)
    \/ (MonitorRuns \/ MonitorEnds \/ CacheExpires)
         /\ UNCHANGED <<callVars, clusterVars, countVars>>
    \/ FailsOver \/ TopologyUpdated

Spec == Init /\ [][Next]_vars

(* No attempt starts while the connection of the one before is open, and a *)
(* call that fails leaves none: every way round the loop disconnects       *)
(* (aurora_initial_connection_strategy_plugin.cpp:203-259).                *)
NoConnectionLeft ==
    \A c \in Conns :
        /\ pc[c] \in {"refresh", "loop"} \/ search[c].at = "start" => server[c] = None
        /\ pc[c] = "idle" /\ result[c] \in {"network", "other"} => server[c] = None
===============================================================================
