--------------------------- MODULE LimitlessRouting ---------------------------
(***************************************************************************)
(* Connect of the limitless plugin (driver/plugin/limitless): one monitor  *)
(* of a service, counted and shared by the connections of the process,     *)
(* keeps the list of routers, each with a weight; a connection goes to the *)
(* router that the weighted round robin of the process has next, then to   *)
(* the others by their weight (driver/host_selector).                      *)
(*                                                                         *)
(* All connections are to one service.  Routers are numbered in the order  *)
(* of their names, and its lists have one in common, so that their entries *)
(* in the cache of the round robin are one and the same.                   *)
(***************************************************************************)
EXTENDS Naturals, FiniteSets

CONSTANTS
    Conns,               \* connections, each used by a thread of its own
    RouterLists,         \* what a query may answer: of each router its weight and its row
    MaxRouterRetries,    \* LIMITLESS_ROUTER_MAX_RETRIES, queries after the first
    MaxConnectRetries,   \* LIMITLESS_MAX_RETRIES, attempts after the round robin
    None

ASSUME RoutersAssumption ==
    \A list \in RouterLists :
        /\ IsFiniteSet(DOMAIN list) /\ DOMAIN list \subseteq Nat \ {0}
        /\ list \in [DOMAIN list -> [weight : Nat \ {0}, row : Nat]]
ASSUME OverlapAssumption ==
    \A list, other \in RouterLists : DOMAIN list \cap DOMAIN other # {}
ASSUME RetriesAssumption == MaxRouterRetries \in Nat /\ MaxConnectRetries \in Nat

Routers == UNION {DOMAIN list : list \in RouterLists}
ASSUME NoneAssumption == None \notin Conns \cup Routers
NoRouters == [h \in {} |-> 0]

VARIABLES
    limitless,       \* LIMITLESS_MODE: "off", "immediate" or "lazy"
    enabled,         \* ENABLE_LIMITLESS, which the first Connect takes back
    service,         \* the plugin has a router service
    monitors,        \* the monitor: how many count on it, its thread, its list
    monitors_lock,   \* limitless_router_monitors_mutex_: who holds it
    round_robin,     \* RoundRobinClusterInfo
    search,          \* of a call: where EstablishConnection is
    server           \* what the connection is connected to

monitorVars == <<monitors, monitors_lock>>
limitlessVars == <<limitless, enabled, service, monitors, monitors_lock, round_robin,
                   search, server>>

(* "picked" is a history: how often each router was since the rounds began *)
(* anew.                                                                   *)
NoRounds == [last |-> None, left |-> 0, rows |-> NoRouters, picked |-> NoRouters]
NoMonitor == [count |-> 0, thread |-> "none", routers |-> NoRouters]
NoSearch == [at |-> "off", routers |-> NoRouters, refused |-> {}, tries |-> 0,
             rc |-> "none"]

LimitlessInit ==
    /\ enabled = [c \in Conns |-> limitless[c] # "off"]
    /\ service = [c \in Conns |-> FALSE]
    /\ monitors = NoMonitor /\ monitors_lock = None /\ round_robin = NoRounds
    /\ search = [c \in Conns |-> NoSearch]
    /\ server = [c \in Conns |-> None]

Lists == RouterLists \cup {NoRouters}
Stages ==
    {"off", "start", "create", "list", "query", "robin", "load", "direct", "done"}
Outcomes == {"none", "ok", "network", "other"}
Searches == [at : Stages, routers : Lists, refused : SUBSET Routers, tries : Nat,
             rc : Outcomes]
Monitors == [count : Nat, thread : {"none", "running", "stopping"}, routers : Lists]

LimitlessTypeOK ==
    /\ limitless \in [Conns -> {"off", "immediate", "lazy"}]
    /\ enabled \in [Conns -> BOOLEAN] /\ service \in [Conns -> BOOLEAN]
    /\ monitors \in Monitors /\ monitors_lock \in Conns \cup {None}
    /\ \E list \in Lists :
         round_robin \in [last : Routers \cup {None}, left : Nat, rows : {list},
                         picked : [DOMAIN list -> Nat]]
    /\ search \in [Conns -> Searches]

-----------------------------------------------------------------------------
(* The weighted round robin: the host after the last one in the order of   *)
(* names, for as many calls as its weight.  Other rows start it anew.      *)

First(hosts) == CHOOSE h \in hosts : \A other \in hosts : h <= other
SkipsLast(last, hosts) ==      \* mutant: the last one does not follow another
    LET later == {h \in hosts : h > last}
    IN IF last \notin hosts \/ Cardinality(later) < 2 THEN First(hosts)
       ELSE First(later)
After(last, hosts) ==
    LET later == {h \in hosts : h > last}
    IN IF last \notin hosts \/ later = {} THEN First(hosts) ELSE First(later)

create_cache_entries(rows) ==
    IF round_robin.rows = rows THEN round_robin
    ELSE [NoRounds EXCEPT !.rows = rows, !.picked = [h \in DOMAIN rows |-> 0]]

GetHost(rows) ==
    LET info == create_cache_entries(rows)
        stays == info.left > 0 /\ info.last \in DOMAIN rows
        next == IF stays THEN info.last
                ELSE IF info.last = None THEN First(DOMAIN rows)
                ELSE After(info.last, DOMAIN rows)
        left == IF stays THEN info.left ELSE rows[next].weight
    IN [info EXCEPT !.last = next, !.left = left - 1, !.picked[next] = @ + 1]

(* The entries of a SlidingCacheMap not asked for in time are gone.        *)
CacheExpires ==
    /\ round_robin' = NoRounds
    /\ UNCHANGED <<limitless, enabled, service, monitorVars, search, server>>

-----------------------------------------------------------------------------
(* The monitor.                                                            *)

(* A query that answers nothing leaves the list as it is.                  *)
MonitorRuns ==
    /\ monitors.thread = "running"
    /\ \E list \in RouterLists : monitors' = [monitors EXCEPT !.routers = list]
    /\ UNCHANGED <<limitless, enabled, service, monitors_lock, round_robin, search,
                   server>>

MonitorEnds ==
    /\ monitors.thread = "stopping"
    /\ monitors' = [monitors EXCEPT !.thread = "none"]
    /\ UNCHANGED <<limitless, enabled, service, monitors_lock, round_robin, search,
                   server>>

-----------------------------------------------------------------------------
(* Connect.                                                                *)

Goes(c, at) == search' = [search EXCEPT ![c].at = at]
Answers(c, rc) == search' = [search EXCEPT ![c].at = "done", ![c].rc = rc]

(* The next plugins connect, or do not.                                    *)
NextConnects(c, host) ==
    server' = [server EXCEPT ![c] = host] /\ Answers(c, "ok")

DirectConnect(c, hosts) ==
    /\ search[c].at = "direct"
    /\ \/ \E host \in hosts : NextConnects(c, host)
       \/ /\ \E rc \in {"network", "other"} : Answers(c, rc)
          /\ UNCHANGED server
    /\ UNCHANGED <<limitless, enabled, service, monitorVars, round_robin>>

PassesOn(c) ==
    /\ search[c].at = "start" /\ ~enabled[c] /\ Goes(c, "direct")
    /\ UNCHANGED <<limitless, enabled, service, monitorVars, round_robin, server>>

SharesUncounted(c) ==          \* mutant: a monitor that is there is not counted
    /\ search[c].at = "start" /\ enabled[c] /\ monitors_lock = None
    /\ enabled' = [enabled EXCEPT ![c] = FALSE]
    /\ service' = [service EXCEPT ![c] = TRUE]
    /\ IF monitors.count > 0 THEN Goes(c, "list") /\ UNCHANGED monitorVars
       ELSE Goes(c, "create") /\ monitors_lock' = c /\ UNCHANGED monitors
    /\ UNCHANGED <<limitless, round_robin, server>>
StartMonitoring(c) ==
    /\ search[c].at = "start" /\ enabled[c] /\ monitors_lock = None
    /\ enabled' = [enabled EXCEPT ![c] = FALSE]
    /\ service' = [service EXCEPT ![c] = TRUE]
    /\ IF monitors.count > 0
       THEN /\ monitors' = [monitors EXCEPT !.count = @ + 1]
            /\ Goes(c, "list") /\ UNCHANGED monitors_lock
       ELSE Goes(c, "create") /\ monitors_lock' = c /\ UNCHANGED monitors
    /\ UNCHANGED <<limitless, round_robin, server>>

(* The first query is made before the thread starts, but not in the lazy   *)
(* mode; the lock is held all the time.                                    *)
CreateMonitor(c) ==
    /\ search[c].at = "create"
    /\ \E list \in IF limitless[c] = "lazy" THEN {NoRouters} ELSE Lists :
         monitors' = [count |-> 1, thread |-> "running", routers |-> list]
    /\ Goes(c, "list") /\ monitors_lock' = None
    /\ UNCHANGED <<limitless, enabled, service, round_robin, server>>

Knows(c, list) ==
    search' = [search EXCEPT ![c].at = "robin", ![c].routers = list, ![c].tries = 0]

TakesList(c) ==
    /\ search[c].at = "list"
    /\ IF monitors.routers = NoRouters THEN Goes(c, "query")
       ELSE Knows(c, monitors.routers)
    /\ UNCHANGED <<limitless, enabled, service, monitorVars, round_robin, server>>

(* Without a list the connection asks itself, on another connection.       *)
QueriesDirectly(c) ==
    /\ search[c].at = "query"
    /\ \/ \E list \in RouterLists : Knows(c, list)
       \/ IF search[c].tries < MaxRouterRetries
          THEN search' = [search EXCEPT ![c].tries = @ + 1]
          ELSE Answers(c, "network")
    /\ UNCHANGED <<limitless, enabled, service, monitorVars, round_robin, server>>

RoundRobinConnects(c) ==
    /\ search[c].at = "robin" /\ round_robin' = GetHost(search[c].routers)
    /\ \/ NextConnects(c, round_robin'.last)
       \/ Goes(c, "load") /\ UNCHANGED server
    /\ UNCHANGED <<limitless, enabled, service, monitorVars>>

HighestWeight(rows, down) ==
    {h \in DOMAIN rows \ down :
        \A other \in DOMAIN rows \ down : rows[other].weight <= rows[h].weight}

HighestWeightConnects(c) ==
    /\ search[c].at = "load"
    /\ search[c].tries < MaxConnectRetries
    /\ \E host \in HighestWeight(search[c].routers, search[c].refused) :
         \/ NextConnects(c, host)
         \/ /\ search' = [search EXCEPT ![c].tries = @ + 1,
                                        ![c].refused = @ \cup {host}]
            /\ UNCHANGED server
    /\ UNCHANGED <<limitless, enabled, service, monitorVars, round_robin>>

NoMoreRouters(c) ==
    /\ search[c].at = "load"
    /\ \/ search[c].tries = MaxConnectRetries
       \/ search[c].refused = DOMAIN search[c].routers
    /\ Answers(c, "network")
    /\ UNCHANGED <<limitless, enabled, service, monitorVars, round_robin, server>>

EstablishConnection(c) ==
    \/ PassesOn(c) \/ StartMonitoring(c) \/ CreateMonitor(c) \/ TakesList(c)
    \/ QueriesDirectly(c) \/ RoundRobinConnects(c) \/ HighestWeightConnects(c)
    \/ NoMoreRouters(c)

-----------------------------------------------------------------------------
(* The service goes with its connection, the monitor with the last service *)
(* that counts on it: its thread is joined with the lock held.             *)
StopsMonitor(c) ==
    /\ service[c] /\ monitors_lock = None /\ monitors.count = 1
    /\ monitors_lock' = c /\ monitors' = [NoMonitor EXCEPT !.thread = "stopping"]
    /\ UNCHANGED service
Uncounts(c) ==
    /\ service[c] /\ monitors_lock = None
    /\ monitors.count > 1 /\ monitors' = [monitors EXCEPT !.count = @ - 1]
    /\ service' = [service EXCEPT ![c] = FALSE] /\ UNCHANGED monitors_lock
Joined(c) ==
    /\ monitors_lock = c /\ monitors.thread = "none"
    /\ service' = [service EXCEPT ![c] = FALSE]
    /\ monitors_lock' = None /\ UNCHANGED monitors

(* While a service counts on the monitor it runs, whatever other           *)
(* connections end meanwhile (EstablishConnection takes it from the map    *)
(* without a look whether it is there, limitless_router_service.cpp:115).  *)
MonitorForEveryService ==
    \A c \in Conns : service[c] /\ monitors_lock # c => monitors.thread = "running"

(* As long as the queries answer the same routers with the same weights in *)
(* the same order of rows, which the round robin compares as one string    *)
(* (HOST_WEIGHT_KEY), it has not picked a router more than a round more    *)
(* often than another; in a round it picks each as often as its weight.    *)
RoundRobinIsFair ==
    LET rounds(h) == round_robin.picked[h] \div round_robin.rows[h].weight
    IN \A h, other \in DOMAIN round_robin.rows : rounds(h) <= rounds(other) + 1
===============================================================================
