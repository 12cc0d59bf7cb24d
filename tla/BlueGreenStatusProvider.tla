---------------------- MODULE BlueGreenStatusProvider ----------------------
(***************************************************************************)
(* The blue/green status provider of driver/plugin/blue_green with its two *)
(* monitors (one thread per role), the thread that resets its context      *)
(* after a switchover, and the connections that share it.  The monitors    *)
(* poll the deployment and report what they see to PrepareStatus, which    *)
(* derives the phase of the switchover and publishes the routes of that    *)
(* phase in the status cache, where the connections find them.             *)
(*                                                                         *)
(* Abstraction.  A host name is <<side, instance>>, the green name of *)
(* an instance being its blue name with a prefix; cluster endpoints are    *)
(* left out.  Blue instance i corresponds to green instance i, whatever    *)
(* their roles.  A hash stands for the value it is computed from.  Time is *)
(* reduced to the switchover timer; the rates of polling and use_ip_,      *)
(* which decides by which address a monitor reconnects, are left out, and  *)
(* so are lookups that fail although the name exists.  PrepareStatus is    *)
(* one step up to ResetContextWhenCompleted, the only place where it waits *)
(* for another lock.                                                       *)
(***************************************************************************)
EXTENDS Naturals, FiniteSets

CONSTANTS
    Instances,       \* instances of the deployment, each blue and green
    StartPhases,     \* where the deployment may be when the provider starts
    MaxDeployments,  \* how many deployments are created: at most one, as the
                     \* addresses are those of one deployment
    MaxIncidents,    \* bound: rollbacks, switchovers out of time, failed turns,
                     \* connections beside the first, the last one's end
    None

Roles == {"SOURCE", "TARGET"}
Names == {"blue", "green"} \X Instances
Ips == {"blue_ip", "green_ip"}

Rank == [UNKNOWN |-> 0, NOT_CREATED |-> 1, CREATED |-> 2, PREPARATION |-> 3,
         IN_PROGRESS |-> 4, POST |-> 5, COMPLETED |-> 6]
Phases == DOMAIN Rank

IsSwitchoverOrCompleted(phase) == Rank[phase] >= Rank["PREPARATION"]

ASSUME BlueGreenAssumption ==
    /\ IsFiniteSet(Instances)
    /\ StartPhases \subseteq Phases \ {"UNKNOWN"}
    /\ MaxDeployments \in {0, 1} /\ MaxIncidents \in Nat
    /\ None \notin Roles \cup Ips

VARIABLES
    (* the deployment *)
    deployment,              \* its phase
    dns_updated, dns_removed, renamed,   \* instances whose blue name resolves
                             \* to green, whose green name is gone, which
                             \* have taken their blue name
    deployments, incidents,     \* how many there were
    (* the monitors, by role *)
    mpc, class_running,
    collect,                 \* collect_ip_ and collect_topology_
    collected,               \* the fields CollectStatus... leave behind
    (* the provider *)
    interim_statuses, interim_status_hashes, last_context_hash,
    latest_status_phase, rollback,
    blue_dns_update_completed, green_dns_removed, green_topology_changed,
    all_green_nodes_changed, iam_host_success_connects,
    host_ip_map, role_by_host_map,
    switchover_timer,        \* post_status_end_time_
    active_switchover,       \* a phase of a switchover is in phase_time_map_
    status_cache,            \* this provider's entry
    (* its life cycle *)
    monitors,                \* whether monitors_ holds two monitors
    pending_restart,
    rpc, dpc,                \* the reset thread, the destructor
    users                    \* how many connections share the provider

deploymentVars == <<deployment, dns_updated, dns_removed, renamed, deployments>>
monitorVars    == <<mpc, class_running, collect, collected>>
phaseVars      == <<latest_status_phase, rollback, switchover_timer, active_switchover>>
interimVars    == <<interim_statuses, interim_status_hashes, last_context_hash>>
flagVars       == <<blue_dns_update_completed, green_dns_removed, green_topology_changed>>
iamVars        == <<all_green_nodes_changed, iam_host_success_connects>>
hostVars       == <<host_ip_map, role_by_host_map>>
contextVars    == <<phaseVars, interimVars, flagVars, iamVars, hostVars>>
lifeVars       == <<monitors, pending_restart, rpc, dpc, users>>

vars == <<deploymentVars, incidents, monitorVars, contextVars, status_cache, lifeVars>>

-----------------------------------------------------------------------------
(* Statuses. *)

EmptyMap == [n \in {} |-> None]

(* What a monitor knows, and what it reports.                              *)
NothingCollected ==
    [phase |-> "NOT_CREATED", connecting_host_info_correct |-> FALSE,
     initial_topology |-> {}, current_topology |-> {},
     initial_ip |-> EmptyMap, host_names |-> {}]

NoInterimStatus ==
    [phase |-> "UNKNOWN", initial_topology |-> {}, current_topology |-> {},
     initial_ip |-> EmptyMap, current_ip |-> EmptyMap, host_names |-> {},
     all_start_topology_ip_changed |-> FALSE,
     all_start_topology_endpoints_removed |-> FALSE,
     all_topology_changed |-> FALSE]

NoRoles == [n \in Names |-> None]
NoRoutes == [n \in Names |-> "none"]

(* The routes are given by what BlueGreenPlugin finds for a name: the kind *)
(* of the first connect route that matches it, and whether the statements  *)
(* of its connections are suspended.                                       *)
Status(phase, connect, suspended, roles) ==
    [phase |-> phase, connect |-> connect, suspended |-> suspended, roles |-> roles]

NoStatus == Status("UNKNOWN", NoRoutes, FALSE, NoRoles)

FreshMonitors ==
    /\ mpc' = [r \in Roles |-> "loop"]
    /\ class_running' = [r \in Roles |-> TRUE]
    /\ collect' = [r \in Roles |-> TRUE]
    /\ collected' = [r \in Roles |-> NothingCollected]

Init ==
    /\ deployment \in StartPhases
    /\ dns_updated = {} /\ dns_removed = {} /\ renamed = {}
    /\ deployments = IF deployment = "NOT_CREATED" THEN 0 ELSE 1
    /\ incidents = 0
    /\ mpc = [r \in Roles |-> "none"]
    /\ class_running = [r \in Roles |-> FALSE]
    /\ collect = [r \in Roles |-> TRUE]
    /\ collected = [r \in Roles |-> NothingCollected]
    /\ interim_statuses = [r \in Roles |-> NoInterimStatus]
    /\ interim_status_hashes = [r \in Roles |-> FALSE]
    /\ last_context_hash = <<FALSE, 0>>
    /\ latest_status_phase = "UNKNOWN" /\ rollback = FALSE
    /\ blue_dns_update_completed = FALSE /\ green_dns_removed = FALSE
    /\ green_topology_changed = FALSE
    /\ all_green_nodes_changed = FALSE
    /\ iam_host_success_connects = [i \in Instances |-> {}]
    /\ host_ip_map = [n \in Names |-> None] /\ role_by_host_map = NoRoles
    /\ switchover_timer = "unset" /\ active_switchover = FALSE
    /\ status_cache = NoStatus
    /\ monitors = FALSE /\ pending_restart = FALSE
    /\ rpc = "none" /\ dpc = "live"
    /\ users = 0

-----------------------------------------------------------------------------
(* The deployment, as long as a connection looks at it. *)

Incident == incidents < MaxIncidents /\ incidents' = incidents + 1
NoIncident == UNCHANGED incidents

providerVars == <<monitorVars, contextVars, status_cache, lifeVars>>

Create ==
    /\ users > 0
    /\ deployment = "NOT_CREATED" /\ deployments < MaxDeployments
    /\ deployment' = "CREATED" /\ deployments' = deployments + 1
    /\ dns_updated' = {} /\ dns_removed' = {} /\ renamed' = {}
    /\ NoIncident /\ UNCHANGED providerVars

Successor == [CREATED |-> "PREPARATION", PREPARATION |-> "IN_PROGRESS",
              IN_PROGRESS |-> "POST", POST |-> "COMPLETED",
              COMPLETED |-> "NOT_CREATED"]

Settled == dns_updated = Instances /\ dns_removed = Instances /\ renamed = Instances

Initiate ==
    /\ users > 0
    /\ deployment = "CREATED"
    /\ deployment' = "PREPARATION"
    /\ NoIncident
    /\ UNCHANGED <<providerVars, dns_updated, dns_removed, renamed, deployments>>

Advance ==
    /\ users > 0
    /\ deployment \in DOMAIN Successor \ {"CREATED"}
    /\ deployment = "COMPLETED" => Settled
    /\ deployment' = Successor[deployment]
    /\ NoIncident
    /\ UNCHANGED <<providerVars, dns_updated, dns_removed, renamed, deployments>>

RollBack ==
    /\ users > 0
    /\ deployment \in {"PREPARATION", "IN_PROGRESS"}
    /\ Incident
    /\ deployment' = "CREATED"
    /\ UNCHANGED <<providerVars, dns_updated, dns_removed, renamed, deployments>>

(* What follows the switch, instance by instance.                          *)
Settle(i) ==
    /\ users > 0
    /\ deployment \in {"POST", "COMPLETED"}
    /\ \/ /\ i \notin dns_updated
          /\ dns_updated' = dns_updated \cup {i}
          /\ UNCHANGED <<dns_removed, renamed>>
       \/ /\ i \in renamed \ dns_removed
          /\ dns_removed' = dns_removed \cup {i}
          /\ UNCHANGED <<dns_updated, renamed>>
       \/ /\ i \notin renamed
          /\ renamed' = renamed \cup {i}
          /\ UNCHANGED <<dns_updated, dns_removed>>
    /\ NoIncident
    /\ UNCHANGED <<providerVars, deployment, deployments>>

SwitchoverTimerExpires ==
    /\ users > 0
    /\ switchover_timer = "running"
    /\ switchover_timer' = "expired"
    /\ Incident
    /\ UNCHANGED <<deploymentVars, monitorVars, latest_status_phase, rollback,
                   active_switchover, interimVars, flagVars, iamVars, hostVars,
                   status_cache, lifeVars>>

Resolved(n) ==
    IF n[1] = "blue" THEN IF n[2] \in dns_updated THEN "green_ip" ELSE "blue_ip"
    ELSE IF n[2] \in dns_removed THEN None ELSE "green_ip"

(* The names a topology query on the role's cluster answers.               *)
TopologyOf(role) ==
    IF role = "SOURCE" THEN {"blue"} \X Instances
    ELSE {n \in Names : n[1] = IF n[2] \in renamed THEN "blue" ELSE "green"}

-----------------------------------------------------------------------------
(* A monitor.  A turn of Run, with the call of PrepareStatus it ends with, *)
(* is one step: what changes while it runs is seen as having changed after *)
(* it.                                                                     *)

Goto(r, label) == mpc' = [mpc EXCEPT ![r] = label]
TurnEnds(r) == Goto(r, IF class_running'[r] THEN "loop" ELSE "ending")

(* What the status query can answer: the rows of the role, no row (the old *)
(* cluster is separated, the metadata is empty), or an error that stands   *)
(* for a deployment that does not exist.                                   *)
Answers(r) ==
    IF deployment = "NOT_CREATED" THEN {"NOT_CREATED", "UNKNOWN"}
    ELSE {deployment} \cup (IF deployment = "COMPLETED" /\ r = "SOURCE"
                            THEN {"UNKNOWN"} ELSE {})

HasRows(phase) == phase \notin {"NOT_CREATED", "UNKNOWN"}

(* CollectTopology, CollectHostIp: after ForceRefresh has or has not       *)
(* answered.                                                               *)
Collect(r, status, answered) ==
    LET topology == TopologyOf(r)
        names == status.host_names \cup (IF answered /\ collect[r] THEN topology ELSE {})
    IN [status EXCEPT
          !.current_topology = IF answered THEN topology ELSE @,
          !.initial_topology = IF answered /\ collect[r] THEN topology ELSE @,
          !.host_names = names,
          !.initial_ip = IF collect[r] THEN [n \in names |-> Resolved(n)] ELSE @]

(* CollectStatus with an answer.                                           *)
StatusOf(r, phase) ==
    [collected[r] EXCEPT
       !.phase = phase,
       !.connecting_host_info_correct = @ \/ HasRows(phase),
       !.host_names = IF HasRows(phase) /\ collect[r] THEN @ \cup TopologyOf(r) ELSE @]

(* The monitor has connected by a blue name.  The first rows tell whether  *)
(* that was the role's cluster; if it was not, the connection is given up, *)
(* and the topology waits for the next turn.                               *)
ConnectedToRole(r) == \E n \in TopologyOf(r) : Resolved(n) = Resolved(<<"blue", n[2]>>)

StatusCollected(r) ==
    {LET status == StatusOf(r, phase)
     IN Collect(r, status, IF collected[r].connecting_host_info_correct THEN TRUE
                           ELSE HasRows(phase) /\ ConnectedToRole(r))
       : phase \in Answers(r)}

(* The only rows are those of the instances that were switched away from.  *)
OldRowsOnly(r) ==
    IF /\ r = "SOURCE" /\ deployment \in {"POST", "COMPLETED"}
       /\ collected[r].connecting_host_info_correct
    THEN {Collect(r, collected[r], TRUE)} ELSE {}

(* OpenConnection fails; the connection is lost; the status query fails    *)
(* although the connection is open; ForceRefresh does not answer in time.  *)
FailedTurns(r) ==
    {Collect(r, collected[r], FALSE),
     Collect(r, [collected[r] EXCEPT !.phase = "UNKNOWN"], FALSE),
     Collect(r, [collected[r] EXCEPT !.phase = "NOT_CREATED"],
             collected[r].connecting_host_info_correct)}
    \cup {Collect(r, StatusOf(r, phase), FALSE) : phase \in Answers(r)}

(* UpdateIpAddressFlags, of the sets a host can be in.  A topology is      *)
(* empty when there was none.                                              *)
IpOf(map, n) == IF n \in DOMAIN map THEN map[n] ELSE None

AllStartTopologyIpChanged(r, turn, current_ip) ==
    /\ ~collect[r] /\ turn.initial_topology # {}
    /\ \A n \in turn.initial_topology :
         /\ IpOf(turn.initial_ip, n) # None /\ IpOf(current_ip, n) # None
         /\ IpOf(turn.initial_ip, n) # IpOf(current_ip, n)

AllStartTopologyEndpointsRemoved(turn, current_ip) ==
    /\ turn.initial_topology # {}
    /\ \A n \in turn.initial_topology :
         /\ IpOf(turn.initial_ip, n) # None
         /\ n \in DOMAIN current_ip /\ current_ip[n] = None

AllTopologyChanged(r, turn) ==
    /\ ~collect[r] /\ turn.initial_topology # {} /\ turn.current_topology # {}
    /\ turn.initial_topology \cap turn.current_topology = {}

InterimStatus(r, turn) ==
    LET current_ip == [n \in turn.host_names |-> Resolved(n)] IN
    [phase |-> turn.phase,
     initial_topology |-> turn.initial_topology,
     current_topology |-> turn.current_topology,
     initial_ip |-> turn.initial_ip, current_ip |-> current_ip,
     host_names |-> turn.host_names,
     all_start_topology_ip_changed |-> AllStartTopologyIpChanged(r, turn, current_ip),
     all_start_topology_endpoints_removed |->
       AllStartTopologyEndpointsRemoved(turn, current_ip),
     all_topology_changed |-> AllTopologyChanged(r, turn)]

-----------------------------------------------------------------------------
(* PrepareStatus.  The operators with primes read what its earlier         *)
(* statements have assigned.  A route holds what a connection finds when   *)
(* it looks the name up, so of several for one name the first.             *)

(* A monitor that waits for monitor_mutex_ holds process_lock_guard.       *)
ProcessLockFree == \A r \in Roles : mpc[r] \notin {"stop", "join_reset"}

(* Held while a thread is joined.                                          *)
MonitorMutexFree == /\ \A r \in Roles : mpc[r] # "join_reset"
                    /\ dpc \notin {"join_reset", "join_monitors"}

ContextHash == <<all_green_nodes_changed,
                 Cardinality({i \in Instances : iam_host_success_connects[i] # {}})>>

LatestInterimPhase(r) == IF interim_statuses[r].phase = "UNKNOWN" THEN "NOT_CREATED"
                         ELSE interim_statuses[r].phase

RollbackDetected(r, phase) ==
    /\ r = "TARGET"
    /\ phase # "UNKNOWN"
    /\ latest_status_phase # "COMPLETED"
    /\ Rank[phase] < Rank[LatestInterimPhase(r)]

UpdatePhase(r, phase) ==
    /\ rollback' = (rollback \/ RollbackDetected(r, phase))
    /\ latest_status_phase' =
         IF \/ phase = "UNKNOWN"
            \/ rollback' /\ Rank[phase] >= Rank[latest_status_phase]
            \/ ~rollback' /\ Rank[phase] < Rank[latest_status_phase]
         THEN latest_status_phase ELSE phase

(* The addresses and roles of the hosts (mutant: of the blue hosts).       *)
UpdateBlueHosts(r, report) ==
    /\ host_ip_map' = [n \in Names |->
                         IF r = "SOURCE" /\ IpOf(report.initial_ip, n) # None
                         THEN report.initial_ip[n] ELSE host_ip_map[n]]
    /\ role_by_host_map' = [n \in Names |-> IF n \in report.host_names THEN r
                                            ELSE role_by_host_map[n]]

UpdateHosts(r, report) ==
    /\ host_ip_map' = [n \in Names |-> IF IpOf(report.initial_ip, n) # None
                                       THEN report.initial_ip[n] ELSE host_ip_map[n]]
    /\ role_by_host_map' = [n \in Names |-> IF n \in report.host_names THEN r
                                            ELSE role_by_host_map[n]]

UpdateDnsFlags(r, report) ==
    IF Rank[latest_status_phase'] < Rank["CREATED"] THEN UNCHANGED flagVars
    ELSE /\ blue_dns_update_completed' =
              \/ blue_dns_update_completed
              \/ r = "SOURCE" /\ report.all_start_topology_ip_changed
         /\ green_dns_removed' =
              \/ green_dns_removed
              \/ r = "TARGET" /\ report.all_start_topology_endpoints_removed
         /\ green_topology_changed' =
              \/ green_topology_changed
              \/ r = "TARGET" /\ report.all_topology_changed

StartSwitchoverTimer ==
    switchover_timer' = IF latest_status_phase' = "PREPARATION" /\ switchover_timer = "unset"
                        THEN "running" ELSE switchover_timer

(* The blue names that have a counterpart, with it.                        *)
CorrespondingNodes ==
    LET source == interim_statuses'["SOURCE"]
        target == interim_statuses'["TARGET"]
        Counterpart(n) == {m \in target.initial_topology : m[2] = n[2]}
    IN IF "UNKNOWN" \in {source.phase, target.phase} THEN EmptyMap
       ELSE [n \in {n \in source.initial_topology : Counterpart(n) # {}}
               |-> CHOOSE m \in Counterpart(n) : TRUE]

(* Names of the role whose route is made, by the role of the map.          *)
NamesOf(role) == {n \in Names : role_by_host_map'[n] = role}

CreatedStatus == Status("CREATED", NoRoutes, FALSE, role_by_host_map')
CompletedStatus == Status("COMPLETED", NoRoutes, FALSE, role_by_host_map')

PreparationStatus ==
    Status("PREPARATION",
           [n \in Names |->
              IF n \notin NamesOf("SOURCE") \cap DOMAIN CorrespondingNodes THEN "none"
              ELSE IF host_ip_map'[n] = None THEN "by_name" ELSE host_ip_map'[n]],
           FALSE, role_by_host_map')

InProgressStatus ==
    Status("IN_PROGRESS",
           [n \in Names |-> IF role_by_host_map'[n] = None THEN "none" ELSE "suspend"],
           TRUE, role_by_host_map')

(* CreatePostRouting.  A green host without a known address gives a route  *)
(* to the empty host name.                                                 *)
GreenRoute(m) == IF host_ip_map'[m] = None THEN "no_host" ELSE host_ip_map'[m]

PostStatus ==
    LET Blue(n) == /\ n \in NamesOf("SOURCE") \cap DOMAIN CorrespondingNodes
                   /\ ~blue_dns_update_completed' \/ ~all_green_nodes_changed
        Green(n) == n \in NamesOf("TARGET")
    IN Status("POST",
              [n \in Names |->
                 IF Blue(n) THEN GreenRoute(CorrespondingNodes[n])
                 ELSE IF Green(n) /\ ~green_topology_changed' THEN GreenRoute(n)
                 ELSE IF Green(n) /\ ~green_dns_removed' THEN "reject"
                 ELSE "none"],
              FALSE, role_by_host_map')

ExpiredStatus == IF rollback' THEN CreatedStatus ELSE CompletedStatus

(* GetStatusOf...: the timer ends a switchover, and a completed one is kept*)
(* in the phase before until the DNS has followed (mutant: it is not).     *)
GetStatusOfCompletedAtOnce == CompletedStatus

GetStatusOfCompleted ==
    IF blue_dns_update_completed' /\ green_dns_removed' THEN CompletedStatus ELSE PostStatus

SummaryStatus ==
    IF latest_status_phase' = "UNKNOWN" THEN NoStatus
    ELSE IF latest_status_phase' = "NOT_CREATED"
    THEN Status("NOT_CREATED", NoRoutes, FALSE, NoRoles)
    ELSE IF latest_status_phase' = "CREATED" THEN CreatedStatus
    ELSE IF switchover_timer' = "expired" THEN ExpiredStatus
    ELSE CASE latest_status_phase' = "PREPARATION" -> PreparationStatus
           [] latest_status_phase' = "IN_PROGRESS" -> InProgressStatus
           [] latest_status_phase' = "POST"        -> PostStatus
           [] latest_status_phase' = "COMPLETED"   -> GetStatusOfCompleted

(* What the monitors are to collect from now on.  After the end of a       *)
(* switchover they start afresh.                                           *)
UpdateMonitors(r, turn) ==
    LET phase == status_cache'.phase
        now == [collected EXCEPT ![r] = turn]
    IN IF ~monitors \/ phase = "UNKNOWN"
       THEN UNCHANGED collect /\ collected' = now
       ELSE /\ collect' = [q \in Roles |-> phase = "CREATED"]
            /\ collected' =
                 IF phase = "COMPLETED" \/ (phase = "CREATED" /\ rollback')
                 THEN [q \in Roles |-> [now[q] EXCEPT !.initial_topology = {},
                                         !.initial_ip = EmptyMap, !.host_names = {}]]
                 ELSE now

SwitchoverComplete ==
    status_cache'.phase = IF rollback' THEN "CREATED" ELSE "COMPLETED"

NothingChanged(r, report) ==
    /\ interim_status_hashes[r] /\ report = interim_statuses[r]
    /\ last_context_hash = ContextHash

StatusUnchanged(r, turn) ==
    /\ collected' = [collected EXCEPT ![r] = turn]
    /\ UNCHANGED <<class_running, collect, contextVars, status_cache>>
    /\ NothingChanged(r, InterimStatus(r, turn))
    /\ TurnEnds(r)

StatusChanged(r, turn) ==
    LET report == InterimStatus(r, turn) IN
    /\ interim_statuses' = [interim_statuses EXCEPT ![r] = report]
    /\ ~NothingChanged(r, report)
    /\ UpdatePhase(r, report.phase)
    /\ interim_status_hashes' = [interim_status_hashes EXCEPT ![r] = TRUE]
    /\ last_context_hash' = ContextHash
    /\ UpdateHosts(r, report)
    /\ UpdateDnsFlags(r, report)
    /\ StartSwitchoverTimer
    /\ status_cache' = SummaryStatus
    /\ UpdateMonitors(r, turn)
    /\ active_switchover' =
         (active_switchover \/ IsSwitchoverOrCompleted(status_cache'.phase))
    /\ UNCHANGED <<class_running, iamVars>>
    /\ IF SwitchoverComplete /\ active_switchover' THEN Goto(r, "stop") ELSE TurnEnds(r)

PrepareStatus(r, turn) == StatusUnchanged(r, turn) \/ StatusChanged(r, turn)

Run(r) ==
    /\ mpc[r] = "loop" /\ ProcessLockFree
    /\ UNCHANGED <<deploymentVars, lifeVars>>
    /\ \/ Incident /\ \E turn \in FailedTurns(r) : PrepareStatus(r, turn)
       \/ /\ NoIncident
          /\ \E turn \in StatusCollected(r) \cup OldRowsOnly(r) : PrepareStatus(r, turn)

(* A monitor that is told to stop may be in a turn, which it finishes.     *)
(* What an ended monitor has collected is not read any more.               *)
MonitorEnds(r) ==
    /\ mpc[r] \in {"loop", "ending"} /\ ~class_running[r]
    /\ Goto(r, "ended")
    /\ collected' = [collected EXCEPT ![r] = NothingCollected]
    /\ UNCHANGED <<deploymentVars, incidents, class_running, collect, contextVars,
                   status_cache, lifeVars>>

(* ResetContextWhenCompleted: both monitors are told to stop, and unless   *)
(* that has been done before a thread is started that waits for them.      *)
StopMonitors(r) ==
    /\ mpc[r] = "stop" /\ MonitorMutexFree
    /\ class_running' = IF monitors THEN [q \in Roles |-> FALSE] ELSE class_running
    /\ pending_restart' = TRUE
    /\ IF pending_restart THEN TurnEnds(r) /\ UNCHANGED rpc
       ELSE IF rpc = "none" THEN TurnEnds(r) /\ rpc' = "start"
       ELSE Goto(r, "join_reset") /\ UNCHANGED rpc
    /\ UNCHANGED <<deploymentVars, incidents, collect, collected, contextVars,
                    status_cache, monitors, dpc, users>>

(* The earlier reset thread is joined while monitor_mutex_ is held.        *)
JoinResetThread(r) ==
    /\ mpc[r] = "join_reset" /\ rpc = "ended"
    /\ rpc' = "start"
    /\ UNCHANGED <<deploymentVars, incidents, class_running, collect, collected,
                   contextVars, status_cache, monitors, pending_restart, dpc, users>>
    /\ TurnEnds(r)

Monitor(r) == \/ Run(r) \/ MonitorEnds(r)
              \/ StopMonitors(r) \/ JoinResetThread(r)

-----------------------------------------------------------------------------
(* The reset thread and InitMonitoring. *)

InitMonitoring ==
    IF monitors
    THEN UNCHANGED <<monitors, pending_restart, monitorVars>>
    ELSE monitors' = TRUE /\ pending_restart' = FALSE /\ FreshMonitors

IsStop(r) == ~class_running[r] /\ mpc[r] \in {"none", "ended"}

ResetFrame == UNCHANGED <<deploymentVars, incidents, status_cache, dpc, users>>

ResetStarts ==
    /\ rpc = "start" /\ MonitorMutexFree
    /\ rpc' = IF monitors THEN "wait" ELSE "check"
    /\ ResetFrame
    /\ UNCHANGED <<monitorVars, contextVars, monitors, pending_restart>>

(* Mutant: the monitors are not waited for.                                *)
MonitorsNotAwaited == TRUE
MonitorsStopped == ~pending_restart \/ \A r \in Roles : IsStop(r)

ForgetMonitors ==
    /\ rpc = "wait" /\ MonitorsStopped /\ MonitorMutexFree
    /\ monitors' = FALSE
    /\ rpc' = "check"
    /\ ResetFrame
    /\ UNCHANGED <<monitorVars, contextVars, pending_restart>>

(* Monitoring was started again by a connection, or ended by the destructor.*)
CheckRestart ==
    /\ rpc = "check"
    /\ rpc' = IF pending_restart THEN "reset" ELSE "ended"
    /\ ResetFrame
    /\ UNCHANGED <<monitorVars, contextVars, monitors, pending_restart>>

ClearedContext ==
    /\ rollback' = FALSE /\ latest_status_phase' = "NOT_CREATED"
    /\ active_switchover' = FALSE /\ switchover_timer' = "unset"
    /\ blue_dns_update_completed' = FALSE /\ green_dns_removed' = FALSE
    /\ green_topology_changed' = FALSE /\ all_green_nodes_changed' = FALSE
    /\ interim_status_hashes' = [r \in Roles |-> FALSE]
    /\ last_context_hash' = <<FALSE, 0>>
    /\ interim_statuses' = [r \in Roles |-> NoInterimStatus]
    /\ host_ip_map' = [n \in Names |-> None] /\ role_by_host_map' = NoRoles
    /\ iam_host_success_connects' = [i \in Instances |-> {}]

ResetContext ==
    /\ rpc = "reset"
    /\ ClearedContext
    /\ rpc' = "init"
    /\ ResetFrame
    /\ UNCHANGED <<monitorVars, monitors, pending_restart>>

ResetEnds ==
    /\ rpc = "init" /\ MonitorMutexFree
    /\ InitMonitoring
    /\ rpc' = "ended"
    /\ ResetFrame
    /\ UNCHANGED contextVars

ResetThread == ResetStarts \/ ForgetMonitors \/ CheckRestart \/ ResetContext \/ ResetEnds

-----------------------------------------------------------------------------
(* The connections: InitProvider, the callback of the routes, and the      *)
(* plugin's destructor.                                                    *)

UserFrame == UNCHANGED <<deploymentVars, incidents, rpc>>

GetOrCreateProvider ==
    /\ dpc = "live" /\ MonitorMutexFree
    /\ IF users = 0 THEN NoIncident ELSE Incident
    /\ users' = users + 1
    /\ InitMonitoring
    /\ UNCHANGED <<deploymentVars, rpc, contextVars, status_cache, dpc>>

(* A connection with IAM authentication by a route to a green address: the *)
(* host accepts a token for the name it bears.                             *)
RegisterIamHost(i) ==
    /\ users > 0
    /\ \E n \in Names : n[2] = i /\ status_cache.connect[n] = "green_ip"
    /\ LET iam_host == IF i \in renamed THEN "blue" ELSE "green" IN
       /\ iam_host_success_connects' =
            [iam_host_success_connects EXCEPT ![i] = @ \cup {iam_host}]
       /\ all_green_nodes_changed' =
            \/ all_green_nodes_changed
            \/ /\ iam_host = "blue"
               /\ \A j \in Instances :
                    iam_host_success_connects'[j] # {}
                      => "blue" \in iam_host_success_connects'[j]
    /\ UserFrame
    /\ UNCHANGED <<monitorVars, phaseVars, interimVars, flagVars, hostVars,
                   status_cache, monitors, pending_restart, dpc, users>>

(* The plugin's destructor.                                                *)
ConnectionEnds ==
    /\ users > 1
    /\ users' = users - 1
    /\ UserFrame
    /\ UNCHANGED <<monitorVars, contextVars, status_cache, monitors,
                   pending_restart, dpc>>

(* The last connection removes the provider and its status; the destructor *)
(* stops the monitors, and joins all threads with monitor_mutex_ held.     *)
(* What it leaves behind is given the value of an empty context.           *)
CleanUpStatusProvider ==
    /\ dpc = "live" /\ users = 1 /\ MonitorMutexFree
    /\ Incident
    /\ users' = 0
    /\ status_cache' = NoStatus
    /\ class_running' = IF monitors THEN [r \in Roles |-> FALSE] ELSE class_running
    /\ monitors' = FALSE /\ pending_restart' = FALSE
    /\ dpc' = "join_reset"
    /\ UNCHANGED <<deploymentVars, rpc, mpc, collect, collected, contextVars>>

DestructorJoinsReset ==
    /\ dpc = "join_reset" /\ rpc \in {"none", "ended"}
    /\ dpc' = "join_monitors"
    /\ UserFrame
    /\ UNCHANGED <<monitorVars, contextVars, status_cache, monitors, pending_restart,
                   users>>

DestructorJoinsMonitors ==
    /\ dpc = "join_monitors" /\ \A r \in Roles : mpc[r] \in {"none", "ended"}
    /\ dpc' = "destroyed"
    /\ ClearedContext
    /\ UserFrame
    /\ UNCHANGED <<monitorVars, status_cache, monitors, pending_restart,
                   users>>

Users == \/ GetOrCreateProvider
         \/ \E i \in Instances : RegisterIamHost(i)
         \/ ConnectionEnds \/ CleanUpStatusProvider
         \/ DestructorJoinsReset \/ DestructorJoinsMonitors

-----------------------------------------------------------------------------
Deployment == \/ Create \/ Initiate \/ Advance \/ RollBack
              \/ \E i \in Instances : Settle(i)
              \/ SwitchoverTimerExpires

Next == Deployment \/ ResetThread \/ Users \/ \E r \in Roles : Monitor(r)

Spec == Init /\ [][Next]_vars

-----------------------------------------------------------------------------
(* Properties. *)

IpMaps == UNION {[S -> Ips \cup {None}] : S \in SUBSET Names}
CollectedStatuses ==
    [phase : Phases, connecting_host_info_correct : BOOLEAN,
     initial_topology : SUBSET Names, current_topology : SUBSET Names,
     initial_ip : IpMaps, host_names : SUBSET Names]
InterimStatuses ==
    [phase : Phases, initial_topology : SUBSET Names, current_topology : SUBSET Names,
     initial_ip : IpMaps, current_ip : IpMaps, host_names : SUBSET Names,
     all_start_topology_ip_changed : BOOLEAN,
     all_start_topology_endpoints_removed : BOOLEAN,
     all_topology_changed : BOOLEAN]
RouteKinds == Ips \cup {"none", "suspend", "by_name", "no_host", "reject"}
Statuses == [phase : Phases, connect : [Names -> RouteKinds], suspended : BOOLEAN,
             roles : [Names -> Roles \cup {None}]]

DeploymentType ==
    /\ deployment \in Phases \ {"UNKNOWN"}
    /\ dns_updated \subseteq Instances /\ dns_removed \subseteq Instances
    /\ renamed \subseteq Instances
    /\ deployments \in Nat /\ incidents \in Nat

MonitorType ==
    /\ mpc \in [Roles -> {"none", "loop", "ending", "stop", "join_reset", "ended"}]
    /\ class_running \in [Roles -> BOOLEAN] /\ collect \in [Roles -> BOOLEAN]
    /\ collected \in [Roles -> CollectedStatuses]

ContextType ==
    /\ interim_statuses \in [Roles -> InterimStatuses]
    /\ interim_status_hashes \in [Roles -> BOOLEAN]
    /\ last_context_hash \in BOOLEAN \X Nat
    /\ latest_status_phase \in Phases /\ rollback \in BOOLEAN
    /\ blue_dns_update_completed \in BOOLEAN /\ green_dns_removed \in BOOLEAN
    /\ green_topology_changed \in BOOLEAN /\ all_green_nodes_changed \in BOOLEAN
    /\ iam_host_success_connects \in [Instances -> SUBSET {"blue", "green"}]
    /\ host_ip_map \in [Names -> Ips \cup {None}]
    /\ role_by_host_map \in [Names -> Roles \cup {None}]
    /\ switchover_timer \in {"unset", "running", "expired"}
    /\ active_switchover \in BOOLEAN
    /\ status_cache \in Statuses

LifeType ==
    /\ monitors \in BOOLEAN /\ pending_restart \in BOOLEAN
    /\ rpc \in {"none", "start", "wait", "check", "reset", "init", "ended"}
    /\ dpc \in {"live", "join_reset", "join_monitors", "destroyed"}
    /\ users \in Nat

(* Every field holds a value its declaration allows.                       *)
TypeOK == DeploymentType /\ MonitorType /\ ContextType /\ LifeType

(* A switchover is taken for completed, and its routes are dropped, only   *)
(* when every blue name leads to green and every green name is gone, unless*)
(* its time is up.                                                         *)
CompletedOnlyWhenSettled ==
    [][status_cache'.phase = "COMPLETED" /\ status_cache.phase # "COMPLETED"
         => \/ switchover_timer = "expired"
            \/ dns_updated = Instances /\ dns_removed = Instances]_vars

(* InitMonitoring never starts a monitor while a thread of the monitor     *)
(* before it still runs.                                                   *)
MonitorsDoNotOverlap ==
    [][monitors' /\ ~monitors => \A r \in Roles : mpc[r] \in {"none", "ended"}]_vars

(* A route of the phase POST leads to an address: a green host that has a  *)
(* route has been resolved before its name was removed.  With one incident *)
(* it is so; a second one may restart the monitors between the last look   *)
(* at pending_restart (line 910) and the reset of the context, which then  *)
(* forgets the addresses of hosts that the new monitors have resolved.     *)
PostRoutesAddressed ==
    status_cache.phase = "POST" => \A n \in Names : status_cache.connect[n] # "no_host"

=============================================================================
