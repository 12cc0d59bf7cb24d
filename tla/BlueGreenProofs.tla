-------------------------- MODULE BlueGreenProofs --------------------------
(***************************************************************************)
(* Theorems about BlueGreenStatusProvider, for any instances, whatever     *)
(* phase the deployment starts in and however many things go wrong.        *)
(***************************************************************************)
EXTENDS BlueGreenStatusProvider, FiniteSetTheorems, TLAPS

-----------------------------------------------------------------------------
(* Type correctness. *)

(* The phases are those of BlueGreenPhase.                                 *)
LEMMA PhasesAre ==
    Phases = {"UNKNOWN", "NOT_CREATED", "CREATED", "PREPARATION", "IN_PROGRESS",
              "POST", "COMPLETED"}
BY DEF Phases, Rank

(* A name leads to an address or to nothing.                               *)
LEMMA ResolvedType ==
    ASSUME NEW n \in Names PROVE Resolved(n) \in Ips \cup {None}
BY DEF Resolved, Ips

(* A monitor's topology query returns names of the deployment.             *)
LEMMA TopologyType ==
    ASSUME NEW r \in Roles PROVE TopologyOf(r) \subseteq Names
BY DEF TopologyOf, Names

(* What a set of names leads to is a map from names to addresses.          *)
LEMMA MapType ==
    ASSUME NEW S \in SUBSET Names
    PROVE  [n \in S |-> Resolved(n)] \in IpMaps
<1>1. [n \in S |-> Resolved(n)] \in [S -> Ips \cup {None}]
  BY ResolvedType
<1>2. QED
  BY <1>1 DEF IpMaps

(* So is the map of nothing.                                               *)
LEMMA EmptyMapType == EmptyMap \in IpMaps
<1>1. EmptyMap \in [{} -> Ips \cup {None}]
  BY DEF EmptyMap
<1>2. QED
  BY <1>1 DEF IpMaps

(* A map gives an address for a name, or none.                             *)
LEMMA IpOfType ==
    ASSUME NEW map \in IpMaps, NEW n PROVE IpOf(map, n) \in Ips \cup {None}
<1>1. PICK S \in SUBSET Names : map \in [S -> Ips \cup {None}]
  BY DEF IpMaps
<1>2. QED
  BY <1>1 DEF IpOf

(* Collecting the topology and its addresses keeps a status well formed.   *)
LEMMA CollectType ==
    ASSUME NEW r \in Roles, NEW status \in CollectedStatuses, NEW answered \in BOOLEAN
    PROVE  Collect(r, status, answered) \in CollectedStatuses
<1> DEFINE topology == TopologyOf(r)
           names == status.host_names \cup (IF answered /\ collect[r] THEN topology ELSE {})
<1>1. topology \in SUBSET Names /\ names \in SUBSET Names
  BY TopologyType DEF CollectedStatuses
<1>2. [n \in names |-> Resolved(n)] \in IpMaps
  BY <1>1, MapType
<1> HIDE DEF topology
<1>3. Collect(r, status, answered) =
        [status EXCEPT
          !.current_topology = IF answered THEN topology ELSE @,
          !.initial_topology = IF answered /\ collect[r] THEN topology ELSE @,
          !.host_names = names,
          !.initial_ip = IF collect[r] THEN [n \in names |-> Resolved(n)] ELSE @]
  BY DEF Collect, topology
<1> HIDE DEF names
<1>4. QED
  BY <1>1, <1>2, <1>3 DEF CollectedStatuses

(* The phases a status query may answer with are phases.                   *)
LEMMA AnswersType ==
    ASSUME DeploymentType, NEW r \in Roles PROVE Answers(r) \subseteq Phases
BY PhasesAre DEF Answers, DeploymentType

(* The status a monitor reads from the database is well formed.            *)
LEMMA StatusOfType ==
    ASSUME MonitorType, NEW r \in Roles, NEW phase \in Phases
    PROVE  StatusOf(r, phase) \in CollectedStatuses
<1>1. TopologyOf(r) \subseteq Names
  BY TopologyType
<1>2. collected[r] \in CollectedStatuses
  BY DEF MonitorType
<1>3. QED
  BY <1>1, <1>2 DEF StatusOf, HasRows, CollectedStatuses

Turns(r) == FailedTurns(r) \cup StatusCollected(r) \cup OldRowsOnly(r)

(* So is what a turn of a monitor leaves it with.                          *)
LEMMA TurnType ==
    ASSUME MonitorType, DeploymentType, NEW r \in Roles, NEW turn \in Turns(r)
    PROVE  turn \in CollectedStatuses
<1>0. collected[r] \in CollectedStatuses
  BY DEF MonitorType
<1>1. ASSUME NEW phase \in Answers(r) PROVE StatusOf(r, phase) \in CollectedStatuses
  BY AnswersType, StatusOfType
<1>2. collected[r].connecting_host_info_correct \in BOOLEAN
  BY <1>0 DEF CollectedStatuses
<1>3. CASE turn \in FailedTurns(r)
  <2>1. ASSUME NEW phase \in {"UNKNOWN", "NOT_CREATED"}
        PROVE  [collected[r] EXCEPT !.phase = phase] \in CollectedStatuses
    BY <1>0, PhasesAre DEF CollectedStatuses
  <2>2. QED
    BY <1>0, <1>1, <1>2, <1>3, <2>1, CollectType DEF FailedTurns
<1>4. CASE turn \in StatusCollected(r)
  <2>1. PICK phase \in Answers(r), answered \in BOOLEAN :
          turn = Collect(r, StatusOf(r, phase), answered)
    BY <1>2, <1>4 DEF StatusCollected, ConnectedToRole, HasRows
  <2>2. QED
    BY <1>1, <2>1, CollectType
<1>5. CASE turn \in OldRowsOnly(r)
  BY <1>0, <1>5, CollectType DEF OldRowsOnly
<1>6. QED
  BY <1>3, <1>4, <1>5 DEF Turns

(* And what it reports of it.                                              *)
LEMMA ReportType ==
    ASSUME NEW r \in Roles, NEW turn \in CollectedStatuses
    PROVE  InterimStatus(r, turn) \in InterimStatuses
<1> DEFINE current_ip == [n \in turn.host_names |-> Resolved(n)]
<1>1. current_ip \in IpMaps
  BY MapType DEF CollectedStatuses
<1>2. /\ AllStartTopologyIpChanged(r, turn, current_ip) \in BOOLEAN
      /\ AllStartTopologyEndpointsRemoved(turn, current_ip) \in BOOLEAN
      /\ AllTopologyChanged(r, turn) \in BOOLEAN
  BY DEF AllStartTopologyIpChanged, AllStartTopologyEndpointsRemoved,
         AllTopologyChanged
<1>3. InterimStatus(r, turn) =
        [phase |-> turn.phase,
         initial_topology |-> turn.initial_topology,
         current_topology |-> turn.current_topology,
         initial_ip |-> turn.initial_ip, current_ip |-> current_ip,
         host_names |-> turn.host_names,
         all_start_topology_ip_changed |-> AllStartTopologyIpChanged(r, turn, current_ip),
         all_start_topology_endpoints_removed |->
           AllStartTopologyEndpointsRemoved(turn, current_ip),
         all_topology_changed |-> AllTopologyChanged(r, turn)]
  BY DEF InterimStatus
<1> HIDE DEF current_ip
<1>4. QED
  BY <1>1, <1>2, <1>3 DEF InterimStatuses, CollectedStatuses

(* The status derived from well-formed parts is well formed.               *)
LEMMA SummaryType ==
    ASSUME latest_status_phase' \in Phases,
           interim_statuses' \in [Roles -> InterimStatuses],
           host_ip_map' \in [Names -> Ips \cup {None}],
           role_by_host_map' \in [Names -> Roles \cup {None}]
    PROVE  SummaryStatus \in Statuses
<1> USE PhasesAre
<1> DEFINE C == CorrespondingNodes
<1>0. \A n \in DOMAIN C : C[n] \in Names
  <2> DEFINE target == interim_statuses'["TARGET"]
             Counterpart(n) == {m \in target.initial_topology : m[2] = n[2]}
  <2>1. target \in InterimStatuses
    BY DEF Roles
  <2>2. \A n : Counterpart(n) \subseteq Names
    BY <2>1 DEF InterimStatuses
  <2>3. ASSUME NEW n \in DOMAIN C
        PROVE  Counterpart(n) # {} /\ C[n] = CHOOSE m \in Counterpart(n) : TRUE
    BY <2>3 DEF CorrespondingNodes, EmptyMap
  <2>4. QED
    BY <2>2, <2>3
<1>1. \A m \in Names : GreenRoute(m) \in RouteKinds /\ host_ip_map'[m] \in Ips \cup {None}
  BY DEF GreenRoute, RouteKinds
<1>2. NoRoutes \in [Names -> RouteKinds] /\ NoRoles \in [Names -> Roles \cup {None}]
  BY DEF NoRoutes, NoRoles, RouteKinds
<1>3. CreatedStatus \in Statuses /\ CompletedStatus \in Statuses
  BY <1>2 DEF CreatedStatus, CompletedStatus, Status, Statuses
<1>4. PreparationStatus \in Statuses
  <2>1. [n \in Names |->
              IF n \notin NamesOf("SOURCE") \cap DOMAIN C THEN "none"
              ELSE IF host_ip_map'[n] = None THEN "by_name" ELSE host_ip_map'[n]]
          \in [Names -> RouteKinds]
    BY <1>1 DEF RouteKinds
  <2>2. QED
    BY <2>1 DEF PreparationStatus, Status, Statuses
<1>5. InProgressStatus \in Statuses
  BY DEF InProgressStatus, Status, Statuses, RouteKinds
<1>6. PostStatus \in Statuses
  <2>1. \A n \in DOMAIN C : GreenRoute(C[n]) \in RouteKinds
    BY <1>0, <1>1
  <2> DEFINE Blue(n) == /\ n \in NamesOf("SOURCE") \cap DOMAIN C
                        /\ ~blue_dns_update_completed' \/ ~all_green_nodes_changed
             Green(n) == n \in NamesOf("TARGET")
             routes == [n \in Names |->
                 IF Blue(n) THEN GreenRoute(C[n])
                 ELSE IF Green(n) /\ ~green_topology_changed' THEN GreenRoute(n)
                 ELSE IF Green(n) /\ ~green_dns_removed' THEN "reject"
                 ELSE "none"]
  <2>2. {"reject", "none"} \subseteq RouteKinds
    BY DEF RouteKinds
  <2>3. routes \in [Names -> RouteKinds]
    BY <1>1, <2>1, <2>2
  <2>4. PostStatus = Status("POST", routes, FALSE, role_by_host_map')
    BY DEF PostStatus
  <2>5. QED
    BY <2>3, <2>4 DEF Status, Statuses
<1>7. NoStatus \in Statuses /\ Status("NOT_CREATED", NoRoutes, FALSE, NoRoles) \in Statuses
  BY <1>2 DEF NoStatus, Status, Statuses
<1>8. QED
  BY <1>3, <1>4, <1>5, <1>6, <1>7
     DEF SummaryStatus, ExpiredStatus, GetStatusOfCompleted

(* The provider starts with nothing collected and nothing published.       *)
LEMMA InitType == Init => TypeOK
<1> USE BlueGreenAssumption, PhasesAre
<1> SUFFICES ASSUME Init PROVE TypeOK
  OBVIOUS
<1>1. DeploymentType
  BY DEF Init, DeploymentType
<1>2. NothingCollected \in CollectedStatuses
  BY EmptyMapType DEF NothingCollected, CollectedStatuses
<1>3. MonitorType
  BY <1>2 DEF Init, MonitorType
<1>4. NoInterimStatus \in InterimStatuses
  BY EmptyMapType DEF NoInterimStatus, InterimStatuses
<1>5. NoStatus \in Statuses
  BY DEF NoStatus, NoRoutes, NoRoles, Status, Statuses, RouteKinds
<1>6. ContextType
  BY <1>4, <1>5 DEF Init, ContextType, NoRoles
<1>7. LifeType
  BY DEF Init, LifeType
<1>8. QED
  BY <1>1, <1>3, <1>6, <1>7 DEF TypeOK

(* The steps of the deployment keep the types.                             *)
LEMMA DeploymentStepType ==
    ASSUME TypeOK, Deployment PROVE TypeOK'
<1> USE DEF TypeOK
<1>1. MonitorType' /\ LifeType'
  <2>1. UNCHANGED <<monitorVars, lifeVars>>
    BY DEF Deployment, Create, Initiate, Advance, RollBack, Settle,
           SwitchoverTimerExpires, providerVars
  <2>2. QED
    BY <2>1 DEF MonitorType, LifeType, monitorVars, lifeVars
<1>2. DeploymentType'
  BY BlueGreenAssumption, PhasesAre
     DEF Deployment, Create, Initiate, Advance, RollBack, Settle,
         SwitchoverTimerExpires, DeploymentType, deploymentVars, Incident,
         NoIncident, Successor
<1>3. ContextType'
  <2>1. CASE SwitchoverTimerExpires
    BY <2>1
       DEF SwitchoverTimerExpires, ContextType, interimVars, flagVars, iamVars,
           hostVars
  <2>2. CASE UNCHANGED <<contextVars, status_cache>>
    BY <2>2
       DEF ContextType, contextVars, phaseVars, interimVars, flagVars, iamVars,
           hostVars
  <2>3. QED
    BY <2>1, <2>2
       DEF Deployment, Create, Initiate, Advance, RollBack, Settle, providerVars
<1>4. QED
  BY <1>1, <1>2, <1>3

(* The hash of the context is of what the model compares.                  *)
LEMMA HashType == ASSUME ContextType PROVE ContextHash \in BOOLEAN \X Nat
<1>1. IsFiniteSet({i \in Instances : iam_host_success_connects[i] # {}})
  BY BlueGreenAssumption, FS_Subset
<1>2. QED
  BY <1>1, FS_CardinalityType DEF ContextHash, ContextType

(* A monitor goes to one of its own labels.                                *)
LEMMA GotoType ==
    ASSUME MonitorType, NEW r \in Roles,
           \/ \E label \in {"none", "loop", "ending", "stop", "join_reset", "ended"} : Goto(r, label)
           \/ TurnEnds(r)
    PROVE  mpc' \in [Roles -> {"none", "loop", "ending", "stop", "join_reset", "ended"}]
BY DEF MonitorType, Goto, TurnEnds

(* A report that changes the context leaves it well formed.                *)
LEMMA StatusChangedType ==
    ASSUME MonitorType, ContextType, NEW r \in Roles, NEW turn \in CollectedStatuses,
           StatusChanged(r, turn)
    PROVE  MonitorType' /\ ContextType'
<1> DEFINE report == InterimStatus(r, turn)
<1>0. report \in InterimStatuses
  BY ReportType
<1> HIDE DEF report
<1>1. interim_statuses' \in [Roles -> InterimStatuses]
  BY <1>0 DEF StatusChanged, ContextType, report
<1>2. latest_status_phase' \in Phases /\ rollback' \in BOOLEAN
  <2>1. report.phase \in Phases
    BY <1>0 DEF InterimStatuses
  <2>2. UpdatePhase(r, report.phase)
    BY DEF StatusChanged, report
  <2>3. QED
    BY <2>1, <2>2 DEF UpdatePhase, RollbackDetected, ContextType
<1>3. /\ host_ip_map' \in [Names -> Ips \cup {None}]
      /\ role_by_host_map' \in [Names -> Roles \cup {None}]
  <2>1. UpdateHosts(r, report)
    BY DEF StatusChanged, report
  <2>2. \A n \in Names : IpOf(report.initial_ip, n) # None => report.initial_ip[n] \in Ips \cup {None}
    BY <1>0, IpOfType DEF IpOf, InterimStatuses
  <2>3. QED
    BY <2>1, <2>2 DEF UpdateHosts, ContextType
<1>4. /\ blue_dns_update_completed' \in BOOLEAN /\ green_dns_removed' \in BOOLEAN
      /\ green_topology_changed' \in BOOLEAN
  <2>1. UpdateDnsFlags(r, report)
    BY DEF StatusChanged, report
  <2>2. QED
    BY <2>1 DEF UpdateDnsFlags, ContextType, flagVars
<1>5. status_cache' \in Statuses
  BY <1>1, <1>2, <1>3, SummaryType DEF StatusChanged
<1>6. /\ interim_status_hashes' \in [Roles -> BOOLEAN] /\ last_context_hash' \in BOOLEAN \X Nat
      /\ switchover_timer' \in {"unset", "running", "expired"}
  BY HashType DEF StatusChanged, ContextType, StartSwitchoverTimer
<1>7. active_switchover' \in BOOLEAN
  BY DEF StatusChanged, ContextType, IsSwitchoverOrCompleted
<1>8. ContextType'
  BY <1>1, <1>2, <1>3, <1>4, <1>5, <1>6, <1>7
     DEF StatusChanged, ContextType, iamVars
<1>9. collect' \in [Roles -> BOOLEAN] /\ collected' \in [Roles -> CollectedStatuses]
  <2> DEFINE now == [collected EXCEPT ![r] = turn]
  <2>1. UpdateMonitors(r, turn) /\ now \in [Roles -> CollectedStatuses]
    BY DEF StatusChanged, MonitorType
  <2>2. \A q \in Roles : [now[q] EXCEPT !.initial_topology = {},
                                         !.initial_ip = EmptyMap, !.host_names = {}] \in CollectedStatuses
    <3> HIDE DEF now
    <3>1. ASSUME NEW q \in Roles
          PROVE  [now[q] EXCEPT !.initial_topology = {},
                                         !.initial_ip = EmptyMap, !.host_names = {}] \in CollectedStatuses
      <4>1. now[q] \in CollectedStatuses
        BY <2>1
      <4>2. QED
        BY <4>1, EmptyMapType DEF CollectedStatuses
    <3>2. QED
      BY <3>1
  <2>3. QED
    BY <2>1, <2>2 DEF UpdateMonitors, MonitorType
<1>10. mpc' \in [Roles -> {"none", "loop", "ending", "stop", "join_reset", "ended"}]
  BY GotoType DEF StatusChanged
<1>11. QED
  BY <1>8, <1>9, <1>10 DEF StatusChanged, MonitorType

(* The steps of a monitor keep the types.                                  *)
LEMMA MonitorStepType ==
    ASSUME TypeOK, NEW r \in Roles, Monitor(r) PROVE TypeOK'
<1> USE DEF TypeOK
<1>1. CASE Run(r)
  <2>1. PICK turn \in Turns(r) : PrepareStatus(r, turn)
    BY <1>1 DEF Run, Turns
  <2>2. turn \in CollectedStatuses
    BY TurnType
  <2>3. MonitorType' /\ ContextType'
    <3>1. CASE StatusUnchanged(r, turn)
      <4>1. MonitorType'
        BY <2>2, <3>1, GotoType DEF StatusUnchanged, MonitorType
      <4>2. QED
        BY <3>1, <4>1
           DEF StatusUnchanged, ContextType, contextVars, phaseVars, interimVars,
               flagVars, iamVars, hostVars
    <3>2. QED
      BY <2>1, <2>2, <3>1, StatusChangedType DEF PrepareStatus
  <2>4. DeploymentType' /\ LifeType'
    BY <1>1
       DEF Run, DeploymentType, deploymentVars, LifeType, lifeVars, Incident,
           NoIncident
  <2>5. QED
    BY <2>3, <2>4
<1>2. CASE MonitorEnds(r)
  <2>1. NothingCollected \in CollectedStatuses
    BY EmptyMapType, PhasesAre DEF NothingCollected, CollectedStatuses
  <2>2. MonitorType'
    BY <1>2, <2>1, GotoType DEF MonitorEnds, MonitorType
  <2>3. QED
    BY <1>2, <2>2
       DEF MonitorEnds, DeploymentType, deploymentVars, LifeType, lifeVars,
           ContextType, contextVars, phaseVars, interimVars, flagVars, iamVars,
           hostVars
<1>3. CASE StopMonitors(r) \/ JoinResetThread(r)
  <2>1. MonitorType'
    BY <1>3, GotoType DEF StopMonitors, JoinResetThread, MonitorType
  <2>2. LifeType'
    BY <1>3 DEF StopMonitors, JoinResetThread, LifeType
  <2>3. QED
    BY <1>3, <2>1, <2>2
       DEF StopMonitors, JoinResetThread, DeploymentType, deploymentVars,
           ContextType, contextVars, phaseVars, interimVars, flagVars, iamVars,
           hostVars
<1>4. QED
  BY <1>1, <1>2, <1>3 DEF Monitor

(* The context that ResetContext leaves is well formed.                    *)
LEMMA ClearedContextType ==
    ASSUME ClearedContext, status_cache' \in Statuses PROVE ContextType'
<1>1. NoInterimStatus \in InterimStatuses
  BY EmptyMapType, PhasesAre DEF NoInterimStatus, InterimStatuses
<1>2. QED
  BY <1>1, PhasesAre DEF ClearedContext, ContextType, NoRoles

(* So are the monitors that InitMonitoring leaves.                         *)
LEMMA InitMonitoringType ==
    ASSUME MonitorType, LifeType, InitMonitoring
    PROVE  MonitorType' /\ monitors' \in BOOLEAN /\ pending_restart' \in BOOLEAN
<1>1. NothingCollected \in CollectedStatuses
  BY EmptyMapType, PhasesAre DEF NothingCollected, CollectedStatuses
<1>2. QED
  BY <1>1 DEF InitMonitoring, FreshMonitors, MonitorType, monitorVars, LifeType

(* The steps of the reset thread keep the types.                           *)
LEMMA ResetStepType ==
    ASSUME TypeOK, ResetThread PROVE TypeOK'
<1> USE DEF TypeOK
<1>1. MonitorType' /\ monitors' \in BOOLEAN /\ pending_restart' \in BOOLEAN
  BY InitMonitoringType
     DEF ResetThread, ResetStarts, ForgetMonitors, CheckRestart, ResetContext,
         ResetEnds, MonitorType, monitorVars, LifeType
<1>2. LifeType'
  BY <1>1
     DEF ResetThread, ResetStarts, ForgetMonitors, CheckRestart, ResetContext,
         ResetEnds, ResetFrame, LifeType
<1>3. DeploymentType' /\ status_cache' \in Statuses
  BY DEF ResetThread, ResetStarts, ForgetMonitors, CheckRestart, ResetContext,
         ResetEnds, ResetFrame, DeploymentType, deploymentVars, ContextType
<1>4. ContextType'
  <2>1. CASE ResetContext
    BY <1>3, <2>1, ClearedContextType DEF ResetContext
  <2>2. CASE UNCHANGED contextVars
    BY <1>3, <2>2
       DEF ContextType, contextVars, phaseVars, interimVars, flagVars, iamVars,
           hostVars
  <2>3. QED
    BY <2>1, <2>2
       DEF ResetThread, ResetStarts, ForgetMonitors, CheckRestart, ResetEnds
<1>5. QED
  BY <1>1, <1>2, <1>3, <1>4

(* Those of the connections and of the destructor do.                      *)
LEMMA UserStepType ==
    ASSUME TypeOK, Users PROVE TypeOK'
<1> USE DEF TypeOK
<1>1. MonitorType' /\ monitors' \in BOOLEAN /\ pending_restart' \in BOOLEAN
  BY InitMonitoringType
     DEF Users, GetOrCreateProvider, RegisterIamHost, ConnectionEnds,
         CleanUpStatusProvider, DestructorJoinsReset, DestructorJoinsMonitors,
         MonitorType, monitorVars, LifeType
<1>2. LifeType' /\ DeploymentType'
  <2>1. ASSUME NEW i \in Instances, RegisterIamHost(i) PROVE LifeType' /\ DeploymentType'
    BY <1>1, <2>1
       DEF RegisterIamHost, UserFrame, LifeType, DeploymentType, deploymentVars
  <2>2. CASE GetOrCreateProvider
    BY <1>1, <2>2
       DEF GetOrCreateProvider, LifeType, DeploymentType, deploymentVars, Incident,
           NoIncident
  <2>3. CASE CleanUpStatusProvider
    BY <1>1, <2>3
       DEF CleanUpStatusProvider, LifeType, DeploymentType, deploymentVars, Incident
  <2>4. CASE ConnectionEnds \/ DestructorJoinsReset \/ DestructorJoinsMonitors
    BY <1>1, <2>4
       DEF ConnectionEnds, DestructorJoinsReset, DestructorJoinsMonitors, UserFrame,
           LifeType, DeploymentType, deploymentVars
  <2>5. QED
    BY <2>1, <2>2, <2>3, <2>4 DEF Users
<1>4. status_cache' \in Statuses
  <2>1. NoStatus \in Statuses
    BY PhasesAre DEF NoStatus, NoRoutes, NoRoles, Status, Statuses, RouteKinds
  <2>2. QED
    BY <2>1
       DEF Users, GetOrCreateProvider, RegisterIamHost, ConnectionEnds,
           CleanUpStatusProvider, DestructorJoinsReset, DestructorJoinsMonitors,
           ContextType
<1>5. ContextType'
  <2>1. CASE DestructorJoinsMonitors
    BY <1>4, <2>1, ClearedContextType DEF DestructorJoinsMonitors
  <2>2. CASE UNCHANGED contextVars
    BY <1>4, <2>2
       DEF ContextType, contextVars, phaseVars, interimVars, flagVars, iamVars,
           hostVars
  <2>3. ASSUME NEW i \in Instances, RegisterIamHost(i) PROVE ContextType'
    BY <2>3
       DEF RegisterIamHost, ContextType, phaseVars, interimVars, flagVars, hostVars
  <2>4. QED
    BY <2>1, <2>2, <2>3
       DEF Users, GetOrCreateProvider, ConnectionEnds, CleanUpStatusProvider,
           DestructorJoinsReset
<1>6. QED
  BY <1>1, <1>2, <1>5

(* Every step keeps the types.                                             *)
LEMMA TypeStep == TypeOK /\ [Next]_vars => TypeOK'
<1>1. TypeOK /\ UNCHANGED vars => TypeOK'
  BY DEF TypeOK, vars, DeploymentType, deploymentVars, MonitorType, monitorVars,
         LifeType, lifeVars, ContextType, contextVars, phaseVars, interimVars,
         flagVars, iamVars, hostVars
<1>2. QED
  BY <1>1, DeploymentStepType, MonitorStepType, ResetStepType, UserStepType
     DEF Next

(* Every variable keeps a value of its declaration.                        *)
THEOREM TypeCorrect == Spec => []TypeOK
BY InitType, TypeStep, PTL DEF Spec

-----------------------------------------------------------------------------
(* The life cycle. *)

(* Without monitors none of their threads runs; a reset is under way only  *)
(* for monitors that are still the provider's, with pending_restart set;   *)
(* and the destructor passes each of its joins only when the threads it    *)
(* joined have ended.                                                      *)
LifeInv ==
    /\ dpc = "live" /\ ~monitors => \A r \in Roles : mpc[r] \in {"none", "ended"}
    /\ dpc = "live" /\ (rpc \in {"start", "wait"} \/ \E r \in Roles : mpc[r] = "join_reset")
         => monitors /\ pending_restart
    /\ dpc \in {"join_reset", "join_monitors"} => \A r \in Roles : mpc[r] # "join_reset"
    /\ dpc \in {"join_monitors", "destroyed"} => rpc \in {"none", "ended"}
    /\ dpc = "destroyed" => \A r \in Roles : mpc[r] \in {"none", "ended"}

(* At first no thread runs.                                                *)
LEMMA LifeInit == Init => LifeInv
BY DEF Init, LifeInv

(* What changes neither the threads nor the provider keeps the life cycle. *)
LEMMA LifeElsewhere ==
    ASSUME LifeInv, UNCHANGED lifeVars, UNCHANGED mpc PROVE LifeInv'
BY DEF LifeInv, lifeVars

(* A monitor asks for a reset only while it is the provider's monitor.     *)
LEMMA LifeMonitor ==
    ASSUME TypeOK, LifeInv, NEW r \in Roles, Monitor(r) PROVE LifeInv'
<1> USE DEF TypeOK, LifeInv, MonitorType, LifeType
<1>1. CASE Run(r)
  <2>1. TurnEnds(r) \/ Goto(r, "stop")
    BY <1>1 DEF Run, PrepareStatus, StatusUnchanged, StatusChanged
  <2>2. UNCHANGED lifeVars /\ mpc[r] = "loop"
    BY <1>1 DEF Run
  <2>3. \E label \in {"loop", "ending", "stop"} : mpc' = [mpc EXCEPT ![r] = label]
    BY <2>1 DEF TurnEnds, Goto
  <2>4. QED
    BY <2>2, <2>3 DEF lifeVars
<1>2. CASE MonitorEnds(r)
  BY <1>2 DEF MonitorEnds, Goto, lifeVars
<1>3. CASE StopMonitors(r)
  BY <1>3 DEF StopMonitors, TurnEnds, Goto, MonitorMutexFree
<1>4. CASE JoinResetThread(r)
  BY <1>4 DEF JoinResetThread, TurnEnds, Goto
<1>5. QED
  BY <1>1, <1>2, <1>3, <1>4 DEF Monitor

(* The reset thread forgets the monitors when both have ended.             *)
LEMMA LifeReset ==
    ASSUME TypeOK, LifeInv, ResetThread PROVE LifeInv'
<1> USE DEF TypeOK, LifeInv, MonitorType, LifeType, ResetFrame
<1>1. CASE ResetStarts
  BY <1>1 DEF ResetStarts, monitorVars
<1>2. CASE ForgetMonitors
  BY <1>2 DEF ForgetMonitors, MonitorsStopped, IsStop, MonitorMutexFree, monitorVars
<1>3. CASE CheckRestart \/ ResetContext
  BY <1>3 DEF CheckRestart, ResetContext, monitorVars
<1>4. CASE ResetEnds
  BY <1>4
     DEF ResetEnds, InitMonitoring, FreshMonitors, MonitorMutexFree, monitorVars
<1>5. QED
  BY <1>1, <1>2, <1>3, <1>4 DEF ResetThread

(* The destructor joins the threads before it is done.                     *)
LEMMA LifeUsers ==
    ASSUME TypeOK, LifeInv, Users PROVE LifeInv'
<1> USE DEF TypeOK, LifeInv, MonitorType, LifeType
<1>1. CASE GetOrCreateProvider
  BY <1>1
     DEF GetOrCreateProvider, InitMonitoring, FreshMonitors, MonitorMutexFree,
         monitorVars
<1>2. ASSUME NEW i \in Instances, RegisterIamHost(i) PROVE LifeInv'
  BY <1>2 DEF RegisterIamHost, UserFrame, monitorVars
<1>3. CASE ConnectionEnds
  BY <1>3 DEF ConnectionEnds, UserFrame, monitorVars
<1>4. CASE CleanUpStatusProvider
  BY <1>4 DEF CleanUpStatusProvider, MonitorMutexFree
<1>5. CASE DestructorJoinsReset \/ DestructorJoinsMonitors
  BY <1>5 DEF DestructorJoinsReset, DestructorJoinsMonitors, UserFrame, monitorVars
<1>6. QED
  BY <1>1, <1>2, <1>3, <1>4, <1>5 DEF Users

(* Every step keeps the life cycle.                                        *)
LEMMA LifeStep == TypeOK /\ LifeInv /\ [Next]_vars => LifeInv'
<1>1. UNCHANGED vars => UNCHANGED lifeVars /\ UNCHANGED mpc
  BY DEF vars, monitorVars
<1>2. Deployment => UNCHANGED lifeVars /\ UNCHANGED mpc
  BY DEF Deployment, Create, Initiate, Advance, RollBack, Settle,
         SwitchoverTimerExpires, providerVars, monitorVars
<1>3. QED
  BY <1>1, <1>2, LifeElsewhere, LifeMonitor, LifeReset, LifeUsers
     DEF Next

(* Monitors are started only when those before have ended.                 *)
LEMMA MonitorsStart ==
    ASSUME TypeOK, LifeInv, [Next]_vars, monitors', ~monitors
    PROVE  \A r \in Roles : mpc[r] \in {"none", "ended"}
<1>1. GetOrCreateProvider \/ ResetEnds
  BY DEF Next, vars, lifeVars, Deployment, Create, Initiate, Advance, RollBack,
         Settle, SwitchoverTimerExpires, providerVars, Users, RegisterIamHost,
         ConnectionEnds, CleanUpStatusProvider, DestructorJoinsReset,
         DestructorJoinsMonitors, ResetThread, ResetStarts, ForgetMonitors,
         CheckRestart, ResetContext, Monitor, Run, MonitorEnds, StopMonitors,
         JoinResetThread
<1>2. QED
  BY <1>1
     DEF GetOrCreateProvider, ResetEnds, MonitorMutexFree, LifeInv, TypeOK, LifeType

(* InitMonitoring never starts a monitor while a thread of the one before  *)
(* it still runs.                                                          *)
THEOREM MonitorsApart == Spec => MonitorsDoNotOverlap
<1>1. TypeOK /\ LifeInv /\ [Next]_vars
        => [monitors' /\ ~monitors => \A r \in Roles : mpc[r] \in {"none", "ended"}]_vars
  BY MonitorsStart
<1>2. QED
  BY LifeInit, LifeStep, TypeCorrect, <1>1, PTL DEF Spec, MonitorsDoNotOverlap

-----------------------------------------------------------------------------
(* The end of a switchover. *)

(* What a monitor has collected.  The source monitor has found the blue    *)
(* names, and a green address only where the blue name leads to it by now; *)
(* the target monitor has found a name of every instance.                  *)
Fits(r, status) ==
    /\ r = "SOURCE" =>
         /\ status.initial_topology \in {{}, {"blue"} \X Instances}
         /\ \A i \in Instances : IpOf(status.initial_ip, <<"blue", i>>) = "green_ip"
                                   => i \in dns_updated
    /\ r = "TARGET" /\ status.initial_topology # {} =>
         \A i \in Instances : \E n \in status.initial_topology : n[2] = i

(* What the monitors have collected fits the deployment, and the two flags *)
(* that end a switchover say what is so of the deployment's names.         *)
SettledInv ==
    /\ deployments = 0 => deployment = "NOT_CREATED" /\ dns_updated = {} /\ dns_removed = {}
    /\ \A r \in Roles : Fits(r, collected[r])
    /\ blue_dns_update_completed => dns_updated = Instances
    /\ green_dns_removed => dns_removed = Instances

(* A monitor that has collected nothing fits every state of the            *)
(* deployment.                                                             *)
LEMMA NothingFits ==
    ASSUME NEW r \in Roles, NEW status, status.initial_topology = {},
           status.initial_ip = EmptyMap
    PROVE  Fits(r, status)
BY BlueGreenAssumption DEF Fits, IpOf, EmptyMap, Ips

(* At first nothing is collected and no flag is set.                       *)
LEMMA SettledInit == Init => SettledInv
<1> SUFFICES ASSUME Init PROVE SettledInv
  OBVIOUS
<1>1. \A r \in Roles : Fits(r, collected[r])
  BY NothingFits DEF Init, NothingCollected
<1>2. QED
  BY <1>1 DEF Init, SettledInv

(* What a monitor collects now fits the deployment as it is now.           *)
LEMMA CollectFits ==
    ASSUME NEW r \in Roles, NEW status \in CollectedStatuses, NEW answered \in BOOLEAN,
           Fits(r, status)
    PROVE  Fits(r, Collect(r, status, answered))
<1> DEFINE topology == TopologyOf(r)
           names == status.host_names \cup (IF answered /\ collect[r] THEN topology ELSE {})
           s == Collect(r, status, answered)
<1>1. /\ s.initial_topology = IF answered /\ collect[r] THEN topology ELSE status.initial_topology
      /\ s.initial_ip = IF collect[r] THEN [n \in names |-> Resolved(n)] ELSE status.initial_ip
  BY DEF Collect, CollectedStatuses
<1> HIDE DEF s
<1>2. r = "SOURCE" => topology = {"blue"} \X Instances
  BY DEF TopologyOf
<1>3. ASSUME NEW i \in Instances, IpOf(s.initial_ip, <<"blue", i>>) = "green_ip", r = "SOURCE"
      PROVE  i \in dns_updated
  <2>1. CASE collect[r]
    BY <1>1, <1>3, <2>1, BlueGreenAssumption DEF IpOf, Resolved, Ips
  <2>2. QED
    BY <1>1, <1>3, <2>1 DEF Fits
<1>4. r = "TARGET" => \A i \in Instances : \E n \in topology : n[2] = i
  <2>1. ASSUME NEW i \in Instances, r = "TARGET" PROVE \E n \in topology : n[2] = i
    <3>1. <<IF i \in renamed THEN "blue" ELSE "green", i>> \in topology
      BY <2>1 DEF TopologyOf, Names
    <3>2. QED
      BY <3>1
  <2>2. QED
    BY <2>1
<1>5. QED
  BY <1>1, <1>2, <1>3, <1>4 DEF Fits, s

(* So does what a turn leaves it with.                                     *)
LEMMA TurnFits ==
    ASSUME MonitorType, DeploymentType, NEW r \in Roles, NEW turn \in Turns(r),
           Fits(r, collected[r])
    PROVE  Fits(r, turn)
<1>0. collected[r] \in CollectedStatuses
  BY DEF MonitorType
<1>1. ASSUME NEW phase \in Answers(r)
      PROVE  StatusOf(r, phase) \in CollectedStatuses /\ Fits(r, StatusOf(r, phase))
  <2>1. StatusOf(r, phase) \in CollectedStatuses
    BY AnswersType, StatusOfType
  <2>2. /\ StatusOf(r, phase).initial_topology = collected[r].initial_topology
        /\ StatusOf(r, phase).initial_ip = collected[r].initial_ip
    BY <1>0 DEF StatusOf, CollectedStatuses
  <2>3. QED
    BY <2>1, <2>2 DEF Fits
<1>2. collected[r].connecting_host_info_correct \in BOOLEAN
  BY <1>0 DEF CollectedStatuses
<1>3. CASE turn \in FailedTurns(r)
  <2>1. ASSUME NEW phase \in {"UNKNOWN", "NOT_CREATED"}
        PROVE  LET s == [collected[r] EXCEPT !.phase = phase]
               IN s \in CollectedStatuses /\ Fits(r, s)
    BY <1>0, PhasesAre DEF CollectedStatuses, Fits
  <2>2. QED
    BY <1>0, <1>1, <1>2, <1>3, <2>1, CollectFits DEF FailedTurns
<1>4. CASE turn \in StatusCollected(r)
  <2>1. PICK phase \in Answers(r), answered \in BOOLEAN :
          turn = Collect(r, StatusOf(r, phase), answered)
    BY <1>2, <1>4 DEF StatusCollected, ConnectedToRole, HasRows
  <2>2. QED
    BY <1>1, <2>1, CollectFits
<1>5. CASE turn \in OldRowsOnly(r)
  BY <1>0, <1>5, CollectFits DEF OldRowsOnly
<1>6. QED
  BY <1>3, <1>4, <1>5 DEF Turns

(* A report says that every address has changed, or every name is gone,    *)
(* only when that is so.                                                   *)
LEMMA ReportTells ==
    ASSUME DeploymentType, NEW r \in Roles, NEW turn \in CollectedStatuses, Fits(r, turn)
    PROVE  LET report == InterimStatus(r, turn) IN
           /\ r = "SOURCE" /\ report.all_start_topology_ip_changed => dns_updated = Instances
           /\ r = "TARGET" /\ report.all_start_topology_endpoints_removed
                => dns_removed = Instances
<1> DEFINE current_ip == [n \in turn.host_names |-> Resolved(n)]
<1>1. /\ InterimStatus(r, turn).all_start_topology_ip_changed
           = AllStartTopologyIpChanged(r, turn, current_ip)
      /\ InterimStatus(r, turn).all_start_topology_endpoints_removed
           = AllStartTopologyEndpointsRemoved(turn, current_ip)
  BY DEF InterimStatus
<1>2. ASSUME r = "SOURCE", AllStartTopologyIpChanged(r, turn, current_ip)
      PROVE  dns_updated = Instances
  <2>1. SUFFICES ASSUME NEW i \in Instances, i \notin dns_updated PROVE FALSE
    BY DEF DeploymentType
  <2> DEFINE n == <<"blue", i>>
  <2>2. n \in turn.initial_topology
    BY <1>2 DEF AllStartTopologyIpChanged, Fits
  <2>3. /\ IpOf(turn.initial_ip, n) # None /\ IpOf(current_ip, n) # None
        /\ IpOf(turn.initial_ip, n) # IpOf(current_ip, n)
    BY <1>2, <2>2 DEF AllStartTopologyIpChanged
  <2>4. IpOf(current_ip, n) = "blue_ip"
    BY <2>1, <2>3 DEF IpOf, Resolved
  <2>5. IpOf(turn.initial_ip, n) \in Ips \cup {None}
    BY IpOfType DEF CollectedStatuses
  <2>6. IpOf(turn.initial_ip, n) = "green_ip"
    BY <2>3, <2>4, <2>5 DEF Ips
  <2>7. QED
    BY <1>2, <2>1, <2>6 DEF Fits
<1>3. ASSUME r = "TARGET", AllStartTopologyEndpointsRemoved(turn, current_ip)
      PROVE  dns_removed = Instances
  <2>1. SUFFICES ASSUME NEW i \in Instances PROVE i \in dns_removed
    BY DEF DeploymentType
  <2>2. PICK n \in turn.initial_topology : n[2] = i
    BY <1>3 DEF AllStartTopologyEndpointsRemoved, Fits
  <2>3. Resolved(n) = None
    BY <1>3 DEF AllStartTopologyEndpointsRemoved
  <2>4. QED
    BY <2>2, <2>3, BlueGreenAssumption DEF Resolved, Ips
<1>4. QED
  BY <1>1, <1>2, <1>3

(* A report that changes the context sets a flag only when what it says is *)
(* so.                                                                     *)
LEMMA SettledChanged ==
    ASSUME TypeOK, SettledInv, NEW r \in Roles, NEW turn \in Turns(r),
           StatusChanged(r, turn), UNCHANGED deploymentVars
    PROVE  SettledInv'
<1> USE DEF TypeOK, SettledInv
<1> DEFINE report == InterimStatus(r, turn)
<1>1. turn \in CollectedStatuses /\ Fits(r, turn)
  BY TurnType, TurnFits
<1>2. /\ blue_dns_update_completed' => dns_updated = Instances
      /\ green_dns_removed' => dns_removed = Instances
  <2>1. UpdateDnsFlags(r, report)
    BY DEF StatusChanged
  <2>2. QED
    BY <1>1, <2>1, ReportTells DEF UpdateDnsFlags, flagVars
<1>3. ASSUME NEW q \in Roles PROVE Fits(q, collected'[q])
  <2> DEFINE now == [collected EXCEPT ![r] = turn]
  <2>1. Fits(q, now[q]) /\ now[q] \in CollectedStatuses
    BY <1>1 DEF MonitorType
  <2>2. UpdateMonitors(r, turn)
    BY DEF StatusChanged
  <2>3. collected' = now \/ collected' = [p \in Roles |->
          [now[p] EXCEPT !.initial_topology = {}, !.initial_ip = EmptyMap, !.host_names = {}]]
    BY <2>2 DEF UpdateMonitors
  <2> HIDE DEF now
  <2>4. LET s == [now[q] EXCEPT !.initial_topology = {}, !.initial_ip = EmptyMap,
                                !.host_names = {}]
        IN s.initial_topology = {} /\ s.initial_ip = EmptyMap
    BY <2>1 DEF CollectedStatuses
  <2>5. QED
    BY <2>1, <2>3, <2>4, NothingFits
<1>4. UNCHANGED <<deployment, deployments, dns_updated, dns_removed>>
  BY DEF deploymentVars
<1>5. QED
  BY <1>2, <1>3, <1>4 DEF Fits

(* The deployment never takes a name or an address back.                   *)
LEMMA SettledDeployment ==
    ASSUME TypeOK, SettledInv, Deployment PROVE SettledInv'
<1> USE DEF TypeOK, SettledInv
<1>1. UNCHANGED <<collected, blue_dns_update_completed, green_dns_removed>>
  BY DEF Deployment, Create, Initiate, Advance, RollBack, Settle,
         SwitchoverTimerExpires, providerVars, monitorVars, contextVars, flagVars
<1>2. dns_updated \subseteq dns_updated' /\ dns_removed \subseteq dns_removed'
  BY BlueGreenAssumption
     DEF Deployment, Create, Initiate, Advance, RollBack, Settle,
         SwitchoverTimerExpires, deploymentVars, DeploymentType
<1>3. /\ deployments' = 0 => deployment' = "NOT_CREATED" /\ dns_updated' = {} /\ dns_removed' = {}
  BY BlueGreenAssumption
     DEF Deployment, Create, Initiate, Advance, RollBack, Settle,
         SwitchoverTimerExpires, deploymentVars, DeploymentType, Successor
<1>4. dns_updated' \subseteq Instances /\ dns_removed' \subseteq Instances
  BY DeploymentStepType DEF DeploymentType
<1>5. QED
  BY <1>1, <1>2, <1>3, <1>4 DEF Fits

(* The steps of a monitor keep the flags true.                             *)
LEMMA SettledMonitor ==
    ASSUME TypeOK, SettledInv, NEW r \in Roles, Monitor(r) PROVE SettledInv'
<1> USE DEF TypeOK, SettledInv
<1>1. CASE Run(r)
  <2>1. PICK turn \in Turns(r) : PrepareStatus(r, turn)
    BY <1>1 DEF Run, Turns
  <2>2. UNCHANGED deploymentVars
    BY <1>1 DEF Run
  <2>3. CASE StatusUnchanged(r, turn)
    <3>1. Fits(r, turn)
      BY TurnFits
    <3>2. QED
      BY <2>2, <2>3, <3>1
         DEF StatusUnchanged, MonitorType, Fits, contextVars, flagVars,
             deploymentVars
  <2>4. QED
    BY <2>1, <2>2, <2>3, SettledChanged DEF PrepareStatus
<1>2. CASE MonitorEnds(r)
  <2>1. Fits(r, NothingCollected)
    BY NothingFits DEF NothingCollected
  <2>2. QED
    BY <1>2, <2>1
       DEF MonitorEnds, MonitorType, Fits, contextVars, flagVars, deploymentVars
<1>3. CASE StopMonitors(r) \/ JoinResetThread(r)
  BY <1>3
     DEF StopMonitors, JoinResetThread, Fits, contextVars, flagVars, deploymentVars
<1>4. QED
  BY <1>1, <1>2, <1>3 DEF Monitor

(* The reset clears the flags, and the connections leave them alone.       *)
LEMMA SettledLife ==
    ASSUME TypeOK, SettledInv, ResetThread \/ Users PROVE SettledInv'
<1> USE DEF TypeOK, SettledInv
<1>1. UNCHANGED deploymentVars
  BY DEF ResetThread, ResetStarts, ForgetMonitors, CheckRestart, ResetContext,
         ResetEnds, ResetFrame, Users, GetOrCreateProvider, RegisterIamHost,
         ConnectionEnds, CleanUpStatusProvider, DestructorJoinsReset,
         DestructorJoinsMonitors, UserFrame
<1>2. \/ ~blue_dns_update_completed' /\ ~green_dns_removed'
     \/ UNCHANGED flagVars
  BY DEF ResetThread, ResetStarts, ForgetMonitors, CheckRestart, ResetContext,
         ResetEnds, Users, GetOrCreateProvider, RegisterIamHost, ConnectionEnds,
         CleanUpStatusProvider, DestructorJoinsReset, DestructorJoinsMonitors,
         contextVars, ClearedContext
<1>3. collected' = [r \in Roles |-> NothingCollected] \/ UNCHANGED collected
  BY DEF ResetThread, ResetStarts, ForgetMonitors, CheckRestart, ResetContext,
         ResetEnds, Users, GetOrCreateProvider, RegisterIamHost, ConnectionEnds,
         CleanUpStatusProvider, DestructorJoinsReset, DestructorJoinsMonitors,
         InitMonitoring, FreshMonitors, monitorVars
<1>4. \A r \in Roles : Fits(r, NothingCollected)
  BY NothingFits DEF NothingCollected
<1>5. \A r \in Roles : Fits(r, collected'[r])
  BY <1>3, <1>4
<1>6. QED
  BY <1>1, <1>2, <1>5 DEF Fits, deploymentVars, flagVars

(* Every step keeps the flags true.                                        *)
LEMMA SettledStep == TypeOK /\ SettledInv /\ [Next]_vars => SettledInv'
<1>1. SettledInv /\ UNCHANGED vars => SettledInv'
  BY DEF SettledInv, Fits, vars, deploymentVars, monitorVars, contextVars, flagVars
<1>2. QED
  BY <1>1, SettledDeployment, SettledMonitor, SettledLife
     DEF Next

(* COMPLETED is published only when both flags are set, or out of time.    *)
LEMMA CompletionSettled ==
    ASSUME TypeOK, SettledInv, SettledInv', [Next]_vars,
           status_cache'.phase = "COMPLETED", status_cache.phase # "COMPLETED"
    PROVE  \/ switchover_timer = "expired"
           \/ dns_updated = Instances /\ dns_removed = Instances
<1>1. PICK r \in Roles : \E turn \in Turns(r) :
        StatusChanged(r, turn) /\ UNCHANGED deploymentVars
  <2>1. Deployment \/ ResetThread => status_cache' = status_cache
    BY DEF Deployment, Create, Initiate, Advance, RollBack, Settle,
           SwitchoverTimerExpires, providerVars, ResetThread, ResetFrame,
           ResetStarts, ForgetMonitors, CheckRestart, ResetContext, ResetEnds
  <2>2. Users => status_cache' \in {status_cache, NoStatus}
    BY DEF Users, GetOrCreateProvider, RegisterIamHost, ConnectionEnds,
           CleanUpStatusProvider, DestructorJoinsReset, DestructorJoinsMonitors
  <2>3. NoStatus.phase # "COMPLETED"
    BY DEF NoStatus, Status
  <2>4. PICK r \in Roles : Monitor(r)
    BY <2>1, <2>2, <2>3 DEF Next, vars
  <2>5. PICK turn \in Turns(r) : StatusChanged(r, turn) /\ UNCHANGED deploymentVars
    BY <2>4
       DEF Monitor, Run, PrepareStatus, StatusUnchanged, Turns, MonitorEnds,
           StopMonitors, JoinResetThread
  <2>6. QED
    BY <2>5
<1>2. status_cache' = SummaryStatus /\ StartSwitchoverTimer
  BY <1>1 DEF StatusChanged
<1>3. CASE switchover_timer' = "expired"
  BY <1>2, <1>3 DEF StartSwitchoverTimer
<1>4. CASE switchover_timer' # "expired"
  <2>1. latest_status_phase' \in Phases
    BY <1>1, TypeStep DEF TypeOK, ContextType
  <2>2. SummaryStatus.phase = "COMPLETED" =>
          blue_dns_update_completed' /\ green_dns_removed'
    BY <1>4, <2>1, PhasesAre
       DEF SummaryStatus, NoStatus, CreatedStatus, PreparationStatus,
           InProgressStatus, PostStatus, GetStatusOfCompleted, Status
  <2>3. QED
    BY <1>1, <1>2, <2>2 DEF SettledInv, deploymentVars
<1>5. QED
  BY <1>3, <1>4

(* The end of a switchover is published only when every blue name leads to *)
(* green and every green name is gone, unless its time is up.              *)
THEOREM CompletionCorrect == Spec => CompletedOnlyWhenSettled
<1>1. TypeOK /\ SettledInv /\ SettledInv' /\ [Next]_vars =>
        [status_cache'.phase = "COMPLETED" /\ status_cache.phase # "COMPLETED"
           => \/ switchover_timer = "expired"
              \/ dns_updated = Instances /\ dns_removed = Instances]_vars
  BY CompletionSettled
<1>2. QED
  BY SettledInit, SettledStep, TypeCorrect, <1>1, PTL
     DEF Spec, CompletedOnlyWhenSettled

-----------------------------------------------------------------------------
(* The routes after the switch. *)

(* No connection has the monitors started again between the reset thread's *)
(* last look at pending_restart and its reset of the context.              *)
NoRestartBeforeReset == rpc = "reset" => ~monitors

(* The destructor has taken the restart back and has no monitors; those    *)
(* the context is reset for have ended, unless there are new ones; and one *)
(* that does not run has collected nothing.                                *)
ResetInv ==
    /\ dpc # "live" => ~pending_restart /\ ~monitors
    /\ rpc = "reset" => monitors \/ \A r \in Roles : mpc[r] \in {"none", "ended"}
    /\ \A r \in Roles : mpc[r] \in {"none", "ended"} => collected[r].host_names = {}

(* A host that is known has an address, one that is known to a monitor or  *)
(* to the provider.                                                        *)
AddressInv ==
    /\ dns_removed \subseteq renamed
    /\ \A r \in Roles : collected[r].initial_topology \subseteq collected[r].host_names
    /\ \A r \in Roles : \A n \in collected[r].host_names : host_ip_map[n] # None
    /\ \A r \in Roles :
         /\ interim_statuses[r].initial_topology \subseteq interim_statuses[r].host_names
         /\ \A n \in interim_statuses[r].host_names : host_ip_map[n] # None
    /\ \A n \in Names : role_by_host_map[n] # None => host_ip_map[n] # None
    /\ PostRoutesAddressed

(* At first no host is known.                                              *)
LEMMA AddressInit == Init => ResetInv /\ AddressInv
BY DEF Init, ResetInv, AddressInv, NothingCollected, NoInterimStatus, NoRoles,
       NoStatus, Status, PostRoutesAddressed

(* A turn finds an address for every name it adds to the collected ones.   *)
LEMMA TurnNames ==
    ASSUME MonitorType, DeploymentType, dns_removed \subseteq renamed,
           NEW r \in Roles, NEW turn \in Turns(r),
           collected[r].initial_topology \subseteq collected[r].host_names
    PROVE  /\ turn.initial_topology \subseteq turn.host_names
           /\ \A n \in turn.host_names :
                n \in collected[r].host_names \/ IpOf(turn.initial_ip, n) # None
<1> DEFINE Good(s) == /\ s \in CollectedStatuses
                      /\ s.initial_topology \subseteq s.host_names
                      /\ \A n \in s.host_names : \/ n \in collected[r].host_names
                                                 \/ collect[r] /\ Resolved(n) # None
           Named(t) == /\ t.initial_topology \subseteq t.host_names
                       /\ \A n \in t.host_names :
                            n \in collected[r].host_names \/ IpOf(t.initial_ip, n) # None
<1>1. \A n \in TopologyOf(r) : Resolved(n) # None
  BY BlueGreenAssumption DEF TopologyOf, Resolved, Names, Ips
<1>2. ASSUME NEW s, Good(s), NEW answered \in BOOLEAN
      PROVE  Named(Collect(r, s, answered))
  <2> DEFINE names == s.host_names \cup (IF answered /\ collect[r] THEN TopologyOf(r) ELSE {})
             turned == Collect(r, s, answered)
  <2>1. /\ turned.host_names = names
        /\ turned.initial_topology = IF answered /\ collect[r] THEN TopologyOf(r)
                                     ELSE s.initial_topology
        /\ turned.initial_ip = IF collect[r] THEN [n \in names |-> Resolved(n)] ELSE s.initial_ip
    BY <1>2 DEF Collect, CollectedStatuses
  <2> HIDE DEF turned
  <2>2. turned.initial_topology \subseteq turned.host_names
    BY <1>2, <2>1
  <2>3. ASSUME NEW n \in names
        PROVE  n \in collected[r].host_names \/ IpOf(turned.initial_ip, n) # None
    BY <1>1, <1>2, <2>1 DEF IpOf
  <2>4. QED
    BY <2>1, <2>2, <2>3 DEF turned
<1>3. Good(collected[r])
  BY DEF MonitorType
<1>4. \A phase \in {"UNKNOWN", "NOT_CREATED"} : Good([collected[r] EXCEPT !.phase = phase])
  BY <1>3, PhasesAre DEF CollectedStatuses
<1>5. \A phase \in Answers(r) : Good(StatusOf(r, phase))
  <2>1. ASSUME NEW phase \in Answers(r)
        PROVE  Good(StatusOf(r, phase))
    <3>1. StatusOf(r, phase) \in CollectedStatuses
      BY AnswersType, StatusOfType
    <3>2. /\ StatusOf(r, phase).initial_topology = collected[r].initial_topology
          /\ StatusOf(r, phase).host_names =
               IF HasRows(phase) /\ collect[r] THEN collected[r].host_names \cup TopologyOf(r)
               ELSE collected[r].host_names
      BY <1>3 DEF StatusOf, CollectedStatuses
    <3>3. QED
      BY <1>1, <1>3, <3>1, <3>2
  <2>2. QED
    BY <2>1
<1>6. collected[r].connecting_host_info_correct \in BOOLEAN
  BY <1>3 DEF CollectedStatuses
<1>7. Named(turn)
  <2> HIDE DEF Good, Named
  <2>1. CASE turn \in FailedTurns(r)
    BY <1>2, <1>3, <1>4, <1>5, <1>6, <2>1 DEF FailedTurns
  <2>2. CASE turn \in StatusCollected(r)
    <3>1. PICK phase \in Answers(r), answered \in BOOLEAN :
            turn = Collect(r, StatusOf(r, phase), answered)
      BY <1>6, <2>2 DEF StatusCollected, ConnectedToRole, HasRows
    <3>2. QED
      BY <1>2, <1>5, <3>1
  <2>3. CASE turn \in OldRowsOnly(r)
    BY <1>2, <1>3, <2>3 DEF OldRowsOnly
  <2>4. QED
    BY <2>1, <2>2, <2>3 DEF Turns
<1>8. QED
  BY <1>7

(* When every known host has an address, every route of the phase POST     *)
(* leads to one.                                                           *)
LEMMA SummaryAddressed ==
    ASSUME TypeOK', \A r \in Roles :
             /\ interim_statuses'[r].initial_topology \subseteq interim_statuses'[r].host_names
             /\ \A n \in interim_statuses'[r].host_names : host_ip_map'[n] # None,
           \A n \in Names : role_by_host_map'[n] # None => host_ip_map'[n] # None,
           SummaryStatus.phase = "POST", NEW n \in Names
    PROVE  SummaryStatus.connect[n] # "no_host"
<1>1. SummaryStatus = PostStatus
  BY PhasesAre
     DEF TypeOK, ContextType, SummaryStatus, NoStatus, CreatedStatus,
         PreparationStatus, InProgressStatus, CompletedStatus, ExpiredStatus,
         GetStatusOfCompleted, Status
<1>2. \A m \in Names : host_ip_map'[m] # None => GreenRoute(m) # "no_host"
  BY DEF GreenRoute, TypeOK, ContextType, Ips
<1>3. ASSUME n \in NamesOf("SOURCE") \cap DOMAIN CorrespondingNodes
      PROVE  GreenRoute(CorrespondingNodes[n]) # "no_host"
  <2> DEFINE target == interim_statuses'["TARGET"]
             Counterpart(k) == {m \in target.initial_topology : m[2] = k[2]}
  <2>1. target \in InterimStatuses
    BY DEF TypeOK, ContextType, Roles
  <2>2. Counterpart(n) # {} /\ CorrespondingNodes[n] = CHOOSE m \in Counterpart(n) : TRUE
    BY <1>3 DEF CorrespondingNodes, EmptyMap
  <2>3. CorrespondingNodes[n] \in Counterpart(n)
    BY <2>2
  <2>4. CorrespondingNodes[n] \in Names /\ host_ip_map'[CorrespondingNodes[n]] # None
    BY <2>1, <2>3 DEF InterimStatuses, Roles
  <2>5. QED
    BY <1>2, <2>4
<1>4. n \in NamesOf("TARGET") => GreenRoute(n) # "no_host"
  <2>1. "TARGET" # None
    BY BlueGreenAssumption DEF Roles
  <2>2. QED
    BY <1>2, <2>1 DEF NamesOf
<1>5. QED
  BY <1>1, <1>3, <1>4 DEF PostStatus, Status

(* A monitor leaves what the reset relies on.                              *)
LEMMA ResetMonitor ==
    ASSUME TypeOK, LifeInv, ResetInv, NEW r \in Roles, Monitor(r) PROVE ResetInv'
<1> USE DEF TypeOK, MonitorType, LifeType, LifeInv, ResetInv
<1>1. CASE Run(r)
  <2>1. PICK turn \in Turns(r) : PrepareStatus(r, turn)
    BY <1>1 DEF Run, Turns
  <2>2. UNCHANGED lifeVars /\ mpc[r] = "loop"
    BY <1>1 DEF Run
  <2>3. \E label \in {"loop", "ending", "stop"} : mpc' = [mpc EXCEPT ![r] = label]
    BY <2>1 DEF PrepareStatus, StatusUnchanged, StatusChanged, TurnEnds, Goto
  <2>4. ASSUME NEW q \in Roles, q # r, collected[q].host_names = {}
        PROVE  collected'[q].host_names = {}
    <3>1. StatusUnchanged(r, turn) => collected'[q] = collected[q]
      BY <2>4 DEF StatusUnchanged
    <3>2. ASSUME UpdateMonitors(r, turn) PROVE collected'[q].host_names = {}
      <4> DEFINE now == [collected EXCEPT ![r] = turn]
      <4>1. now[q] = collected[q] /\ collected[q] \in CollectedStatuses
        BY <2>4
      <4>2. collected' = now \/ collected' = [p \in Roles |->
              [now[p] EXCEPT !.initial_topology = {}, !.initial_ip = EmptyMap, !.host_names = {}]]
        BY <3>2 DEF UpdateMonitors
      <4> HIDE DEF now
      <4>3. now[q].host_names = {} /\ now[q] \in CollectedStatuses
        BY <2>4, <4>1
      <4>4. [now[q] EXCEPT !.initial_topology = {}, !.initial_ip = EmptyMap,
                           !.host_names = {}].host_names = {}
        BY <4>3 DEF CollectedStatuses
      <4>5. QED
        BY <4>2, <4>3, <4>4
    <3>3. QED
      BY <2>1, <2>4, <3>1, <3>2 DEF PrepareStatus, StatusChanged
  <2>5. QED
    BY <2>2, <2>3, <2>4 DEF lifeVars
<1>2. CASE MonitorEnds(r)
  <2>1. NothingCollected.host_names = {}
    BY DEF NothingCollected
  <2>2. QED
    BY <1>2, <2>1 DEF MonitorEnds, Goto, lifeVars
<1>3. CASE StopMonitors(r)
  BY <1>3 DEF StopMonitors, TurnEnds, Goto, MonitorMutexFree
<1>4. CASE JoinResetThread(r)
  BY <1>4 DEF JoinResetThread, TurnEnds, Goto
<1>5. QED
  BY <1>1, <1>2, <1>3, <1>4 DEF Monitor

(* InitMonitoring starts both monitors, unless there are some.             *)
LEMMA InitMonitoringForgets ==
    ASSUME InitMonitoring, ~monitors
    PROVE  monitors' /\ \A r \in Roles : mpc'[r] = "loop"
BY DEF InitMonitoring, FreshMonitors

(* The reset thread keeps what the reset relies on.                        *)
LEMMA ResetResets ==
    ASSUME TypeOK, LifeInv, ResetInv, ResetThread PROVE ResetInv'
<1> USE DEF TypeOK, LifeType, LifeInv, ResetInv, ResetFrame
<1>1. CASE ResetStarts \/ ForgetMonitors \/ CheckRestart \/ ResetContext
  BY <1>1
     DEF ResetStarts, ForgetMonitors, CheckRestart, ResetContext, MonitorMutexFree,
         MonitorsStopped, IsStop, monitorVars
<1>2. CASE ResetEnds
  BY <1>2, InitMonitoringForgets
     DEF ResetEnds, InitMonitoring, MonitorMutexFree, monitorVars
<1>3. QED
  BY <1>1, <1>2 DEF ResetThread

(* So do the connections, when none restarts the monitors before the       *)
(* reset.                                                                  *)
LEMMA ResetUsers ==
    ASSUME TypeOK, LifeInv, ResetInv, NoRestartBeforeReset, Users PROVE ResetInv'
<1> USE DEF TypeOK, LifeType, LifeInv, ResetInv, NoRestartBeforeReset
<1>1. CASE GetOrCreateProvider
  BY <1>1, InitMonitoringForgets
     DEF GetOrCreateProvider, InitMonitoring, MonitorMutexFree, monitorVars
<1>2. ASSUME NEW i \in Instances, RegisterIamHost(i) PROVE ResetInv'
  BY <1>2 DEF RegisterIamHost, UserFrame, monitorVars
<1>3. CASE ConnectionEnds
  BY <1>3 DEF ConnectionEnds, UserFrame, monitorVars
<1>4. CASE CleanUpStatusProvider
  BY <1>4 DEF CleanUpStatusProvider
<1>5. CASE DestructorJoinsReset \/ DestructorJoinsMonitors
  BY <1>5 DEF DestructorJoinsReset, DestructorJoinsMonitors, UserFrame, monitorVars
<1>6. QED
  BY <1>1, <1>2, <1>3, <1>4, <1>5 DEF Users

(* And so does every step, on that condition.                              *)
LEMMA ResetStep ==
    TypeOK /\ LifeInv /\ ResetInv /\ NoRestartBeforeReset /\ [Next]_vars => ResetInv'
<1>1. ResetInv /\ UNCHANGED <<lifeVars, monitorVars>> => ResetInv'
  BY DEF ResetInv, lifeVars, monitorVars
<1>2. UNCHANGED vars => UNCHANGED <<lifeVars, monitorVars>>
  BY DEF vars
<1>3. Deployment => UNCHANGED <<lifeVars, monitorVars>>
  BY DEF Deployment, Create, Initiate, Advance, RollBack, Settle,
         SwitchoverTimerExpires, providerVars
<1>4. QED
  BY <1>1, <1>2, <1>3, ResetMonitor, ResetResets, ResetUsers
     DEF Next

(* A report that changes the context has its addresses copied with its     *)
(* names.                                                                  *)
LEMMA AddressChanged ==
    ASSUME TypeOK, TypeOK', AddressInv, NEW r \in Roles, NEW turn \in Turns(r),
           StatusChanged(r, turn), UNCHANGED deploymentVars
    PROVE  AddressInv'
<1> USE DEF TypeOK, AddressInv
<1> DEFINE report == InterimStatus(r, turn)
<1>1. turn \in CollectedStatuses
  BY TurnType
<1>2. /\ turn.initial_topology \subseteq turn.host_names
      /\ \A n \in turn.host_names :
           n \in collected[r].host_names \/ IpOf(turn.initial_ip, n) # None
  BY TurnNames
<1>3. /\ report.initial_topology = turn.initial_topology
      /\ report.host_names = turn.host_names /\ report.initial_ip = turn.initial_ip
      /\ turn.host_names \subseteq Names
  BY <1>1 DEF InterimStatus, CollectedStatuses
<1> HIDE DEF report
<1>4. UpdateHosts(r, report)
  BY DEF StatusChanged, report
<1>5. /\ \A n \in Names : host_ip_map[n] # None => host_ip_map'[n] # None
      /\ \A n \in turn.host_names : host_ip_map'[n] # None
  <2>1. \A n \in Names : host_ip_map'[n] = IF IpOf(report.initial_ip, n) # None
                                           THEN report.initial_ip[n] ELSE host_ip_map[n]
    BY <1>4 DEF UpdateHosts
  <2>2. \A n \in Names : IpOf(report.initial_ip, n) # None
                           => host_ip_map'[n] = IpOf(report.initial_ip, n)
    BY <2>1 DEF IpOf
  <2>3. QED
    BY <1>2, <1>3, <2>1, <2>2
<1>6. \A n \in Names : role_by_host_map'[n] # None => host_ip_map'[n] # None
  <2>1. \A n \in Names : role_by_host_map'[n] = IF n \in report.host_names THEN r
                                                ELSE role_by_host_map[n]
    BY <1>4 DEF UpdateHosts
  <2>2. QED
    BY <1>3, <1>5, <2>1
<1>7. ASSUME NEW q \in Roles
      PROVE  /\ interim_statuses'[q].initial_topology \subseteq interim_statuses'[q].host_names
             /\ \A n \in interim_statuses'[q].host_names : host_ip_map'[n] # None
  <2>1. interim_statuses' = [interim_statuses EXCEPT ![r] = report]
    BY DEF StatusChanged, report
  <2>2. interim_statuses[q].host_names \subseteq Names
    BY DEF ContextType, InterimStatuses
  <2>3. CASE q = r
    BY <1>2, <1>3, <1>5, <2>1, <2>3 DEF ContextType
  <2>4. CASE q # r
    BY <1>5, <2>1, <2>2, <2>4 DEF ContextType
  <2>5. QED
    BY <2>3, <2>4
<1>8. ASSUME NEW q \in Roles
      PROVE  /\ collected'[q].initial_topology \subseteq collected'[q].host_names
             /\ \A n \in collected'[q].host_names : host_ip_map'[n] # None
  <2> DEFINE now == [collected EXCEPT ![r] = turn]
  <2>1. now[q] \in CollectedStatuses
    BY <1>1 DEF MonitorType
  <2>2. collected' = now \/ collected' = [p \in Roles |->
          [now[p] EXCEPT !.initial_topology = {}, !.initial_ip = EmptyMap, !.host_names = {}]]
    BY DEF StatusChanged, UpdateMonitors
  <2>3. /\ now[q].initial_topology \subseteq now[q].host_names
        /\ \A n \in now[q].host_names : host_ip_map'[n] # None
    <3>1. collected[q].host_names \subseteq Names
      BY DEF MonitorType, CollectedStatuses
    <3>2. now[q] = IF q = r THEN turn ELSE collected[q]
      BY DEF MonitorType
    <3>3. QED
      BY <1>2, <1>5, <3>1, <3>2
  <2> HIDE DEF now
  <2>4. QED
    BY <2>1, <2>2, <2>3 DEF CollectedStatuses
<1>9. PostRoutesAddressed'
  <2>1. status_cache' = SummaryStatus
    BY DEF StatusChanged
  <2>2. QED
    BY <1>6, <1>7, <2>1, SummaryAddressed DEF PostRoutesAddressed
<1>10. dns_removed' \subseteq renamed'
  BY DEF deploymentVars
<1>11. QED
  BY <1>6, <1>7, <1>8, <1>9, <1>10

(* The steps of a monitor keep every known host addressed.                 *)
LEMMA AddressMonitor ==
    ASSUME TypeOK, TypeOK', AddressInv, NEW r \in Roles, Monitor(r) PROVE AddressInv'
<1> USE DEF TypeOK, AddressInv
<1>1. CASE Run(r)
  <2>1. PICK turn \in Turns(r) : PrepareStatus(r, turn)
    BY <1>1 DEF Run, Turns
  <2>2. UNCHANGED deploymentVars
    BY <1>1 DEF Run
  <2>3. CASE StatusUnchanged(r, turn)
    <3>1. turn.initial_topology \subseteq turn.host_names /\ turn \in CollectedStatuses
      BY TurnNames, TurnType
    <3>2. turn.host_names = interim_statuses[r].host_names
      BY <2>3, <3>1 DEF StatusUnchanged, NothingChanged, InterimStatus
    <3>3. collected' = [collected EXCEPT ![r] = turn]
      BY <2>3 DEF StatusUnchanged
    <3>4. UNCHANGED <<host_ip_map, interim_statuses, role_by_host_map, status_cache, dns_removed, renamed>>
      BY <2>2, <2>3
         DEF StatusUnchanged, contextVars, hostVars, interimVars, deploymentVars
    <3>5. QED
      BY <3>1, <3>2, <3>3, <3>4 DEF MonitorType, PostRoutesAddressed
  <2>4. QED
    BY <2>1, <2>2, <2>3, AddressChanged DEF PrepareStatus
<1>2. CASE MonitorEnds(r)
  <2>1. NothingCollected.host_names = {} /\ NothingCollected.initial_topology = {}
    BY DEF NothingCollected
  <2>2. QED
    BY <1>2, <2>1
       DEF MonitorEnds, MonitorType, contextVars, hostVars, interimVars,
           deploymentVars, PostRoutesAddressed
<1>3. CASE StopMonitors(r) \/ JoinResetThread(r)
  BY <1>3
     DEF StopMonitors, JoinResetThread, contextVars, hostVars, interimVars,
         deploymentVars, PostRoutesAddressed
<1>4. QED
  BY <1>1, <1>2, <1>3 DEF Monitor

(* So does a reset of the context while the monitors have collected        *)
(* nothing.                                                                *)
LEMMA AddressCleared ==
    ASSUME AddressInv, ClearedContext, \A r \in Roles : collected'[r].host_names = {},
           \A r \in Roles : collected'[r].initial_topology = {},
           UNCHANGED <<status_cache, dns_removed, renamed>>
    PROVE  AddressInv'
BY DEF AddressInv, ClearedContext, NoInterimStatus, NoRoles, PostRoutesAddressed

(* And what the deployment, the reset thread and the connections do.       *)
LEMMA AddressElsewhere ==
    ASSUME TypeOK, LifeInv, ResetInv, AddressInv, NoRestartBeforeReset,
           Deployment \/ ResetThread \/ Users
    PROVE  AddressInv'
<1> USE DEF TypeOK, AddressInv
<1>1. NothingCollected.host_names = {} /\ NothingCollected.initial_topology = {}
  BY DEF NothingCollected
<1>2. (\A r \in Roles : mpc[r] \in {"none", "ended"}) =>
        \A r \in Roles : collected[r].host_names = {} /\ collected[r].initial_topology = {}
  BY DEF ResetInv
<1>3. CASE ResetContext
  BY <1>2, <1>3, AddressCleared
     DEF ResetContext, ResetInv, NoRestartBeforeReset, ResetFrame, monitorVars,
         deploymentVars
<1>4. CASE DestructorJoinsMonitors
  BY <1>2, <1>4, AddressCleared
     DEF DestructorJoinsMonitors, UserFrame, monitorVars, deploymentVars
<1>5. CASE /\ UNCHANGED <<interim_statuses, hostVars>>
           /\ collected' \in {collected, [r \in Roles |-> NothingCollected]}
           /\ status_cache' \in {status_cache, NoStatus}
           /\ dns_removed' \subseteq renamed'
  BY <1>1, <1>5 DEF hostVars, PostRoutesAddressed, NoStatus, Status
<1>6. Deployment => UNCHANGED <<interim_statuses, hostVars, collected, status_cache>>
  BY DEF Deployment, Create, Initiate, Advance, RollBack, Settle,
         SwitchoverTimerExpires, providerVars, monitorVars, contextVars, interimVars
<1>7. Deployment => dns_removed' \subseteq renamed'
  BY DEF Deployment, Create, Initiate, Advance, RollBack, Settle,
         SwitchoverTimerExpires, deploymentVars
<1>8. ResetThread \/ Users =>
        /\ collected' \in {collected, [r \in Roles |-> NothingCollected]}
        /\ status_cache' \in {status_cache, NoStatus}
        /\ dns_removed' \subseteq renamed'
  BY DEF ResetThread, ResetStarts, ForgetMonitors, CheckRestart, ResetContext,
         ResetEnds, ResetFrame, Users, GetOrCreateProvider, RegisterIamHost,
         ConnectionEnds, CleanUpStatusProvider, DestructorJoinsReset,
         DestructorJoinsMonitors, UserFrame, InitMonitoring, FreshMonitors,
         monitorVars, deploymentVars
<1>9. ResetThread \/ Users => ResetContext \/ DestructorJoinsMonitors
                               \/ UNCHANGED <<interim_statuses, hostVars>>
  BY DEF ResetThread, ResetStarts, ForgetMonitors, CheckRestart, ResetEnds, Users,
         GetOrCreateProvider, RegisterIamHost, ConnectionEnds,
         CleanUpStatusProvider, DestructorJoinsReset, contextVars, interimVars
<1>10. QED
  BY <1>3, <1>4, <1>5, <1>6, <1>7, <1>8, <1>9

(* So does every step, unless monitors are restarted before the reset.     *)
LEMMA AddressStep ==
    TypeOK /\ LifeInv /\ ResetInv /\ AddressInv /\ NoRestartBeforeReset /\ [Next]_vars => AddressInv'
<1>1. AddressInv /\ UNCHANGED vars => AddressInv'
  BY DEF AddressInv, vars, deploymentVars, monitorVars, contextVars, interimVars,
         hostVars, PostRoutesAddressed
<1>2. QED
  BY <1>1, TypeStep, AddressMonitor, AddressElsewhere DEF Next

(* A route of the phase POST leads to an address, as long as no connection *)
(* restarts the monitors just before the reset thread clears the context   *)
(* (blue_green_status_provider.cpp:910).                                   *)
THEOREM RoutesAddressed ==
    Spec /\ []NoRestartBeforeReset => []PostRoutesAddressed
<1>1. AddressInv => PostRoutesAddressed
  BY DEF AddressInv
<1>2. QED
  BY AddressInit, ResetStep, AddressStep, LifeInit, LifeStep, TypeCorrect, <1>1, PTL
     DEF Spec
=============================================================================
