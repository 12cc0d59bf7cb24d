----------------------------- MODULE OdbcHandles -----------------------------
(***************************************************************************)
(* An environment and its connections (driver/odbcapi_rds_helper.cpp,      *)
(* driver/odbcapi_common.cpp): allocating and freeing them, connecting and *)
(* disconnecting, their attributes, and SQLEndTran on the environment,     *)
(* called by several threads of an application.                            *)
(*                                                                         *)
(* A call that takes one lock holds it from beginning to end and is one    *)
(* step.  The steps of the others end where they wait for a second lock:   *)
(* connecting, and disconnecting with connections kept by the read/write   *)
(* splitting plugins, hold the lock of the connection and take that of the *)
(* environment; ending all transactions does the reverse.                  *)
(*                                                                         *)
(* The underlying driver has two attributes a connection sets: one that    *)
(* has to be there before it connects (SQL_ATTR_LOGIN_TIMEOUT,             *)
(* SQL_ATTR_CONNECTION_TIMEOUT), and any other.  It may refuse a value.    *)
(* It gives a connection handle whenever it is asked for one.              *)
(***************************************************************************)
EXTENDS Naturals, FiniteSets

CONSTANTS
    Threads, Connections,
    Values,          \* of an attribute
    Refused, Strings,  \* those the driver takes from nobody, and those with characters
    Garbled,         \* what the driver makes of characters of another width
    Libraries,       \* the driver libraries connection strings name
    Broken,          \* those of them that cannot be loaded
    Foreign,         \* those whose characters are not as wide as the application's
    Alone,           \* bound: values and libraries used with one connection only
    None

ASSUME HandlesAssumption ==
    /\ None \notin Threads \cup Values \cup Libraries
    /\ Refused \subseteq Values /\ Strings \subseteq Values
    /\ Broken \subseteq Libraries /\ Foreign \subseteq Libraries

VARIABLES
    (* ENV *)
    environment,           \* whether there is one
    dbc_list, driver_lib_loader, wrapped_env,
    env_attr,
    env_lock,              \* the thread that holds it
    (* DBC *)
    exists,                \* connections that have not been deleted
    wrapped_dbc, attr_map,
    connected,             \* those with conn_status CONN_CONNECTED
    plugins,               \* the chain of each, see Chains
    err,                   \* those with a record of the wrapper
    dbc_lock,
    (* the underlying driver *)
    driver_env_attr, driver_attr,
    open,                  \* the connections it has open
    diag,                  \* connections with a record of the driver
    (* the application *)
    failed,                \* those whose last call was a connect that failed
    call                   \* of each thread

envVars == <<environment, dbc_list, driver_lib_loader, wrapped_env, env_attr,
             driver_env_attr>>
statusVars == <<connected, open>>
dbcVars == <<exists, wrapped_dbc, statusVars, plugins, attr_map, driver_attr>>
diagVars == <<err, diag, failed>>
lockVars == <<env_lock, dbc_lock>>
vars == <<envVars, dbcVars, diagVars, lockVars, call>>

Kinds == {"before", "after"}       \* when DefaultPlugin::Connect sets it
Unset == [k \in Kinds |-> None]

(* What the chain of plugins does with an attempt to connect: a verifying  *)
(* one (initial connection strategy, simple read/write splitting) goes on  *)
(* connecting until the role is right; Secrets Manager without a client    *)
(* refuses.                                                                *)
Chains == {"plain", "verifying", "secrets"}

Idle == [op |-> "none", on |-> {}]
Calls == [op : {"none", "Connect", "Initialized", "Disconnect", "Free", "Unlinked",
                "EndTran"},
          on : SUBSET Connections]

Init ==
    /\ environment = TRUE /\ dbc_list = {} /\ driver_lib_loader = None
    /\ wrapped_env = FALSE /\ env_attr = None /\ driver_env_attr = None
    /\ exists = {} /\ wrapped_dbc = {} /\ connected = {} /\ open = {}
    /\ plugins = [d \in Connections |-> None]
    /\ attr_map = [d \in Connections |-> Unset]
    /\ driver_attr = [d \in Connections |-> Unset]
    /\ err = {} /\ diag = {} /\ failed = {}
    /\ env_lock = None /\ dbc_lock = [d \in Connections |-> None]
    /\ call = [t \in Threads |-> Idle]

-----------------------------------------------------------------------------
(* Records of diagnostics. *)

(* RDS_SQLGetDiagRec on a connection: its own record, or the driver's.     *)
AsksDriverFirst(d) == IF d \in wrapped_dbc THEN d \in diag ELSE d \in err  \* mutant
DiagRec(d) == d \in err \/ d \in wrapped_dbc \cap diag

(* RDS_SQLGetDiagField: an error of the wrapper is not found once there is *)
(* an underlying connection.                                               *)
DiagField(d) == IF d \in wrapped_dbc THEN d \in diag ELSE d \in err

(* A call on d starts with ClearError, then the driver is asked and        *)
(* answers with a record or none.                                          *)
Asked(d) ==
    /\ err' = err \ {d} /\ failed' = failed \ {d}
    /\ diag' \in {diag \cup {d}, diag \ {d}}
NotAsked(d) == err' = err \ {d} /\ failed' = failed \ {d} /\ UNCHANGED diag

(* The application frees no handle while it uses it.                       *)
Usable(d) ==
    /\ d \in dbc_list /\ dbc_lock[d] = None
    /\ \A t \in Threads : call[t].op = "Free" => d \notin call[t].on

(* t begins a call on d that keeps its lock; and the call answers.         *)
Begins(t, d, op) ==
    /\ dbc_lock' = [dbc_lock EXCEPT ![d] = t]
    /\ call' = [call EXCEPT ![t] = [op |-> op, on |-> {d}]]
Returns(t, d) ==
    /\ dbc_lock' = [dbc_lock EXCEPT ![d] = None]
    /\ call' = [call EXCEPT ![t] = Idle]

(* What the driver has, where it had the value old, once it is given v.    *)
Taken(v, old) == IF v \in Refused THEN old ELSE v

(* Bounds: the values and libraries of Alone are used while there is one   *)
(* connection, and no other is allocated while one of them is in use.      *)
Bounded(x) == x \in Alone => Cardinality(exists) < 2
MayAllocate ==
    exists # {} => Alone \cap ({env_attr, driver_lib_loader} \cup
                             UNION {{attr_map[d][k], driver_attr[d][k]} :
                                        d \in exists, k \in Kinds}) = {}

-----------------------------------------------------------------------------
(* The environment. *)

AllocEnv ==
    /\ ~environment /\ environment' = TRUE
    /\ UNCHANGED <<dbc_list, driver_lib_loader, wrapped_env, env_attr,
                   driver_env_attr, dbcVars, diagVars, lockVars, call>>

(* RDS_FreeEnv, when no other call is in progress: every connection is     *)
(* freed, then the underlying environment, and the library is unloaded.    *)
FreeEnv ==
    /\ environment /\ \A t \in Threads : call[t] = Idle
    /\ environment' = FALSE /\ dbc_list' = {} /\ driver_lib_loader' = None
    /\ wrapped_env' = FALSE /\ env_attr' = None /\ driver_env_attr' = None
    /\ exists' = {} /\ wrapped_dbc' = {} /\ connected' = {} /\ open' = {}
    /\ plugins' = [d \in Connections |-> None]
    /\ attr_map' = [d \in Connections |-> Unset]
    /\ driver_attr' = [d \in Connections |-> Unset]
    /\ err' = {} /\ diag' = {} /\ failed' = {}
    /\ UNCHANGED <<lockVars, call>>

(* The attributes of an environment are numbers.                           *)
SQLSetEnvAttr(v) ==
    /\ environment /\ env_lock = None /\ v \notin Strings /\ Bounded(v)
    /\ env_attr' = v
    /\ driver_env_attr' = IF driver_lib_loader # None /\ wrapped_env
                          THEN Taken(v, driver_env_attr) ELSE driver_env_attr
    /\ UNCHANGED <<environment, dbc_list, driver_lib_loader, wrapped_env,
                   dbcVars, diagVars, lockVars, call>>

AllocDbc(d) ==
    /\ environment /\ d \notin exists /\ env_lock = None /\ MayAllocate
    /\ exists' = exists \cup {d} /\ dbc_list' = dbc_list \cup {d}
    /\ UNCHANGED <<environment, driver_lib_loader, wrapped_env, env_attr,
                   driver_env_attr, wrapped_dbc, statusVars, plugins, attr_map,
                   driver_attr, diagVars, lockVars, call>>

-----------------------------------------------------------------------------
(* Freeing a connection: the driver manager asks for it once it is         *)
(* disconnected.                                                           *)

FreeConnectLocked(t, d) ==    \* mutant: holds the lock of the connection
    /\ call[t] = Idle /\ Usable(d) /\ d \notin open
    /\ Begins(t, d, "Free")
    /\ UNCHANGED <<envVars, dbcVars, diagVars, env_lock>>
FreeConnect(t, d) ==
    /\ call[t] = Idle /\ Usable(d) /\ d \notin open
    /\ call' = [call EXCEPT ![t] = [op |-> "Free", on |-> {d}]]
    /\ UNCHANGED <<envVars, dbcVars, diagVars, lockVars>>

(* Off the list, under the lock of the environment (mutant: without).      *)
Removes(t) ==
    /\ call[t].op = "Free"
    /\ call' = [call EXCEPT ![t].op = "Unlinked"]
    /\ dbc_list' = dbc_list \ call[t].on
    /\ UNCHANGED <<environment, driver_lib_loader, wrapped_env, env_attr,
                   driver_env_attr, dbcVars, diagVars, lockVars>>
UnlinksUnlocked(t) == Removes(t)
Unlinks(t) == env_lock = None /\ Removes(t)

(* Then everything that hangs on it, and the connection itself.            *)
Deletes(t) ==
    LET d == CHOOSE d \in call[t].on : TRUE
    IN  /\ call[t].op = "Unlinked"
        /\ call' = [call EXCEPT ![t] = Idle]
        /\ exists' = exists \ {d} /\ wrapped_dbc' = wrapped_dbc \ {d}
        /\ connected' = connected \ {d} /\ plugins' = [plugins EXCEPT ![d] = None]
        /\ attr_map' = [attr_map EXCEPT ![d] = Unset]
        /\ driver_attr' = [driver_attr EXCEPT ![d] = Unset]
        /\ err' = err \ {d} /\ diag' = diag \ {d} /\ failed' = failed \ {d}
        /\ dbc_lock' = [dbc_lock EXCEPT ![d] = None]
        /\ UNCHANGED <<envVars, open, env_lock>>

-----------------------------------------------------------------------------
(* Connecting. *)

(* SQLConnect and SQLDriverConnect take the lock, and look at conn_status  *)
(* and the settings of the connection string before they go on to the      *)
(* environment.                                                            *)
Checks(t, d) ==
    /\ call[t] = Idle /\ Usable(d)
    /\ UNCHANGED <<envVars, dbcVars, diag, env_lock>>
    /\ \/ /\ d \in connected
          /\ err' = err \ {d}
          /\ failed' = IF d \in open THEN failed \ {d} ELSE failed \cup {d}
          /\ UNCHANGED <<dbc_lock, call>>
       \/ /\ d \notin connected                   \* an invalid setting
          /\ err' = err \cup {d} /\ failed' = failed \cup {d}
          /\ UNCHANGED <<dbc_lock, call>>
       \/ /\ d \notin connected
          /\ err' = err \ {d} /\ failed' = failed \ {d}
          /\ Begins(t, d, "Connect")
SQLConnect(t, d) == Checks(t, d)             \* a data source, or
SQLDriverConnect(t, d) == Checks(t, d)       \* a connection string

(* Which library the environment has from now on; None: the wrong one.     *)
Loads(lib) ==
    IF driver_lib_loader \in {None, lib} THEN lib ELSE None

(* RDS_InitializeConnection, under the lock of the environment: the first  *)
(* connection decides which library is loaded, and allocates the           *)
(* underlying environment.  Setting an attribute on one that could not be  *)
(* allocated makes the connection go on.                                   *)
InitializeConnection(t, d) ==
    /\ call[t] = [op |-> "Connect", on |-> {d}] /\ env_lock = None
    /\ \E lib \in {l \in Libraries : Bounded(l)} \cup {None} :
        IF lib = None \/ Loads(lib) = None
        THEN /\ err' = err \cup {d} /\ failed' = failed \cup {d}
             /\ Returns(t, d)
             /\ UNCHANGED <<driver_lib_loader, wrapped_env, driver_env_attr>>
        ELSE /\ driver_lib_loader' = lib
             /\ wrapped_env' = (lib \notin Broken)
             /\ driver_env_attr' =
                    IF wrapped_env \/ lib \in Broken THEN driver_env_attr
                    ELSE Taken(env_attr, driver_env_attr)
             /\ err' = IF lib \in Broken THEN err \cup {d} ELSE err
             /\ IF lib \in Broken /\ env_attr = None
                THEN failed' = failed \cup {d} /\ Returns(t, d)
                ELSE /\ call' = [call EXCEPT ![t].op = "Initialized"]
                     /\ UNCHANGED <<failed, dbc_lock>>
    /\ UNCHANGED <<environment, dbc_list, env_attr, dbcVars, diag, env_lock>>

(* DefaultPlugin::Connect sets the attributes that come before, connects,  *)
(* and sets the others, texts as the application gave them, on a handle    *)
(* with the attributes had; mutant: all of them after the driver connected.*)
Given(v, old) ==
    IF v \in Strings \ Refused /\ driver_lib_loader \in Foreign THEN Garbled
    ELSE Taken(v, old)
AllSetAfter(d, had, ok) ==
    driver_attr' = [driver_attr EXCEPT ![d] = [k \in Kinds |->
                       IF k = "after" /\ ok /\ attr_map[d][k] # None
                       THEN Given(attr_map[d][k], had[k]) ELSE had[k]]]
SetsAttributes(d, had, ok) ==
    driver_attr' = [driver_attr EXCEPT ![d] = [k \in Kinds |->
                       IF (k = "before" \/ ok) /\ attr_map[d][k] # None
                       THEN Given(attr_map[d][k], had[k]) ELSE had[k]]]

(* The plugins, or the host list provider, cannot be built.                *)
NotBuilt(d, p) ==
    /\ plugins' \in {plugins, [plugins EXCEPT ![d] = p]}
    /\ err' = err \cup {d} /\ failed' = failed \cup {d}
    /\ UNCHANGED <<wrapped_dbc, statusVars, driver_attr, diag>>

(* The driver is not asked: it could not be loaded, or Secrets Manager has *)
(* no client.  The constructor says so, at the first attempt only.         *)
NotAttempted(d, p) ==
    /\ ~wrapped_env \/ p = "secrets"
    /\ plugins' = [plugins EXCEPT ![d] = p]
    /\ err' = IF p = "secrets" /\ plugins[d] = None THEN err \cup {d} ELSE err
    /\ failed' = failed \cup {d}
    /\ UNCHANGED <<wrapped_dbc, statusVars, driver_attr, diag>>

(* The underlying connection is the one of an attempt before, if any, or a *)
(* new one, also where the plugins disconnected and forgot one already.    *)
Attempted(d, p, ok) ==
    /\ wrapped_env /\ p # "secrets"
    /\ plugins' = [plugins EXCEPT ![d] = p]
    /\ wrapped_dbc' = wrapped_dbc \cup {d}
    /\ \E had \in {driver_attr[d]} \cup (IF p = "verifying" THEN {Unset} ELSE {}) :
          SetsAttributes(d, had, ok)
    /\ UNCHANGED err
Opened(d, p) ==
    /\ Attempted(d, p, TRUE)
    /\ connected' = connected \cup {d} /\ open' = open \cup {d}
    /\ diag' \in {diag \ {d}} \cup IF attr_map[d]["after"] \in Refused THEN {diag \cup {d}}
                                  ELSE {}
    /\ UNCHANGED failed

(* conn_status is not reset when a connection of the wrong role is         *)
(* disconnected, whatever becomes of the attempts after it.                *)
Status(d, p) ==
    connected' \in {connected} \cup IF p = "verifying" THEN {connected \cup {d}} ELSE {}
NotOpened(d, p) ==
    /\ Attempted(d, p, FALSE) /\ Status(d, p)
    /\ failed' = failed \cup {d} /\ diag' = diag \cup {d}
    /\ UNCHANGED open

(* The plugins disconnect, by which the underlying connection is forgotten,*)
(* after an attempt that failed, or after one that opened: the simple      *)
(* read/write splitting plugin then reports success.                       *)
Forgotten(d, p) ==
    /\ wrapped_env /\ p = "verifying"
    /\ plugins' = [plugins EXCEPT ![d] = p]
    /\ wrapped_dbc' = wrapped_dbc \ {d}
    /\ driver_attr' = [driver_attr EXCEPT ![d] = Unset]
    /\ diag' = diag \ {d}
    /\ Status(d, p)
    /\ failed' \in {failed \cup {d}} \cup IF d \in connected' THEN {failed} ELSE {}
    /\ UNCHANGED <<err, open>>

(* The plugins are built at the first attempt and kept, then they connect. *)
Connect(t, d) ==
    /\ call[t] = [op |-> "Initialized", on |-> {d}]
    /\ Returns(t, d)
    /\ \E p \in IF plugins[d] = None THEN Chains ELSE {plugins[d]} :
          \/ NotBuilt(d, p) \/ NotAttempted(d, p)
          \/ Opened(d, p) \/ NotOpened(d, p) \/ Forgotten(d, p)
    /\ UNCHANGED <<envVars, exists, attr_map, env_lock>>

-----------------------------------------------------------------------------
(* Calls on one connection. *)

(* The statements, the connections of the plugins and the host list        *)
(* provider are gone before the driver is asked.                           *)
Disconnects(d) ==
    /\ \/ d \in wrapped_dbc /\ Asked(d) /\ UNCHANGED statusVars
       \/ /\ d \in wrapped_dbc /\ Asked(d) /\ d \in open
          /\ connected' = connected \ {d} /\ open' = open \ {d}
       \/ d \notin wrapped_dbc /\ NotAsked(d) /\ UNCHANGED statusVars
    /\ UNCHANGED <<envVars, exists, wrapped_dbc, plugins, attr_map, driver_attr, env_lock>>

(* Freeing a connection of the plugins takes the environment's lock.       *)
SQLDisconnect(t, d) ==
    /\ call[t] = Idle /\ Usable(d)
    /\ \/ Disconnects(d) /\ UNCHANGED <<dbc_lock, call>>
       \/ /\ plugins[d] # None /\ Begins(t, d, "Disconnect")
          /\ NotAsked(d) /\ UNCHANGED <<envVars, dbcVars, env_lock>>
ReleaseResources(t, d) ==
    /\ call[t] = [op |-> "Disconnect", on |-> {d}] /\ env_lock = None
    /\ Disconnects(d) /\ Returns(t, d)

(* The value is kept whether or not the driver takes it, a text converted. *)
(* It may also refuse one that is too early or too late.                   *)
SQLSetConnectAttr(d, k, v) ==
    /\ Bounded(v) /\ Usable(d) /\ (v \in Strings => k = "after")
    /\ attr_map' = [attr_map EXCEPT ![d][k] = v]
    /\ IF d \in wrapped_dbc
       THEN /\ Asked(d)
            /\ \/ driver_attr' = [driver_attr EXCEPT ![d][k] = Taken(v, @)]
               \/ (k = "before") = (d \in open) /\ UNCHANGED driver_attr
       ELSE NotAsked(d) /\ UNCHANGED driver_attr
    /\ UNCHANGED <<envVars, exists, wrapped_dbc, statusVars, plugins, lockVars, call>>

(* What asks the driver if there is one, and answers itself otherwise.     *)
Asks(d) ==
    /\ Usable(d)
    /\ IF d \in wrapped_dbc THEN Asked(d) ELSE NotAsked(d)
    /\ UNCHANGED <<envVars, dbcVars, lockVars, call>>
SQLGetConnectAttr(d) == Asks(d)
SQLGetFunctions(d) == Asks(d)
SQLNativeSql(d) == Asks(d)
SQLEndTranConnection(d) == Asks(d)
SQLGetInfo(d) == d \in wrapped_dbc /\ Asks(d)

(* Not implemented, and without a lock: no other call is in progress.      *)
SQLBrowseConnect(d) ==
    /\ Usable(d)
    /\ err' = err \cup {d} /\ failed' = failed \ {d}
    /\ UNCHANGED <<envVars, dbcVars, diag, lockVars, call>>

-----------------------------------------------------------------------------
(* Ending the transactions of all connections. *)

SQLEndTran(t) ==
    /\ environment /\ call[t] = Idle /\ env_lock = None
    /\ env_lock' = t
    /\ call' = [call EXCEPT ![t] = [op |-> "EndTran", on |-> dbc_list]]
    /\ UNCHANGED <<envVars, dbcVars, diagVars, dbc_lock>>

(* The next connection of the list; the first without an underlying one    *)
(* ends the call.                                                          *)
Visits(t, d) ==
    /\ call[t].op = "EndTran" /\ d \in call[t].on /\ dbc_lock[d] = None
    /\ IF d \in wrapped_dbc
       THEN /\ Asked(d)
            /\ call' = [call EXCEPT ![t].on = @ \ {d}]
            /\ UNCHANGED env_lock
       ELSE NotAsked(d) /\ call' = [call EXCEPT ![t] = Idle] /\ env_lock' = None
    /\ UNCHANGED <<envVars, dbcVars, dbc_lock>>

(* Then the driver is asked for the whole environment.                     *)
EndsAll(t) ==
    /\ call[t] = [op |-> "EndTran", on |-> {}]
    /\ call' = [call EXCEPT ![t] = Idle] /\ env_lock' = None
    /\ UNCHANGED <<envVars, dbcVars, diagVars, dbc_lock>>

-----------------------------------------------------------------------------
AllocHandle == AllocEnv \/ \E d \in Connections : AllocDbc(d)
FreeHandle(t) == FreeEnv \/ \E d \in Connections : FreeConnect(t, d)

ConnectionCall(d) ==
    \/ SQLBrowseConnect(d)
    \/ \E k \in Kinds, v \in Values : SQLSetConnectAttr(d, k, v)
    \/ SQLGetConnectAttr(d) \/ SQLGetFunctions(d) \/ SQLNativeSql(d)
    \/ SQLEndTranConnection(d) \/ SQLGetInfo(d)
ThreadStep(t) ==
    \/ \E d \in Connections :
          \/ SQLConnect(t, d) \/ SQLDriverConnect(t, d)
          \/ InitializeConnection(t, d) \/ Connect(t, d)
          \/ SQLDisconnect(t, d) \/ ReleaseResources(t, d) \/ Visits(t, d)
    \/ Unlinks(t) \/ Deletes(t) \/ SQLEndTran(t) \/ EndsAll(t)

Next ==
    \/ AllocHandle \/ \E v \in Values : SQLSetEnvAttr(v)
    \/ \E d \in Connections : ConnectionCall(d)
    \/ \E t \in Threads : FreeHandle(t) \/ ThreadStep(t)

Spec == Init /\ [][Next]_vars

-----------------------------------------------------------------------------
(* Properties. *)

TypeOK ==
    /\ environment \in BOOLEAN /\ wrapped_env \in BOOLEAN
    /\ driver_lib_loader \in Libraries \cup {None}
    /\ {env_attr, driver_env_attr} \subseteq Values \cup {None}
    /\ env_lock \in Threads \cup {None}
    /\ dbc_lock \in [Connections -> Threads \cup {None}]
    /\ exists \subseteq Connections
    /\ dbc_list \subseteq exists
    /\ wrapped_dbc \subseteq exists /\ connected \subseteq exists
    /\ open \subseteq connected \cap wrapped_dbc
    /\ plugins \in [Connections -> Chains \cup {None}]
    /\ attr_map \in [Connections -> [Kinds -> Values \cup {None}]]
    /\ driver_attr \in [Connections -> [Kinds -> Values \cup {None, Garbled}]]
    /\ err \subseteq exists /\ diag \subseteq exists /\ failed \subseteq exists
    /\ call \in [Threads -> Calls]

(* SQLEndTran on the environment takes the lock of no connection that has  *)
(* been deleted by another thread since it began.                          *)
VisitedConnectionsExist ==
    \A t \in Threads : call[t].op = "EndTran" => call[t].on \subseteq exists

(* The thread t needs a lock that u holds.                                 *)
WaitsFor(t, u) ==
    \/ call[t].op \in {"Connect", "Disconnect", "Free"} /\ env_lock = u
    \/ /\ call[t].op = "EndTran" /\ call[t].on # {}
       /\ \E d \in call[t].on : dbc_lock[d] = u

(* Two threads can wait for each other for ever in one way only: one ends  *)
(* the transactions of the environment while another connects, or          *)
(* disconnects with connections of a read/write splitting plugin.          *)
OnlyEndTranDeadlocks ==
    \A t, u \in Threads :
        t # u /\ WaitsFor(t, u) /\ WaitsFor(u, t) =>
            {call[t].op, call[u].op} \in {{"Connect", "EndTran"}, {"Disconnect", "EndTran"}}

(* A connection opens with the attributes set on it before, whether there  *)
(* was an underlying connection to set them on or not, and in an           *)
(* environment with the attributes set on that, by whichever thread, but   *)
(* for values the driver refuses and texts of another width than its own.  *)
Kept(v) ==
    v \in Values \ Refused /\ ~(v \in Strings /\ driver_lib_loader' \in Foreign)
ConnectsWithSettings ==
    [][\A d \in open' \ open :
          /\ \A k \in Kinds : Kept(attr_map[d][k]) => driver_attr'[d][k] = attr_map[d][k]
          /\ env_attr' \notin Refused => driver_env_attr' = env_attr']_vars

(* As long as a failed attempt to connect is the last call on a            *)
(* connection, SQLGetDiagRec tells why it failed; so does SQLGetDiagField  *)
(* if the reason is the driver's.  The exceptions: Secrets Manager without *)
(* a client, and plugins that verify the role and have disconnected.       *)
Told(d) == DiagRec(d) /\ (d \notin err => DiagField(d))
ConnectFailureTold ==
    \A d \in failed :
        \/ Told(d) \/ plugins[d] = "secrets"
        \/ plugins[d] = "verifying" /\ (d \notin wrapped_dbc \/ d \in connected)
=============================================================================
