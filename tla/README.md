# A formal model of the AWS Advanced ODBC Wrapper

TLA+ modules for the parts of the wrapper whose correctness depends on the order
in which threads, connections and failures meet, TLC configurations that check
them on small instances, and theorems that TLAPS proves for every instance.

Paths are relative to the repository; `driver/` stands for `src/driver/`.
`PROJECT.json` lists for every definition the source lines it models, for every
property a change of the model that breaks it, and the hazards of the code with
the properties that watch them.

## 1. The system

The wrapper is an ODBC driver that passes calls on to another driver (the
*underlying* driver) and adds behaviour for Amazon RDS and Aurora clusters. A
connection (`DBC`) owns a chain of plugins, put together when it connects:
blue/green, custom endpoint, one of the two read/write splittings, Aurora initial
connection, failover, limitless, one authentication plugin, default, from the
head to the end. `SQLDriverConnect` and the functions that execute statements go
through the chain; all other functions go straight to the underlying driver.

| Component | State it keeps | Operations | What must be right |
|---|---|---|---|
| ODBC entry points (`odbcapi*.cpp`, `driver.h`) | the tree ENV → DBC → STMT, DESC with a lock in each node and the underlying handles | allocate, free, connect, disconnect, execute, end a transaction, attributes, diagnostics | no call on a handle that was freed; lock order; one transaction call reaches every connection |
| Plugin chain (`base_plugin`, `plugin_chain_builder`) | the order of the plugins | forwards `Connect`, `Execute`, `ReleaseResources` | nothing of its own |
| Default plugin | `wrapped_dbc`, `transaction_status`, `auto_commit` of the DBC | connects the underlying driver with the attributes set so far; executes; tracks transactions | attributes survive a reconnect; the tracked state follows the server's |
| SQL query analyzer | none | what a query text does to transaction, autocommit, read-only mode | agrees with what the server does |
| Failover plugin | host selector, mode; the rest on the stack of `Execute` | on a network error: visit all statements, find a host, reconnect, report | no stale handle, right report, right role, returns in time |
| Cluster topology monitor | connections of its own, a topology cache entry, flags of panic and regular mode | main thread, one thread per host in panic mode, `ForceRefresh` of clients, destructor | one owner per connection; the writer's hand-off is complete; panic ends; clients wake up |
| RDS host list provider | a map of monitors by cluster, with reference counts | create or share a monitor, drop it with the last user, refresh | a monitor lives exactly as long as it has users |
| Topology utilities, dialects | none (SQL texts) | topology, role and node-id queries | a topology without a writer is not published |
| Plugin service | current host, host filter, dialect, the provider (made when needed) | hosts, refresh, selection | the current host is the one the connection is on |
| Shared caches (`SlidingCacheMap`, `ConcurrentMap`) | entries with a time to live | put, get, find, size, clear | an expired entry is never found |
| Host selection | counters of the round robin, shared by cluster | random, weighted round robin, highest weight | weights are respected as hosts come and go |
| Blue/green deployments | per deployment a provider with two monitors, a context and a published status | monitors report, provider derives phase and routes; plugins reroute, suspend or reject | routes fit the phase; suspension ends; monitoring goes on after a switchover |
| Read/write splitting (topology-based and simple) | a writer and a reader connection beside the current one | switch at `SET … READ ONLY`, cache, expire, clean up after failover | no connection is used after it was closed, none is lost; no switch within a transaction |
| Limitless | a map of router monitors with reference counts, the routers' loads | monitor thread, choice of a router with retries | a monitor outlives its users; every router is tried |
| Custom endpoint | a map of endpoint monitors with reference counts, a cache of filters | monitor thread, wait for the first answer | the filter is in force before hosts are chosen |
| Aurora initial connection strategy | none beyond a call | connect, verify the role, retry | the verified role is the one asked for |
| Token authentication (IAM, Secrets Manager) | token caches with expiry | connect, refresh once when rejected | a token is not used past its time; one retry with a fresh one |
| Federated authentication (ADFS, Okta, IAM Identity Center) | credentials of the process, a cache file, a local web server during a login | logins by HTTP, in the browser, by polling | one login at a time; the file is whole; no listener is left behind |
| ODBC helper, library loader | the loaded driver | allocate, disconnect, free as the wrapper's own threads do it | handles are freed once |
| Connection strings, utilities, logging; configuration dialog (`gui/`) | none | text | text |

How they interact. The application's threads call the entry points, which lock the
statement or connection they are given and call the head of the chain on the same
thread; failover and read/write splitting replace the underlying connection under
the application's handles while those locks are held. Monitors (topology,
blue/green, limitless, custom endpoint) run threads of their own, shared by all
connections of a cluster through reference-counted static maps, open connections
through a short chain of their own, and talk to the plugins through caches,
condition variables and callbacks.

What is hard here: threads that hand connections to one another; two levels of
locks taken in different orders; joins under a lock; caches that are read before
and used after a lookup or a failover; retries cut off by a timeout at any point;
reports of two monitors that see a switchover at different times; state that is
put back only after a sequence of calls no test makes.

## 2. Plan

| Order | Module | Content | State |
|---|---|---|---|
| 1 | `ClusterTopologyMonitor` | the monitor with its threads and clients | modelled, checked; safety proved |
| 2 | `Failover` | one connection under failover and default plugin | modelled, checked; safety proved |
| 3 | `StatementExecution` | what an application may rely on; `Failover` implements it | checked and proved |
| 4 | `BlueGreenStatusProvider` | provider, monitors, reset, life cycle | modelled, checked; safety proved |
| 5 | `OdbcHandles` | environment and connections, their locks, attributes and diagnostics | modelled, checked; safety proved |
| 6 | `StatementCalls` | the calls on statements and descriptors, diagnostics, settings | modelled, checked; safety proved |
| 7 | `BoundBuffers` | columns and parameters of another character width | modelled, checked; safety proved |
| 8 | `ReadWriteSplitting` | the three read/write splitting plugins | modelled, checked; safety proved |
| 9 | `BrowserLogin` ← `AwsCredentials` ← `TokenAuthentication` | the authentication plugins, their caches, locks and logins | modelled, checked; safety proved |
| 10 | `LimitlessRouting` ← `ConnectRouting` | limitless with its monitor and the round robin, under the Aurora initial connection plugin | modelled, checked; safety proved |
| 11 | blue/green plugin and routings | `Connect` and `Execute` with their loops over a status that changes, composed with 4 | not begun |
| 12 | custom endpoint | its shared monitor, made like that of 10 | not begun |

`M ← N`: `N` extends `M` and composes its actions with its own.

Every safety property a run checks is proved, some of them under a hypothesis that
section 5 names. Theorems planned next: those of the modules of orders 11 and 12. All modules are written without `RECURSIVE`, and each has a
`TypeOK`, which is the first thing to prove.

## 3. The modules

### 3.1 `ClusterTopologyMonitor`

Models `driver/host_list_providers/cluster_topology_monitor.cpp` as a whole.

| In the module | In the code |
|---|---|
| `hdbc["main"]`, `["writer"]`, `["reader"]`, `["local"]`, `hdbc[t]` | `main_hdbc_`, `node_threads_writer_hdbc_`, `node_threads_reader_hdbc_`, the local of `OpenAnyConnGetHosts`, `hdbc_` of the node thread for host `t` |
| `conn[h]` | what the handle `h` is: connected to a host, `Broken`, `Freed` |
| `mpc`, `npc[t]`, `cpc[c]`, `dpc` | where the main thread, the node threads, the callers of `ForceRefresh` and the destructor are |
| `hdbc_mutex`, `writer_hdbc_mutex` | the mutexes held over more than one step; the others guard single assignments and are the atomicity of an action |
| `topology_map` | the cluster's entry in the topology cache |
| `ignore_topology_request_end` | whether `ignore_topology_request_end_ms_` is unset, ahead, or passed |
| `updated[c]` | `topology_version_` differs from the caller's `version_before` |
| `main_writer_host_info` | the host, and what it is known by (`HostInfos`): its endpoint, its instance id, or nothing that was verified |
| `cluster`, `dialect` | what the servers answer, and which topology query is used |

A query on the network and what the code does with its answer are different
actions (`OpenFetchBegins`/`OpenFetchEnds`, `RegularFetch`/`RegularUpdate`, …), as
anything may happen in between; a run of assignments without a wait is one.
`UpdateTopologyCache` wakes the waiting clients in the same step that publishes.
`GetWriterId` is that of the dialect: on a reader the Aurora one names nobody, the
Multi-AZ one names the host the reader takes for the writer.
The environment can fail over (`FailoverBegins`, `FailoverEnds`), add a host, break
a connection, and let a connect or a role query fail, each as often as the
scenario of the behaviour allows (`Scenarios`, `budget`). The state `mpc = "crashed"` is the
dereference of a `main_hdbc_` that a client has set to null meanwhile.

### 3.2 `Failover` and `StatementExecution`

`Failover` models one connection with its statements: `driver/plugin/failover`,
`Connect` and `Execute` of `driver/plugin/default_plugin.cpp`, and the entry points
that change what they use (`SQLDriverConnect`, `SQLDisconnect`, statement
allocation, `SQLSetConnectAttr(SQL_ATTR_AUTOCOMMIT)`, `SQLEndTran`).

| In the module | In the code |
|---|---|
| `pc[s] # "idle"` | a thread executes `s` and holds the statement's lock |
| `dbc_lock` | the statement whose thread holds `dbc->lock` for a visit of all statements |
| `todo[s]` | the statements that visit has still to come to |
| `search[s]` | the locals of `Execute`, `FailoverReader`, `FailoverWriter` |
| `link`, `at`, `server_tx`, `server_auto` | connections of the underlying driver and the sessions behind them |
| `search[s].role` | what the role query answered; `"unanswered"` if it failed, which the code takes for the writer's role |
| `err[s]` | the error record of the statement |
| `topology`, `current_host` | the writer in the cached topology, the plugin service's current host |

Each of the three visits (invalidate, `OdbcHelper::Disconnect`, report) is a
sequence of steps, one per statement, that wait for that statement's lock; each
attempt of the search is connect, node id, role, in the order of the code, with
its early returns. The search may be out of time at any point (`Expires`).

`StatementExecution` is the promise to a single-threaded application: an execution
that loses the connection ends in one step in which *every* statement gets the
same report, and that report goes with the transaction tracked at the loss. The
refinement hides what happens between the loss and the return of the call.

### 3.3 `BlueGreenStatusProvider`

Models `blue_green_status_provider.cpp` and `blue_green_monitor.cpp` in
`driver/plugin/blue_green`, and from `blue_green_plugin.cpp` how connections share
a provider.

| In the module | In the code |
|---|---|
| `deployment`, `dns_updated`, `dns_removed`, `renamed` | the deployment as RDS reports it, the DNS, the names of its instances |
| `mpc[r]` | a monitor's thread; `"stop"`, `"join_reset"`: inside `ResetContextWhenCompleted` with `process_lock_guard` held, waiting for `monitor_mutex_` or, with it held, for the reset thread |
| `class_running[r]`, `collect[r]`, `collected[r]` | the monitor's flags and the fields it collects into |
| `interim_statuses`, `interim_status_hashes`, `last_context_hash` | the last report of each monitor, and what the early return compares |
| `latest_status_phase`, `rollback`, the four DNS and topology flags, `iam_host_success_connects`, `host_ip_map`, `role_by_host_map` | the provider's context |
| `switchover_timer` | `post_status_end_time_`: unset, running, expired |
| `active_switchover` | `phase_time_map_` holds a phase of a switchover |
| `status_cache` | the entry in `status_map_`: the phase, the first route for each name, whether statements are suspended |
| `monitors`, `pending_restart`, `rpc`, `dpc`, `users` | both `monitors_` set, `pending_restart_`, the reset thread, the destructor, the reference count |

A turn of a monitor, with the call of `PrepareStatus` at its end, is one step; a
monitor told to stop may finish a turn (`MonitorEnds`). `UpdateHosts`,
`UpdatePhase`, `UpdateDnsFlags`, `SummaryStatus`, `UpdateMonitors` are the
functions of the same name, and their primes stand for what the earlier ones of
`PrepareStatus` have assigned. `ResetContext` runs in five steps, at the points
where it takes `monitor_mutex_` or reads `pending_restart_`.

### 3.4 `OdbcHandles`

Models how `driver/odbcapi_rds_helper.cpp` and `driver/odbcapi_common.cpp` allocate
and free environments and connections, connect and disconnect them, set their
attributes and end transactions on the environment, called by several threads.

| In the module | In the code |
|---|---|
| `dbc_list`, `exists` | `env->dbc_list`; connections not deleted yet |
| `env_lock`, `dbc_lock[d]` | `env->lock`, `dbc->lock`, for the calls that take both |
| `call[t]` | the call of a thread between two locks: `"Connect"`, `"Initialized"`, `"Disconnect"`, `"Free"`, `"Unlinked"`, `"EndTran"` |
| `connected`, `open` | `conn_status` of the wrapper; the connections the underlying driver has open |
| `plugins[d]` | what the chain of the connection makes of a failed attempt: plain, verifying the role and disconnecting, or Secrets Manager without a client |
| `driver_lib_loader`, `Broken`, `Foreign` | the loaded library of the environment; those that do not load; those with characters of another width |
| `attr_map[d]["before"]`, `["after"]` | tracked attributes, by when `DefaultPlugin::Connect` sets them |
| `driver_attr`, `driver_env_attr`, `diag` | what the underlying driver was told, and whether it has a record |
| `Refused`, `Strings`, `Garbled` | values the driver does not accept; strings; what a driver of another width makes of one |

A call with one lock is a step. Connecting takes `dbc->lock`, then `env->lock`;
disconnecting does too if a read/write splitting plugin has connections to free
(`ReleaseResources`); `SQLEndTran` on the environment takes them the other way
round: these, and `FreeConnect`, are several steps (`Begins`, `Returns`). An
attempt sets some attributes before it connects and the others afterwards; the driver
may refuse any of them, and the connection opens all the same.

### 3.5 `StatementCalls`

Models the calls on statements and explicit descriptors of one connection in the
same files: for every function whether it clears the records first, whether it
needs an underlying handle, what it tracks. `Asks` stands for the functions
that only differ in their names; `Missing` are those the driver does not export.

| In the module | In the code |
|---|---|
| `listed`, `dropping` | `stmt_list` and `desc_list`; handles taken off them by a drop, but not freed |
| `entering`, `missed` | handles that have their underlying handle and are not on a list yet, as neither step takes the connection's lock; those a failover came between |
| `wrapped`, `alive` | handles with `wrapped_stmt`/`wrapped_desc`; those the driver still knows |
| `implicit[s]` | the implicit descriptors: none, live, or of a statement that was lost |
| `err`, `diag`, `sql_error_called` | the wrapper's record and the driver's, as an age: of the last call or older |
| `attr_map`, `cursor_name`, `driver_attr`, `driver_name`, `unnamed_cursor_count` | settings of the wrapper's statement, and what the underlying one has |
| `use_4_bytes_base_driver`, `reapplied` | the width of the driver's characters; statements whose cursor name the wrapper set last, always as UTF-16 |

A failover is one step here; `Failover` shows its visits. An allocation, a copy of a
descriptor and a drop are two steps each, with another call or a failover in between.

### 3.6 `BoundBuffers`

Models the columns and parameters of one statement when the widths of characters
of application and driver differ: `SQLBindCol`, `SQLBindParameter`, the conversions
after a fetch and around an execution, data at execution, `SQLFreeStmt`, and the
loss of the underlying statement.

| In the module | In the code |
|---|---|
| `bound_buffers[i]` | the entry in `bound_col_buffers` or `bound_param_buffers`: the application's pointer, the kind, whether the local buffer was enlarged |
| `driver[i].address` | what the driver is bound to: the application's buffer, the local one (named `i`), or one that was freed |
| `memory[b]` | the value in a buffer and the encoding it has |
| `indicator[p]` | what `StrLen_or_IndPtr` of a parameter points to: the application may write it at any time, the code reads it when the parameter is bound and at each execution |
| `text_seen` | a history: parameters that announced no data at execution when they were bound, or at an execution since |
| `put_data_char_conversion`, `asked`, `unasked` | the flag of data at execution, the parameter asked for, those to come |

### 3.7 `ReadWriteSplitting`

Models `driver/plugin/read_write_splitting`: `plugin` is one of the topology-based
plugin, the simple one, or the simple one that verifies roles. The fields of `dbc`
are those of the plugin and of the connection: `wrapped_dbc`, the current, writer
and cached reader connection, the host's role, the underlying connection each
statement belongs to. A connection is named by its underlying handle. The
functions of the plugin (`SwitchCurrentConnectionTo`, `DropsReader`,
`CloseReaderIfExpired`, …) are operators on the value of `dbc`; an execution is a
step per call that may fail: close, open, ask for the role, switch, execute below.

### 3.8 `BrowserLogin`, `AwsCredentials`, `TokenAuthentication`

`BrowserLogin` is `RunBrowserFlow` with the listener thread and its parser,
`AwsCredentials` what gets AWS credentials: a SAML assertion exchanged under
`cred_cache_mutex_` (ADFS, three ways of Okta) or a token of IAM Identity Center
under `cache_mutex_`, kept in a file that is written to a temporary and renamed.
`TokenAuthentication` is `Connect` of the plugins with the caches of tokens and
secrets and the second attempt.

| In the module | In the code |
|---|---|
| `flow[c]`, `listener[c]`, `answer[c]` | how far `RunBrowserFlow` is, the thread with its socket and parser, its result |
| `ask[c]` | the call to `GetCredentials` or `GetAwsCredentials`: its place, the requests still to make, the token it works with |
| `file.cache`, `file.tmp` | the cache file and the temporary: absent, partly written, whole |
| `epoch` | what is in force at AWS and in the database; credentials and passwords bear the epoch they were made in |
| `provider[c]` | the credentials of the connection's `AuthProvider` |
| `since[c]` | a history: the epoch when the call found itself refused |

### 3.9 `LimitlessRouting`, `ConnectRouting`

`LimitlessRouting` is `Connect` of the limitless plugin, the counted monitor its
connections share, and the selectors; `ConnectRouting` is `Connect` of the Aurora
initial connection plugin above it, with the topology it looks at.

| In the module | In the code |
|---|---|
| `monitors`, `monitors_lock` | the service's entry in `limitless_router_monitors_`: count, thread, list; its mutex |
| `service[c]` | the plugin has a `limitless_router_service_`, which its destructor uncounts |
| `round_robin` | `RoundRobinClusterInfo`: last host, counter, and the rows (weight and place of each router) that it compares as one string; `picked` is a history since the rounds began anew |
| `search[c]` | a call in `EstablishConnection`: where it is, its list, the routers marked down, the attempts |
| `pc[c]`, `asked[c]`, `time_up[c]` | where the loop of `GetVerifiedWriter`/`GetVerifiedReader` is, `KEY_SERVER`, `end_time` has passed |

## 4. What the runs show

| Run | Bounds | Shows |
|---|---|---|
| `Monitor_safety` | 2 hosts, both kinds of dialect, 1 fault, in three scenarios: a host that another may join and a client (`verify_writer` and `hdbc` overloads); two hosts, that client and a role query that may fail; two hosts, no client and a failover, break, failed connect or failed role query | `TypeOK`, `HandlesOwnedOnce`, `NoHandleLeaks`, `WriterHandoffComplete`, `MainConnMatchesWriterHost` |
| `Monitor_live` | 2 hosts, 1 client, 1 failed connect, destruction at any point | `PanicEnds`, `RequestServed`, `DestructorReturns` |
| `Failover_safety` | 2 hosts, 2 statements, 1 fault, three modes, one thread | `TypeOK`, `StatementsOnOpenConnection`, `TransactionLossReported`, `ReportedHostIsCurrent`, `VerifiedRole`, `ImplementsContract` |
| `Failover_live` | 1 statement, reader modes, autocommit by attribute and by SQL | `ExecuteReturns` |
| `Failover_threads` | 2 threads, 2 faults | `VisitedStatementsExist` |
| `BlueGreen_safety` | 1 instance, its deployment from creation to deletion, 1 incident | `PostRoutesAddressed`, `CompletedOnlyWhenSettled`, `MonitorsDoNotOverlap` |
| `OdbcHandles` | 2 threads, 2 connections, the three kinds of chain, a library that loads and one that does not; with one connection also a value that is refused, a text, and a library of another width | `VisitedConnectionsExist`, `OnlyEndTranDeadlocks`, `ConnectFailureTold`, `ConnectsWithSettings` |
| `StatementCalls` | 2 statements, 2 descriptors, at most two at a time, 2 failovers at any point, a driver of either width, a cursor name in ASCII and one that is not | `ListedHandlesLive`, `DiagnosticsCurrent`, `SettingsKept` |
| `BoundBuffers` | 2 columns or 1 parameter, 3 buffers, a text that fits and one that does not, an indicator that changes at any time | `DriverBuffersLive`, `FetchDelivers`, `PreparedExecutionConverts` |
| `ReadWriteSplitting` | 4 underlying connections, 2 statements, the three plugins | `NoOrphanedConnections`, `StatementsOnMain`, `TransactionStaysOnConnection` |
| `TokenAuthentication` | 2 connections in 5 pairs of kinds, 3 calls, 2 epochs, one of them may ask the user | `OneExchange`, `CacheFileWhole`, `ListenersJoined`, `RefusedIsRenewed`, `ConnectReturns` |
| `ConnectRouting` | 2 connections in 3 pairs of ways, 2 hosts, 3 routers, 4 calls, 1 failover | `NoConnectionLeft`, `MonitorForEveryService`, `RoundRobinIsFair` |

`TypeOK` of the other modules is no property of a run: it is a theorem (section 5).

Why the bounds are enough. With two hosts there is a writer, a reader and a
changed writer, two node threads that compete for the hand-off, and a candidate
that has to be given up for another. One fault starts a complete failover; runs
about two threads have two, so that the second thread can fail while the first one
recovers. Every run has more handles than pointers to hold them
(`|Handles| > |HandleSlots|`, `|Conns| > |Stmts| + 1`), so a leak shows as a
violation and never as an action that is not enabled. The queries are those that
open, close and do not touch a transaction. `Conns` is a symmetry set in the
safety runs only. One blue/green instance means that "all hosts" and "some host"
are the same, which the properties do not tell apart; `MaxIncidents` is one budget
for rollbacks, an expired timer, failed turns of a monitor, a second connection
and the end of the last one, so the safety run explores each of them alone at
every point of a switchover. Two of them break `PostRoutesAddressed`: when the timer
has expired and then a connection restarts the monitors at the one moment described
in section 8. `MonitorsDoNotOverlap` also holds with two. The model is of one
deployment (`MaxDeployments`), to which its names and addresses belong.

In `Monitor_safety` each scenario has what it takes for a hazard: a host that joins
while a client has the connection dropped; a reader that passes for the writer because
it could not be asked, on a cluster where the Multi-AZ dialect names another host; a
failover. `OdbcHandles` has two threads, as its properties are about a thread and what
another one holds or deletes meanwhile; the theorems cover any number. The second
connection is the one that `SQLEndTran` has still to come to; what the driver makes of a
value needs no second one (`Alone`).
`StatementCalls` allocates only the handles that one call relates (`UsedTogether`): a statement whose
settings change, a statement and a descriptor, two descriptors for a copy; two failovers
lose a statement that was made anew. In `BoundBuffers` the two texts are one that
leaves the local buffer where it is and one that moves it. `ReadWriteSplitting` has
a handle for each of the current, the writer, the reader and the new connection, so
a lost one is seen. `TokenAuthentication` pairs the ways of authentication that
share something: SAML credentials, the port of the browser login, the cache file,
the secret, the token of the database; three calls are a first one, one that finds
what it cached, one that finds it refused. `ConnectRouting` pairs two limitless
connections, of which each may be the one that creates the monitor, a limitless one
and one that goes on its own, and a reader with a writer; two of its three lists of
routers differ in the order of the rows only, the third in length and weights.

Deadlock is checked in `Failover_safety` and `Failover_live`. It is not where the
modelled program really stops: after the destructor of a monitor or a provider,
in the deadlocks of sections 7 and 8 (the joins of the monitor and of the provider, the
visits of two threads, `SQLEndTran` with connect or disconnect), where no statement that could be
called is allocated any more, and when `MaxCalls` calls have been made.

Fairness:

- *Monitor*: weak fairness of the main thread, the node threads, a client inside a
  call, a destructor once it has begun, and the promotion of a new writer. Strong
  fairness for a node thread that waits for the writer mutex (`npc[t] =
  "writer"`): the main thread gives the mutex back and waits at least 50 ms before
  it takes it again. No fairness of the start of calls, of timeouts or of
  destruction.
- *Failover*: weak fairness of a thread that executes a statement and of the
  failover timeout, which is a clock.
- *Authentication*: weak fairness of `ConnectStep(c)`, what the thread of a call and
  the listener it started do next, including the limits of time the code sets to
  each wait. What may go wrong, expire or be revoked happens or does not.

The other runs check no liveness and assume no fairness.

## 5. What is proved

For every value of the constants that satisfies the modules' assumptions (finite
sets, enough handles, distinct names), without a bound on faults.

`OdbcApiProofs` is about the two models of handles and of buffers, which share no
state; for this the operators of `BoundBuffers` that every module has are named
`BufferInit`, `BufferNext`, `BufferSpec`, `BufferTypeOK`.

`RegularModeJoinsNoThread` and `NodeThreadsQueryLiveHandles` are proved and, being so,
no longer properties of a run.

| Theorem | Says |
|---|---|
| `ClusterTopologyMonitorProofs!TypeCorrect` | `TypeOK` |
| `…!HandoffCorrect` | `WriterHandoffComplete`, `RegularModeJoinsNoThread` |
| `…!ConnectionsCorrect` | `HandlesOwnedOnce`, `NodeThreadsQueryLiveHandles` |
| `…!NoConnectionLost` | `NoHandleLeaks` |
| `…!WriterConnectionCorrect` | `MainConnMatchesWriterHost` |
| `FailoverProofs!TypeCorrect` | `TypeOK` |
| `FailoverProofs!VisitsSafe` | `VisitedStatementsExist`, for any number of threads |
| `FailoverProofs!HandlesCorrect` | `StatementsOnOpenConnection`, for `MultiThreaded = FALSE` |
| `…!RolesVerified` | `VerifiedRole`, for any number of threads |
| `…!LossReported` | `TransactionLossReported`, for `ExplicitTransactions` |
| `…!ReportedHostCorrect` | `ReportedHostIsCurrent`, for `MultiThreaded = FALSE` |
| `…!ContractImplemented` | `ImplementsContract`, for `MultiThreaded = FALSE` |
| `OdbcApiProofs!TypeCorrect` | `TypeOK` of `OdbcHandles` |
| `…!VisitsSafe` | `VisitedConnectionsExist` |
| `…!DeadlockOneWay` | `OnlyEndTranDeadlocks` |
| `…!FailureTold` | `ConnectFailureTold` |
| `…!SettingsApplied` | `ConnectsWithSettings`, an action property |
| `…!BuffersTypeCorrect` | `BufferTypeOK` of `BoundBuffers` |
| `…!BuffersLive` | `DriverBuffersLive` |
| `…!RowsDelivered` | `FetchDelivers` |
| `…!ParametersConverted` | `PreparedExecutionConverts` |
| `StatementCallsProofs!TypeCorrect` | `TypeOK` |
| `…!HandlesLive` | `ListedHandlesLive` |
| `…!DiagnosticsCorrect` | `DiagnosticsCurrent` |
| `…!SettingsCorrect` | `SettingsKept` |
| `BlueGreenProofs!TypeCorrect` | `TypeOK` |
| `…!MonitorsApart` | `MonitorsDoNotOverlap`, an action property |
| `…!CompletionCorrect` | `CompletedOnlyWhenSettled`, an action property |
| `…!RoutesAddressed` | `PostRoutesAddressed`, unless monitors are restarted just before a reset |
| `ReadWriteSplittingProofs!TypeCorrect` | `TypeOK` |
| `…!ConnectionsReached` | `NoOrphanedConnections` |
| `…!StatementsMoved` | `StatementsOnMain` |
| `…!TransactionsStay` | `TransactionStaysOnConnection`, an action property |
| `TokenAuthenticationProofs!TypeCorrect` | `TypeOK` of the three modules |
| `…!AskedOnce` | `OneExchange` |
| `…!FileWhole` | `CacheFileWhole` |
| `…!NoListenerLeft` | `ListenersJoined` |
| `…!RefusalIsFinal` | `RefusedIsRenewed` |
| `ConnectRoutingProofs!TypeCorrect` | `TypeOK` of the two modules |
| `…!AttemptsClosed` | `NoConnectionLeft` |
| `…!MonitorKept` | `MonitorForEveryService` |
| `…!RoundsFair` | `RoundRobinIsFair` |

Each proof has the same plan: `TypeOK` with the inductive invariant of the module
holds at the start, one lemma per action (or per kind of action) shows that its
steps keep both, and the theorems follow. Every invariant was checked with TLC on
the bounds of its run before it was proved.

*Hand-off.* `WriterHandoffComplete` is not inductive: that the main thread looks
at a published connection only after its publisher is done needs to know who holds
the mutex (`WriterMutexHeld`), and that no thread of an earlier search publishes
late needs that a search starts with no node thread (`PanicStartsWithoutThreads`)
and only without a writer connection (`SearchesInPanicOnly`, `WriterConnected`).
`HandoffInv` is their conjunction.

*Connections.* Ownership moves between pointers. `ConnectionInv` adds to the
properties which host each connection of a node thread leads to, that the shared
writer connection leads to the mutex holder's host or to the published one, and
that the connections a thread is about to query are in their places. What
`MainConnMatchesWriterHost` leaves open is a host named while the query for the role
had failed: none, or with the Multi-AZ dialect the one that a reader takes for the
writer. Three lemmas about the moves (`ReleaseConn`, `MoveConn`, `ConnectConn`) carry the
step.

*Visits.* `LockInv`: whoever visits holds `dbc->lock`, nobody else has statements
left to visit, and those are on the list.

*Handles.* `HandleInv`: at most one statement is executed; the first visit has
taken the handle of every statement it has left behind; none is held during the
search. Hence the connection can change without leaving a handle of the old one.

*Contract.* `ReportInv` says which report each statement bears at each point of
the failover. Under the refinement mapping every step of a visit or of the search
is a stutter, except the loss, the return with success and the return with
failure; each kind of action has a lemma (`EnvironmentUnseen`, `ApplicationSeen`,
`StatementSeen`, `VisitingSeen`, `SearchingSeen`).

*Lost transactions.* `TransactionInv`: a transaction the server has in progress on the
connection is open for the wrapper too (except on the connection `ConnectToHost` is
about to drop, as it has reset the status before), and what was open when the
connection was lost is saved by the search. It needs `ExplicitTransactions`: one
thread, autocommit left on, and calls that send no statement, or one that begins a
transaction, commits it or changes data. That is where the wrapper can keep step with
the server. `SqlQueryAnalyzer` looks at the first statement of a call, so a call that
sends several can leave a transaction open unseen, and with autocommit off any
statement opens one (section 7). The effect of a call on the server is a fold over its
statements; `OneStatement` unfolds it once, so no induction is needed.

*Reported host.* `PlaceInv`: while `ConnectToHost` checks what it is connected to, the
connection is on the host that is asked for, and from the acceptance to the report it
is on the current one. With `ReportInv` this covers all statements that bear the
report, as only the one that failed over moves the connection.

*Verified roles.* `VerifiedRole` is inductive as it stands, for any number of threads.
A query for the role that fails on a broken connection counts as the answer of a writer
(`topology_util.cpp:38`), so in `STRICT_WRITER` mode the property excludes hosts that
said they are readers and no more.

*Statements.* A call on a statement or descriptor is one of a few kinds (`Kinds`), so
the many functions that only ask the driver are one case of each proof.
`DiagnosticsCurrent` is about the last call only: `EndsCurrent` says which ways to end
a call leave a current record, and each action has to name its way. `HandlesInv` says
what `ListedHandlesLive` says also of handles that are about to be listed: the driver
knows them or a failover has missed them. `SettingsInv` adds to `SettingsKept` that a
handle that is not in use has neither an attribute nor a name, as it would give them to
the statement allocated on it next. The exceptions of `SettingsKept` are what the driver
refused, what `SQLSetStmtOption` set, and a cursor name that was applied again in an
encoding which is not that of `SQLSetCursorName`.

*Environments.* `HandleInv` of `OdbcApiProofs` says who holds which lock
(`LocksHeld`), that what a call works on is where the call expects it
(`CallsPlaced`), that no two calls that connect, disconnect or free work on one
connection (`CallsApart`), that a library which is loaded has the environment's
attributes, or the connection a record of why it is not (`LibraryRecorded`), and where
the record of a failed attempt is (`FailureRecorded`), which includes that a
`conn_status` that says connected where nothing is open comes from plugins that verify
the role. `OnlyEndTranDeadlocks` follows from `LocksHeld` and `CallsApart`: whoever waits
for `env->lock` with a connection's lock in its hands connects or disconnects, and only
`SQLEndTran` waits the other way round. `ConnectFailureTold` and `ConnectsWithSettings`
name the cases in which the code gives no reason or not the setting (section 8);
the theorems say that there are no others.

*Buffers.* `BufferInv` relates the application's binding, the entry in the list of
conversions and the driver's binding of an item. No two items have one buffer
(`BindingsApart`); unless the driver refused or the entry is of a binding that is no
more, the entry is that of the binding (`EntryAsAsked`) and the driver has the local
buffer or the application's (`DriverAsAsked`); the parameters data is asked for are
bound to the application's memory, and the flag is that of the one asked for, if its
indicator announced data from the beginning (`AskedAtExec`); without an underlying
statement nothing is bound (`NothingBound`). Whether a parameter has a local buffer
depends on the indicator at the time it was bound or last executed, so `text_seen` is
part of the invariant. The conversions are operators on the memory, each with a lemma of
what it writes and what it leaves.

*Life cycle.* `LifeInv` says which threads of the blue/green provider may run: without
monitors none of theirs does, a reset is under way only with `pending_restart_` set
and the monitors still there, and the destructor has passed a join only when the
thread has ended. So when `InitMonitoring` finds no monitors, there is no thread.

*Completion.* `SettledInv` ties what a monitor has collected to the deployment: the
source monitor's first addresses are of blue names, and green only where the DNS has
moved by then, and the target's first topology has a name of every instance (`Fits`).
When a report then says that every address has changed or that every name is gone,
that is so (`ReportTells`), and the flags that end a switchover keep it.

*Routes.* `AddressInv` follows an address from the monitor that resolved it: a host
that is known to a monitor, to a report or to the provider has one in the provider's
map. It is kept by a reset only if the monitors have collected nothing yet, and that
is the hypothesis `[]NoRestartBeforeReset` of the theorem: at the reset of the context
no connection has started new monitors. `ResetInv` turns it into what the reset
relies on. Without the hypothesis the property does not hold (section 8); with it
TLC found no violation with two incidents either.

*Switches.* `SwitchInv` of `ReadWriteSplittingProofs` adds to both invariants that a
new connection is there exactly between its opening and the switch and is not the
current one; that while a connection is looked for no transaction is open and the
plugin's current connection is the handle's; and that outside a connection there is
neither a transaction nor a statement. The functions of the
plugin are operators on the value of `dbc`, so each has a lemma about values, and the
lemma of an action only has to name the function.

*Authentication.* `AuthInv` is a statement about each connection: what it asks for
fits its kind and its place in `Connect` (`Placed`); while it exchanges an assertion
it holds `cred_cache_mutex_` and the cache has nothing usable, and while it goes
through a login of IAM Identity Center it holds `cache_mutex_`, with the temporary
file whole when it is renamed (`Locked`); where it signs it has a provider
(`Provided`); and after a refusal what it goes on with is no older than the refusal
(`Renewed`). `OneExchange` follows from `Locked`, as a lock has one holder. The steps
of another connection keep the statement because what it speaks of is the
connection's own or changes under the lock.

*Routing.* `MonitorForEveryService` counts: the connections that count on the monitor
are a finite set, no larger than the count of the monitor (`MonitorCounted`; a handle
that connects twice counts twice, so they are not equal), and while there is a count
the thread runs and nobody holds the lock. `NoConnectionLeft` needs where the search of
a connection is while its call is elsewhere (`CallsPlaced`).
For `RoundRobinIsFair`, which counts the picks of the round robin since the rows last
changed (weights, routers or their order), `InRounds`: there is a number of rounds such that each router
before the last one has been picked that often and once more, times its weight, each
router after it that often, and the last one in between by what it has left. `GetHost`
keeps this because the next router is the least one above the last (`AfterIsNext`).
That a finite set of numbers has a least element is proved from the well-founded
order of finite sets, as the library's induction cannot be used.

## 6. What is only model-checked

- All liveness properties (`PanicEnds`, `RequestServed`, `DestructorReturns`,
  `ExecuteReturns`, `ConnectReturns`), as TLAPS does not reason about fairness and
  `ENABLED` here.
- `PostRoutesAddressed` where a connection restarts the monitors before the reset of
  the context: with one incident it holds, with two it does not.

What a recursive definition computes for every input would need induction over
data, which the installed back ends cannot use; no module has a `RECURSIVE`
operator.

## 7. Findings

Each of these came up as a behaviour of a model that contradicts a document or a
comment of the repository. The models follow the code, so they contain these
behaviours; no run is spent on showing them again.

1. *Ignore window* (`cluster_topology_monitor.cpp:118`, `failover-plugin.md:31`).
   The comparison is the wrong way round: inside the window requests are carried
   out, after it they are answered from the cache.
2. *Join under a lock* (`cluster_topology_monitor.cpp:471`, the comment at `:590`).
   The main thread joins the node threads with the mutex held that a second thread
   which took its host for the writer waits for. A failover between two role
   queries is enough.
3. *Writer lost before adoption* (`cluster_topology_monitor.cpp:374`, the comment at
   `:290`). All node threads have ended, their map is not empty, so nobody looks
   for the writer any more.
4. *Two threads lose one connection* (`failover_plugin.cpp:98`,
   `failover-plugin.md:32`). Each waits for the other's lock.
5. *Transaction after a commit* (`odbcapi_rds_helper.cpp:319`,
   `failover-plugin.md:58`). With autocommit off, its loss is reported as 08S02.
6. *Nothing to tell the first time* (`failover_plugin.cpp:89`, the comment at
   `odbc_helper.cpp:235` and `odbc_api_test.cpp:724`). With the failover plugin in
   the chain, the first `SQLError` after a failed execution has no record, because
   the plugin's own look at the driver's record has consumed it.
7. *Suspended for ever* (`blue_green_status_provider.cpp:131`,
   `blue-green-plugin.md:56`). A switchover rolled back after the source monitor saw
   `IN_PROGRESS` and before the target monitor did: no report changes any more, and
   the timer is only looked at when one does.
8. *Cached reader closed* (`abstract_read_write_splitting_plugin.cpp:304`,
   `read-write-splitting-plugin.md:22`). Switching back to the writer disconnects
   the handle that the cached reader connection shares.
9. *Connected without a connection* (`simple_read_write_splitting_plugin.cpp:136`).
   When the verification of the endpoint's role times out, `SQLConnect` may answer
   success with nothing connected.
10. *Healthy without readers* (`aurora_initial_connection_strategy_plugin.cpp:304`,
    the comments at `:251` and `:308`). `HasNoReadersAndTopologyIsHealthy` holds
    when the topology does have readers.

11. *Connected status kept* (`default_plugin.cpp:139`, reset only at
    `odbcapi_common.cpp:734`). When a plugin that verifies the role disconnects a
    connection of the wrong role (`odbc_helper.cpp:63`) and the attempts after it
    fail, `conn_status` still says connected: every later connect is refused as
    "Connection is already established" (`odbcapi_rds_helper.cpp:880`, `:1079`),
    `SQLDisconnect` as an invalid handle. It is an exception of
    `ConnectFailureTold`.

## 8. Seen while modelling

The models show or contain these as well. Most are against no document; some are
the reason why a property is stated for one thread or under a fault budget.

*Monitor.* With the Multi-AZ dialect `GetWriterId` on a reader names the host that reader
takes for the writer (`multi_az_topology_util.cpp:24`). If the query for the role failed
before, which counts as a writer's answer, the monitor has that host for the writer's and
a connection to another one (`cluster_topology_monitor.cpp:325`). Every node thread that
is on a reader queries the one shared reader connection, so two of them may query it at
once (`cluster_topology_monitor.cpp:616`, `:628`). `ForceRefresh` frees a connection that
the main thread has just tested for null (`:142`, `:344`): the state `"crashed"`. The
reader thread publishes whatever its query returned, an empty topology too (`:659`). The
destructor's stop flag can be put back by a search that begins at that moment (`:84`,
`:417`).

*Failover.* `ROLLBACK TO SAVEPOINT` counts as the end of the transaction
(`sql_query_analyzer.cpp:90`), and only the first statement of a query text is looked at.
A second thread's statement is invalidated or not depending on when it comes to its lock
(`odbc_helper.cpp:33`). If the identified writer turns out to be a reader, the failover
fails with the connection left on that reader (`failover_plugin.cpp:315`); if its
connection breaks before it has answered, it counts as the writer (`topology_util.cpp:38`)
and the failover succeeds on a dead connection; a rejected reader candidate is dropped
from the candidates only when the *topology* calls it a writer (`:229`); `STRICT_READER`
takes the original writer when its role cannot be told (`:257`). `OdbcHelper::Disconnect`
forgets `wrapped_dbc` without freeing it (`odbc_helper.cpp:63`). After a failover that
failed, the DBC can neither be disconnected nor connected again
(`odbcapi_common.cpp:726`).

*Blue/green.* The destructor of the provider joins the monitors and the reset thread with
`monitor_mutex_` held, which both may be waiting for (`blue_green_status_provider.cpp:69`
with `:867`, `:895`); so does the join of an old reset thread (`:881`). A connection that
restarts monitoring before the reset thread looks at `pending_restart_` for the last time
(`:910`) leaves the context as it was. One that does so after it has the reset clear the
context under the new monitors: the address of a green host that has been resolved is
forgotten, and if its name is removed before it is resolved again, its route in the phase
`POST` leads to no host. `PostRoutesAddressed` with `MaxIncidents = 2` shows it: a
switchover whose time runs out, and a connection that restarts the monitors at that
moment. A status can be inserted again after `CleanUpStatusProvider` has erased it
(`:191`). While the deployment stays completed after a switchover, fresh monitors find
nothing left to change, so the provider stays in `POST`. When the source monitor reports
an unknown state, the corresponding hosts are gone and the substitute routes with them.
Routes by IP address never match, as host names are the keys (`:525`). One failed lookup
counts as an endpoint removed from the DNS (`blue_green_monitor.cpp:281`). A reconnect by
name goes to the original attributes, not to the host chosen for it (`:514`, `:540`).
`last_context_hash_` has no initial value (`blue_green_status_provider.h:118`), which does
no harm: the hash of a report is compared before it and differs until `PrepareStatus` has
assigned both.

*Handles.* `SQLEndTran` on the environment returns at the first DBC that is not
connected and leaves the transactions of the later ones open
(`odbcapi_rds_helper.cpp:339`). Its lock order (`:336`) is the opposite of `SQLConnect`'s,
and of `SQLDisconnect`'s when that frees the connections of a read/write splitting
plugin (`odbcapi_common.cpp:716`, `odbcapi_rds_helper.cpp:376`), so each of the two and
`SQLEndTran` can wait for each other. A failed connect leaves no reason to ask for
when a plugin that verifies the role has disconnected
(`aurora_initial_connection_strategy_plugin.cpp:137`, `:163`, `:206`, `:244`), or when
Secrets Manager without a client is asked a second time
(`secrets_manager_plugin.cpp:121`). An attribute the driver refuses before it connects is
passed over in silence (`default_plugin.cpp:57`); one it refuses after that makes the
connection open without it (`:126`, `:140`). Texts set before connecting are given to the
driver as they are (`:122`), texts set later are converted
(`odbcapi_rds_helper.cpp:628`). The library named first stays the
environment's even if it could not be loaded (`:2811`). A DBC that connects again
keeps the plugin service and the chain of its first connection (`:2845`).
`SQLConnect` never sets the current host; `SQLDriverConnect` does. `SQLGetConnectAttr`
of an attribute that is not tracked fails without a record before the connection
is made. `SQLBrowseConnect` takes no lock.

*Statements.* The implicit descriptors a statement knows are those of the handle
it had before a failover (`odbcapi_rds_helper.cpp:2193`); explicit descriptors get
no new handle. `SQLSetStmtAttr(SQL_ATTR_APP_ROW_DESC)` hands the wrapper's `DESC*`
to the driver. An attribute or a cursor name that the driver refused is tracked and
applied again after a failover, and one set through `SQLSetStmtOption` is not
tracked. A cursor name is applied again as UTF-16 with its length in UTF-8
(`default_plugin.cpp:183`), whatever the width of the driver's characters. An allocation
or a copy makes the underlying handle and lists the new one without the connection's lock
(`odbcapi_rds_helper.cpp:210`, `:225`, `odbcapi_common.cpp:657`): a failover in between
misses it, and the listed handle keeps an underlying one that is no more.
`SQLGetDiagField` asks the driver, so an error of the wrapper itself is
invisible to it. Calls on descriptors never clear their records. `SQLFreeStmt(SQL_DROP)`
frees the statement without its connection's lock (`:526`), next to a failover that
visits it.

*Buffers.* Only prepared execution converts wide parameters: `SQLExecDirect`,
`SQLSetParam`, `SQLSetPos` and `SQLBulkOperations` pass them, or the columns, as
they are. Binding a parameter again with a narrow type leaves the old conversion in
place. A wide parameter with `BufferLength` 0 is passed unconverted, and
`SQLGetData` with `BufferLength` 0 computes `dst_len - 1` from 0. The indicator of a
parameter is read when it is bound (`odbcapi_common.cpp:362`) and again at execution
(`:89`, `:402`): one that announces data at execution only after the parameter was bound
with a text leaves the driver with the local buffer, and its data unconverted. It is also
read when it need not have a value yet. Outputs that are
completed by `SQLParamData` stay in the driver's encoding. After a failover a fetch
copies what the local buffers held before into the application's columns.

*Read/write splitting.* The role of connections is verified by default according to
the documentation, not according to the code
(`simple_read_write_splitting_plugin.cpp:29`). `GetSqlStateAndLogMessage(nullptr)`
(`abstract_read_write_splitting_plugin.cpp:123`) answers an empty state, so what
follows a failed call (`CloseIdleConnections`, `UpdateInternalConnectionInfo`) never
happens. Freeing a cached shell releases the host list provider of the plugin
service that it shares. A switch leaves explicit descriptors as they were, gives
the new connection neither the attributes nor the autocommit mode of the old one,
and loses a transaction that began implicitly after a commit. Shells are in the
environment's list, so `SQLEndTran` on the environment meets unconnected ones. An
error frees all statements even if the plugin falls back to the connection it has.
`GetConnectionRole` answers the writer's role when its query fails. The plugin reads
`:103` and `:221` before it takes `lock_`; a switch takes `lock_` and then the
connection's lock, `SQLDisconnect` the other way round.

*Authentication.* The replacement of an expired token is stored with the expiry of
the old one (`auth_provider.cpp:116`), so caching ends with the first expiry. A DBC
whose SAML credentials expired never gets fresh ones. The cache key of a token names
neither the kind of authentication nor the AWS profile, that of a secret not the
names of its properties; a secret the server refused is not erased.
`InvalidateCachedCredentials` may erase what another connection has stored since.
The default IAM chain never tests for empty credentials. After a request that was
cut off, the parser of the browser login keeps its state and `header_` its text.
Two processes write the same temporary file, and the static mutexes are held
during a login in the browser.

*Routing.* A writer taken from the topology is not verified, and after the time-out
of the verification the connection is the unverified last candidate. A host whose
weight is 0 (`aurora_topology_util.cpp:86`) makes the round robin throw, which
`GetReader` answers with no host. The weight grows with the lag, so the highest
weight picks the reader furthest behind; the round robin starts again whenever a
weight changes or the rows come in another order, which they may as the query has no
`ORDER BY` (`dialect_aurora_postgres.h:133`), so that the first router can get further
and further ahead; and it does not mark a host that refused. The reference count of a
limitless monitor grows with each connect of a DBC and shrinks once, so the monitor
is never stopped; the chain of a shared monitor is built on a DBC that the
destructor of the first service frees. The global mutex is held during the
monitor's first connection and during its join, but not at one read of the map
(`limitless_router_service.cpp:116`). The retry after a failed first connection
goes past the routers. The notification in `Close` may be missed, which costs one
interval.

## 9. Not modelled, and why

- *Monitor*: `Monitor_live` has a failed connect only, so a writer whose connection breaks
  before it is adopted (section 7) is outside its liveness properties; the refresh rates
  and `request_update_topology_`, which only shorten waits; the text of topology queries
  and rows; the reference-counted map of monitors.
- *Failover*: host weights, which order the candidates (the model tries them in any
  order); the retry with 4-byte characters. What it does to descriptors, attributes and
  cursor names is in `StatementCalls`.
- *Blue/green*: polling rates, the choice between names and addresses, cluster endpoints
  and `-old` names, failed lookups of names that exist; how connections use a status (the
  connect and execute routings), including the copies they hold of an old one.
- *Handles*: the failure of the driver to give a connection handle; the order of the locks
  of statements and connections; the shells of the read/write splitting plugins as
  connections of the environment; autocommit set by SQL (`default_plugin.cpp:218`). The
  plugin chain is there as far as it decides how a connect may fail. `SQLCancelHandle` on
  environments and connections, `SQLDrivers` and `SQLDataSources`; two threads that race
  for `transaction_status`. Allocation fails only without a driver.
- *Statements*: two insertions into `stmt_list` or `desc_list` at the same time, which is
  undefined behaviour, as no lock is taken: the model has one at a time. What a driver
  says about a call on a handle that is no more. `SQLCopyDesc` to a descriptor of another
  connection. No two statements of a connection have the same cursor name (the driver
  refuses it), and the library is assumed to export the execute functions.
- *Entry points*: the ANSI and wide variants, which convert their strings and call the
  common functions that are modelled. What a conversion does to bound data is
  `BoundBuffers`.
- *Buffers*: `SQL_NULL_DATA` in an indicator, parameters that are both input and output.
- *Read/write splitting*: one thread per connection, host weights, and the keep-alive of a
  cached connection is longer than one call.
- *Authentication*: the text of requests and replies; a request succeeds or fails.
- *Routing*: more than one limitless service (the map of monitors has one entry, so
  insertions for others are outside); the fairness of connections, as opposed to the picks
  of the round robin; the composition of the limitless plugin with the initial connection
  strategy, as a shard group endpoint is not a cluster endpoint; the region is known, so
  the candidates are those of one cluster.
- *Custom endpoint*: not modelled. Connections with different custom endpoints of one
  cluster share one endpoint monitor, which sets the host filter through the first one's
  plugin service.
- Connection strings, string and logging utilities, dialect texts and the configuration
  dialog: text processing and input/output without state that outlives a call.
- The underlying driver, the servers and the DNS are external: they answer, or fail, as
  the code must expect.
