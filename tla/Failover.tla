----------------------------- MODULE Failover -----------------------------
(***************************************************************************)
(* One connection (DBC) of the wrapper with its statements, under the      *)
(* chain FailoverPlugin -> DefaultPlugin of driver/plugin.  A statement is *)
(* executed by a thread of the application that holds the lock of the      *)
(* statement throughout; pc[s] # "idle" is that lock.  When the driver     *)
(* below reports a network error the same thread runs the failover: it     *)
(* visits every statement of the connection, looks for another host,       *)
(* reconnects and visits the statements again, taking dbc->lock for the    *)
(* visits and for Disconnect only.                                         *)
(*                                                                         *)
(* Data abstraction.  A query is the sequence of its statements, each one  *)
(* of the kinds SqlQueryAnalyzer tells apart.  The topology cache is       *)
(* its writer (None: empty), the hosts besides it being FilteredHosts, the *)
(* hosts GetFilteredHosts lets through.  Descriptors are treated by the    *)
(* code exactly as statements and are not represented.  Time is the flag   *)
(* search[s].expired: the failover timeout has passed.                     *)
(***************************************************************************)
EXTENDS Naturals, FiniteSets, SequencesExt

CONSTANTS
    Hosts,           \* the instances of the cluster
    FilteredHosts,   \* those the host filter lets through
    Stmts,           \* statement handles
    Conns,           \* handles of the underlying driver's connections
    FailoverModes,   \* the modes a connection string may ask for
    MultiThreaded,   \* whether the application makes calls concurrently
    Queries,         \* the queries it sends
    AppCalls,        \* the other calls it makes
    MaxFaults,       \* how many failures of the cluster are explored
    None

Modes == {"STRICT_WRITER", "STRICT_READER", "READER_OR_WRITER"}
Kinds == {"begin", "commit", "rollback_to_savepoint", "dml",
          "autocommit_off", "autocommit_on"}

ASSUME FailoverAssumption ==
    /\ FilteredHosts \subseteq Hosts
    /\ FailoverModes \subseteq Modes
    /\ MultiThreaded \in BOOLEAN
    /\ Queries \subseteq Seq(Kinds)
    /\ AppCalls \subseteq {"alloc", "free", "autocommit", "endtran", "disconnect"}
    /\ MaxFaults \in Nat
    /\ IsFiniteSet(Stmts) /\ IsFiniteSet(Conns)
    /\ Cardinality(Conns) > Cardinality(Stmts) + 1
    /\ None \notin Hosts \cup Stmts \cup Conns

VARIABLES
    (* the cluster *)
    writer, up,              \* the writer, and the hosts that accept connections
    faults,
    failover_mode,           \* of the plugin, from the connection string
    (* the underlying driver: connections and the sessions behind them *)
    link,                    \* free, allocated, connected or broken
    at,                      \* the host of a connected or broken connection
    server_tx, server_auto,  \* transaction in progress, autocommit mode
    (* the DBC and its plugin service *)
    wrapped_dbc, conn_status, transaction_status, auto_commit, dbc_lock,
    stmt_list, topology, current_host,
    (* the statements and the threads that execute them *)
    wrapped_stmt,            \* the connection its underlying statement is of
    err, pc, query,
    todo,                    \* statements the thread has still to visit
    search                   \* the locals of Execute, FailoverReader and -Writer

clusterVars == <<writer, up, faults, failover_mode>>
driverVars  == <<link, at, server_tx, server_auto>>
txVars      == <<transaction_status, auto_commit>>
hostVars    == <<topology, current_host>>
stmtVars    == <<stmt_list, wrapped_stmt, err>>
threadVars  == <<pc, query, todo, search>>

vars == <<clusterVars, driverVars, wrapped_dbc, conn_status, txVars, dbc_lock,
          hostVars, stmtVars, threadVars>>

NoSearch == [tx |-> "closed", lost_tx |-> FALSE,
             candidates |-> {}, remaining |-> {}, original_writer |-> None,
             still_writer |-> FALSE, host |-> None, role |-> None,
             then |-> "idle", expired |-> FALSE]

Init ==
    /\ writer \in Hosts /\ up = Hosts /\ faults = 0
    /\ failover_mode \in FailoverModes
    /\ link = [c \in Conns |-> "free"]
    /\ at = [c \in Conns |-> None]
    /\ server_tx = [c \in Conns |-> FALSE]
    /\ server_auto = [c \in Conns |-> TRUE]
    /\ wrapped_dbc = None /\ conn_status = "not_connected"
    /\ transaction_status = "closed" /\ auto_commit = TRUE
    /\ dbc_lock = None
    /\ topology = None /\ current_host = None
    /\ stmt_list = {}
    /\ wrapped_stmt = [s \in Stmts |-> None]
    /\ err = [s \in Stmts |-> "none"]
    /\ pc = [s \in Stmts |-> "idle"]
    /\ query = [s \in Stmts |-> <<>>]
    /\ todo = [s \in Stmts |-> {}]
    /\ search = [s \in Stmts |-> NoSearch]

-----------------------------------------------------------------------------
(* The cluster. *)

WriterFails ==
    /\ writer # None /\ faults < MaxFaults
    /\ writer' = None /\ up' = up \ {writer} /\ faults' = faults + 1
    /\ link' = [c \in Conns |-> IF link[c] = "connected" /\ at[c] = writer
                                THEN "broken" ELSE link[c]]
    /\ UNCHANGED <<failover_mode, at, server_tx, server_auto, wrapped_dbc,
                   conn_status, txVars, dbc_lock, hostVars, stmtVars, threadVars>>

Promote(h) ==
    /\ writer = None /\ h \in up
    /\ writer' = h
    /\ UNCHANGED <<up, faults, failover_mode, driverVars, wrapped_dbc, conn_status,
                   txVars, dbc_lock, hostVars, stmtVars, threadVars>>

HostRestarts(h) ==
    /\ h \in Hosts \ up
    /\ up' = up \cup {h}
    /\ UNCHANGED <<writer, faults, failover_mode, driverVars, wrapped_dbc,
                   conn_status, txVars, dbc_lock, hostVars, stmtVars, threadVars>>

ConnectionBreaks(c) ==
    /\ link[c] = "connected" /\ faults < MaxFaults
    /\ link' = [link EXCEPT ![c] = "broken"] /\ faults' = faults + 1
    /\ UNCHANGED <<writer, up, failover_mode, at, server_tx, server_auto,
                   wrapped_dbc, conn_status, txVars, dbc_lock, hostVars, stmtVars, threadVars>>

-----------------------------------------------------------------------------
(* The driver below. *)

Connected == wrapped_dbc # None /\ link[wrapped_dbc] = "connected"

(* A connection that was disconnected but never freed is out of reach for  *)
(* good: its name may stand for a new one.                                 *)
Unused(c) == /\ c # wrapped_dbc /\ link[c] \in {"free", "allocated"}
             /\ \A s \in Stmts : wrapped_stmt[s] # c

(* The statement that SQLAllocHandle makes on the current connection       *)
(* (mutant: a handle that could not be made is left uninitialised).        *)
NewStatementUninitialised == IF link[wrapped_dbc] \in {"connected", "broken"}
                             THEN wrapped_dbc ELSE "garbage"

NewStatement == IF link[wrapped_dbc] \in {"connected", "broken"}
                THEN wrapped_dbc ELSE None

(* The autocommit mode that Connect applies to a new connection.           *)
TrackedAutoCommit == auto_commit

(* SQLDriverConnect on c reaches h: DefaultPlugin::Connect re-applies the  *)
(* autocommit mode and resets the transaction status; UpdateDialect fills  *)
(* an empty topology cache.                                                *)
Connects(c, h) ==
    /\ h \in up
    /\ link' = [link EXCEPT ![c] = "connected"]
    /\ at' = [at EXCEPT ![c] = h]
    /\ server_tx' = [server_tx EXCEPT ![c] = FALSE]
    /\ server_auto' = [server_auto EXCEPT ![c] = TrackedAutoCommit]
    /\ transaction_status' = IF auto_commit THEN "closed" ELSE "open"
    /\ conn_status' = "connected"
    /\ topology' \in IF topology = None THEN {None, writer} ELSE {topology}

(* The effect of one statement on a session.                               *)
Sessions == [tx : BOOLEAN, auto : BOOLEAN]

Effect(session, kind) ==
    CASE kind = "begin"          -> [session EXCEPT !.tx = TRUE]
      [] kind = "commit"         -> [session EXCEPT !.tx = FALSE]
      [] kind = "dml"            -> [session EXCEPT !.tx = @ \/ ~session.auto]
      [] kind = "autocommit_off" -> [session EXCEPT !.auto = FALSE]
      [] kind = "autocommit_on"  -> [tx |-> session.tx /\ session.auto, auto |-> TRUE]
      [] kind = "rollback_to_savepoint" -> session

(* A prepared statement (SQLExecute, empty query text) changes data.       *)
After(c, q) == FoldLeft(Effect, [tx |-> server_tx[c], auto |-> server_auto[c]],
                        IF q = <<>> THEN <<"dml">> ELSE q)

-----------------------------------------------------------------------------
(* SqlQueryAnalyzer: only the first statement of a query is looked at, and *)
(* any text that starts with ROLLBACK closes the transaction.              *)

FirstIs(q, kinds) == q # <<>> /\ Head(q) \in kinds

DoesOpenTransaction(q) == FirstIs(q, {"begin", "autocommit_off"})

IsStatementSettingAutoCommit(q) == FirstIs(q, {"autocommit_off", "autocommit_on"})

DoesSwitchAutoCommitFalseTrue(q) == ~auto_commit /\ FirstIs(q, {"autocommit_on"})

DoesCloseTransaction(q) ==
    DoesSwitchAutoCommitFalseTrue(q) \/ FirstIs(q, {"commit", "rollback_to_savepoint"})

TrackTransaction(q) ==
    /\ transaction_status' = IF DoesOpenTransaction(q) THEN "open"
                             ELSE IF DoesCloseTransaction(q) THEN "closed"
                             ELSE transaction_status
    /\ auto_commit' = IF IsStatementSettingAutoCommit(q)
                      THEN FirstIs(q, {"autocommit_on"}) ELSE auto_commit

-----------------------------------------------------------------------------
(* Calls of the application on the connection.  A single-threaded          *)
(* application makes one call at a time.                                   *)

Quiet == \A s \in Stmts : pc[s] = "idle"
MayCall == MultiThreaded \/ Quiet
LockFree == dbc_lock = None

SQLDriverConnect(h) ==
    /\ Quiet /\ LockFree /\ conn_status = "not_connected"
    /\ \E c \in Conns :
         /\ IF wrapped_dbc = None THEN Unused(c) ELSE c = wrapped_dbc
         /\ wrapped_dbc' = c
         /\ \/ Connects(c, h) /\ current_host' \in {h, None}
            \/ /\ link' = [link EXCEPT ![c] = "allocated"]
               /\ UNCHANGED <<at, server_tx, server_auto, transaction_status,
                              conn_status, hostVars>>
    /\ UNCHANGED <<clusterVars, auto_commit, dbc_lock, stmtVars, threadVars>>

(* Frees the statements first; what happens then depends on the driver.    *)
SQLDisconnect ==
    /\ "disconnect" \in AppCalls /\ Quiet /\ LockFree
    /\ stmt_list' = {}
    /\ wrapped_stmt' = [s \in Stmts |-> None]
    /\ err' = [s \in Stmts |-> "none"]
    /\ IF wrapped_dbc # None /\ link[wrapped_dbc] \in {"connected", "broken"}
       THEN /\ link' = [link EXCEPT ![wrapped_dbc] = "allocated"]
            /\ conn_status' = "not_connected"
       ELSE UNCHANGED <<link, conn_status>>
    /\ UNCHANGED <<clusterVars, at, server_tx, server_auto, wrapped_dbc, txVars,
                   dbc_lock, hostVars, threadVars>>

(* RDS_AllocStmt appends to stmt_list without the lock: a visit under way  *)
(* may or may not come to see the new statement, unless it is of a copy of *)
(* the list, as in Disconnect.                                             *)
AllocStmt(u) ==
    /\ "alloc" \in AppCalls /\ MayCall
    /\ wrapped_dbc # None /\ u \notin stmt_list
    /\ stmt_list' = stmt_list \cup {u}
    /\ wrapped_stmt' = [wrapped_stmt EXCEPT ![u] = NewStatement]
    /\ \/ UNCHANGED todo
       \/ /\ ~LockFree /\ pc[dbc_lock] # "disconnect"
          /\ todo' = [todo EXCEPT ![dbc_lock] = @ \cup {u}]
    /\ UNCHANGED <<clusterVars, driverVars, wrapped_dbc, conn_status, txVars,
                   dbc_lock, hostVars, err, pc, query, search>>

(* FreeStmt takes the statement off the list under dbc->lock (mutant:      *)
(* without it).                                                            *)
RemovableUnlocked(u) == u \in stmt_list /\ pc[u] = "idle"
Removable(u) == u \in stmt_list /\ pc[u] = "idle" /\ LockFree

FreeStmt(u) ==
    /\ "free" \in AppCalls /\ MayCall
    /\ Removable(u)
    /\ stmt_list' = stmt_list \ {u}
    /\ wrapped_stmt' = [wrapped_stmt EXCEPT ![u] = None]
    /\ err' = [err EXCEPT ![u] = "none"]
    /\ UNCHANGED <<clusterVars, driverVars, wrapped_dbc, conn_status, txVars,
                   dbc_lock, hostVars, threadVars>>

(* SQLSetConnectAttr(SQL_ATTR_AUTOCOMMIT): the status follows the mode,    *)
(* whether the driver accepts it or not.                                   *)
SetAutoCommit(on) ==
    /\ "autocommit" \in AppCalls /\ MayCall /\ LockFree
    /\ auto_commit' = on
    /\ transaction_status' = IF on THEN "closed" ELSE "open"
    /\ IF Connected
       THEN /\ server_auto' = [server_auto EXCEPT ![wrapped_dbc] = on]
            /\ server_tx' = [server_tx EXCEPT ![wrapped_dbc] =
                               @ /\ (server_auto[wrapped_dbc] = on)]
       ELSE UNCHANGED <<server_auto, server_tx>>
    /\ UNCHANGED <<clusterVars, link, at, wrapped_dbc, conn_status, dbc_lock,
                   hostVars, stmtVars, threadVars>>

SQLEndTran ==
    /\ "endtran" \in AppCalls /\ MayCall /\ LockFree
    /\ Connected
    /\ server_tx' = [server_tx EXCEPT ![wrapped_dbc] = FALSE]
    /\ transaction_status' = "closed"
    /\ UNCHANGED <<clusterVars, link, at, server_auto, wrapped_dbc, conn_status,
                   auto_commit, dbc_lock, hostVars, stmtVars, threadVars>>

-----------------------------------------------------------------------------
(* Executing a statement: DefaultPlugin::Execute. *)

Goto(s, label) == pc' = [pc EXCEPT ![s] = label]

Return(s) ==
    /\ Goto(s, "idle")
    /\ query' = [query EXCEPT ![s] = <<>>]
    /\ search' = [search EXCEPT ![s] = NoSearch]

(* SQLExecDirect with a query, SQLExecute with none.                       *)
Execute(s, q) ==
    /\ MayCall /\ s \in stmt_list /\ pc[s] = "idle"
    /\ err' = [err EXCEPT ![s] = "none"]
    /\ query' = [query EXCEPT ![s] = q]
    /\ Goto(s, "execute")
    /\ UNCHANGED <<clusterVars, driverVars, wrapped_dbc, conn_status, txVars,
                   dbc_lock, hostVars, stmt_list, wrapped_stmt, todo, search>>

ReallocStatement(s) ==
    /\ pc[s] = "execute"
    /\ wrapped_stmt[s] # None \/ wrapped_dbc # None
    /\ wrapped_stmt' = [wrapped_stmt EXCEPT ![s] =
                          IF @ = None THEN NewStatement ELSE @]
    /\ Goto(s, "call")
    /\ UNCHANGED <<clusterVars, driverVars, wrapped_dbc, conn_status, txVars,
                   dbc_lock, hostVars, stmt_list, err, query, todo, search>>

NoConnection(s) ==
    /\ pc[s] = "execute" /\ wrapped_stmt[s] = None /\ wrapped_dbc = None
    /\ err' = [err EXCEPT ![s] = "underlying_handle_null"]
    /\ Return(s)
    /\ UNCHANGED <<clusterVars, driverVars, wrapped_dbc, conn_status, txVars,
                   dbc_lock, hostVars, stmt_list, wrapped_stmt, todo>>

StatementSucceeds(s) ==
    LET c == wrapped_stmt[s] IN
    /\ pc[s] = "call" /\ c # None /\ link[c] = "connected"
    /\ \E session \in Sessions :
         /\ session = After(c, query[s])
         /\ server_tx' = [server_tx EXCEPT ![c] = session.tx]
         /\ server_auto' = [server_auto EXCEPT ![c] = session.auto]
    /\ TrackTransaction(query[s])
    /\ Return(s)
    /\ UNCHANGED <<clusterVars, link, at, wrapped_dbc, conn_status, dbc_lock,
                   hostVars, stmtVars, todo>>

(* An error that is not a network error: refused by the server, or the     *)
(* handle is null or not on a connection any more.                         *)
StatementFails(s) ==
    /\ pc[s] = "call"
    /\ wrapped_stmt[s] # None => link[wrapped_stmt[s]] # "broken"
    /\ Return(s)
    /\ UNCHANGED <<clusterVars, driverVars, wrapped_dbc, conn_status, txVars,
                   dbc_lock, hostVars, stmtVars, todo>>

NetworkError(s) ==
    LET c == wrapped_stmt[s] IN
    /\ pc[s] = "call" /\ c # None /\ link[c] = "broken"
    /\ search' = [search EXCEPT ![s].lost_tx = server_tx[c]]
    /\ Goto(s, "lost")
    /\ UNCHANGED <<clusterVars, driverVars, wrapped_dbc, conn_status, txVars,
                   dbc_lock, hostVars, stmtVars, query, todo>>

-----------------------------------------------------------------------------
(* Visiting the statements: dbc->lock is held for the whole visit and the  *)
(* lock of each statement while it is changed.                             *)

(* The statements to visit (mutant: all but the thread's own).             *)
VisitListOthers(s) == stmt_list \ {s}
VisitList(s) == stmt_list

Visits == [lost |-> "invalidate", drop |-> "disconnect", won |-> "report"]

VisitBegins(s) ==
    /\ pc[s] \in DOMAIN Visits /\ LockFree
    /\ dbc_lock' = s
    /\ todo' = [todo EXCEPT ![s] = VisitList(s)]
    /\ Goto(s, Visits[pc[s]])
    /\ UNCHANGED <<clusterVars, driverVars, wrapped_dbc, conn_status, txVars,
                   hostVars, stmtVars, query, search>>

Visit(s, u) ==
    /\ u \in todo[s] /\ (u = s \/ pc[u] = "idle")
    /\ todo' = [todo EXCEPT ![s] = @ \ {u}]
    /\ UNCHANGED <<clusterVars, driverVars, wrapped_dbc, conn_status, txVars,
                   dbc_lock, hostVars, stmt_list, pc, query, search>>

Invalidate(s, u) ==
    /\ pc[s] = "invalidate" /\ Visit(s, u)
    /\ wrapped_stmt' = [wrapped_stmt EXCEPT ![u] = None]
    /\ err' = [err EXCEPT ![u] = "failover_failed"]

DropStatement(s, u) ==
    /\ pc[s] = "disconnect" /\ Visit(s, u)
    /\ wrapped_stmt' = [wrapped_stmt EXCEPT ![u] = None]
    /\ UNCHANGED err

(* The report goes by the status saved before the failover, which resets   *)
(* it (mutant: by the present one).                                        *)
FailoverCodeNow(s) == IF transaction_status = "open"
                      THEN "failover_unknown_transaction" ELSE "failover_success"

FailoverCode(s) == IF search[s].tx = "open" THEN "failover_unknown_transaction"
                   ELSE "failover_success"

Report(s, u) ==
    /\ pc[s] = "report" /\ Visit(s, u)
    /\ err' = [err EXCEPT ![u] = FailoverCode(s)]
    /\ UNCHANGED wrapped_stmt

InvalidateEnds(s) ==
    /\ pc[s] = "invalidate" /\ todo[s] = {}
    /\ dbc_lock' = None
    /\ search' = [search EXCEPT ![s].tx = transaction_status]
    /\ Goto(s, "refresh")
    /\ UNCHANGED <<clusterVars, driverVars, wrapped_dbc, conn_status, txVars,
                   hostVars, stmtVars, query, todo>>

ReportEnds(s) ==
    /\ pc[s] = "report" /\ todo[s] = {}
    /\ dbc_lock' = None
    /\ Return(s)
    /\ UNCHANGED <<clusterVars, driverVars, wrapped_dbc, conn_status, txVars,
                   hostVars, stmtVars, todo>>

(* OdbcHelper::Disconnect gives the handle up without freeing it.          *)
DropEnds(s) ==
    /\ pc[s] = "disconnect" /\ todo[s] = {}
    /\ dbc_lock' = None
    /\ wrapped_dbc' = None
    /\ link' = IF wrapped_dbc = None THEN link
               ELSE [link EXCEPT ![wrapped_dbc] = "allocated"]
    /\ IF search[s].then = "idle" THEN Return(s)
       ELSE Goto(s, search[s].then) /\ UNCHANGED <<query, search>>
    /\ UNCHANGED <<clusterVars, at, server_tx, server_auto, conn_status, txVars,
                   hostVars, stmtVars, todo>>

-----------------------------------------------------------------------------
(* FailoverWriter and FailoverReader. *)

Locals(s, f) == search' = [search EXCEPT ![s] = f]

(* Leave for Disconnect, to go on at label afterwards.                     *)
DropThen(s, f, label) == Locals(s, [f EXCEPT !.then = label]) /\ Goto(s, "drop")

(* ConnectToHost, up to its call of Disconnect.                            *)
ConnectToHost(s, f, h) ==
    /\ DropThen(s, [f EXCEPT !.host = h], "connect")
    /\ transaction_status' = IF transaction_status = "open" THEN "closed"
                             ELSE transaction_status

(* What ForceRefreshHosts leaves in the cache: the present topology, or    *)
(* what was there when it timed out.                                       *)
Refreshed == {topology} \cup ({writer} \ {None})

RefreshForWriter(s) ==
    /\ pc[s] = "refresh" /\ failover_mode = "STRICT_WRITER"
    /\ topology' \in Refreshed
    /\ IF topology' \in FilteredHosts
       THEN ConnectToHost(s, search[s], topology') /\ UNCHANGED query
       ELSE Return(s) /\ UNCHANGED transaction_status
    /\ UNCHANGED <<clusterVars, driverVars, wrapped_dbc, conn_status, auto_commit,
                   dbc_lock, current_host, stmtVars, todo>>

RefreshForReader(s) ==
    /\ pc[s] = "refresh" /\ failover_mode # "STRICT_WRITER"
    /\ topology' \in Refreshed
    /\ IF topology' = None \/ FilteredHosts = {} THEN Return(s)
       ELSE /\ Locals(s, [search[s] EXCEPT
                            !.candidates = FilteredHosts \ {topology'},
                            !.remaining = FilteredHosts \ {topology'},
                            !.original_writer = IF topology' \in FilteredHosts
                                                THEN topology' ELSE None])
            /\ Goto(s, "readers") /\ UNCHANGED query
    /\ UNCHANGED <<clusterVars, driverVars, wrapped_dbc, conn_status, txVars,
                   dbc_lock, current_host, stmtVars, todo>>

TryReader(s) ==
    /\ pc[s] = "readers" /\ ~search[s].expired
    /\ \E h \in search[s].remaining : ConnectToHost(s, search[s], h)
    /\ UNCHANGED <<clusterVars, driverVars, wrapped_dbc, conn_status, auto_commit,
                   dbc_lock, hostVars, stmtVars, query, todo>>

WriterIsNoOption(s) == failover_mode = "STRICT_READER" /\ search[s].still_writer

TryOriginalWriter(s) ==
    /\ pc[s] = "readers" /\ ~search[s].expired
    /\ search[s].remaining = {} /\ ~WriterIsNoOption(s)
    /\ ConnectToHost(s, search[s], search[s].original_writer)
    /\ UNCHANGED <<clusterVars, driverVars, wrapped_dbc, conn_status, auto_commit,
                   dbc_lock, hostVars, stmtVars, query, todo>>

RoundEnds(s) ==
    /\ pc[s] = "readers"
    /\ search[s].expired \/ (search[s].remaining = {} /\ WriterIsNoOption(s))
    /\ Goto(s, "round_end")
    /\ UNCHANGED <<clusterVars, driverVars, wrapped_dbc, conn_status, txVars,
                   dbc_lock, hostVars, stmtVars, query, todo, search>>

(* The condition of the do-while loop (mutant: it has none).               *)
AlwaysTimeLeft(s) == TRUE
TimeLeft(s) == ~search[s].expired

NextRound(s) ==
    /\ pc[s] = "round_end" /\ TimeLeft(s)
    /\ Locals(s, [search[s] EXCEPT !.remaining = search[s].candidates])
    /\ Goto(s, "readers")
    /\ UNCHANGED <<clusterVars, driverVars, wrapped_dbc, conn_status, txVars,
                   dbc_lock, hostVars, stmtVars, query, todo>>

GiveUp(s) ==
    /\ pc[s] = "round_end" /\ search[s].expired
    /\ DropThen(s, search[s], "idle")
    /\ UNCHANGED <<clusterVars, driverVars, wrapped_dbc, conn_status, txVars,
                   dbc_lock, hostVars, stmtVars, query, todo>>

(* The failover timeout of FailoverReader passes.                          *)
Expires(s) ==
    /\ failover_mode # "STRICT_WRITER" /\ ~search[s].expired
    /\ pc[s] \in {"readers", "round_end", "drop", "disconnect", "connect",
                  "connecting", "node_id", "role"}
    /\ Locals(s, [search[s] EXCEPT !.expired = TRUE])
    /\ UNCHANGED <<clusterVars, driverVars, wrapped_dbc, conn_status, txVars,
                   dbc_lock, hostVars, stmtVars, pc, query, todo>>

-----------------------------------------------------------------------------
(* The rest of ConnectToHost, and the check of the host it reached. *)

IsOriginalWriter(s) == search[s].host = search[s].original_writer

(* The host is out of the running for this round.                          *)
Discarded(s) == [search[s] EXCEPT !.remaining = @ \ {search[s].host}]

AfterFailure(s) == CASE failover_mode = "STRICT_WRITER" -> "idle"
                     [] failover_mode # "STRICT_WRITER" /\ IsOriginalWriter(s) -> "round_end"
                     [] OTHER -> "readers"

AllocWrappedDbc(s) ==
    /\ pc[s] = "connect"
    /\ IF wrapped_dbc # None THEN UNCHANGED <<wrapped_dbc, link>>
       ELSE \E c \in Conns : /\ Unused(c)
                             /\ wrapped_dbc' = c
                             /\ link' = [link EXCEPT ![c] = "allocated"]
    /\ Goto(s, "connecting")
    /\ UNCHANGED <<clusterVars, at, server_tx, server_auto, conn_status, txVars,
                   dbc_lock, hostVars, stmtVars, query, todo, search>>

HostConnects(s) ==
    /\ pc[s] = "connecting"
    /\ wrapped_dbc # None /\ link[wrapped_dbc] = "allocated"
    /\ Connects(wrapped_dbc, search[s].host)
    /\ Goto(s, "node_id")
    /\ UNCHANGED <<clusterVars, wrapped_dbc, auto_commit, dbc_lock, current_host,
                   stmtVars, query, todo, search>>

HostRefuses(s) ==
    /\ pc[s] = "connecting"
    /\ IF failover_mode = "STRICT_WRITER" THEN Return(s)
       ELSE /\ Locals(s, Discarded(s)) /\ Goto(s, AfterFailure(s))
            /\ UNCHANGED query
    /\ UNCHANGED <<clusterVars, driverVars, wrapped_dbc, conn_status, txVars,
                   dbc_lock, hostVars, stmtVars, todo>>

NodeIdFound(s) ==
    /\ pc[s] = "node_id" /\ Connected
    /\ Goto(s, "role")
    /\ UNCHANGED <<clusterVars, driverVars, wrapped_dbc, conn_status, txVars,
                   dbc_lock, hostVars, stmtVars, query, todo, search>>

NodeIdMissing(s) ==
    /\ pc[s] = "node_id" /\ ~Connected
    /\ DropThen(s, Discarded(s), AfterFailure(s))
    /\ UNCHANGED <<clusterVars, driverVars, wrapped_dbc, conn_status, txVars,
                   dbc_lock, hostVars, stmtVars, query, todo>>

(* What the host answers to the query of GetConnectionRole.                *)
RoleAnswered == CASE wrapped_dbc = None -> "UNKNOWN"
                  [] wrapped_dbc # None /\ ~Connected -> "unanswered"
                  [] Connected -> IF at[wrapped_dbc] = writer THEN "WRITER" ELSE "READER"

(* A query that fails is taken for the answer of a writer.                 *)
ConnectionRole == IF RoleAnswered = "unanswered" THEN "WRITER" ELSE RoleAnswered

(* The roles a failover mode accepts (mutant: any).                        *)
AnyRoleFits(s) == TRUE
RoleFits(s) ==
    CASE failover_mode = "STRICT_WRITER"    -> ConnectionRole = "WRITER"
      [] failover_mode = "READER_OR_WRITER" -> TRUE
      [] failover_mode = "STRICT_READER"    -> IF IsOriginalWriter(s)
                                      THEN ConnectionRole # "WRITER"
                                      ELSE ConnectionRole = "READER"

(* The plugin service learns where the connection is (mutant: it does not).*)
KeepCurrentHostInfo(h) == current_host' = current_host
SetCurrentHostInfo(h) == current_host' = h

RoleAccepted(s) ==
    /\ pc[s] = "role" /\ RoleFits(s)
    /\ SetCurrentHostInfo(search[s].host)
    /\ Locals(s, [search[s] EXCEPT !.role = RoleAnswered])
    /\ Goto(s, "won")
    /\ UNCHANGED <<clusterVars, driverVars, wrapped_dbc, conn_status, txVars,
                   dbc_lock, topology, stmtVars, query, todo>>

(* Only a rejected reader candidate is disconnected here.                  *)
RoleRejected(s) ==
    /\ pc[s] = "role" /\ ~RoleFits(s)
    /\ IF failover_mode = "STRICT_WRITER" THEN Return(s)
       ELSE IF IsOriginalWriter(s)
       THEN /\ Locals(s, [search[s] EXCEPT !.still_writer = TRUE])
            /\ Goto(s, "round_end") /\ UNCHANGED query
       ELSE DropThen(s, Discarded(s), "readers") /\ UNCHANGED query
    /\ UNCHANGED <<clusterVars, driverVars, wrapped_dbc, conn_status, txVars,
                   dbc_lock, hostVars, stmtVars, todo>>

-----------------------------------------------------------------------------
Environment ==
    \/ WriterFails
    \/ \E h \in Hosts : Promote(h) \/ HostRestarts(h)
    \/ \E c \in Conns : ConnectionBreaks(c)

Application ==
    \/ \E h \in Hosts : SQLDriverConnect(h)
    \/ SQLDisconnect
    \/ \E u \in Stmts : AllocStmt(u) \/ FreeStmt(u)
    \/ \E on \in BOOLEAN : SetAutoCommit(on)
    \/ SQLEndTran
    \/ \E s \in Stmts : \E q \in Queries : Execute(s, q)

Statement(s) ==
    \/ ReallocStatement(s) \/ NoConnection(s)
    \/ StatementSucceeds(s) \/ StatementFails(s) \/ NetworkError(s)

Visiting(s) ==
    \/ VisitBegins(s)
    \/ \E u \in Stmts : Invalidate(s, u) \/ DropStatement(s, u) \/ Report(s, u)
    \/ InvalidateEnds(s) \/ DropEnds(s) \/ ReportEnds(s)

Searching(s) ==
    \/ RefreshForWriter(s) \/ RefreshForReader(s)
    \/ TryReader(s) \/ TryOriginalWriter(s)
    \/ RoundEnds(s) \/ NextRound(s) \/ GiveUp(s)
    \/ AllocWrappedDbc(s) \/ HostConnects(s) \/ HostRefuses(s)
    \/ NodeIdFound(s) \/ NodeIdMissing(s) \/ RoleAccepted(s) \/ RoleRejected(s)

Thread(s) == Statement(s) \/ Visiting(s) \/ Searching(s)

Next ==
    \/ Environment
    \/ Application
    \/ \E s \in Stmts : Thread(s) \/ Expires(s)

Spec == Init /\ [][Next]_vars

(* A running thread goes on, and time passes.                              *)
LiveSpec == Spec /\ \A s \in Stmts : WF_vars(Thread(s)) /\ WF_vars(Expires(s))

-----------------------------------------------------------------------------
(* Properties. *)

(* Every variable holds a value of its type.                               *)
Searches == [tx : {"open", "closed"}, lost_tx : BOOLEAN,
             candidates : SUBSET Hosts, remaining : SUBSET Hosts,
             original_writer : Hosts \cup {None}, still_writer : BOOLEAN,
             host : Hosts \cup {None},
             role : {"WRITER", "READER", "UNKNOWN", "unanswered", None},
             then : {"idle", "connect", "readers", "round_end"},
             expired : BOOLEAN]

PcLabels == {"idle", "execute", "call", "lost", "invalidate", "refresh", "drop",
             "disconnect", "connect", "connecting", "node_id", "role", "readers",
             "round_end", "won", "report"}

ClusterType ==
    /\ writer \in Hosts \cup {None} /\ up \subseteq Hosts /\ faults \in Nat
    /\ failover_mode \in FailoverModes

DriverType ==
    /\ link \in [Conns -> {"free", "allocated", "connected", "broken"}]
    /\ at \in [Conns -> Hosts \cup {None}]
    /\ server_tx \in [Conns -> BOOLEAN] /\ server_auto \in [Conns -> BOOLEAN]

DbcType ==
    /\ wrapped_dbc \in Conns \cup {None}
    /\ conn_status \in {"not_connected", "connected"}
    /\ transaction_status \in {"open", "closed"} /\ auto_commit \in BOOLEAN
    /\ dbc_lock \in Stmts \cup {None}
    /\ topology \in Hosts \cup {None} /\ current_host \in Hosts \cup {None}

StmtType ==
    /\ stmt_list \subseteq Stmts
    /\ wrapped_stmt \in [Stmts -> Conns \cup {None}]
    /\ err \in [Stmts -> {"none", "underlying_handle_null", "failover_failed",
                          "failover_success", "failover_unknown_transaction"}]

ThreadType ==
    /\ pc \in [Stmts -> PcLabels]
    /\ query \in [Stmts -> Queries \cup {<<>>}]
    /\ todo \in [Stmts -> SUBSET Stmts]
    /\ search \in [Stmts -> Searches]

TypeOK == ClusterType /\ DriverType /\ DbcType /\ StmtType /\ ThreadType

(* A statement handle that the wrapper holds is of the connection it holds *)
(* now, and that connection has not been closed: no call goes to a handle  *)
(* that the driver below has freed, before, during and after a failover.   *)
StatementsOnOpenConnection ==
    \A s \in Stmts : wrapped_stmt[s] # None =>
        wrapped_stmt[s] = wrapped_dbc /\ link[wrapped_dbc] \in {"connected", "broken"}

(* Execute tells the application that the transaction's outcome is unknown *)
(* when the connection was lost with a transaction in progress.            *)
TransactionLossReported ==
    \A s \in Stmts : pc[s] = "report" /\ search[s].lost_tx =>
        FailoverCode(s) = "failover_unknown_transaction"

(* As long as a statement bears the report of a completed failover, the    *)
(* connection stands on the host the plugin service takes for the current  *)
(* one.                                                                    *)
ReportedHostIsCurrent ==
    \A s \in Stmts : err[s] \in {"failover_success", "failover_unknown_transaction"} =>
        /\ wrapped_dbc # None /\ link[wrapped_dbc] \in {"connected", "broken"}
        /\ at[wrapped_dbc] = current_host

(* However stale the topology was, a failover in STRICT_WRITER mode never  *)
(* completes on a host that said it is a reader, only on one that said it  *)
(* is the writer or did not answer, the connection being broken already;   *)
(* one in STRICT_READER mode completes only on a host that said it is a    *)
(* reader, unless the failover of another thread took the connection away. *)
VerifiedRole ==
    \A s \in Stmts : pc[s] \in {"won", "report"} =>
        /\ failover_mode = "STRICT_WRITER" => search[s].role \in {"WRITER", "unanswered"}
        /\ failover_mode = "STRICT_READER" => search[s].role \in {"READER", "UNKNOWN"}

(* A visit under dbc->lock never comes to a statement that was freed.      *)
VisitedStatementsExist == \A s \in Stmts : todo[s] \subseteq stmt_list

(* A call to execute a statement returns.                                  *)
ExecuteReturns == \A s \in Stmts : pc[s] # "idle" ~> pc[s] = "idle"

-----------------------------------------------------------------------------
(* What a single-threaded application sees: the statement in execution, if *)
(* any; whether it has lost the connection; and, while it has, nothing of  *)
(* what the visits and the search do before the call returns.              *)

Executing == IF Quiet THEN None ELSE CHOOSE s \in Stmts : pc[s] # "idle"

Lost == ~Quiet /\ pc[Executing] \notin {"execute", "call"}

SeenResult == IF Lost THEN [s \in Stmts |-> "none"] ELSE err

(* Saved before the search, which resets the status of the connection.     *)
SeenTransaction == IF Lost /\ pc[Executing] \notin {"lost", "invalidate"}
                   THEN search[Executing].tx ELSE transaction_status

SeenHost == IF ~Lost /\ wrapped_dbc # None /\ link[wrapped_dbc] \in {"connected", "broken"}
            THEN at[wrapped_dbc] ELSE None

Contract == INSTANCE StatementExecution
            WITH statements <- stmt_list, executing <- Executing, lost <- Lost,
                 result <- SeenResult, transaction <- SeenTransaction,
                 host <- SeenHost

(* The failover of the plugin chain, with its visits, its rounds over the  *)
(* hosts and its early returns, is one step of the abstract specification: *)
(* every statement of the connection gets the same report, the one that    *)
(* goes with the transaction when the connection was lost.                 *)
ImplementsContract == Contract!Spec
=============================================================================
