--------------------------- MODULE FailoverProofs ---------------------------
(***************************************************************************)
(* Theorems about Failover, for any cluster, any statements, queries and   *)
(* failover mode, and any number of failures: the types, the role and the  *)
(* host of a completed failover, the lock of the connection, the handles,  *)
(* the report of a lost transaction, and, for a single-threaded            *)
(* application, that Failover implements StatementExecution.               *)
(***************************************************************************)
EXTENDS Failover, TLAPS

-----------------------------------------------------------------------------
(* Type correctness.                                                       *)

(* The initial state has the types.                                        *)
LEMMA InitType == Init => TypeOK
BY DEF Init, TypeOK, ClusterType, DriverType, DbcType, StmtType, ThreadType,
       NoSearch, Searches, PcLabels

(* An update of a field of a search by a value of its type.                *)
LEMMA SearchUpdates ==
    ASSUME NEW f \in Searches
    PROVE  /\ \A x \in {"open", "closed"} : [f EXCEPT !.tx = x] \in Searches
           /\ \A x \in BOOLEAN : [f EXCEPT !.lost_tx = x] \in Searches
           /\ \A hs \in SUBSET Hosts : [f EXCEPT !.remaining = hs] \in Searches
           /\ \A hs \in SUBSET Hosts, h \in Hosts \cup {None} :
                 [f EXCEPT !.candidates = hs, !.remaining = hs,
                           !.original_writer = h] \in Searches
           /\ \A h \in Hosts \cup {None} : [f EXCEPT !.host = h] \in Searches
           /\ \A r \in {"WRITER", "READER", "UNKNOWN", "unanswered"} : [f EXCEPT !.role = r] \in Searches
           /\ \A l \in {"idle", "connect", "readers", "round_end"} :
                 [f EXCEPT !.then = l] \in Searches
           /\ [f EXCEPT !.still_writer = TRUE] \in Searches
           /\ [f EXCEPT !.expired = TRUE] \in Searches
BY DEF Searches

(* A thread goes on with a search of its type.                             *)
LEMMA GoOnType ==
    ASSUME ThreadType, NEW s \in Stmts, NEW f \in Searches, NEW l \in PcLabels,
           search' = [search EXCEPT ![s] = f], pc' = [pc EXCEPT ![s] = l],
           query' = query \/ query' = [query EXCEPT ![s] = <<>>], todo' = todo
    PROVE  ThreadType'
BY DEF ThreadType

(* Connecting keeps the driver's and the connection's types.               *)
LEMMA ConnectsType ==
    ASSUME TypeOK, NEW c \in Conns, NEW h, Connects(c, h)
    PROVE  /\ DriverType' /\ h \in Hosts
           /\ conn_status' = "connected" /\ transaction_status' \in {"open", "closed"}
           /\ topology' \in Hosts \cup {None}
<1>1. h \in Hosts
  BY DEF TypeOK, ClusterType, Connects
<1>2. QED
  BY <1>1 DEF TypeOK, ClusterType, DriverType, DbcType, Connects, TrackedAutoCommit

(* What happens to the cluster is of its types.                            *)
LEMMA EnvironmentType == ASSUME TypeOK, Environment PROVE TypeOK'
<1> USE DEF TypeOK, ClusterType, DriverType
<1>1. DbcType' /\ StmtType' /\ ThreadType'
  BY DEF Environment, WriterFails, Promote, HostRestarts, ConnectionBreaks,
         DbcType, StmtType, ThreadType, driverVars, hostVars, stmtVars, threadVars, txVars
<1>2. ClusterType' /\ DriverType'
  <2>1. CASE WriterFails
    BY <2>1 DEF WriterFails
  <2>2. CASE \E h \in Hosts : Promote(h) \/ HostRestarts(h)
    BY <2>2 DEF Promote, HostRestarts, driverVars
  <2>3. CASE \E c \in Conns : ConnectionBreaks(c)
    BY <2>3 DEF ConnectionBreaks
  <2>4. QED
    BY <2>1, <2>2, <2>3 DEF Environment
<1>3. QED
  BY <1>1, <1>2

(* The calls of the application keep the types.                            *)
LEMMA ApplicationType == ASSUME TypeOK, Application PROVE TypeOK'
<1> USE DEF TypeOK
<1>1. ASSUME NEW h \in Hosts, SQLDriverConnect(h) PROVE TypeOK'
  <2>1. ClusterType' /\ StmtType' /\ ThreadType'
    BY <1>1 DEF SQLDriverConnect, ClusterType, StmtType, ThreadType, clusterVars,
                stmtVars, threadVars
  <2>2. PICK c \in Conns :
          /\ wrapped_dbc' = c
          /\ \/ Connects(c, h) /\ current_host' \in {h, None}
             \/ /\ link' = [link EXCEPT ![c] = "allocated"]
                /\ UNCHANGED <<at, server_tx, server_auto, transaction_status,
                               conn_status, hostVars>>
    BY <1>1 DEF SQLDriverConnect
  <2>3. DriverType' /\ DbcType'
    BY <1>1, <2>2, ConnectsType DEF SQLDriverConnect, DriverType, DbcType, hostVars
  <2>4. QED
    BY <2>1, <2>3
<1>2. CASE SQLDisconnect
  BY <1>2 DEF SQLDisconnect, ClusterType, DriverType, DbcType, StmtType, ThreadType,
              clusterVars, txVars, hostVars, threadVars
<1>3. ASSUME NEW u \in Stmts, AllocStmt(u) PROVE TypeOK'
  <2>1. NewStatement \in Conns \cup {None}
    BY DEF NewStatement, DbcType
  <2>2. ThreadType'
    BY <1>3 DEF AllocStmt, ThreadType, DbcType, LockFree
  <2>3. QED
    BY <1>3, <2>1, <2>2 DEF AllocStmt, ClusterType, DriverType, DbcType, StmtType,
              clusterVars, driverVars, txVars, hostVars
<1>4. ASSUME NEW u \in Stmts, FreeStmt(u) PROVE TypeOK'
  BY <1>4 DEF FreeStmt, ClusterType, DriverType, DbcType, StmtType, ThreadType,
              clusterVars, driverVars, txVars, hostVars, threadVars
<1>5. ASSUME NEW on \in BOOLEAN, SetAutoCommit(on) PROVE TypeOK'
  <2>1. ClusterType' /\ StmtType' /\ ThreadType' /\ DbcType'
    BY <1>5 DEF SetAutoCommit, ClusterType, DbcType, StmtType, ThreadType,
                clusterVars, hostVars, stmtVars, threadVars
  <2>2. DriverType'
    BY <1>5 DEF SetAutoCommit, DriverType
  <2>3. QED
    BY <2>1, <2>2
<1>6. CASE SQLEndTran
  BY <1>6 DEF SQLEndTran, ClusterType, DriverType, DbcType, StmtType, ThreadType,
              clusterVars, hostVars, stmtVars, threadVars
<1>7. ASSUME NEW s \in Stmts, NEW q \in Queries, Execute(s, q) PROVE TypeOK'
  BY <1>7 DEF Execute, Goto, ClusterType, DriverType, DbcType, StmtType, ThreadType,
              PcLabels, clusterVars, driverVars, txVars, hostVars
<1>8. QED
  BY <1>1, <1>2, <1>3, <1>4, <1>5, <1>6, <1>7 DEF Application

(* Executing a statement keeps the types.                                  *)
LEMMA StatementStepType ==
    ASSUME TypeOK, NEW s \in Stmts, Statement(s) PROVE TypeOK'
<1> USE DEF TypeOK, Goto, Return
<1>1. ClusterType'
  BY DEF Statement, ReallocStatement, NoConnection, StatementSucceeds,
         StatementFails, 
         NetworkError, ClusterType, clusterVars
<1>2. ThreadType'
  <2> USE DEF ThreadType, PcLabels
  <2>1. NoSearch \in Searches
    BY DEF NoSearch, Searches
  <2>2. CASE ReallocStatement(s)
    BY <2>2 DEF ReallocStatement
  <2>3. CASE NoConnection(s) \/ StatementSucceeds(s) \/ StatementFails(s)
    BY <2>1, <2>3 DEF NoConnection, StatementSucceeds, StatementFails
  <2>4. CASE NetworkError(s)
    <3>1. wrapped_stmt[s] \in Conns
      BY <2>4 DEF NetworkError, StmtType
    <3>2. search' = [search EXCEPT ![s] =
                       [search[s] EXCEPT !.lost_tx = server_tx[wrapped_stmt[s]]]]
      BY <2>4 DEF NetworkError
    <3>3. search' \in [Stmts -> Searches]
      BY <3>1, <3>2, SearchUpdates DEF DriverType
    <3>4. QED
      BY <2>4, <3>3 DEF NetworkError
  <2>5. QED
    BY <2>2, <2>3, <2>4 DEF Statement
<1>3. StmtType'
  <2>1. NewStatement \in Conns \cup {None}
    BY DEF NewStatement, DbcType
  <2>2. QED
    BY <2>1 DEF Statement, ReallocStatement, NoConnection, StatementSucceeds,
                StatementFails, NetworkError, StmtType, stmtVars, DbcType
<1>4. DriverType' /\ DbcType'
  <2>1. CASE StatementSucceeds(s)
    BY <2>1
       DEF StatementSucceeds, DriverType, DbcType, StmtType, hostVars, Sessions, 
                TrackTransaction, FirstIs
  <2>2. CASE ReallocStatement(s) \/ NoConnection(s) \/ StatementFails(s) \/ NetworkError(s)
    BY <2>2 DEF ReallocStatement, NoConnection, StatementFails, NetworkError,
                DriverType, DbcType, driverVars, hostVars, txVars
  <2>3. QED
    BY <2>1, <2>2 DEF Statement
<1>5. QED
  BY <1>1, <1>2, <1>3, <1>4

(* The visits of the statements keep the types.                            *)
LEMMA VisitingType ==
    ASSUME TypeOK, NEW s \in Stmts, Visiting(s) PROVE TypeOK'
<1> USE DEF TypeOK, Goto, Return, Visit
<1>1. ClusterType'
  BY DEF Visiting, VisitBegins, Invalidate, DropStatement, Report, InvalidateEnds,
         DropEnds, ReportEnds, ClusterType, clusterVars
<1>2. DriverType' /\ DbcType'
  BY DEF Visiting, VisitBegins, Invalidate, DropStatement, Report, InvalidateEnds,
         DropEnds, ReportEnds, DriverType, DbcType, driverVars, txVars, hostVars
<1>3. StmtType'
  BY DEF Visiting, VisitBegins, Invalidate, DropStatement, Report, FailoverCode,
         InvalidateEnds, DropEnds, ReportEnds, StmtType, stmtVars
<1>4. ThreadType'
  <2> USE DEF ThreadType, PcLabels
  <2>1. NoSearch \in Searches
    BY DEF NoSearch, Searches
  <2>2. CASE VisitBegins(s)
    BY <2>2 DEF VisitBegins, Visits, VisitList, StmtType
  <2>3. CASE \E u \in Stmts : Invalidate(s, u) \/ DropStatement(s, u) \/ Report(s, u)
    BY <2>3 DEF Invalidate, DropStatement, Report
  <2>4. CASE InvalidateEnds(s)
    <3>1. [search[s] EXCEPT !.tx = transaction_status] \in Searches
      BY SearchUpdates DEF DbcType
    <3>2. QED
      BY <2>4, <3>1 DEF InvalidateEnds
  <2>5. CASE DropEnds(s)
    <3>1. search[s].then \in PcLabels
      BY DEF Searches
    <3>2. CASE search[s].then = "idle"
      BY <2>1, <2>5, <3>2, GoOnType DEF DropEnds
    <3>3. CASE search[s].then # "idle"
      BY <2>5, <3>1, <3>3 DEF DropEnds
    <3>4. QED
      BY <3>2, <3>3
  <2>6. CASE ReportEnds(s)
    BY <2>1, <2>6 DEF ReportEnds
  <2>7. QED
    BY <2>2, <2>3, <2>4, <2>5, <2>6 DEF Visiting
<1>5. QED
  BY <1>1, <1>2, <1>3, <1>4

(* Looking for another host keeps the types.                               *)
LEMMA SearchingType ==
    ASSUME FailoverAssumption, TypeOK, NEW s \in Stmts, Searching(s) PROVE TypeOK'
<1> USE DEF TypeOK, Goto, Return, DropThen, Locals, ConnectToHost
<1>1. ClusterType' /\ StmtType'
  BY DEF Searching, RefreshForWriter, RefreshForReader, TryReader,
         TryOriginalWriter, 
         RoundEnds, NextRound, GiveUp, AllocWrappedDbc, HostConnects, HostRefuses,
         NodeIdFound, NodeIdMissing, RoleAccepted, RoleRejected, ClusterType, StmtType,
         clusterVars, stmtVars
<1>2. DriverType' /\ DbcType'
  <2>1. CASE RefreshForWriter(s) \/ RefreshForReader(s)
    BY <2>1
       DEF RefreshForWriter, RefreshForReader, Refreshed, ClusterType, DriverType, 
                DbcType, driverVars, txVars
  <2>2. CASE TryReader(s) \/ TryOriginalWriter(s) \/ RoundEnds(s) \/ NextRound(s)
               \/ GiveUp(s) \/ HostRefuses(s) \/ NodeIdFound(s) \/ NodeIdMissing(s)
               \/ RoleRejected(s)
    BY <2>2
       DEF TryReader, TryOriginalWriter, RoundEnds, NextRound, GiveUp, HostRefuses, 
                NodeIdFound, NodeIdMissing, RoleRejected, DriverType, DbcType,
                driverVars, hostVars, txVars
  <2>3. CASE AllocWrappedDbc(s)
    BY <2>3 DEF AllocWrappedDbc, DriverType, DbcType, hostVars, txVars
  <2>4. CASE HostConnects(s)
    BY <2>4, ConnectsType DEF HostConnects, DbcType
  <2>5. CASE RoleAccepted(s)
    BY <2>5 DEF RoleAccepted, SetCurrentHostInfo, ThreadType, Searches, DriverType,
                DbcType, driverVars, txVars
  <2>6. QED
    BY <2>1, <2>2, <2>3, <2>4, <2>5 DEF Searching
<1>3. ThreadType'
  <2> USE DEF ThreadType, PcLabels
  <2>1. NoSearch \in Searches
    BY DEF NoSearch, Searches
  <2>2. search[s] \in Searches
    OBVIOUS
  <2>3. /\ search[s].remaining \subseteq Hosts
        /\ search[s].candidates \subseteq Hosts
        /\ search[s].original_writer \in Hosts \cup {None}
    BY <2>2 DEF Searches
  <2>4. Discarded(s) \in Searches
    BY <2>2, <2>3, SearchUpdates DEF Discarded
  <2>5. AfterFailure(s) \in {"idle", "round_end", "readers"}
    BY DEF AfterFailure
  <2>6. ASSUME NEW f \in Searches, NEW h \in Hosts \cup {None}
        PROVE  [[f EXCEPT !.host = h] EXCEPT !.then = "connect"] \in Searches
    BY SearchUpdates
  <2>7. CASE RefreshForWriter(s)
    <3>1. FilteredHosts \subseteq Hosts
      BY DEF FailoverAssumption
    <3>2. topology' \in FilteredHosts =>
            [[search[s] EXCEPT !.host = topology'] EXCEPT !.then = "connect"] \in Searches
      BY <2>2, <2>6, <3>1
    <3>3. CASE topology' \in FilteredHosts
      BY <2>7, <3>2, <3>3, GoOnType DEF RefreshForWriter
    <3>4. CASE topology' \notin FilteredHosts
      BY <2>1, <2>7, <3>4, GoOnType DEF RefreshForWriter
    <3>5. QED
      BY <3>3, <3>4
  <2>8. CASE RefreshForReader(s)
    <3>1. FilteredHosts \subseteq Hosts /\ topology' \in Hosts \cup {None}
      BY <1>2 DEF FailoverAssumption, DbcType
    <3> DEFINE w == IF topology' \in FilteredHosts THEN topology' ELSE None
               hs == FilteredHosts \ {topology'}
    <3>2. [search[s] EXCEPT !.candidates = hs, !.remaining = hs,
                            !.original_writer = w] \in Searches
      BY <2>2, <3>1, SearchUpdates
    <3>3. QED
      BY <2>1, <2>8, <3>2 DEF RefreshForReader
  <2>9. CASE TryReader(s)
    <3>1. PICK h \in search[s].remaining : ConnectToHost(s, search[s], h)
      BY <2>9 DEF TryReader
    <3>2. [[search[s] EXCEPT !.host = h] EXCEPT !.then = "connect"] \in Searches
      BY <2>2, <2>3, <2>6
    <3>3. QED
      BY <2>9, <3>1, <3>2 DEF TryReader
  <2>10. CASE TryOriginalWriter(s)
    BY <2>2, <2>3, <2>6, <2>10 DEF TryOriginalWriter
  <2>11. CASE RoundEnds(s) \/ AllocWrappedDbc(s) \/ HostConnects(s) \/ NodeIdFound(s)
    BY <2>11 DEF RoundEnds, AllocWrappedDbc, HostConnects, NodeIdFound
  <2>12. CASE NextRound(s)
    <3>1. [search[s] EXCEPT !.remaining = search[s].candidates] \in Searches
      BY <2>2, <2>3, SearchUpdates
    <3>2. QED
      BY <2>12, <3>1 DEF NextRound
  <2>13. CASE GiveUp(s)
    BY <2>2, <2>13, SearchUpdates DEF GiveUp
  <2>14. CASE HostRefuses(s)
    BY <2>1, <2>4, <2>5, <2>14 DEF HostRefuses
  <2>15. CASE NodeIdMissing(s)
    <3>1. [Discarded(s) EXCEPT !.then = AfterFailure(s)] \in Searches
      BY <2>4, <2>5, SearchUpdates
    <3>2. QED
      BY <2>15, <3>1 DEF NodeIdMissing
  <2>16. CASE RoleAccepted(s)
    <3>1. [search[s] EXCEPT !.role = RoleAnswered] \in Searches
      BY <2>2, SearchUpdates DEF RoleAnswered
    <3>2. QED
      BY <2>16, <3>1 DEF RoleAccepted
  <2>17. CASE RoleRejected(s)
    <3>1. [search[s] EXCEPT !.still_writer = TRUE] \in Searches
      BY <2>2, SearchUpdates
    <3>2. [Discarded(s) EXCEPT !.then = "readers"] \in Searches
      BY <2>4, SearchUpdates
    <3>3. CASE failover_mode = "STRICT_WRITER"
      BY <2>1, <2>17, <3>3, GoOnType DEF RoleRejected
    <3>4. CASE failover_mode # "STRICT_WRITER" /\ IsOriginalWriter(s)
      BY <2>17, <3>1, <3>4, GoOnType DEF RoleRejected
    <3>5. CASE failover_mode # "STRICT_WRITER" /\ ~IsOriginalWriter(s)
      BY <2>17, <3>2, <3>5, GoOnType DEF RoleRejected
    <3>6. QED
      BY <3>3, <3>4, <3>5
  <2>18. QED
    BY <2>7, <2>8, <2>9, <2>10, <2>11, <2>12, <2>13, <2>14, <2>15, <2>16, <2>17
       DEF Searching
<1>4. QED
  BY <1>1, <1>2, <1>3

(* The failover timeout keeps the types.                                   *)
LEMMA ExpiresType ==
    ASSUME TypeOK, NEW s \in Stmts, Expires(s) PROVE TypeOK'
<1>1. [search[s] EXCEPT !.expired = TRUE] \in Searches
  BY SearchUpdates DEF TypeOK, ThreadType
<1>2. search' \in [Stmts -> Searches]
  BY <1>1 DEF Expires, Locals, TypeOK, ThreadType
<1>3. UNCHANGED <<clusterVars, driverVars, wrapped_dbc, conn_status, txVars, dbc_lock,
                  hostVars, stmtVars, pc, query, todo>>
  BY DEF Expires, clusterVars
<1>4. ClusterType' /\ DriverType' /\ DbcType' /\ StmtType'
  BY <1>3 DEF TypeOK, ClusterType, DriverType, DbcType, StmtType, clusterVars,
     driverVars, txVars, hostVars, stmtVars
<1>5. QED
  BY <1>2, <1>3, <1>4 DEF TypeOK, ThreadType

(* Every step keeps the types.                                             *)
LEMMA StepType ==
    ASSUME FailoverAssumption, TypeOK, [Next]_vars PROVE TypeOK'
<1>1. CASE UNCHANGED vars
  BY <1>1 DEF TypeOK, ClusterType, DriverType, DbcType, StmtType, ThreadType, vars,
     clusterVars, driverVars, txVars, hostVars, stmtVars, threadVars
<1>2. ASSUME NEW s \in Stmts, Thread(s) PROVE TypeOK'
  BY <1>2, StatementStepType, VisitingType, SearchingType DEF Thread
<1>3. QED
  BY <1>1, <1>2, EnvironmentType, ApplicationType, ExpiresType DEF Next

(* Every field of the connection and its statements keeps a value of its   *)
(* declaration.                                                            *)
THEOREM TypeCorrect == Spec => []TypeOK
<1>1. TypeOK /\ [Next]_vars => TypeOK'
  BY FailoverAssumption, StepType
<1>2. QED
  BY InitType, <1>1, PTL DEF Spec

-----------------------------------------------------------------------------
(* The role of the host.                                                   *)

(* A thread that does not come to a new host by its step.                  *)
LEMMA RoleOutside ==
    ASSUME ThreadType, VerifiedRole, failover_mode' = failover_mode, NEW s \in Stmts,
           \E l \in PcLabels \ {"won", "report"} : pc' = [pc EXCEPT ![s] = l],
           search' = search \/ \E f : search' = [search EXCEPT ![s] = f]
    PROVE  VerifiedRole'
<1>1. \A t \in Stmts \ {s} : pc'[t] = pc[t] /\ search'[t] = search[t]
  BY DEF ThreadType
<1>2. pc'[s] \notin {"won", "report"}
  BY DEF ThreadType
<1>3. QED
  BY <1>1, <1>2 DEF VerifiedRole

(* The cluster, the application and the passing of time.                   *)
LEMMA RoleElsewhere ==
    ASSUME ThreadType, VerifiedRole,
           UNCHANGED vars \/ Environment \/ Application \/ \E s \in Stmts : Expires(s)
    PROVE  VerifiedRole'
<1>1. failover_mode' = failover_mode
  BY DEF vars, clusterVars, Environment, WriterFails, Promote, HostRestarts,
         ConnectionBreaks, Application, SQLDriverConnect, SQLDisconnect, AllocStmt,
         FreeStmt, SetAutoCommit, SQLEndTran, Execute, Expires
<1>2. CASE pc' = pc /\ search' = search
  BY <1>1, <1>2 DEF VerifiedRole
<1>3. ASSUME NEW s \in Stmts, NEW q \in Queries, Execute(s, q) PROVE VerifiedRole'
  BY <1>1, <1>3, RoleOutside DEF Execute, Goto, PcLabels
<1>4. ASSUME NEW s \in Stmts, Expires(s) PROVE VerifiedRole'
  <2>1. pc' = pc /\ search' = [search EXCEPT ![s] = [search[s] EXCEPT !.expired = TRUE]]
    BY <1>4 DEF Expires, Locals
  <2>2. \A t \in Stmts : search'[t].role = search[t].role
    BY <2>1
  <2>3. QED
    BY <1>1, <2>1 DEF VerifiedRole
<1>5. QED
  BY <1>2, <1>3, <1>4
     DEF vars, threadVars, Environment, WriterFails, Promote, HostRestarts,
         ConnectionBreaks, Application, SQLDriverConnect, SQLDisconnect, AllocStmt,
         FreeStmt, SetAutoCommit, SQLEndTran

(* The execution of a statement and the visits: a visit goes on to the     *)
(* report only from a host that was accepted.                              *)
LEMMA RoleVisiting ==
    ASSUME TypeOK, VerifiedRole, NEW s \in Stmts, Statement(s) \/ Visiting(s)
    PROVE  VerifiedRole'
<1> USE DEF TypeOK
<1>1. failover_mode' = failover_mode
  BY DEF Statement, ReallocStatement, NoConnection, StatementSucceeds,
         StatementFails, NetworkError, Visiting, VisitBegins, Invalidate,
         DropStatement, Report, Visit, InvalidateEnds, DropEnds, ReportEnds,
         clusterVars
<1>2. CASE Statement(s)
  <2>1. \E l \in {"idle", "call", "lost"} : pc' = [pc EXCEPT ![s] = l]
    BY <1>2
       DEF Statement, ReallocStatement, NoConnection, StatementSucceeds,
           StatementFails, NetworkError, Goto, Return
  <2>2. search' = search \/ \E f : search' = [search EXCEPT ![s] = f]
    BY <1>2
       DEF Statement, ReallocStatement, NoConnection, StatementSucceeds,
           StatementFails, NetworkError, Return
  <2>3. QED
    BY <1>1, <2>1, <2>2, RoleOutside DEF PcLabels
<1>3. CASE VisitBegins(s)
  <2>1. /\ pc[s] \in DOMAIN Visits /\ pc' = [pc EXCEPT ![s] = Visits[pc[s]]]
        /\ search' = search
    BY <1>3 DEF VisitBegins, Goto
  <2>2. Visits[pc[s]] = "report" => pc[s] = "won"
    BY <2>1 DEF Visits
  <2>3. Visits[pc[s]] # "won"
    BY <2>1 DEF Visits
  <2>4. QED
    BY <1>1, <2>1, <2>2, <2>3 DEF VerifiedRole
<1>4. ASSUME NEW u \in Stmts, Visit(s, u) PROVE VerifiedRole'
  BY <1>1, <1>4 DEF Visit, VerifiedRole
<1>5. CASE InvalidateEnds(s)
  BY <1>1, <1>5, RoleOutside DEF InvalidateEnds, Goto, PcLabels
<1>6. CASE DropEnds(s)
  <2>1. \E l \in {"idle", "connect", "readers", "round_end"} :
          pc' = [pc EXCEPT ![s] = l]
    BY <1>6 DEF DropEnds, Goto, Return, ThreadType, Searches
  <2>2. search' = search \/ \E f : search' = [search EXCEPT ![s] = f]
    BY <1>6 DEF DropEnds, Return
  <2>3. QED
    BY <1>1, <2>1, <2>2, RoleOutside DEF PcLabels
<1>7. CASE ReportEnds(s)
  BY <1>1, <1>7, RoleOutside DEF ReportEnds, Goto, Return, PcLabels
<1>8. QED
  BY <1>2, <1>3, <1>4, <1>5, <1>6, <1>7
     DEF Visiting, Invalidate, DropStatement, Report

(* The search: a host is accepted for the role it says it has.             *)
LEMMA RoleSearching ==
    ASSUME TypeOK, VerifiedRole, NEW s \in Stmts, Searching(s) PROVE VerifiedRole'
<1> USE DEF TypeOK
<1>1. failover_mode' = failover_mode
  BY DEF Searching, RefreshForWriter, RefreshForReader, TryReader,
         TryOriginalWriter, RoundEnds, NextRound, GiveUp, AllocWrappedDbc,
         HostConnects, HostRefuses, NodeIdFound, NodeIdMissing, RoleAccepted,
         RoleRejected, clusterVars
<1>2. CASE RoleAccepted(s)
  <2>1. /\ pc' = [pc EXCEPT ![s] = "won"]
        /\ search' = [search EXCEPT ![s] = [search[s] EXCEPT !.role = RoleAnswered]]
    BY <1>2 DEF RoleAccepted, Goto, Locals
  <2>2. /\ search'[s].role = RoleAnswered
        /\ \A t \in Stmts \ {s} : search'[t] = search[t] /\ pc'[t] = pc[t]
    BY <2>1 DEF ThreadType
  <2>3. /\ failover_mode = "STRICT_WRITER" => RoleAnswered \in {"WRITER", "unanswered"}
        /\ failover_mode = "STRICT_READER" => RoleAnswered \in {"READER", "UNKNOWN"}
    <3>1. RoleAnswered \in {"WRITER", "READER", "UNKNOWN", "unanswered"}
      BY DEF RoleAnswered
    <3>2. /\ failover_mode = "STRICT_WRITER" => ConnectionRole = "WRITER"
          /\ failover_mode = "STRICT_READER" => ConnectionRole # "WRITER"
      BY <1>2 DEF RoleAccepted, RoleFits
    <3> QED BY <3>1, <3>2 DEF ConnectionRole
  <2>4. QED
    BY <1>1, <2>2, <2>3 DEF VerifiedRole
<1>3. CASE ~RoleAccepted(s)
  <2>1. \E l \in PcLabels \ {"won", "report"} : pc' = [pc EXCEPT ![s] = l]
    BY <1>3
       DEF Searching, RefreshForWriter, RefreshForReader, TryReader,
           TryOriginalWriter, RoundEnds, NextRound, GiveUp, AllocWrappedDbc,
           HostConnects, HostRefuses, NodeIdFound, NodeIdMissing, RoleRejected,
           AfterFailure, ConnectToHost, DropThen, Goto, Return, PcLabels
  <2>2. search' = search \/ \E f : search' = [search EXCEPT ![s] = f]
    BY <1>3
       DEF Searching, RefreshForWriter, RefreshForReader, TryReader,
           TryOriginalWriter, RoundEnds, NextRound, GiveUp, AllocWrappedDbc,
           HostConnects, HostRefuses, NodeIdFound, NodeIdMissing, RoleRejected,
           Locals, ConnectToHost, DropThen, Return
  <2>3. QED
    BY <1>1, <2>1, <2>2, RoleOutside
<1>4. QED
  BY <1>2, <1>3

(* However stale the topology was and whatever the cluster does meanwhile, *)
(* and with several threads too: a failover in STRICT_WRITER mode ends in  *)
(* success on no host that said it is a reader, which leaves the hosts that *)
(* did not answer; one in STRICT_READER mode only on a host that said so,  *)
(* or with its connection taken away by another thread's failover.         *)
THEOREM RolesVerified == Spec => []VerifiedRole
<1>1. Init => VerifiedRole
  BY DEF Init, VerifiedRole
<1>2. ASSUME TypeOK, VerifiedRole, [Next]_vars PROVE VerifiedRole'
  BY <1>2, RoleElsewhere, RoleVisiting, RoleSearching DEF Next, Thread, TypeOK
<1>3. QED
  BY TypeCorrect, <1>1, <1>2, PTL DEF Spec

-----------------------------------------------------------------------------
(* The lock of the connection.                                             *)

VisitPcs == {"invalidate", "disconnect", "report"}

(* Whoever visits statements holds dbc->lock, nobody else has statements   *)
(* left to visit, and those left are on the list.                          *)
LockInv ==
    /\ \A s \in Stmts : pc[s] \in VisitPcs <=> dbc_lock = s
    /\ \A s \in Stmts : todo[s] # {} => pc[s] \in VisitPcs
    /\ VisitedStatementsExist

(* What the lock is about.                                                 *)
lockVars == <<pc, todo, dbc_lock, stmt_list>>

(* Nobody holds the lock at first.                                        *)
LEMMA LockInit == FailoverAssumption /\ Init => LockInv
BY DEF FailoverAssumption, Init, LockInv, VisitPcs, VisitedStatementsExist

(* A step that leaves those alone keeps the invariant.                     *)
LEMMA LockUnchanged == LockInv /\ UNCHANGED lockVars => LockInv'
BY DEF LockInv, lockVars, VisitedStatementsExist

(* A thread that neither enters nor leaves a visit keeps the invariant.    *)
LEMMA LockOutside ==
    ASSUME LockInv, ThreadType, NEW s \in Stmts, NEW l \in PcLabels \ VisitPcs,
           pc[s] \notin VisitPcs, pc' = [pc EXCEPT ![s] = l],
           UNCHANGED <<todo, dbc_lock, stmt_list>>
    PROVE  LockInv'
BY DEF LockInv, ThreadType, VisitedStatementsExist

(* Every step keeps it.                                                    *)
LEMMA LockStep ==
    ASSUME FailoverAssumption, TypeOK, LockInv, [Next]_vars
    PROVE  LockInv'
<1> USE DEF TypeOK
<1>1. CASE \/ UNCHANGED vars \/ Environment \/ SQLEndTran
           \/ \E h \in Hosts : SQLDriverConnect(h)
           \/ \E on \in BOOLEAN : SetAutoCommit(on)
           \/ \E s \in Stmts : Expires(s)
  <2>1. UNCHANGED lockVars
    BY <1>1 DEF vars, Environment, WriterFails, Promote, HostRestarts,
       ConnectionBreaks, SQLEndTran, SQLDriverConnect, SetAutoCommit, Expires, lockVars,
       stmtVars, threadVars
  <2>2. QED
    BY <2>1, LockUnchanged
<1>2. CASE SQLDisconnect
  <2>1. \A s \in Stmts : todo[s] = {}
    BY <1>2 DEF SQLDisconnect, Quiet, LockInv, VisitPcs
  <2>2. QED
    BY <1>2, <2>1 DEF SQLDisconnect, threadVars, LockInv, VisitedStatementsExist
<1>3. ASSUME NEW u \in Stmts, AllocStmt(u) PROVE LockInv'
  BY <1>3
     DEF AllocStmt, LockInv, VisitedStatementsExist, DbcType, StmtType, ThreadType, 
              LockFree
<1>4. ASSUME NEW u \in Stmts, FreeStmt(u) PROVE LockInv'
  <2>1. \A s \in Stmts : todo[s] = {}
    BY <1>4 DEF FreeStmt, Removable, LockFree, LockInv, FailoverAssumption
  <2>2. QED
    BY <1>4, <2>1 DEF FreeStmt, threadVars, LockInv, VisitedStatementsExist
<1>5. ASSUME NEW s \in Stmts, NEW q \in Queries, Execute(s, q) PROVE LockInv'
  BY <1>5, LockOutside DEF Execute, Goto, VisitPcs, PcLabels
<1>6. ASSUME NEW s \in Stmts, Statement(s) PROVE LockInv'
  <2>1. \E l \in PcLabels \ VisitPcs :
          pc[s] \notin VisitPcs /\ pc' = [pc EXCEPT ![s] = l]
    BY <1>6 DEF Statement, ReallocStatement, NoConnection, StatementSucceeds,
       StatementFails, NetworkError, Goto, Return, VisitPcs, PcLabels
  <2>2. UNCHANGED <<todo, dbc_lock, stmt_list>>
    BY <1>6 DEF Statement, ReallocStatement, NoConnection, StatementSucceeds,
       StatementFails, NetworkError, stmtVars
  <2>3. QED
    BY <2>1, <2>2, LockOutside
<1>7. ASSUME NEW s \in Stmts, Searching(s) PROVE LockInv'
  <2>1. \E l \in PcLabels \ VisitPcs :
          pc[s] \notin VisitPcs /\ pc' = [pc EXCEPT ![s] = l]
    BY <1>7 DEF Searching, RefreshForWriter, RefreshForReader, TryReader,
       TryOriginalWriter, RoundEnds, NextRound, GiveUp, AllocWrappedDbc, HostConnects,
       HostRefuses, NodeIdFound, NodeIdMissing, RoleAccepted, RoleRejected, AfterFailure,
       ConnectToHost, DropThen, Goto, Return, VisitPcs, PcLabels
  <2>2. UNCHANGED <<todo, dbc_lock, stmt_list>>
    BY <1>7 DEF Searching, RefreshForWriter, RefreshForReader, TryReader,
       TryOriginalWriter, RoundEnds, NextRound, GiveUp, AllocWrappedDbc, HostConnects,
       HostRefuses, NodeIdFound, NodeIdMissing, RoleAccepted, RoleRejected, stmtVars
  <2>3. QED
    BY <2>1, <2>2, LockOutside
<1>8. ASSUME NEW s \in Stmts, VisitBegins(s) PROVE LockInv'
  <2>1. /\ pc' = [pc EXCEPT ![s] = Visits[pc[s]]] /\ Visits[pc[s]] \in VisitPcs
        /\ dbc_lock = None /\ dbc_lock' = s
        /\ todo' = [todo EXCEPT ![s] = stmt_list] /\ stmt_list' = stmt_list
    BY <1>8 DEF VisitBegins, Visits, VisitList, Goto, LockFree, VisitPcs, stmtVars
  <2>2. QED
    BY <2>1 DEF LockInv, VisitedStatementsExist, FailoverAssumption, ThreadType
<1>9. ASSUME NEW s \in Stmts, NEW u \in Stmts,
             Invalidate(s, u) \/ DropStatement(s, u) \/ Report(s, u)
      PROVE  LockInv'
  <2>1. /\ todo' = [todo EXCEPT ![s] = @ \ {u}] /\ u \in todo[s]
        /\ UNCHANGED <<pc, dbc_lock, stmt_list>>
    BY <1>9 DEF Invalidate, DropStatement, Report, Visit
  <2>2. QED
    BY <2>1 DEF LockInv, VisitedStatementsExist, ThreadType
<1>10. ASSUME NEW s \in Stmts, InvalidateEnds(s) \/ DropEnds(s) \/ ReportEnds(s)
       PROVE  LockInv'
  <2>1. /\ \E l \in PcLabels \ VisitPcs : pc' = [pc EXCEPT ![s] = l]
        /\ pc[s] \in VisitPcs /\ todo[s] = {} /\ dbc_lock' = None
        /\ UNCHANGED <<todo, stmt_list>>
    BY <1>10
       DEF InvalidateEnds, DropEnds, ReportEnds, Goto, Return, VisitPcs, PcLabels, 
       stmtVars, ThreadType, Searches
  <2>2. QED
    BY <2>1 DEF LockInv, VisitedStatementsExist, FailoverAssumption, ThreadType
<1>11. QED
  BY <1>1, <1>2, <1>3, <1>4, <1>5, <1>6, <1>7, <1>8, <1>9, <1>10
     DEF Next, Application, Thread, Visiting

(* A visit of the statements of the connection, which copies or walks its  *)
(* list of statements, comes to no statement that was freed, whatever the  *)
(* threads of the application do meanwhile.                                *)
THEOREM VisitsSafe == Spec => []VisitedStatementsExist
<1>1. Init => LockInv
  BY FailoverAssumption, LockInit
<1>2. TypeOK /\ LockInv /\ [Next]_vars => LockInv'
  BY FailoverAssumption, LockStep
<1>3. LockInv => VisitedStatementsExist
  BY DEF LockInv
<1>4. QED
  BY TypeCorrect, <1>1, <1>2, <1>3, PTL DEF Spec

-----------------------------------------------------------------------------
(* The handles of a single-threaded application.                           *)

SearchPcs == {"refresh", "drop", "disconnect", "connect", "connecting", "node_id",
              "role", "readers", "round_end", "won", "report"}

(* At most one statement is being executed, a tracked one.  Its thread     *)
(* lets go of every handle in the first visit and holds none during the    *)
(* search: that, and the fact that only a tracked statement has a handle,  *)
(* is what lets it change connections without leaving a handle of the old  *)
(* one behind.                                                             *)
HandleInv ==
    /\ \A s, t \in Stmts : pc[s] # "idle" /\ pc[t] # "idle" => s = t
    /\ \A s \in Stmts : pc[s] # "idle" => s \in stmt_list
    /\ \A u \in Stmts : wrapped_stmt[u] # None => u \in stmt_list
    /\ \A s \in Stmts : pc[s] = "invalidate" =>
         \A u \in Stmts : wrapped_stmt[u] # None => u \in todo[s]
    /\ \A s \in Stmts : pc[s] \in SearchPcs =>
         \A u \in Stmts : wrapped_stmt[u] = None
    /\ conn_status = "not_connected" =>
         wrapped_dbc = None \/ link[wrapped_dbc] = "allocated"
    /\ StatementsOnOpenConnection

(* No statement has a handle at first.                                     *)
LEMMA HandleInit == Init => HandleInv
BY DEF Init, HandleInv, StatementsOnOpenConnection, SearchPcs

(* What the invariant is about.                                            *)
handleVars == <<pc, todo, wrapped_stmt, stmt_list, wrapped_dbc, conn_status, link>>

(* A search step of the thread that executes: all handles were let go.     *)
LEMMA HandleSearch ==
    ASSUME TypeOK, HandleInv, NEW s \in Stmts, NEW l \in SearchPcs \cup {"idle"},
           pc[s] \in SearchPcs, pc' = [pc EXCEPT ![s] = l],
           UNCHANGED <<wrapped_stmt, stmt_list>>,
           conn_status' = "not_connected" =>
               wrapped_dbc' = None \/ link'[wrapped_dbc'] = "allocated"
    PROVE  HandleInv'
BY DEF TypeOK, ThreadType, HandleInv, SearchPcs, StatementsOnOpenConnection

(* The failures of the cluster.                                            *)
LEMMA HandleEnvironment ==
    ASSUME TypeOK, HandleInv, Environment PROVE HandleInv'
<1>1. UNCHANGED <<pc, todo, wrapped_stmt, stmt_list, wrapped_dbc, conn_status>>
  BY DEF Environment, WriterFails, Promote, HostRestarts, ConnectionBreaks,
         stmtVars, 
     threadVars
<1>2. \A c \in Conns : \/ link'[c] = link[c]
                       \/ link[c] = "connected" /\ link'[c] = "broken"
  BY DEF Environment, WriterFails, Promote, HostRestarts, ConnectionBreaks,
         driverVars, 
     TypeOK, DriverType
<1>3. QED
  BY <1>1, <1>2 DEF HandleInv, StatementsOnOpenConnection, TypeOK, DbcType, StmtType

(* The calls of the application.                                           *)
LEMMA HandleApplication ==
    ASSUME MultiThreaded = FALSE, TypeOK, HandleInv, Application PROVE HandleInv'
<1> USE DEF TypeOK, HandleInv, StatementsOnOpenConnection
<1>1. ASSUME NEW h \in Hosts, SQLDriverConnect(h) PROVE HandleInv'
  <2>1. \A u \in Stmts : wrapped_stmt[u] = None
    BY <1>1 DEF SQLDriverConnect, StmtType
  <2>2. \A s \in Stmts : pc[s] = "idle"
    BY <1>1 DEF SQLDriverConnect, Quiet
  <2>3. conn_status' = "connected"
        \/ link'[wrapped_dbc'] = "allocated"
    BY <1>1 DEF SQLDriverConnect, Connects, DriverType
  <2>4. UNCHANGED <<pc, todo, wrapped_stmt, stmt_list>>
    BY <1>1 DEF SQLDriverConnect, stmtVars, threadVars
  <2>5. QED
    BY <2>1, <2>2, <2>3, <2>4 DEF SearchPcs
<1>2. CASE SQLDisconnect
  <2>1. /\ \A s \in Stmts : pc[s] = "idle"
        /\ pc' = pc /\ wrapped_stmt' = [s \in Stmts |-> None] /\ wrapped_dbc' = wrapped_dbc
    BY <1>2 DEF SQLDisconnect, Quiet, threadVars
  <2>2. conn_status' = "not_connected" =>
          wrapped_dbc' = None \/ link'[wrapped_dbc'] = "allocated"
    BY <1>2 DEF SQLDisconnect, DriverType, DbcType
  <2>3. QED
    BY <2>1, <2>2 DEF SearchPcs
<1>3. ASSUME NEW u \in Stmts, AllocStmt(u) PROVE HandleInv'
  <2>1. /\ \A s \in Stmts : pc[s] = "idle"
        /\ UNCHANGED <<pc, wrapped_dbc, conn_status, link>>
        /\ stmt_list' = stmt_list \cup {u}
        /\ wrapped_stmt' = [wrapped_stmt EXCEPT ![u] = NewStatement]
    BY <1>3 DEF AllocStmt, MayCall, Quiet, driverVars
  <2>2. QED
    BY <2>1 DEF NewStatement, SearchPcs, StmtType
<1>4. ASSUME NEW u \in Stmts, FreeStmt(u) PROVE HandleInv'
  <2>1. /\ \A s \in Stmts : pc[s] = "idle"
        /\ UNCHANGED <<pc, wrapped_dbc, conn_status, link>>
        /\ stmt_list' = stmt_list \ {u}
        /\ wrapped_stmt' = [wrapped_stmt EXCEPT ![u] = None]
    BY <1>4 DEF FreeStmt, MayCall, Quiet, driverVars, threadVars
  <2>2. QED
    BY <2>1 DEF SearchPcs, StmtType
<1>5. CASE SQLEndTran \/ \E on \in BOOLEAN : SetAutoCommit(on)
  <2>1. UNCHANGED handleVars
    BY <1>5 DEF SQLEndTran, SetAutoCommit, stmtVars, threadVars, handleVars
  <2>2. QED
    BY <2>1 DEF handleVars
<1>6. ASSUME NEW s \in Stmts, NEW q \in Queries, Execute(s, q) PROVE HandleInv'
  <2>1. /\ \A t \in Stmts : pc[t] = "idle"
        /\ pc' = [pc EXCEPT ![s] = "execute"] /\ s \in stmt_list
        /\ UNCHANGED <<wrapped_stmt, stmt_list, wrapped_dbc, conn_status, link>>
    BY <1>6 DEF Execute, MayCall, Quiet, Goto, driverVars
  <2>2. QED
    BY <2>1 DEF SearchPcs, ThreadType
<1>7. QED
  BY <1>1, <1>2, <1>3, <1>4, <1>5, <1>6 DEF Application

(* Executing a statement: only a tracked statement gets a handle.          *)
LEMMA HandleStatement ==
    ASSUME TypeOK, HandleInv, NEW s \in Stmts, Statement(s)
    PROVE  HandleInv'
<1> USE DEF TypeOK, HandleInv, StatementsOnOpenConnection
<1>1. PICK l \in {"idle", "call", "lost"} :
        pc[s] \in {"execute", "call"} /\ pc' = [pc EXCEPT ![s] = l]
  BY DEF Statement, ReallocStatement, NoConnection, StatementSucceeds,
         StatementFails, 
     NetworkError, Goto, Return
<1>2. UNCHANGED <<stmt_list, wrapped_dbc, conn_status, link>>
  BY DEF Statement, ReallocStatement, NoConnection, StatementSucceeds,
         StatementFails, 
     NetworkError, stmtVars, driverVars
<1>3. \A u \in Stmts : \/ wrapped_stmt'[u] = wrapped_stmt[u]
                       \/ u = s /\ wrapped_stmt'[u] = NewStatement /\ wrapped_dbc # None
  BY DEF Statement, ReallocStatement, NoConnection, StatementSucceeds,
         StatementFails, 
     NetworkError, stmtVars, StmtType
<1>4. QED
  BY <1>1, <1>2, <1>3 DEF NewStatement, SearchPcs, ThreadType, StmtType

(* The visits of the failover.                                             *)
LEMMA HandleVisiting ==
    ASSUME TypeOK, LockInv, HandleInv, NEW s \in Stmts, Visiting(s)
    PROVE  HandleInv'
<1> USE DEF TypeOK
<1>1. CASE VisitBegins(s)
  <2>1. /\ pc[s] \in DOMAIN Visits /\ pc' = [pc EXCEPT ![s] = Visits[pc[s]]]
        /\ todo' = [todo EXCEPT ![s] = stmt_list]
        /\ UNCHANGED <<wrapped_stmt, stmt_list, wrapped_dbc, conn_status, link>>
    BY <1>1 DEF VisitBegins, VisitList, Goto, stmtVars, driverVars
  <2>2. CASE pc[s] = "lost"
    BY <2>1, <2>2 DEF Visits, HandleInv, StatementsOnOpenConnection, SearchPcs,
       ThreadType
  <2>3. CASE pc[s] \in {"drop", "won"}
    <3>1. \A u \in Stmts : wrapped_stmt[u] = None
      BY <2>3 DEF HandleInv, SearchPcs
    <3>2. Visits[pc[s]] \in SearchPcs /\ pc[s] \in SearchPcs
      BY <2>3 DEF Visits, SearchPcs
    <3>3. QED
      BY <2>1, <3>2, HandleSearch DEF HandleInv
  <2>4. QED
    BY <2>1, <2>2, <2>3 DEF Visits
<1>2. ASSUME NEW u \in Stmts, Invalidate(s, u) \/ DropStatement(s, u) \/ Report(s, u)
      PROVE  HandleInv'
  <2>1. /\ todo' = [todo EXCEPT ![s] = @ \ {u}]
        /\ UNCHANGED <<pc, stmt_list, wrapped_dbc, conn_status, link>>
        /\ \/ wrapped_stmt' = [wrapped_stmt EXCEPT ![u] = None]
           \/ pc[s] = "report" /\ wrapped_stmt' = wrapped_stmt
    BY <1>2 DEF Invalidate, DropStatement, Report, Visit, driverVars
  <2>2. QED
    BY <2>1
       DEF HandleInv, StatementsOnOpenConnection, SearchPcs, ThreadType, StmtType
<1>3. CASE InvalidateEnds(s)
  <2>1. \A u \in Stmts : wrapped_stmt[u] = None
    BY <1>3 DEF InvalidateEnds, HandleInv
  <2>2. /\ pc' = [pc EXCEPT ![s] = "refresh"] /\ pc[s] = "invalidate"
        /\ UNCHANGED <<wrapped_stmt, stmt_list, wrapped_dbc, conn_status, link>>
    BY <1>3 DEF InvalidateEnds, Goto, stmtVars, driverVars
  <2>3. QED
    BY <2>1, <2>2 DEF HandleInv, StatementsOnOpenConnection, SearchPcs, ThreadType
<1>4. CASE DropEnds(s)
  <2>1. /\ \E l \in SearchPcs \cup {"idle"} : pc' = [pc EXCEPT ![s] = l]
        /\ pc[s] \in SearchPcs /\ wrapped_dbc' = None
        /\ UNCHANGED <<wrapped_stmt, stmt_list>>
    BY <1>4 DEF DropEnds, Goto, Return, stmtVars, SearchPcs, ThreadType, Searches
  <2>2. QED
    BY <2>1, HandleSearch
<1>5. CASE ReportEnds(s)
  <2>1. /\ pc' = [pc EXCEPT ![s] = "idle"] /\ pc[s] \in SearchPcs
        /\ UNCHANGED <<wrapped_stmt, stmt_list, wrapped_dbc, conn_status, link>>
    BY <1>5 DEF ReportEnds, Return, Goto, SearchPcs, stmtVars, driverVars
  <2>2. QED
    BY <2>1, HandleSearch DEF HandleInv
<1>6. QED
  BY <1>1, <1>2, <1>3, <1>4, <1>5 DEF Visiting

(* The search of the failover.                                             *)
LEMMA HandleSearching ==
    ASSUME TypeOK, HandleInv, NEW s \in Stmts, Searching(s) PROVE HandleInv'
<1>1. \E l \in SearchPcs \cup {"idle"} :
        pc[s] \in SearchPcs /\ pc' = [pc EXCEPT ![s] = l]
  BY DEF Searching, RefreshForWriter, RefreshForReader, TryReader,
         TryOriginalWriter, 
     RoundEnds, NextRound, GiveUp, AllocWrappedDbc, HostConnects, HostRefuses,
     NodeIdFound, NodeIdMissing, RoleAccepted, RoleRejected, AfterFailure,
     ConnectToHost, DropThen, Goto, Return, SearchPcs
<1>2. UNCHANGED <<wrapped_stmt, stmt_list>>
  BY DEF Searching, RefreshForWriter, RefreshForReader, TryReader,
         TryOriginalWriter, 
     RoundEnds, NextRound, GiveUp, AllocWrappedDbc, HostConnects, HostRefuses,
     NodeIdFound, NodeIdMissing, RoleAccepted, RoleRejected, stmtVars
<1>3. conn_status' = "not_connected" =>
        wrapped_dbc' = None \/ link'[wrapped_dbc'] = "allocated"
  <2>1. CASE AllocWrappedDbc(s)
    BY <2>1 DEF AllocWrappedDbc, HandleInv, TypeOK, DriverType
  <2>2. CASE HostConnects(s)
    BY <2>2 DEF HostConnects, Connects
  <2>3. CASE UNCHANGED <<wrapped_dbc, conn_status, link>>
    BY <2>3 DEF HandleInv
  <2>4. QED
    BY <2>1, <2>2, <2>3
       DEF Searching, RefreshForWriter, RefreshForReader, TryReader, 
       TryOriginalWriter, RoundEnds, NextRound, GiveUp, HostRefuses, NodeIdFound,
       NodeIdMissing, RoleAccepted, RoleRejected, driverVars
<1>4. QED
  BY <1>1, <1>2, <1>3, HandleSearch

(* Every step of a single-threaded application keeps the invariant.        *)
LEMMA HandleStep ==
    ASSUME MultiThreaded = FALSE, TypeOK, LockInv, HandleInv, [Next]_vars
    PROVE  HandleInv'
<1>1. CASE UNCHANGED vars \/ \E s \in Stmts : Expires(s)
  <2>1. UNCHANGED handleVars
    BY <1>1 DEF vars, Expires, handleVars, driverVars, stmtVars, threadVars
  <2>2. QED
    BY <2>1 DEF handleVars, HandleInv, StatementsOnOpenConnection
<1>2. ASSUME NEW s \in Stmts, Thread(s) PROVE HandleInv'
  BY <1>2, HandleStatement, HandleVisiting, HandleSearching DEF Thread
<1>3. QED
  BY <1>1, <1>2, HandleEnvironment, HandleApplication DEF Next

(* In a single-threaded application, no statement handle that the wrapper  *)
(* holds outlives the connection it was made on: not when a failover takes *)
(* the connection away, not when it fails half-way, and not when the       *)
(* application disconnects and connects again.                             *)
THEOREM HandlesCorrect ==
    ASSUME MultiThreaded = FALSE PROVE Spec => []StatementsOnOpenConnection
<1>1. Init => LockInv /\ HandleInv
  BY FailoverAssumption, LockInit, HandleInit
<1>2. TypeOK /\ LockInv /\ HandleInv /\ [Next]_vars => LockInv' /\ HandleInv'
  BY FailoverAssumption, LockStep, HandleStep
<1>3. HandleInv => StatementsOnOpenConnection
  BY DEF HandleInv
<1>4. QED
  BY TypeCorrect, <1>1, <1>2, <1>3, PTL DEF Spec

-----------------------------------------------------------------------------
(* The transaction that was lost.                                          *)

(* What the thread has saved about the transaction.                        *)
Saved(f) == <<f.tx, f.lost_tx>>

(* Which locals of the search leave that alone.                            *)
LEMMA SavedKept ==
    ASSUME NEW f \in Searches
    PROVE  /\ \A x : Saved([f EXCEPT !.then = x]) = Saved(f)
           /\ \A x : Saved([f EXCEPT !.host = x]) = Saved(f)
           /\ \A x : Saved([f EXCEPT !.role = x]) = Saved(f)
           /\ \A x : Saved([f EXCEPT !.remaining = x]) = Saved(f)
           /\ \A x : Saved([f EXCEPT !.still_writer = x]) = Saved(f)
           /\ \A x, y, z : Saved([f EXCEPT !.candidates = x, !.remaining = y,
                                          !.original_writer = z]) = Saved(f)
BY DEF Saved

(* The search, for as long as it goes on, keeps it.                        *)
LEMMA SearchSaves ==
    ASSUME TypeOK, NEW s \in Stmts, Searching(s), pc'[s] # "idle"
    PROVE  Saved(search'[s]) = Saved(search[s])
<1> USE DEF TypeOK, ThreadType
<1>1. /\ search[s] \in Searches /\ Discarded(s) \in Searches
      /\ Saved(Discarded(s)) = Saved(search[s])
  <2>1. search[s] \in Searches /\ search[s].remaining \ {search[s].host} \in SUBSET Hosts
    BY DEF Searches
  <2>2. Discarded(s) = [search[s] EXCEPT !.remaining = search[s].remaining \ {search[s].host}]
    BY DEF Discarded
  <2>3. Discarded(s) \in Searches
    BY <2>1, <2>2 DEF Searches
  <2>4. Saved(Discarded(s)) = Saved(search[s])
    BY <2>2 DEF Saved
  <2>5. QED
    BY <2>3, <2>4
<1>2. CASE search' = search
  BY <1>2
<1>3. CASE \E f \in {search[s], Discarded(s)}, l \in {"connect", "idle", "readers", "round_end"} :
             search' = [search EXCEPT ![s] = [f EXCEPT !.then = l]]
  BY <1>1, <1>3 DEF Saved
<1>4. CASE \E h \in Hosts \cup {None} : ConnectToHost(s, search[s], h)
  <2>1. PICK h \in Hosts \cup {None} :
          search' = [search EXCEPT ![s] = [[search[s] EXCEPT !.host = h] EXCEPT
                                             !.then = "connect"]]
    BY <1>4 DEF ConnectToHost, DropThen, Locals
  <2>2. [search[s] EXCEPT !.host = h] \in Searches
    BY SearchUpdates
  <2>3. QED
    BY <2>1 DEF Saved
<1>5. CASE RefreshForReader(s)
  <2>1. \E hs \in SUBSET Hosts, h \in Hosts \cup {None} :
          search' = [search EXCEPT ![s] =
                       [search[s] EXCEPT !.candidates = hs, !.remaining = hs,
                                         !.original_writer = h]]
    BY <1>5, FailoverAssumption DEF RefreshForReader, Locals, Return, Goto
  <2>2. QED
    BY <2>1 DEF Saved
<1>6. CASE NextRound(s) \/ HostRefuses(s) \/ RoleAccepted(s) \/ RoleRejected(s)
  <2>1. PICK f : /\ search' = [search EXCEPT ![s] = f]
                 /\ \/ f = Discarded(s)
                    \/ f = [Discarded(s) EXCEPT !.then = "readers"]
                    \/ \E x : f = [search[s] EXCEPT !.remaining = x]
                    \/ \E x : f = [search[s] EXCEPT !.role = x]
                    \/ f = [search[s] EXCEPT !.still_writer = TRUE]
    BY <1>6
       DEF NextRound, HostRefuses, RoleAccepted, RoleRejected, DropThen, Locals,
           Return, Goto
  <2>2. Saved([Discarded(s) EXCEPT !.then = "readers"]) = Saved(Discarded(s))
    BY <1>1, SavedKept
  <2>3. \A x : /\ Saved([search[s] EXCEPT !.remaining = x]) = Saved(search[s])
               /\ Saved([search[s] EXCEPT !.role = x]) = Saved(search[s])
               /\ Saved([search[s] EXCEPT !.still_writer = x]) = Saved(search[s])
    BY SavedKept
  <2>4. Saved(f) = Saved(search[s])
    BY <1>1, <2>1, <2>2, <2>3
  <2>5. QED
    BY <2>1, <2>4
<1>7. CASE RefreshForWriter(s) \/ TryReader(s) \/ TryOriginalWriter(s)
  <2>1. \E h \in Hosts \cup {None} : ConnectToHost(s, search[s], h)
    BY <1>7
       DEF RefreshForWriter, TryReader, TryOriginalWriter, Return, Goto, Searches,
           Refreshed, DbcType, ClusterType
  <2>2. QED
    BY <1>4, <2>1
<1>8. CASE GiveUp(s) \/ NodeIdMissing(s)
  <2>1. \E f \in {search[s], Discarded(s)}, l \in {"connect", "idle", "readers", "round_end"} :
          search' = [search EXCEPT ![s] = [f EXCEPT !.then = l]]
    BY <1>8 DEF GiveUp, NodeIdMissing, DropThen, Locals, AfterFailure
  <2>2. QED
    BY <1>3, <2>1
<1>9. QED
  BY <1>5, <1>6, <1>7, <1>8
     DEF Searching, RoundEnds, AllocWrappedDbc, HostConnects, NodeIdFound

(* A query of one statement is played by the effect of that statement.     *)
LEMMA OneStatement ==
    ASSUME NEW session, NEW kind
    PROVE  FoldLeft(Effect, session, <<kind>>) = Effect(session, kind)
<1> DEFINE S == DOMAIN <<kind>>
           iter == CHOOSE f : f = [p \in SUBSET S |->
                     IF p = {} THEN session
                     ELSE Effect(f[p \ {Max(p)}], <<kind>>[Max(p)])]
           played == [p \in SUBSET S |->
                        IF p = {} THEN session ELSE Effect(session, kind)]
<1>1. S = {1} /\ <<kind>>[1] = kind /\ {1} \ {1} = {}
  OBVIOUS
<1>2. Max({1}) = 1
  BY DEF Max
<1>3. played = [p \in SUBSET S |->
                  IF p = {} THEN session
                  ELSE Effect(played[p \ {Max(p)}], <<kind>>[Max(p)])]
  <2>1. \A p \in SUBSET S : p = {} \/ p = {1}
    BY <1>1
  <2>2. played[{}] = session
    OBVIOUS
  <2>3. ASSUME NEW p \in SUBSET S, p = {1}
        PROVE  Effect(played[p \ {Max(p)}], <<kind>>[Max(p)]) = Effect(session, kind)
    <3> HIDE DEF played
    <3>1. QED
      BY <1>2, <2>2, <2>3
  <2>4. \A p \in SUBSET S : played[p] = IF p = {} THEN session
                                        ELSE Effect(played[p \ {Max(p)}], <<kind>>[Max(p)])
    BY <2>1, <2>3
  <2>5. QED
    BY <2>4
<1>4. iter = [p \in SUBSET S |->
                IF p = {} THEN session
                ELSE Effect(iter[p \ {Max(p)}], <<kind>>[Max(p)])]
  <2> HIDE DEF played, S
  <2>1. QED
    BY <1>3
<1>5. iter[S] = Effect(session, kind)
  <2> HIDE DEF iter
  <2>1. iter[{}] = session
    BY <1>4
  <2>2. QED
    BY <1>1, <1>2, <1>4
<1>6. FoldLeft(Effect, session, <<kind>>) = iter[S]
  <2> HIDE DEF S
  <2>1. QED
    BY DEF FoldLeft, MapThenFoldSet, S
<1>7. QED
  BY <1>5, <1>6

(* The application sends one statement at a time, begins and ends its      *)
(* transactions explicitly and leaves the autocommit mode on.              *)
ExplicitTransactions ==
    /\ MultiThreaded = FALSE
    /\ "autocommit" \notin AppCalls
    /\ \A q \in Queries : \/ q = <<>>
                          \/ \E kind \in {"begin", "commit", "dml"} : q = <<kind>>

(* What such a query does to a session in autocommit mode.                 *)
LEMMA ExplicitEffect ==
    ASSUME ExplicitTransactions, NEW q \in Queries \cup {<<>>}, NEW c \in Conns,
           server_tx[c] \in BOOLEAN, server_auto[c] = TRUE
    PROVE  /\ After(c, q).auto = TRUE
           /\ After(c, q).tx = IF q = <<"begin">> THEN TRUE
                               ELSE IF q = <<"commit">> THEN FALSE ELSE server_tx[c]
<1> DEFINE session == [tx |-> server_tx[c], auto |-> server_auto[c]]
<1>1. PICK kind \in {"begin", "commit", "dml"} :
        (IF q = <<>> THEN <<"dml">> ELSE q) = <<kind>>
  BY DEF ExplicitTransactions
<1>2. After(c, q) = Effect(session, kind)
  BY <1>1, OneStatement DEF After
<1>3. /\ kind = "begin" <=> q = <<"begin">>
      /\ kind = "commit" <=> q = <<"commit">>
  <2>1. kind = (IF q = <<>> THEN <<"dml">> ELSE q)[1]
    BY <1>1
  <2>2. /\ <<"begin">>[1] = "begin" /\ <<"commit">>[1] = "commit" /\ <<"dml">>[1] = "dml"
        /\ <<"begin">> # <<>> /\ <<"commit">> # <<>>
    OBVIOUS
  <2>3. QED
    BY <1>1
<1>4. QED
  BY <1>2, <1>3 DEF Effect

(* What the tracking makes of it.                                          *)
LEMMA ExplicitTracked ==
    ASSUME ExplicitTransactions, NEW q \in Queries \cup {<<>>}, TrackTransaction(q)
    PROVE  /\ auto_commit' = auto_commit
           /\ transaction_status' = IF q = <<"begin">> THEN "open"
                                    ELSE IF q = <<"commit">> THEN "closed"
                                    ELSE transaction_status
<1>1. CASE q = <<>>
  BY <1>1
     DEF TrackTransaction, DoesOpenTransaction, DoesCloseTransaction,
         DoesSwitchAutoCommitFalseTrue, IsStatementSettingAutoCommit, FirstIs
<1>2. CASE \E kind \in {"begin", "commit", "dml"} : q = <<kind>>
  <2>1. PICK kind \in {"begin", "commit", "dml"} : q = <<kind>>
    BY <1>2
  <2>2. q # <<>> /\ Head(q) = kind
    BY <2>1
  <2>3. /\ kind = "begin" <=> q = <<"begin">>
        /\ kind = "commit" <=> q = <<"commit">>
    BY <2>1
  <2>4. QED
    BY <2>2, <2>3
       DEF TrackTransaction, DoesOpenTransaction, DoesCloseTransaction,
           DoesSwitchAutoCommitFalseTrue, IsStatementSettingAutoCommit, FirstIs
<1>3. QED
  BY <1>1, <1>2 DEF ExplicitTransactions

Dropping == {"drop", "disconnect"}

(* A transaction in progress on the server is open for the wrapper too,    *)
(* except for the connection that ConnectToHost is about to drop, having   *)
(* reset the status; and what was open when the connection was lost is     *)
(* saved before that.                                                      *)
TransactionInv ==
    /\ auto_commit = TRUE /\ \A c \in Conns : server_auto[c] = TRUE
    /\ /\ wrapped_dbc # None /\ link[wrapped_dbc] \in {"connected", "broken"}
       /\ server_tx[wrapped_dbc] = TRUE
       /\ \A s \in Stmts : pc[s] \notin Dropping
       => transaction_status = "open"
    /\ \A s \in Stmts : pc[s] \in {"lost", "invalidate"} /\ search[s].lost_tx = TRUE
         => transaction_status = "open"
    /\ \A s \in Stmts : pc[s] \in SearchPcs /\ search[s].lost_tx = TRUE
         => search[s].tx = "open"

(* There is no connection at first.                                        *)
LEMMA TransactionInit == Init => TransactionInv
BY DEF Init, TransactionInv, SearchPcs

(* A step between two calls.                                               *)
LEMMA TransactionIdle ==
    ASSUME \A s \in Stmts : pc'[s] \in {"idle", "execute", "call"},
           auto_commit' = TRUE, \A c \in Conns : server_auto'[c] = TRUE,
           /\ wrapped_dbc' # None /\ link'[wrapped_dbc'] \in {"connected", "broken"}
           /\ server_tx'[wrapped_dbc'] = TRUE
           => transaction_status' = "open"
    PROVE  TransactionInv'
BY DEF TransactionInv, SearchPcs

(* The failures of the cluster and the passing of time.                    *)
LEMMA TransactionEnvironment ==
    ASSUME TypeOK, TransactionInv, Environment \/ \E s \in Stmts : Expires(s)
    PROVE  TransactionInv'
<1>1. UNCHANGED <<pc, wrapped_dbc, server_tx, server_auto, auto_commit, transaction_status>>
  BY DEF Environment, WriterFails, Promote, HostRestarts, ConnectionBreaks, Expires,
         threadVars, driverVars, txVars
<1>2. \A c \in Conns : \/ link'[c] = link[c]
                       \/ link[c] = "connected" /\ link'[c] = "broken"
  BY DEF Environment, WriterFails, Promote, HostRestarts, ConnectionBreaks, Expires,
         driverVars, TypeOK, DriverType
<1>3. \A s \in Stmts : search'[s].tx = search[s].tx /\ search'[s].lost_tx = search[s].lost_tx
  BY DEF Environment, WriterFails, Promote, HostRestarts, ConnectionBreaks, Expires,
         Locals, threadVars, TypeOK, ThreadType, Searches
<1>4. QED
  BY <1>1, <1>2, <1>3 DEF TransactionInv, TypeOK, DbcType

(* The calls of the application.                                           *)
LEMMA TransactionApplication ==
    ASSUME ExplicitTransactions, TypeOK, TransactionInv, Application
    PROVE  TransactionInv'
<1> USE DEF TypeOK
<1>1. \A s \in Stmts : pc[s] = "idle" /\ pc'[s] \in {"idle", "execute"}
  BY DEF ExplicitTransactions, Application, SQLDriverConnect, SQLDisconnect,
         AllocStmt, FreeStmt, SetAutoCommit, SQLEndTran, Execute, MayCall, Quiet,
         Goto, threadVars, ThreadType
<1>2. /\ wrapped_dbc # None /\ link[wrapped_dbc] \in {"connected", "broken"}
      /\ server_tx[wrapped_dbc] = TRUE
      => transaction_status = "open"
  BY <1>1 DEF TransactionInv, Dropping
<1>3. auto_commit = TRUE /\ \A c \in Conns : server_auto[c] = TRUE
  BY DEF TransactionInv
<1>4. ASSUME NEW h \in Hosts, SQLDriverConnect(h) PROVE TransactionInv'
  <2>1. /\ auto_commit' = TRUE /\ \A c \in Conns : server_auto'[c] = TRUE
    BY <1>3, <1>4 DEF SQLDriverConnect, Connects, TrackedAutoCommit, DriverType
  <2>2. link'[wrapped_dbc'] = "allocated" \/ server_tx'[wrapped_dbc'] = FALSE
    BY <1>4 DEF SQLDriverConnect, Connects, DriverType
  <2>3. QED
    BY <1>1, <2>1, <2>2, TransactionIdle
<1>5. CASE SQLDisconnect
  <2>1. wrapped_dbc' # None => link'[wrapped_dbc'] \notin {"connected", "broken"}
    BY <1>5 DEF SQLDisconnect, DriverType, DbcType
  <2>2. UNCHANGED <<auto_commit, server_auto>>
    BY <1>5 DEF SQLDisconnect, txVars
  <2>3. QED
    BY <1>1, <1>3, <2>1, <2>2, TransactionIdle
<1>6. CASE SQLEndTran
  <2>1. /\ server_tx'[wrapped_dbc'] = FALSE /\ UNCHANGED <<auto_commit, server_auto>>
    BY <1>6 DEF SQLEndTran, Connected, DriverType, DbcType
  <2>2. QED
    BY <1>1, <1>3, <2>1, TransactionIdle
<1>7. CASE ~(\E h \in Hosts : SQLDriverConnect(h)) /\ ~SQLDisconnect /\ ~SQLEndTran
  <2>1. UNCHANGED <<auto_commit, server_auto, server_tx, wrapped_dbc, link,
                    transaction_status>>
    BY <1>7
       DEF ExplicitTransactions, Application, AllocStmt, FreeStmt, SetAutoCommit,
           Execute, driverVars, txVars
  <2>2. QED
    BY <1>1, <1>2, <1>3, <2>1, TransactionIdle
<1>8. QED
  BY <1>4, <1>5, <1>6, <1>7

(* Executing a statement: the tracking keeps step with the server.         *)
LEMMA TransactionStatement ==
    ASSUME ExplicitTransactions, TypeOK, HandleInv, TransactionInv,
           NEW s \in Stmts, Statement(s)
    PROVE  TransactionInv'
<1> USE DEF TypeOK
<1>1. /\ pc[s] \in {"execute", "call"}
      /\ \A t \in Stmts \ {s} : pc[t] = "idle"
  BY DEF Statement, ReallocStatement, NoConnection, StatementSucceeds,
         StatementFails, NetworkError, HandleInv
<1>2. /\ wrapped_dbc # None /\ link[wrapped_dbc] \in {"connected", "broken"}
      /\ server_tx[wrapped_dbc] = TRUE
      => transaction_status = "open"
  BY <1>1 DEF TransactionInv, Dropping
<1>3. auto_commit = TRUE /\ \A c \in Conns : server_auto[c] = TRUE
  BY DEF TransactionInv
<1>4. CASE ReallocStatement(s) \/ NoConnection(s) \/ StatementFails(s)
  <2>1. \A t \in Stmts : pc'[t] \in {"idle", "call"}
    BY <1>1, <1>4
       DEF ReallocStatement, NoConnection, StatementFails, Goto, Return, ThreadType
  <2>2. UNCHANGED <<auto_commit, server_auto, server_tx, wrapped_dbc, link,
                    transaction_status>>
    BY <1>4 DEF ReallocStatement, NoConnection, StatementFails, driverVars, txVars
  <2>3. QED
    BY <1>2, <1>3, <2>1, <2>2, TransactionIdle
<1>5. CASE StatementSucceeds(s)
  <2> DEFINE q == query[s]
  <2>1. wrapped_stmt[s] = wrapped_dbc /\ wrapped_dbc \in Conns /\ wrapped_dbc # None
    BY <1>5 DEF StatementSucceeds, HandleInv, StatementsOnOpenConnection, StmtType
  <2>2. /\ server_tx' = [server_tx EXCEPT ![wrapped_dbc] = After(wrapped_dbc, q).tx]
        /\ server_auto' = [server_auto EXCEPT ![wrapped_dbc] = After(wrapped_dbc, q).auto]
        /\ UNCHANGED <<wrapped_dbc, link>> /\ TrackTransaction(q)
        /\ link[wrapped_dbc] = "connected"
    BY <1>5, <2>1 DEF StatementSucceeds
  <2>3. /\ After(wrapped_dbc, q).auto = TRUE
        /\ After(wrapped_dbc, q).tx = IF q = <<"begin">> THEN TRUE
                                      ELSE IF q = <<"commit">> THEN FALSE
                                      ELSE server_tx[wrapped_dbc]
    BY <1>3, <2>1, ExplicitEffect DEF ThreadType, DriverType
  <2>4. /\ auto_commit' = auto_commit
        /\ transaction_status' = IF q = <<"begin">> THEN "open"
                                 ELSE IF q = <<"commit">> THEN "closed"
                                 ELSE transaction_status
    BY <2>2, ExplicitTracked DEF ThreadType
  <2>5. \A t \in Stmts : pc'[t] = "idle"
    BY <1>1, <1>5 DEF StatementSucceeds, Goto, Return, ThreadType
  <2> HIDE DEF q
  <2>6. server_tx'[wrapped_dbc'] = TRUE => transaction_status' = "open"
    BY <1>2, <2>1, <2>2, <2>3, <2>4 DEF DriverType
  <2>7. \A c \in Conns : server_auto'[c] = TRUE
    BY <1>3, <2>2, <2>3
  <2>8. QED
    BY <1>3, <2>4, <2>5, <2>6, <2>7, TransactionIdle
<1>6. CASE NetworkError(s)
  <2>1. /\ wrapped_stmt[s] = wrapped_dbc /\ wrapped_dbc \in Conns /\ wrapped_dbc # None
        /\ link[wrapped_dbc] = "broken"
    BY <1>6 DEF NetworkError, HandleInv, StatementsOnOpenConnection, StmtType
  <2>2. /\ search' = [search EXCEPT ![s].lost_tx = server_tx[wrapped_dbc]]
        /\ pc' = [pc EXCEPT ![s] = "lost"]
        /\ UNCHANGED <<auto_commit, server_auto, server_tx, wrapped_dbc, link,
                       transaction_status>>
    BY <1>6, <2>1 DEF NetworkError, Goto, driverVars, txVars
  <2>3. search'[s].lost_tx = server_tx[wrapped_dbc]
    BY <2>2 DEF ThreadType
  <2>4. pc'[s] = "lost" /\ \A t \in Stmts \ {s} : pc'[t] = "idle"
    BY <1>1, <2>2 DEF ThreadType
  <2>5. QED
    BY <1>2, <2>1, <2>2, <2>3, <2>4 DEF TransactionInv, SearchPcs
<1>7. QED
  BY <1>4, <1>5, <1>6 DEF Statement

(* The visits: the first saves the status, the second drops the            *)
(* connection.                                                             *)
LEMMA TransactionVisiting ==
    ASSUME TypeOK, HandleInv, TransactionInv, NEW s \in Stmts, Visiting(s)
    PROVE  TransactionInv'
<1> USE DEF TypeOK
<1>1. UNCHANGED <<auto_commit, server_auto, server_tx, transaction_status>>
  BY DEF Visiting, VisitBegins, Invalidate, DropStatement, Report, Visit,
         InvalidateEnds, DropEnds, ReportEnds, driverVars, txVars
<1>2. CASE VisitBegins(s)
  <2>1. /\ pc[s] \in DOMAIN Visits /\ pc' = [pc EXCEPT ![s] = Visits[pc[s]]]
        /\ UNCHANGED <<wrapped_dbc, link, search>>
    BY <1>2 DEF VisitBegins, Goto, driverVars
  <2>2. QED
    BY <1>1, <2>1 DEF Visits, TransactionInv, SearchPcs, Dropping
<1>3. ASSUME NEW u \in Stmts, Visit(s, u) PROVE TransactionInv'
  BY <1>1, <1>3 DEF Visit, TransactionInv, driverVars
<1>4. CASE InvalidateEnds(s)
  <2>1. /\ pc[s] = "invalidate" /\ pc' = [pc EXCEPT ![s] = "refresh"]
        /\ search' = [search EXCEPT ![s].tx = transaction_status]
        /\ UNCHANGED <<wrapped_dbc, link>>
    BY <1>4 DEF InvalidateEnds, Goto, driverVars
  <2>2. /\ search'[s].tx = transaction_status /\ search'[s].lost_tx = search[s].lost_tx
        /\ \A t \in Stmts \ {s} : search'[t] = search[t]
    BY <2>1 DEF ThreadType
  <2>3. QED
    BY <1>1, <2>1, <2>2 DEF TransactionInv, Dropping
<1>5. CASE DropEnds(s)
  <2>1. /\ wrapped_dbc' = None /\ pc[s] = "disconnect"
        /\ \/ pc' = [pc EXCEPT ![s] = "idle"]
           \/ search' = search /\ \E l \in {"connect", "readers", "round_end"} :
                                    pc' = [pc EXCEPT ![s] = l]
    BY <1>5 DEF DropEnds, Goto, Return, ThreadType, Searches
  <2>2. \A t \in Stmts \ {s} : pc[t] = "idle"
    BY <2>1 DEF HandleInv
  <2>3. QED
    BY <1>1, <2>1, <2>2 DEF TransactionInv, ThreadType, SearchPcs
<1>6. CASE ReportEnds(s)
  <2>1. /\ pc[s] = "report" /\ pc' = [pc EXCEPT ![s] = "idle"]
        /\ UNCHANGED <<wrapped_dbc, link>>
    BY <1>6 DEF ReportEnds, Return, Goto, driverVars
  <2>2. \A t \in Stmts : pc'[t] = "idle" /\ pc[t] \notin Dropping
    BY <2>1 DEF HandleInv, ThreadType, Dropping
  <2>3. QED
    BY <1>1, <2>1, <2>2, TransactionIdle DEF TransactionInv
<1>7. QED
  BY <1>2, <1>3, <1>4, <1>5, <1>6 DEF Visiting, Invalidate, DropStatement, Report

(* The search: the status is reset only when the connection is to be       *)
(* dropped, and a new connection has no transaction.                       *)
LEMMA TransactionSearching ==
    ASSUME TypeOK, HandleInv, TransactionInv, NEW s \in Stmts, Searching(s)
    PROVE  TransactionInv'
<1> USE DEF TypeOK
<1>1. /\ pc[s] \in SearchPcs
      /\ \E l \in SearchPcs \cup {"idle"} : pc' = [pc EXCEPT ![s] = l]
  BY DEF Searching, RefreshForWriter, RefreshForReader, TryReader,
         TryOriginalWriter, RoundEnds, NextRound, GiveUp, AllocWrappedDbc,
         HostConnects, HostRefuses, NodeIdFound, NodeIdMissing, RoleAccepted,
         RoleRejected, AfterFailure, ConnectToHost, DropThen, Goto, Return,
         SearchPcs
<1>2. \A t \in Stmts \ {s} : pc[t] = "idle" /\ pc'[t] = "idle"
  BY <1>1 DEF HandleInv, SearchPcs
<1>3. pc'[s] \in SearchPcs \cup {"idle"} /\ pc'[s] \notin {"lost", "invalidate"}
  BY <1>1 DEF SearchPcs
<1>4. pc'[s] \in SearchPcs /\ search'[s].lost_tx = TRUE => search'[s].tx = "open"
  BY <1>1, SearchSaves DEF Saved, TransactionInv, SearchPcs
<1>5. auto_commit' = TRUE /\ \A c \in Conns : server_auto'[c] = TRUE
  <2>1. CASE HostConnects(s)
    BY <2>1 DEF HostConnects, Connects, TrackedAutoCommit, TransactionInv
  <2>2. CASE ~HostConnects(s)
    BY <2>2
       DEF Searching, RefreshForWriter, RefreshForReader, TryReader,
           TryOriginalWriter, RoundEnds, NextRound, GiveUp, AllocWrappedDbc,
           HostRefuses, NodeIdFound, NodeIdMissing, RoleAccepted, RoleRejected,
           driverVars, txVars, TransactionInv
  <2>3. QED
    BY <2>1, <2>2
<1>6. ASSUME wrapped_dbc' # None, link'[wrapped_dbc'] \in {"connected", "broken"},
             server_tx'[wrapped_dbc'] = TRUE, pc'[s] \notin Dropping
      PROVE  transaction_status' = "open"
  <2>1. CASE AllocWrappedDbc(s) /\ wrapped_dbc = None
    BY <1>6, <2>1 DEF AllocWrappedDbc, DriverType
  <2>2. CASE HostConnects(s)
    BY <1>6, <2>2 DEF HostConnects, Connects, DriverType
  <2>3. CASE ~HostConnects(s) /\ ~(AllocWrappedDbc(s) /\ wrapped_dbc = None)
    <3>1. UNCHANGED <<wrapped_dbc, link, server_tx, transaction_status>>
      BY <1>6, <2>3
         DEF Searching, RefreshForWriter, RefreshForReader, TryReader,
             TryOriginalWriter, RoundEnds, NextRound, GiveUp, AllocWrappedDbc,
             HostRefuses, NodeIdFound, NodeIdMissing, RoleAccepted, RoleRejected,
             ConnectToHost, DropThen, Goto, Dropping, driverVars, txVars, ThreadType
    <3>2. pc[s] \notin Dropping
      BY <2>3
         DEF Searching, RefreshForWriter, RefreshForReader, TryReader,
             TryOriginalWriter, RoundEnds, NextRound, GiveUp, AllocWrappedDbc,
             HostRefuses, NodeIdFound, NodeIdMissing, RoleAccepted, RoleRejected,
             Dropping
    <3>3. QED
      BY <1>2, <1>6, <3>1, <3>2 DEF TransactionInv, Dropping
  <2>4. QED
    BY <2>1, <2>2, <2>3
<1>7. QED
  BY <1>2, <1>3, <1>4, <1>5, <1>6 DEF TransactionInv, SearchPcs

(* Every step keeps the invariant.                                         *)
LEMMA TransactionStep ==
    ASSUME ExplicitTransactions, TypeOK, HandleInv, TransactionInv, [Next]_vars
    PROVE  TransactionInv'
<1>1. CASE UNCHANGED vars
  BY <1>1 DEF vars, driverVars, txVars, threadVars, TransactionInv
<1>2. ASSUME NEW s \in Stmts, Thread(s) PROVE TransactionInv'
  BY <1>2, TransactionStatement, TransactionVisiting, TransactionSearching
     DEF Thread
<1>3. QED
  BY <1>1, <1>2, TransactionEnvironment, TransactionApplication DEF Next

(* An application that begins and ends its transactions explicitly, with   *)
(* one statement per query, is told that the outcome is unknown whenever   *)
(* the connection was lost with a transaction in progress.                 *)
THEOREM LossReported ==
    ASSUME ExplicitTransactions PROVE Spec => []TransactionLossReported
<1>1. Init => LockInv /\ HandleInv /\ TransactionInv
  BY FailoverAssumption, LockInit, HandleInit, TransactionInit
<1>2. TypeOK /\ LockInv /\ HandleInv /\ TransactionInv /\ [Next]_vars
        => LockInv' /\ HandleInv' /\ TransactionInv'
  BY FailoverAssumption, LockStep, HandleStep, TransactionStep
     DEF ExplicitTransactions
<1>3. TransactionInv /\ TypeOK => TransactionLossReported
  BY DEF TransactionInv, TransactionLossReported, FailoverCode, SearchPcs
<1>4. QED
  BY TypeCorrect, <1>1, <1>2, <1>3, PTL DEF Spec

-----------------------------------------------------------------------------
(* The reports.                                                            *)

FailedCode == "failover_failed"

(* What the visits of a failover have left on the statements: the report   *)
(* of a failure on those the first visit has come to, the final report on  *)
(* those the last one has; and where the connection is meanwhile.          *)
ReportInv ==
    /\ \A u \in Stmts \ stmt_list : err[u] = "none"
    /\ \A s \in Stmts : pc[s] = "invalidate" =>
         \A u \in stmt_list \ todo[s] : err[u] = FailedCode
    /\ \A s \in Stmts : pc[s] \in SearchPcs \ {"report"} =>
         \A u \in stmt_list : err[u] = FailedCode
    /\ \A s \in Stmts : pc[s] = "report" =>
         \A u \in stmt_list \ todo[s] : err[u] = FailoverCode(s)
    /\ \A s \in Stmts : pc[s] \in {"node_id", "role", "won", "report"} =>
         /\ wrapped_dbc # None
         /\ link[wrapped_dbc] \in {"connected", "broken"}
         /\ at[wrapped_dbc] \in Hosts

(* There is no statement and no report at first.                           *)
LEMMA ReportInit == Init => ReportInv
BY DEF Init, ReportInv, SearchPcs

(* A step between two calls, which leaves no report on a statement that    *)
(* is not allocated, keeps the invariant.                                  *)
LEMMA ReportIdle ==
    ASSUME \A s \in Stmts : pc'[s] \in {"idle", "execute", "call", "lost"},
           \A u \in Stmts \ stmt_list' : err'[u] = "none"
    PROVE  ReportInv'
BY DEF ReportInv, SearchPcs

(* The failures of the cluster and the passing of time.                    *)
LEMMA ReportEnvironment ==
    ASSUME TypeOK, ReportInv, Environment \/ \E s \in Stmts : Expires(s)
    PROVE  ReportInv'
<1>1. UNCHANGED <<pc, todo, stmt_list, err, wrapped_dbc, at>>
  BY DEF Environment, WriterFails, Promote, HostRestarts, ConnectionBreaks, Expires,
     stmtVars, threadVars, driverVars
<1>2. \A c \in Conns : \/ link'[c] = link[c]
                       \/ link[c] = "connected" /\ link'[c] = "broken"
  BY DEF Environment, WriterFails, Promote, HostRestarts, ConnectionBreaks, Expires,
     driverVars, TypeOK, DriverType
<1>3. \A s \in Stmts : search'[s].tx = search[s].tx
  BY DEF Environment, WriterFails, Promote, HostRestarts, ConnectionBreaks, Expires,
     Locals, threadVars, TypeOK, ThreadType, Searches
<1>4. QED
  BY <1>1, <1>2, <1>3 DEF ReportInv, FailoverCode, TypeOK, DbcType

(* The calls of the application: no failover is under way.                 *)
LEMMA ReportApplication ==
    ASSUME MultiThreaded = FALSE, TypeOK, ReportInv, Application
    PROVE  ReportInv'
<1>1. \A s \in Stmts : pc'[s] \in {"idle", "execute"}
  BY DEF Application, SQLDriverConnect, SQLDisconnect, AllocStmt, FreeStmt,
     SetAutoCommit, SQLEndTran, Execute, MayCall, Quiet, Goto, threadVars, TypeOK,
     ThreadType
<1>2. \A u \in Stmts \ stmt_list' : err'[u] = "none"
  BY DEF Application, SQLDriverConnect, SQLDisconnect, AllocStmt, FreeStmt,
     SetAutoCommit, SQLEndTran, Execute, stmtVars, ReportInv, TypeOK, StmtType
<1>3. QED
  BY <1>1, <1>2, ReportIdle

(* Executing a statement, up to the loss of the connection.                *)
LEMMA ReportStatement ==
    ASSUME TypeOK, HandleInv, ReportInv, NEW s \in Stmts, Statement(s)
    PROVE  ReportInv'
<1>1. /\ pc[s] \in {"execute", "call"}
      /\ \E l \in {"idle", "call", "lost"} : pc' = [pc EXCEPT ![s] = l]
  BY DEF Statement, ReallocStatement, NoConnection, StatementSucceeds,
         StatementFails, 
     NetworkError, Goto, Return
<1>2. \A t \in Stmts : pc'[t] \in {"idle", "execute", "call", "lost"}
  BY <1>1 DEF HandleInv, TypeOK, ThreadType
<1>3. /\ stmt_list' = stmt_list
      /\ err' = err \/ err' = [err EXCEPT ![s] = "underlying_handle_null"]
  BY DEF Statement, ReallocStatement, NoConnection, StatementSucceeds,
         StatementFails, 
     NetworkError, stmtVars
<1>4. \A u \in Stmts \ stmt_list' : err'[u] = "none"
  BY <1>1, <1>3 DEF HandleInv, ReportInv, TypeOK, StmtType
<1>5. QED
  BY <1>2, <1>4, ReportIdle

(* The visits.                                                             *)
LEMMA ReportVisiting ==
    ASSUME TypeOK, LockInv, HandleInv, ReportInv, NEW s \in Stmts, Visiting(s)
    PROVE  ReportInv'
<1> USE DEF TypeOK, SearchPcs, FailedCode
<1>1. CASE VisitBegins(s)
  <2>1. /\ pc[s] \in DOMAIN Visits /\ pc' = [pc EXCEPT ![s] = Visits[pc[s]]]
        /\ todo' = [todo EXCEPT ![s] = stmt_list]
        /\ UNCHANGED <<stmt_list, err, search, wrapped_dbc, link, at>>
    BY <1>1 DEF VisitBegins, VisitList, Goto, stmtVars, driverVars
  <2>2. QED
    BY <2>1 DEF Visits, ReportInv, HandleInv, ThreadType, FailoverCode
<1>2. ASSUME NEW u \in Stmts, Invalidate(s, u) \/ DropStatement(s, u) \/ Report(s, u)
      PROVE  ReportInv'
  <2>1. /\ u \in todo[s] /\ u \in stmt_list
        /\ todo' = [todo EXCEPT ![s] = @ \ {u}]
        /\ UNCHANGED <<pc, stmt_list, search, wrapped_dbc, link, at>>
    BY <1>2 DEF Invalidate, DropStatement, Report, Visit, driverVars, LockInv,
       VisitedStatementsExist
  <2>2. CASE pc[s] = "invalidate" /\ err' = [err EXCEPT ![u] = FailedCode]
    BY <2>1, <2>2 DEF ReportInv, HandleInv, ThreadType, StmtType
  <2>3. CASE pc[s] = "disconnect" /\ err' = err
    BY <2>1, <2>3 DEF ReportInv, HandleInv, ThreadType
  <2>4. CASE pc[s] = "report" /\ err' = [err EXCEPT ![u] = FailoverCode(s)]
    BY <2>1, <2>4 DEF ReportInv, HandleInv, ThreadType, StmtType, FailoverCode
  <2>5. QED
    BY <1>2, <2>2, <2>3, <2>4 DEF Invalidate, DropStatement, Report
<1>3. CASE InvalidateEnds(s)
  <2>1. /\ pc[s] = "invalidate" /\ todo[s] = {} /\ pc' = [pc EXCEPT ![s] = "refresh"]
        /\ UNCHANGED <<stmt_list, err>>
    BY <1>3 DEF InvalidateEnds, Goto, stmtVars
  <2>2. QED
    BY <2>1 DEF ReportInv, HandleInv, ThreadType
<1>4. CASE DropEnds(s)
  <2>1. /\ \E l \in {"idle", "connect", "readers", "round_end"} :
              pc' = [pc EXCEPT ![s] = l]
        /\ pc[s] = "disconnect" /\ UNCHANGED <<stmt_list, err>>
    BY <1>4 DEF DropEnds, Goto, Return, stmtVars, ThreadType, Searches
  <2>2. QED
    BY <2>1 DEF ReportInv, HandleInv, ThreadType
<1>5. CASE ReportEnds(s)
  <2>1. /\ pc' = [pc EXCEPT ![s] = "idle"] /\ pc[s] = "report"
        /\ UNCHANGED <<stmt_list, err>>
    BY <1>5 DEF ReportEnds, Return, Goto, stmtVars
  <2>2. QED
    BY <2>1 DEF ReportInv, HandleInv, ThreadType
<1>6. QED
  BY <1>1, <1>2, <1>3, <1>4, <1>5 DEF Visiting

(* The search: no report changes, and the connection is on a host from the *)
(* moment it is made.                                                      *)
LEMMA ReportSearching ==
    ASSUME TypeOK, HandleInv, ReportInv, NEW s \in Stmts, Searching(s)
    PROVE  ReportInv'
<1> USE DEF TypeOK, SearchPcs
<1>1. /\ pc[s] \in SearchPcs \ {"report"}
      /\ \E l \in (SearchPcs \ {"report"}) \cup {"idle"} : pc' = [pc EXCEPT ![s] = l]
  BY DEF Searching, RefreshForWriter, RefreshForReader, TryReader,
         TryOriginalWriter, 
     RoundEnds, NextRound, GiveUp, AllocWrappedDbc, HostConnects, HostRefuses,
     NodeIdFound, NodeIdMissing, RoleAccepted, RoleRejected, AfterFailure,
     ConnectToHost, DropThen, Goto, Return
<1>2. UNCHANGED <<stmt_list, err, todo>>
  BY DEF Searching, RefreshForWriter, RefreshForReader, TryReader,
         TryOriginalWriter, 
     RoundEnds, NextRound, GiveUp, AllocWrappedDbc, HostConnects, HostRefuses,
     NodeIdFound, NodeIdMissing, RoleAccepted, RoleRejected, stmtVars
<1>3. pc'[s] \in {"node_id", "role", "won"} =>
         /\ wrapped_dbc' # None
         /\ link'[wrapped_dbc'] \in {"connected", "broken"}
         /\ at'[wrapped_dbc'] \in Hosts
  <2>1. CASE HostConnects(s)
    BY <2>1 DEF HostConnects, Connects, ClusterType, DriverType, DbcType
  <2>2. CASE NodeIdFound(s) \/ RoleAccepted(s)
    BY <2>2 DEF NodeIdFound, RoleAccepted, driverVars, ReportInv
  <2>3. CASE ~HostConnects(s) /\ ~NodeIdFound(s) /\ ~RoleAccepted(s)
    BY <2>3 DEF Searching, RefreshForWriter, RefreshForReader, TryReader,
       TryOriginalWriter, RoundEnds, NextRound, GiveUp, AllocWrappedDbc, HostRefuses,
       NodeIdMissing, RoleRejected, AfterFailure, ConnectToHost, DropThen, Goto,
       Return, ThreadType
  <2>4. QED
    BY <2>1, <2>2, <2>3
<1>4. QED
  BY <1>1, <1>2, <1>3 DEF ReportInv, HandleInv, ThreadType

(* Every step keeps the invariant.                                         *)
LEMMA ReportStep ==
    ASSUME MultiThreaded = FALSE, TypeOK, LockInv, HandleInv, ReportInv, [Next]_vars
    PROVE  ReportInv'
<1>1. CASE UNCHANGED vars
  BY <1>1 DEF vars, driverVars, stmtVars, threadVars, ReportInv, FailoverCode
<1>2. ASSUME NEW s \in Stmts, Thread(s) PROVE ReportInv'
  BY <1>2, ReportStatement, ReportVisiting, ReportSearching DEF Thread
<1>3. QED
  BY <1>1, <1>2, ReportEnvironment, ReportApplication DEF Next

-----------------------------------------------------------------------------
(* The host of a completed failover.                                       *)

(* The connection is on the host the search asked for, until that one is   *)
(* accepted, and then on the current host.                                 *)
PlaceInv ==
    /\ \A s \in Stmts : pc[s] \in {"node_id", "role"} => at[wrapped_dbc] = search[s].host
    /\ \A s \in Stmts : pc[s] \in {"won", "report"} => at[wrapped_dbc] = current_host
    /\ ReportedHostIsCurrent

(* There is no report at first.                                            *)
LEMMA PlaceInit == Init => PlaceInv
BY DEF Init, PlaceInv, ReportedHostIsCurrent

Reports == {"failover_success", "failover_unknown_transaction"}

(* A step outside the search that leaves the connection of a report alone  *)
(* and adds no report.                                                     *)
LEMMA PlaceOutside ==
    ASSUME PlaceInv,
           \A s \in Stmts : pc'[s] \notin {"node_id", "role", "won", "report"},
           \A s \in Stmts : err'[s] \in Reports =>
               /\ err[s] \in Reports
               /\ UNCHANGED <<wrapped_dbc, current_host>>
               /\ link'[wrapped_dbc] \in {"connected", "broken"}
               /\ at'[wrapped_dbc] = at[wrapped_dbc]
    PROVE  PlaceInv'
BY DEF PlaceInv, ReportedHostIsCurrent, Reports

(* The failures of the cluster and the passing of time.                    *)
LEMMA PlaceEnvironment ==
    ASSUME TypeOK, PlaceInv, Environment \/ \E s \in Stmts : Expires(s)
    PROVE  PlaceInv'
<1>1. UNCHANGED <<pc, err, wrapped_dbc, at, current_host>>
  BY DEF Environment, WriterFails, Promote, HostRestarts, ConnectionBreaks, Expires,
         stmtVars, threadVars, driverVars, hostVars
<1>2. \A c \in Conns : \/ link'[c] = link[c]
                       \/ link[c] = "connected" /\ link'[c] = "broken"
  BY DEF Environment, WriterFails, Promote, HostRestarts, ConnectionBreaks, Expires,
         driverVars, TypeOK, DriverType
<1>3. \A s \in Stmts : search'[s].host = search[s].host
  BY DEF Environment, WriterFails, Promote, HostRestarts, ConnectionBreaks, Expires,
         Locals, threadVars, TypeOK, ThreadType, Searches
<1>4. QED
  BY <1>1, <1>2, <1>3 DEF PlaceInv, ReportedHostIsCurrent, TypeOK, DbcType

(* The calls of the application: it connects again only after it has       *)
(* disconnected, which frees the statements with their reports.            *)
LEMMA PlaceApplication ==
    ASSUME MultiThreaded = FALSE, TypeOK, HandleInv, PlaceInv, Application
    PROVE  PlaceInv'
<1>1. \A s \in Stmts : pc'[s] \in {"idle", "execute"}
  BY DEF Application, SQLDriverConnect, SQLDisconnect, AllocStmt, FreeStmt,
         SetAutoCommit, SQLEndTran, Execute, MayCall, Quiet, Goto, threadVars,
         TypeOK, ThreadType
<1>2. CASE \E h \in Hosts : SQLDriverConnect(h)
  <2>1. \A s \in Stmts : err[s] \notin Reports
    BY <1>2
       DEF SQLDriverConnect, HandleInv, PlaceInv, ReportedHostIsCurrent, Reports
  <2>2. err' = err
    BY <1>2 DEF SQLDriverConnect, stmtVars
  <2>3. QED
    BY <1>1, <2>1, <2>2, PlaceOutside
<1>3. CASE SQLDisconnect
  BY <1>1, <1>3, PlaceOutside DEF SQLDisconnect, Reports
<1>4. CASE ~SQLDisconnect /\ ~\E h \in Hosts : SQLDriverConnect(h)
  <2>1. UNCHANGED <<wrapped_dbc, current_host, link, at>>
    BY <1>4
       DEF Application, AllocStmt, FreeStmt, SetAutoCommit, SQLEndTran, Execute,
           hostVars, driverVars
  <2>2. \A s \in Stmts : err'[s] = err[s] \/ err'[s] = "none"
    BY <1>4
       DEF Application, AllocStmt, FreeStmt, SetAutoCommit, SQLEndTran, Execute,
           stmtVars, TypeOK, StmtType
  <2>3. \A s \in Stmts : err[s] \in Reports => link[wrapped_dbc] \in {"connected", "broken"}
    BY DEF PlaceInv, ReportedHostIsCurrent, Reports
  <2>4. QED
    BY <1>1, <2>1, <2>2, <2>3, PlaceOutside DEF Reports
<1>5. QED
  BY <1>2, <1>3, <1>4

(* Executing a statement, up to the loss of the connection.                *)
LEMMA PlaceStatement ==
    ASSUME TypeOK, HandleInv, PlaceInv, NEW s \in Stmts, Statement(s)
    PROVE  PlaceInv'
<1>1. /\ pc[s] \in {"execute", "call"}
      /\ \E l \in {"idle", "call", "lost"} : pc' = [pc EXCEPT ![s] = l]
  BY DEF Statement, ReallocStatement, NoConnection, StatementSucceeds,
         StatementFails, NetworkError, Goto, Return
<1>2. \A t \in Stmts : pc'[t] \in {"idle", "call", "lost"}
  BY <1>1 DEF HandleInv, TypeOK, ThreadType
<1>3. UNCHANGED <<wrapped_dbc, current_host, link, at>>
  BY DEF Statement, ReallocStatement, NoConnection, StatementSucceeds,
         StatementFails, NetworkError, driverVars, hostVars
<1>4. \A t \in Stmts : err'[t] = err[t] \/ err'[t] = "underlying_handle_null"
  BY DEF Statement, ReallocStatement, NoConnection, StatementSucceeds,
         StatementFails, NetworkError, stmtVars, TypeOK, StmtType
<1>5. \A t \in Stmts : err[t] \in Reports => link[wrapped_dbc] \in {"connected", "broken"}
  BY DEF PlaceInv, ReportedHostIsCurrent, Reports
<1>6. QED
  BY <1>2, <1>3, <1>4, <1>5, PlaceOutside DEF Reports

(* The visits: a report is made on the host that was accepted.             *)
LEMMA PlaceVisiting ==
    ASSUME TypeOK, HandleInv, ReportInv, PlaceInv, NEW s \in Stmts, Visiting(s)
    PROVE  PlaceInv'
<1> USE DEF TypeOK
<1>1. CASE VisitBegins(s)
  <2>1. /\ pc[s] \in DOMAIN Visits /\ pc' = [pc EXCEPT ![s] = Visits[pc[s]]]
        /\ UNCHANGED <<err, wrapped_dbc, link, at, current_host, search>>
    BY <1>1 DEF VisitBegins, Goto, stmtVars, driverVars, hostVars
  <2>2. QED
    BY <2>1 DEF Visits, PlaceInv, ReportedHostIsCurrent
<1>2. ASSUME NEW u \in Stmts, Invalidate(s, u) \/ DropStatement(s, u) \/ Report(s, u)
      PROVE  PlaceInv'
  <2>1. UNCHANGED <<pc, wrapped_dbc, link, at, current_host, search>>
    BY <1>2 DEF Invalidate, DropStatement, Report, Visit, driverVars, hostVars
  <2>2. CASE pc[s] = "report"
    BY <2>1, <2>2 DEF PlaceInv, ReportInv, ReportedHostIsCurrent
  <2>3. CASE pc[s] # "report"
    <3>1. \A t \in Stmts : err'[t] = err[t] \/ err'[t] = FailedCode
      BY <1>2, <2>3 DEF Invalidate, DropStatement, Report, StmtType, FailedCode
    <3>2. QED
      BY <2>1, <3>1 DEF PlaceInv, ReportedHostIsCurrent, FailedCode
  <2>4. QED
    BY <2>2, <2>3
<1>3. CASE InvalidateEnds(s) \/ ReportEnds(s)
  <2>1. /\ pc[s] \in {"invalidate", "report"}
        /\ \E l \in {"idle", "refresh"} : pc' = [pc EXCEPT ![s] = l]
    BY <1>3 DEF InvalidateEnds, ReportEnds, Return, Goto
  <2>2. \A t \in Stmts : pc'[t] \in {"idle", "refresh"}
    BY <2>1 DEF HandleInv, ThreadType
  <2>3. UNCHANGED <<err, wrapped_dbc, link, at, current_host>>
    BY <1>3 DEF InvalidateEnds, ReportEnds, stmtVars, driverVars, hostVars
  <2>4. QED
    BY <2>2, <2>3 DEF PlaceInv, ReportedHostIsCurrent
<1>4. CASE DropEnds(s)
  <2>1. /\ pc[s] = "disconnect"
        /\ \E l \in {"idle", "connect", "readers", "round_end"} :
             pc' = [pc EXCEPT ![s] = l]
    BY <1>4 DEF DropEnds, Goto, Return, ThreadType, Searches
  <2>2. \A t \in Stmts : pc'[t] \in {"idle", "connect", "readers", "round_end"}
    BY <2>1 DEF HandleInv, ThreadType
  <2>3. \A t \in Stmts : err'[t] \notin Reports
    BY <1>4 DEF DropEnds, stmtVars, ReportInv, SearchPcs, FailedCode, Reports
  <2>4. QED
    BY <2>2, <2>3, PlaceOutside
<1>5. QED
  BY <1>1, <1>2, <1>3, <1>4 DEF Visiting

(* The search: there is no report, and the host that is reached is the one *)
(* that was asked for.                                                     *)
LEMMA PlaceSearching ==
    ASSUME TypeOK, HandleInv, ReportInv, PlaceInv, NEW s \in Stmts, Searching(s)
    PROVE  PlaceInv'
<1> USE DEF TypeOK
<1>1. /\ pc[s] \in SearchPcs \ {"report"}
      /\ \E l \in (SearchPcs \ {"report"}) \cup {"idle"} : pc' = [pc EXCEPT ![s] = l]
  BY DEF Searching, RefreshForWriter, RefreshForReader, TryReader,
         TryOriginalWriter, RoundEnds, NextRound, GiveUp, AllocWrappedDbc,
         HostConnects, HostRefuses, NodeIdFound, NodeIdMissing, RoleAccepted,
         RoleRejected, AfterFailure, ConnectToHost, DropThen, Goto, Return,
         SearchPcs
<1>2. err' = err
  BY DEF Searching, RefreshForWriter, RefreshForReader, TryReader,
         TryOriginalWriter, RoundEnds, NextRound, GiveUp, AllocWrappedDbc,
         HostConnects, HostRefuses, NodeIdFound, NodeIdMissing, RoleAccepted,
         RoleRejected, stmtVars
<1>3. \A t \in Stmts : err'[t] \notin Reports
  BY <1>1, <1>2 DEF ReportInv, FailedCode, Reports
<1>4. \A t \in Stmts \ {s} : pc'[t] = "idle"
  BY <1>1 DEF HandleInv, SearchPcs
<1>5. CASE HostConnects(s)
  BY <1>3, <1>4, <1>5
     DEF HostConnects, Connects, Goto, PlaceInv, ReportedHostIsCurrent, Reports,
         DriverType, DbcType
<1>6. CASE NodeIdFound(s)
  BY <1>3, <1>4, <1>6
     DEF NodeIdFound, driverVars, Goto, PlaceInv, ReportedHostIsCurrent, Reports
<1>7. CASE RoleAccepted(s)
  BY <1>3, <1>4, <1>7
     DEF RoleAccepted, SetCurrentHostInfo, driverVars, Goto, PlaceInv,
         ReportedHostIsCurrent, Reports, ThreadType
<1>8. CASE ~HostConnects(s) /\ ~NodeIdFound(s) /\ ~RoleAccepted(s)
  <2>1. pc'[s] \notin {"node_id", "role", "won", "report"}
    BY <1>8
       DEF Searching, RefreshForWriter, RefreshForReader, TryReader,
           TryOriginalWriter, RoundEnds, NextRound, GiveUp, AllocWrappedDbc,
           HostRefuses, NodeIdMissing, RoleRejected, AfterFailure, ConnectToHost,
           DropThen, Goto, Return, ThreadType
  <2>2. QED
    BY <1>3, <1>4, <2>1, PlaceOutside
<1>9. QED
  BY <1>5, <1>6, <1>7, <1>8

(* Every step keeps the invariant.                                         *)
LEMMA PlaceStep ==
    ASSUME MultiThreaded = FALSE, TypeOK, HandleInv, ReportInv, PlaceInv, [Next]_vars
    PROVE  PlaceInv'
<1>1. CASE UNCHANGED vars
  BY <1>1
     DEF vars, driverVars, stmtVars, threadVars, hostVars, PlaceInv,
         ReportedHostIsCurrent
<1>2. ASSUME NEW s \in Stmts, Thread(s) PROVE PlaceInv'
  BY <1>2, PlaceStatement, PlaceVisiting, PlaceSearching DEF Thread
<1>3. QED
  BY <1>1, <1>2, PlaceEnvironment, PlaceApplication DEF Next

(* In a single-threaded application, as long as a statement bears the      *)
(* report of a completed failover, the connection is there and on the host *)
(* that the plugin service takes for the current one.                      *)
THEOREM ReportedHostCorrect ==
    ASSUME MultiThreaded = FALSE PROVE Spec => []ReportedHostIsCurrent
<1>1. Init => LockInv /\ HandleInv /\ ReportInv /\ PlaceInv
  BY FailoverAssumption, LockInit, HandleInit, ReportInit, PlaceInit
<1>2. TypeOK /\ LockInv /\ HandleInv /\ ReportInv /\ PlaceInv /\ [Next]_vars
        => LockInv' /\ HandleInv' /\ ReportInv' /\ PlaceInv'
  BY FailoverAssumption, LockStep, HandleStep, ReportStep, PlaceStep
<1>3. PlaceInv => ReportedHostIsCurrent
  BY DEF PlaceInv
<1>4. QED
  BY TypeCorrect, <1>1, <1>2, <1>3, PTL DEF Spec

-----------------------------------------------------------------------------
(* What the application sees.                                              *)

(* The invariants the refinement rests on.                                 *)
Inv == TypeOK /\ HandleInv /\ ReportInv

(* The statement in execution, if there is only one.                       *)
LEMMA OnlyOne ==
    ASSUME NEW p, NEW s \in Stmts, p[s] # "idle",
           \A t \in Stmts : p[t] # "idle" => t = s
    PROVE  (CHOOSE t \in Stmts : p[t] # "idle") = s
OBVIOUS

(* Before a call, nothing is executed and nothing is lost.                 *)
LEMMA QuietView ==
    /\ Quiet => Executing = None /\ Lost = FALSE
    /\ Quiet' => Executing' = None /\ Lost' = FALSE
BY DEF Executing, Lost

(* During a call, its statement is in execution.                           *)
LEMMA CallView ==
    ASSUME HandleInv, NEW s \in Stmts, pc[s] # "idle"
    PROVE  ~Quiet /\ Executing = s /\ Lost = (pc[s] \notin {"execute", "call"})
BY OnlyOne DEF Quiet, Executing, Lost, HandleInv

(* So it is after a step.                                                  *)
LEMMA CallViewNext ==
    ASSUME HandleInv', NEW s \in Stmts, pc'[s] # "idle"
    PROVE  ~Quiet' /\ Executing' = s /\ Lost' = (pc'[s] \notin {"execute", "call"})
BY OnlyOne DEF Quiet, Executing, Lost, HandleInv

(* The other statements are not executed: after the return none is.        *)
LEMMA ReturnView ==
    ASSUME TypeOK, HandleInv, NEW s \in Stmts, pc[s] # "idle",
           pc' = [pc EXCEPT ![s] = "idle"]
    PROVE  Quiet' /\ Executing' = None /\ Lost' = FALSE
<1>1. Quiet'
  BY DEF Quiet, HandleInv, TypeOK, ThreadType
<1>2. QED
  BY <1>1, QuietView

(* The initial states are initial states.                                  *)
LEMMA ContractInit == Init => Contract!Init
<1> SUFFICES ASSUME Init PROVE Contract!Init
  OBVIOUS
<1>1. Quiet
  BY DEF Init, Quiet
<1>2. QED
  BY <1>1, QuietView DEF Init, Contract!Init, Contract!NoResult, SeenResult,
     SeenTransaction, SeenHost

(* A step of the failover that does not end it is not seen.                *)
LEMMA HiddenStep ==
    ASSUME HandleInv, HandleInv', NEW s \in Stmts,
           pc[s] \notin {"idle", "execute", "call"},
           pc'[s] \notin {"idle", "execute", "call"},
           stmt_list' = stmt_list,
           pc[s] \in {"lost", "invalidate"} /\ pc'[s] \notin {"lost", "invalidate"}
             => search'[s].tx = transaction_status,
           pc'[s] \in {"lost", "invalidate"} =>
             pc[s] \in {"lost", "invalidate"} /\ UNCHANGED transaction_status,
           pc[s] \notin {"lost", "invalidate"} => search'[s].tx = search[s].tx
    PROVE  UNCHANGED Contract!cvars
<1>1. /\ Executing = s /\ Lost = TRUE /\ ~Quiet
      /\ Executing' = s /\ Lost' = TRUE /\ ~Quiet'
  BY CallView, CallViewNext
<1>2. SeenTransaction' = SeenTransaction
  BY <1>1 DEF SeenTransaction
<1>3. QED
  BY <1>1, <1>2 DEF Contract!cvars, SeenResult, SeenHost

(* A failover that returns before it reports has failed, as every          *)
(* statement says since the first visit.                                   *)
LEMMA FailStep ==
    ASSUME Inv, Inv', NEW s \in Stmts, pc[s] \in SearchPcs \ {"report"},
           pc' = [pc EXCEPT ![s] = "idle"], UNCHANGED <<stmt_list, err>>
    PROVE  Contract!Fail
<1> USE DEF Inv
<1>1. Executing = s /\ Lost = TRUE
  BY CallView DEF SearchPcs
<1>2. Executing' = None /\ Lost' = FALSE
  BY ReturnView DEF SearchPcs
<1>3. SeenTransaction' \in {"open", "closed"} /\ SeenHost' \in Hosts \cup {None}
  BY <1>2 DEF SeenTransaction, SeenHost, TypeOK, DbcType, DriverType
<1>4. SeenResult' = [u \in Stmts |-> IF u \in stmt_list THEN FailedCode ELSE "none"]
  BY <1>2 DEF SeenResult, ReportInv, TypeOK, StmtType
<1>5. QED
  BY <1>1, <1>2, <1>3, <1>4 DEF Contract!Fail, Contract!Everywhere, FailedCode

-----------------------------------------------------------------------------
(* Every step is a step of the abstract specification or is not seen.      *)

SeenStep == Contract!Next \/ UNCHANGED Contract!cvars

(* The failures of the cluster and the passing of time are not seen.       *)
LEMMA EnvironmentUnseen ==
    ASSUME Inv, Inv', Environment \/ \E s \in Stmts : Expires(s)
    PROVE  UNCHANGED Contract!cvars
<1> USE DEF Inv
<1>1. UNCHANGED <<pc, stmt_list, err, transaction_status, wrapped_dbc, at>>
  BY DEF Environment, WriterFails, Promote, HostRestarts, ConnectionBreaks, Expires,
     stmtVars, threadVars, driverVars, txVars
<1>2. \A c \in Conns : \/ link'[c] = link[c]
                       \/ link[c] = "connected" /\ link'[c] = "broken"
  BY DEF Environment, WriterFails, Promote, HostRestarts, ConnectionBreaks, Expires,
     driverVars, TypeOK, DriverType
<1>3. \A s \in Stmts : search'[s].tx = search[s].tx
  BY DEF Environment, WriterFails, Promote, HostRestarts, ConnectionBreaks, Expires,
     Locals, threadVars, TypeOK, ThreadType, Searches
<1>4. Executing' = Executing /\ Lost' = Lost /\ Quiet' = Quiet
  BY <1>1 DEF Executing, Lost, Quiet
<1>5. SeenHost' = SeenHost
  BY <1>1, <1>2, <1>4 DEF SeenHost, TypeOK, DbcType
<1>6. SeenTransaction' = SeenTransaction
  <2>1. CASE Quiet
    BY <2>1, <1>1, <1>4 DEF SeenTransaction, Lost
  <2>2. CASE ~Quiet
    <3>1. PICK s \in Stmts : pc[s] # "idle"
      BY <2>2 DEF Quiet
    <3>2. Executing = s
      BY <3>1, CallView
    <3>3. QED
      BY <3>2, <1>1, <1>3, <1>4 DEF SeenTransaction
  <2>3. QED
    BY <2>1, <2>2
<1>7. QED
  BY <1>1, <1>4, <1>5, <1>6 DEF Contract!cvars, SeenResult

(* The calls of the application.                                           *)
LEMMA ApplicationSeen ==
    ASSUME MultiThreaded = FALSE, Inv, Inv', Application PROVE SeenStep
<1> USE DEF Inv, TypeOK
<1>1. Quiet /\ Executing = None /\ Lost = FALSE
  <2>1. Quiet
    BY DEF Application, SQLDriverConnect, SQLDisconnect, AllocStmt, FreeStmt,
       SetAutoCommit, SQLEndTran, Execute, MayCall
  <2>2. QED
    BY <2>1, QuietView
<1>2. /\ SeenResult = err /\ SeenTransaction = transaction_status
      /\ SeenHost = IF wrapped_dbc # None /\ link[wrapped_dbc] \in {"connected", "broken"}
                    THEN at[wrapped_dbc] ELSE None
  BY <1>1 DEF SeenResult, SeenTransaction, SeenHost
<1>3. ASSUME Lost' = FALSE
      PROVE  /\ SeenResult' = err' /\ SeenTransaction' = transaction_status'
             /\ SeenHost' = IF wrapped_dbc' # None
                               /\ link'[wrapped_dbc'] \in {"connected", "broken"}
                            THEN at'[wrapped_dbc'] ELSE None
  BY <1>3 DEF SeenResult, SeenTransaction, SeenHost
<1>4. pc' = pc => Executing' = None /\ Lost' = FALSE
  BY <1>1, QuietView DEF Quiet
<1>5. ASSUME NEW h \in Hosts, SQLDriverConnect(h) PROVE SeenStep
  <2>1. SeenHost = None
    BY <1>2, <1>5 DEF SQLDriverConnect, HandleInv
  <2>2. /\ UNCHANGED <<pc, stmt_list, err>>
        /\ wrapped_dbc' \in Conns
        /\ \/ /\ link'[wrapped_dbc'] = "connected" /\ at'[wrapped_dbc'] \in Hosts
              /\ transaction_status' \in {"open", "closed"}
           \/ link'[wrapped_dbc'] = "allocated" /\ UNCHANGED transaction_status
    BY <1>5 DEF SQLDriverConnect, Connects, DriverType, stmtVars, threadVars
  <2>3. wrapped_dbc' # None
    BY <2>2, FailoverAssumption DEF FailoverAssumption
  <2>4. QED
    BY <1>1, <1>2, <1>3, <1>4, <2>1, <2>2, <2>3
       DEF SeenStep, Contract!Next, Contract!Connect, Contract!cvars
<1>6. CASE SQLDisconnect
  <2>1. SeenHost' = None
    BY <1>1, <1>3, <1>4, <1>6 DEF SQLDisconnect, threadVars, DbcType, DriverType
  <2>2. /\ UNCHANGED <<pc, transaction_status>>
        /\ stmt_list' = {} /\ err' = [s \in Stmts |-> "none"]
    BY <1>6 DEF SQLDisconnect, threadVars, txVars
  <2>3. QED
    BY <1>1, <1>2, <1>3, <1>4, <2>1, <2>2
       DEF SeenStep, Contract!Next, Contract!Disconnect, Contract!NoResult
<1>7. ASSUME NEW u \in Stmts, AllocStmt(u) \/ FreeStmt(u) PROVE SeenStep
  <2>1. UNCHANGED <<pc, transaction_status, wrapped_dbc, link, at>>
    BY <1>7 DEF AllocStmt, FreeStmt, driverVars, txVars, threadVars
  <2>2. SeenHost' = SeenHost /\ SeenTransaction' = SeenTransaction
    BY <1>2, <1>3, <1>4, <2>1
  <2>3. \/ u \notin stmt_list /\ stmt_list' = stmt_list \cup {u} /\ err' = err
        \/ u \in stmt_list /\ stmt_list' = stmt_list \ {u}
           /\ err' = [err EXCEPT ![u] = "none"]
    BY <1>7 DEF AllocStmt, FreeStmt, Removable
  <2>4. QED
    BY <1>1, <1>2, <1>3, <1>4, <2>1, <2>2, <2>3
       DEF SeenStep, Contract!Next, Contract!Allocate, Contract!Free
<1>8. CASE SQLEndTran \/ \E on \in BOOLEAN : SetAutoCommit(on)
  <2>1. UNCHANGED <<pc, stmt_list, err, wrapped_dbc, link, at>>
    BY <1>8 DEF SQLEndTran, SetAutoCommit, stmtVars, threadVars
  <2>2. transaction_status' \in {"open", "closed"}
    BY DEF DbcType
  <2>3. QED
    BY <1>1, <1>2, <1>3, <1>4, <2>1, <2>2
       DEF SeenStep, Contract!Next, Contract!EndTransaction
<1>9. ASSUME NEW s \in Stmts, NEW q \in Queries, Execute(s, q) PROVE SeenStep
  <2>1. /\ s \in stmt_list /\ pc'[s] = "execute"
        /\ err' = [err EXCEPT ![s] = "none"]
        /\ UNCHANGED <<stmt_list, transaction_status, wrapped_dbc, link, at>>
    BY <1>9 DEF Execute, Goto, driverVars, txVars, ThreadType
  <2>2. Executing' = s /\ Lost' = FALSE
    BY <2>1, CallViewNext
  <2>3. QED
    BY <1>1, <1>2, <1>3, <2>1, <2>2 DEF SeenStep, Contract!Next, Contract!Call
<1>10. QED
  BY <1>5, <1>6, <1>7, <1>8, <1>9 DEF Application

(* Executing the statement: it returns, or loses the connection.           *)
LEMMA StatementSeen ==
    ASSUME Inv, Inv', NEW s \in Stmts, Statement(s) PROVE SeenStep
<1> USE DEF Inv, TypeOK
<1>1. Executing = s /\ Lost = FALSE
  BY CallView DEF Statement, ReallocStatement, NoConnection, StatementSucceeds,
     StatementFails, NetworkError
<1>2. UNCHANGED <<stmt_list, wrapped_dbc, link, at>>
  BY DEF Statement, ReallocStatement, NoConnection, StatementSucceeds,
         StatementFails, 
     NetworkError, stmtVars, driverVars
<1>3. CASE ReallocStatement(s)
  <2>1. pc'[s] = "call" /\ UNCHANGED <<err, transaction_status>>
    BY <1>3 DEF ReallocStatement, Goto, txVars, ThreadType
  <2>2. Executing' = s /\ Lost' = FALSE
    BY <2>1, CallViewNext
  <2>3. QED
    BY <1>1, <1>2, <2>1, <2>2 DEF SeenStep, Contract!cvars, SeenResult,
       SeenTransaction, SeenHost
<1>4. CASE NetworkError(s)
  <2>1. pc'[s] = "lost" /\ UNCHANGED transaction_status
    BY <1>4 DEF NetworkError, Goto, txVars, ThreadType
  <2>2. Executing' = s /\ Lost' = TRUE
    BY <2>1, CallViewNext
  <2>3. SeenTransaction' = SeenTransaction
    BY <1>1, <2>1, <2>2 DEF SeenTransaction
  <2>4. QED
    BY <1>1, <1>2, <2>2, <2>3, FailoverAssumption
       DEF SeenStep, Contract!Next, Contract!Lose, Contract!NoResult, SeenResult,
           SeenHost, FailoverAssumption
<1>5. CASE NoConnection(s) \/ StatementSucceeds(s) \/ StatementFails(s)
  <2>1. pc[s] # "idle" /\ pc' = [pc EXCEPT ![s] = "idle"]
    BY <1>5 DEF NoConnection, StatementSucceeds, StatementFails, Return, Goto
  <2>2. Executing' = None /\ Lost' = FALSE
    BY <2>1, ReturnView
  <2>3. \/ UNCHANGED err
        \/ wrapped_dbc = None /\ err' = [err EXCEPT ![s] = "underlying_handle_null"]
    BY <1>5 DEF NoConnection, StatementSucceeds, StatementFails, stmtVars
  <2>4. /\ SeenHost' = SeenHost /\ SeenResult = err /\ SeenResult' = err'
        /\ SeenTransaction' \in {"open", "closed"}
        /\ wrapped_dbc = None => SeenHost = None
    BY <1>1, <1>2, <2>2 DEF SeenHost, SeenResult, SeenTransaction, DbcType
  <2>5. QED
    BY <1>1, <1>2, <2>2, <2>3, <2>4, FailoverAssumption
       DEF SeenStep, Contract!Next, Contract!Return, FailoverAssumption
<1>6. QED
  BY <1>3, <1>4, <1>5 DEF Statement

(* The visits: the last one ends the call.                                 *)
LEMMA VisitingSeen ==
    ASSUME LockInv, Inv, Inv', NEW s \in Stmts, Visiting(s) PROVE SeenStep
<1> USE DEF Inv, TypeOK, ThreadType
<1>1. CASE VisitBegins(s)
  <2>1. /\ pc[s] \in DOMAIN Visits /\ pc' = [pc EXCEPT ![s] = Visits[pc[s]]]
        /\ UNCHANGED <<stmt_list, transaction_status, search>>
    BY <1>1 DEF VisitBegins, Goto, stmtVars, txVars
  <2>2. QED
    BY <2>1, HiddenStep DEF Visits, SeenStep
<1>2. ASSUME NEW u \in Stmts, Invalidate(s, u) \/ DropStatement(s, u) \/ Report(s, u)
      PROVE  SeenStep
  <2>1. /\ pc[s] \in VisitPcs
        /\ UNCHANGED <<pc, stmt_list, transaction_status, search>>
    BY <1>2 DEF Invalidate, DropStatement, Report, Visit, txVars, VisitPcs
  <2>2. QED
    BY <2>1, HiddenStep DEF VisitPcs, SeenStep
<1>3. CASE InvalidateEnds(s)
  <2>1. /\ pc[s] = "invalidate" /\ pc' = [pc EXCEPT ![s] = "refresh"]
        /\ search'[s].tx = transaction_status /\ stmt_list' = stmt_list
    BY <1>3 DEF InvalidateEnds, Goto, stmtVars, Searches
  <2>2. QED
    BY <2>1, HiddenStep DEF SeenStep
<1>4. CASE DropEnds(s) /\ search[s].then = "idle"
  <2>1. /\ pc[s] = "disconnect" /\ pc' = [pc EXCEPT ![s] = "idle"]
        /\ UNCHANGED <<stmt_list, err>>
    BY <1>4 DEF DropEnds, Return, Goto, stmtVars
  <2>2. QED
    BY <2>1, FailStep DEF SearchPcs, SeenStep, Contract!Next
<1>5. CASE DropEnds(s) /\ search[s].then # "idle"
  <2>1. /\ \E l \in {"connect", "readers", "round_end"} : pc' = [pc EXCEPT ![s] = l]
        /\ pc[s] = "disconnect" /\ UNCHANGED <<stmt_list, search>>
    BY <1>5 DEF DropEnds, Goto, stmtVars, Searches
  <2>2. QED
    BY <2>1, HiddenStep DEF SeenStep
<1>6. CASE ReportEnds(s)
  <2>1. /\ pc[s] = "report" /\ todo[s] = {} /\ pc' = [pc EXCEPT ![s] = "idle"]
        /\ UNCHANGED <<stmt_list, err, wrapped_dbc, link, at>>
    BY <1>6 DEF ReportEnds, Return, Goto, stmtVars, driverVars
  <2>2. Executing = s /\ Lost = TRUE
    BY <2>1, CallView
  <2>3. Executing' = None /\ Lost' = FALSE
    BY <2>1, ReturnView
  <2>4. SeenTransaction = search[s].tx
    BY <2>1, <2>2 DEF SeenTransaction
  <2>5. /\ SeenHost' = at[wrapped_dbc] /\ at[wrapped_dbc] \in Hosts
        /\ SeenTransaction' \in {"open", "closed"}
    BY <2>1, <2>3 DEF SeenHost, SeenTransaction, ReportInv, DbcType
  <2>6. SeenResult' = [u \in Stmts |-> IF u \in stmt_list THEN FailoverCode(s) ELSE "none"]
    BY <2>1, <2>3 DEF SeenResult, ReportInv, StmtType
  <2>7. Contract!Recover
    BY <2>1, <2>2, <2>3, <2>4, <2>5, <2>6
       DEF Contract!Recover, Contract!Everywhere, FailoverCode
  <2>8. QED
    BY <2>7 DEF SeenStep, Contract!Next
<1>7. QED
  BY <1>1, <1>2, <1>3, <1>4, <1>5, <1>6 DEF Visiting

(* The search: it goes on unseen or gives up.                              *)
LEMMA SearchingSeen ==
    ASSUME Inv, Inv', NEW s \in Stmts, Searching(s) PROVE SeenStep
<1> USE DEF Inv, TypeOK, ThreadType, SearchPcs
<1>1. /\ pc[s] \in SearchPcs \ {"report"}
      /\ \E l \in SearchPcs \cup {"idle"} : pc' = [pc EXCEPT ![s] = l]
  BY DEF Searching, RefreshForWriter, RefreshForReader, TryReader,
         TryOriginalWriter, 
     RoundEnds, NextRound, GiveUp, AllocWrappedDbc, HostConnects, HostRefuses,
     NodeIdFound, NodeIdMissing, RoleAccepted, RoleRejected, AfterFailure,
     ConnectToHost, DropThen, Goto, Return
<1>2. UNCHANGED <<stmt_list, err>>
  BY DEF Searching, RefreshForWriter, RefreshForReader, TryReader,
         TryOriginalWriter, 
     RoundEnds, NextRound, GiveUp, AllocWrappedDbc, HostConnects, HostRefuses,
     NodeIdFound, NodeIdMissing, RoleAccepted, RoleRejected, stmtVars
<1>3. pc'[s] # "idle" => search'[s].tx = search[s].tx
  BY SearchSaves DEF Saved
<1>4. CASE pc' = [pc EXCEPT ![s] = "idle"]
  BY <1>1, <1>2, <1>4, FailStep DEF SeenStep, Contract!Next
<1>5. CASE pc'[s] # "idle"
  BY <1>1, <1>2, <1>3, <1>5, HiddenStep DEF SeenStep
<1>6. QED
  BY <1>1, <1>4, <1>5

(* Every step of a single-threaded application's program.                  *)
LEMMA ContractStep ==
    ASSUME MultiThreaded = FALSE, LockInv, Inv, Inv', [Next]_vars PROVE SeenStep
<1>1. CASE UNCHANGED vars
  BY <1>1
     DEF vars, driverVars, txVars, stmtVars, threadVars, SeenStep, Contract!cvars, 
     Executing, Lost, Quiet, SeenResult, SeenTransaction, SeenHost
<1>2. ASSUME NEW s \in Stmts, Thread(s) PROVE SeenStep
  BY <1>2, StatementSeen, VisitingSeen, SearchingSeen DEF Thread
<1>3. QED
  BY <1>1, <1>2, EnvironmentUnseen, ApplicationSeen DEF Next, SeenStep

(* To a single-threaded application a failover, with its two visits of the *)
(* statements and the search that may try every host many times, is one    *)
(* step: every statement of the connection gets the same report, and a     *)
(* success carries the code of the transaction that was tracked when the   *)
(* connection was lost.                                                    *)
THEOREM ContractImplemented ==
    ASSUME MultiThreaded = FALSE PROVE Spec => ImplementsContract
<1>1. Init => LockInv /\ HandleInv /\ ReportInv
  BY FailoverAssumption, LockInit, HandleInit, ReportInit
<1>2. TypeOK /\ LockInv /\ HandleInv /\ ReportInv /\ [Next]_vars
      => LockInv' /\ HandleInv' /\ ReportInv'
  BY FailoverAssumption, LockStep, HandleStep, ReportStep
<1>3. /\ LockInv /\ TypeOK /\ HandleInv /\ ReportInv
      /\ TypeOK' /\ HandleInv' /\ ReportInv' /\ [Next]_vars
      => [Contract!Next]_Contract!cvars
  BY ContractStep DEF Inv, SeenStep
<1>4. QED
  BY TypeCorrect, ContractInit, <1>1, <1>2, <1>3, PTL
     DEF Spec, ImplementsContract, Contract!Spec
=============================================================================
