--------------------------- MODULE StatementCalls ---------------------------
(***************************************************************************)
(* The calls on the statements and explicit descriptors of one connection  *)
(* (driver/odbcapi_common.cpp, driver/odbcapi_rds_helper.cpp): what they   *)
(* leave on the handle for the diagnostic functions, which underlying      *)
(* handle they use, and what a statement keeps for the underlying          *)
(* statement it is given after a failover.                                 *)
(*                                                                         *)
(* A call holds the lock of its handle from beginning to end and is one    *)
(* step.  Two where a list of the connection changes without it: a drop,   *)
(* an allocation and a copy, which lists the handle last and without any   *)
(* lock of the connection.  A failover is one step, too: module Failover   *)
(* shows its visits.  What the underlying driver answers is open.          *)
(*                                                                         *)
(* Of a diagnostic record only the age is kept: it is of the last call of  *)
(* the application, or older.                                              *)
(***************************************************************************)
EXTENDS Naturals, FiniteSets

CONSTANTS
    Statements, Descriptors,
    Values,          \* of a statement attribute
    Names,           \* cursor names of the application
    Ascii,           \* those as long in UTF-8 as in UTF-16
    Garbled,         \* what a driver makes of a name in another encoding
    Refused,         \* the values and names the driver does not accept
    Missing,         \* the functions its library does not have
    UsedTogether,    \* bound: sets of handles allocated at the same time
    Configured,      \* bound: the statements whose settings are changed
    MaxFailovers,    \* bound
    MaxUnnamed,      \* bound on unnamed_cursor_count
    None

Handles == Statements \cup Descriptors

ASSUME CallsAssumption ==
    /\ Statements \cap Descriptors = {}
    /\ None \notin Handles \cup Values \cup Names
    /\ Ascii \subseteq Names
    /\ Refused \subseteq Values \cup Names
    /\ UsedTogether \subseteq SUBSET Handles /\ Configured \subseteq Statements
    /\ MaxFailovers \in Nat /\ MaxUnnamed \in Nat
    /\ Missing \cap {"SQLExecute", "SQLGetDiagRec"} = {}

VARIABLES
    (* the wrapper *)
    connected,             \* whether there is a wrapped_dbc
    listed,                \* stmt_list and desc_list
    entering,              \* handles a call is about to put on a list
    missed,                \* handles a failover has missed for that reason
    dropping,              \* handles that are off the lists, but not freed
    wrapped,               \* handles with an underlying handle
    implicit,              \* of the implicit descriptors of a statement
    err, sql_error_called,
    attr_map, cursor_name, unnamed_cursor_count,
    (* the underlying driver *)
    alive,                 \* handles whose underlying handle it knows
    driver_attr, driver_name, diag,
    use_4_bytes_base_driver,
    (* the application *)
    untracked,             \* statements on which SQLSetStmtOption came last
    reapplied,             \* statements whose cursor name the wrapper set last
    last,                  \* its last call
    reading,               \* the handle whose records SQLError is asked for
    failovers

handleVars == <<connected, listed, entering, missed, dropping, wrapped, alive,
                implicit>>
errVars == <<err, sql_error_called, diag, last>>
nameVars == <<driver_name, use_4_bytes_base_driver, reapplied>>
settingVars == <<attr_map, cursor_name, unnamed_cursor_count, driver_attr,
                 nameVars, untracked>>
vars == <<handleVars, errVars, settingVars, reading, failovers>>

Ages == {"none", "last", "older"}
NoCall == [on |-> None, clears |-> FALSE, failed |-> "no"]

Init ==
    /\ connected = TRUE
    /\ listed = {} /\ entering = {} /\ missed = {} /\ dropping = {}
    /\ wrapped = {} /\ alive = {}
    /\ implicit = [s \in Statements |-> "none"]
    /\ err = [h \in Handles |-> "none"]
    /\ sql_error_called = [h \in Handles |-> FALSE]
    /\ attr_map = [s \in Statements |-> None]
    /\ cursor_name = [s \in Statements |-> None]
    /\ unnamed_cursor_count = 0
    /\ driver_attr = [s \in Statements |-> None]
    /\ driver_name = [s \in Statements |-> None]
    /\ use_4_bytes_base_driver \in BOOLEAN /\ reapplied = {}
    /\ diag = [h \in Handles |-> "none"]
    /\ untracked = {} /\ last = NoCall /\ reading = None /\ failovers = 0

-----------------------------------------------------------------------------
(* Diagnostics. *)

Aged(records) ==
    [h \in Handles |-> IF records[h] = "last" THEN "older" ELSE records[h]]

(* The call on h ends: clears tells whether it has called ClearError, e is *)
(* the record it has set itself, d the one of the driver if it was asked,  *)
(* failed who has made it answer SQL_ERROR.                                *)
EndsUncleared(h, clears, e, d, failed) ==    \* mutant
    /\ err' = [Aged(err) EXCEPT ![h] = IF e # "none" THEN e ELSE @]
    /\ sql_error_called' = [sql_error_called EXCEPT ![h] = @ /\ ~clears /\ e = "none"]
    /\ diag' = [Aged(diag) EXCEPT ![h] = IF d = "unasked" THEN @ ELSE d]
    /\ last' = [on |-> h, clears |-> clears, failed |-> failed]
Ends(h, clears, e, d, failed) ==
    /\ err' = [Aged(err) EXCEPT ![h] = IF clears \/ e # "none" THEN e ELSE @]
    /\ sql_error_called' = [sql_error_called EXCEPT ![h] = @ /\ ~clears /\ e = "none"]
    /\ diag' = [Aged(diag) EXCEPT ![h] = IF d = "unasked" THEN @ ELSE d]
    /\ last' = [on |-> h, clears |-> clears, failed |-> failed]

Free(h) == h \in listed /\ reading # h

(* The wrapper has no underlying handle to call the driver with.           *)
Unanswered(h, clears) == Ends(h, clears, "none", "unasked", "no")

(* RDS_ProcessLibRes: the driver answers, or it lacks the function.        *)
ProcessLibRes(h, call, clears) ==
    \/ call \notin Missing /\ Ends(h, clears, "none", "none", "no")
    \/ call \notin Missing /\ Ends(h, clears, "none", "last", "driver")
    \/ call \in Missing /\ Ends(h, clears, "last", "unasked", "wrapper")

(* A call that only asks the driver.                                       *)
ClearsFirst == TRUE      \* ClearError, after the lock
ClearsNot == FALSE
Asks(h, call, clears) ==
    /\ Free(h)
    /\ IF h \in wrapped THEN ProcessLibRes(h, call, clears) ELSE Unanswered(h, clears)
    /\ UNCHANGED <<handleVars, settingVars, reading, failovers>>

(* RDS_SQLGetDiagRec for record n, RDS_SQLGetDiagField for the first one.  *)
DiagRec(h, n) ==
    IF n # 1 THEN "none"
    ELSE IF err[h] # "none" THEN err[h]
    ELSE IF h \in wrapped THEN diag[h] ELSE "none"

DiagField(h) == IF h \in wrapped THEN diag[h] ELSE err[h]

NextErrorRecord(h) == IF sql_error_called[h] THEN 0 ELSE 1

(* The application, or its driver manager, asks for records until there    *)
(* is none.                                                                *)
SQLError(h) ==
    /\ h \in listed /\ reading \in {None, h}
    /\ sql_error_called' = [sql_error_called EXCEPT ![h] = TRUE]
    /\ reading' = IF DiagRec(h, NextErrorRecord(h)) # "none" THEN h ELSE None
    /\ last' = NoCall
    /\ UNCHANGED <<handleVars, err, diag, settingVars, failovers>>

(* What the wrapper does not implement.                                    *)
NotSupported(h) ==
    /\ Free(h) /\ Ends(h, ClearsFirst, "last", "unasked", "wrapper")
    /\ UNCHANGED <<handleVars, settingVars, reading, failovers>>
SQLCompleteAsync(s) == NotSupported(s)
SQLCancelHandleDesc(d) == NotSupported(d)

-----------------------------------------------------------------------------
(* Calls that only ask the driver. *)

SQLBulkOperations(s) == Asks(s, "SQLBulkOperations", ClearsFirst)
SQLColAttribute(s) == Asks(s, "SQLColAttribute", ClearsFirst)
SQLColumnPrivileges(s) == Asks(s, "SQLColumnPrivileges", ClearsFirst)
SQLColumns(s) == Asks(s, "SQLColumns", ClearsFirst)
SQLDescribeCol(s) == Asks(s, "SQLDescribeCol", ClearsFirst)
SQLDescribeParam(s) == Asks(s, "SQLDescribeParam", ClearsFirst)
SQLForeignKeys(s) == Asks(s, "SQLForeignKeys", ClearsFirst)
SQLGetData(s) == Asks(s, "SQLGetData", ClearsFirst)
SQLGetTypeInfo(s) == Asks(s, "SQLGetTypeInfo", ClearsFirst)
SQLMoreResults(s) == Asks(s, "SQLMoreResults", ClearsFirst)
SQLNumParams(s) == Asks(s, "SQLNumParams", ClearsFirst)
SQLNumResultCols(s) == Asks(s, "SQLNumResultCols", ClearsFirst)
SQLPrepare(s) == Asks(s, "SQLPrepare", ClearsFirst)
SQLPrimaryKeys(s) == Asks(s, "SQLPrimaryKeys", ClearsFirst)
SQLProcedureColumns(s) == Asks(s, "SQLProcedureColumns", ClearsFirst)
SQLProcedures(s) == Asks(s, "SQLProcedures", ClearsFirst)
SQLRowCount(s) == Asks(s, "SQLRowCount", ClearsFirst)
SQLSetParam(s) == Asks(s, "SQLSetParam", ClearsFirst)
SQLSpecialColumns(s) == Asks(s, "SQLSpecialColumns", ClearsFirst)
SQLStatistics(s) == Asks(s, "SQLStatistics", ClearsFirst)
SQLTablePrivileges(s) == Asks(s, "SQLTablePrivileges", ClearsFirst)
SQLTables(s) == Asks(s, "SQLTables", ClearsFirst)
(* If there is none to close, it is closed.                                *)
SQLCloseCursor(s) == Asks(s, "SQLCloseCursor", ClearsFirst)

(* Those that keep the record of an earlier call.                          *)
SQLCancel(s) == Asks(s, "SQLCancel", ClearsNot)
SQLCancelHandle(s) == Asks(s, "SQLCancel", ClearsNot)
SQLColAttributes(s) == Asks(s, "SQLColAttributes", ClearsNot)
SQLGetStmtOption(s) == Asks(s, "SQLGetStmtOption", ClearsNot)
SQLParamOptions(s) == Asks(s, "SQLParamOptions", ClearsNot)
SQLSetScrollOptions(s) == Asks(s, "SQLSetScrollOptions", ClearsNot)
FreeStmtKeepsHandle(s) == Asks(s, "SQLFreeStmt", ClearsNot)
SQLGetDescField(d) == Asks(d, "SQLGetDescField", ClearsNot)
SQLGetDescRec(d) == Asks(d, "SQLGetDescRec", ClearsNot)
SQLSetDescField(d) == Asks(d, "SQLSetDescField", ClearsNot)
SQLSetDescRec(d) == Asks(d, "SQLSetDescRec", ClearsNot)

AsksAboutStatement(s) ==
    \/ SQLBulkOperations(s) \/ SQLColAttribute(s) \/ SQLColumnPrivileges(s)
    \/ SQLColumns(s) \/ SQLDescribeCol(s) \/ SQLDescribeParam(s)
    \/ SQLForeignKeys(s) \/ SQLGetData(s) \/ SQLGetTypeInfo(s)
    \/ SQLMoreResults(s) \/ SQLNumParams(s) \/ SQLNumResultCols(s)
    \/ SQLPrepare(s) \/ SQLPrimaryKeys(s) \/ SQLProcedureColumns(s)
    \/ SQLProcedures(s) \/ SQLRowCount(s) \/ SQLSetParam(s)
    \/ SQLSpecialColumns(s) \/ SQLStatistics(s) \/ SQLTablePrivileges(s)
    \/ SQLTables(s) \/ SQLCloseCursor(s) \/ SQLCancel(s)
    \/ SQLCancelHandle(s) \/ SQLColAttributes(s) \/ SQLGetStmtOption(s)
    \/ SQLParamOptions(s) \/ SQLSetScrollOptions(s) \/ FreeStmtKeepsHandle(s)
AsksAboutDescriptor(d) ==
    \/ SQLGetDescField(d) \/ SQLGetDescRec(d)
    \/ SQLSetDescField(d) \/ SQLSetDescRec(d)

-----------------------------------------------------------------------------
(* Settings of a statement. *)

Accepts(setting) == setting \notin Refused

(* The driver is given a setting, if there is an underlying statement.     *)
Sets(s, setting, driver) ==
    IF s \notin wrapped THEN Unanswered(s, ClearsFirst) /\ UNCHANGED driver
    ELSE /\ IF Accepts(setting)
            THEN Ends(s, ClearsFirst, "none", "none", "no")
            ELSE Ends(s, ClearsFirst, "none", "last", "driver")
         /\ driver' = IF Accepts(setting)
                      THEN [driver EXCEPT ![s] = setting] ELSE driver

SQLSetStmtAttr(s, v) ==
    /\ Free(s) /\ Sets(s, v, driver_attr)
    /\ attr_map' = [attr_map EXCEPT ![s] = v]
    /\ untracked' = untracked \ {s}
    /\ UNCHANGED <<handleVars, cursor_name, unnamed_cursor_count, nameVars,
                   reading, failovers>>
SQLSetReadOnlyAttr(s) == NotSupported(s)

SQLSetStmtOption(s, v) ==
    /\ Free(s)
    /\ IF s \notin wrapped
       THEN Unanswered(s, ClearsNot) /\ UNCHANGED <<driver_attr, untracked>>
       ELSE /\ IF Accepts(v) THEN Ends(s, ClearsNot, "none", "none", "no")
                               ELSE Ends(s, ClearsNot, "none", "last", "driver")
            /\ driver_attr' = IF Accepts(v) THEN [driver_attr EXCEPT ![s] = v]
                                               ELSE driver_attr
            /\ untracked' = untracked \cup {s}
    /\ UNCHANGED <<handleVars, attr_map, cursor_name, unnamed_cursor_count,
                   nameVars, reading, failovers>>

(* The name is converted to the characters of the driver (ConvertInput).   *)
(* An application gives no two statements the same name.                   *)
SQLSetCursorName(s, n) ==
    /\ \A t \in Statements \ {s} : cursor_name[t] # n
    /\ Free(s) /\ Sets(s, n, driver_name)
    /\ cursor_name' = [cursor_name EXCEPT ![s] = n]
    /\ reapplied' = IF s \in wrapped THEN reapplied \ {s} ELSE reapplied
    /\ UNCHANGED <<handleVars, attr_map, unnamed_cursor_count, driver_attr,
                   use_4_bytes_base_driver, untracked, reading, failovers>>

(* Without an underlying statement, an unnamed cursor is given a name.     *)
SQLGetCursorName(s) ==
    \/ s \in wrapped /\ Asks(s, "SQLGetCursorName", ClearsFirst)
    \/ /\ Free(s) /\ s \notin wrapped /\ Unanswered(s, ClearsFirst)
       /\ IF cursor_name[s] # None THEN UNCHANGED <<cursor_name, unnamed_cursor_count>>
          ELSE /\ unnamed_cursor_count < MaxUnnamed
               /\ cursor_name' = [cursor_name EXCEPT ![s] = unnamed_cursor_count]
               /\ unnamed_cursor_count' = unnamed_cursor_count + 1
       /\ UNCHANGED <<handleVars, attr_map, driver_attr, nameVars, untracked,
                      reading, failovers>>

(* The attribute of a descriptor answers the implicit descriptor of the    *)
(* wrapper, with the underlying one; the driver is called in any case.     *)
SQLGetStmtAttr(s) == Asks(s, "SQLGetStmtAttr", ClearsFirst)
SQLGetDescAttr(s) ==
    /\ Free(s)
    /\ \/ /\ s \notin wrapped /\ Unanswered(s, ClearsFirst)
          /\ UNCHANGED implicit
       \/ /\ s \in wrapped /\ ProcessLibRes(s, "SQLGetStmtAttr", ClearsFirst)
          /\ implicit' = IF last'.failed = "no"
                         THEN [implicit EXCEPT ![s] = "live"] ELSE implicit
    /\ UNCHANGED <<connected, listed, entering, missed, dropping, wrapped, alive,
                   settingVars, reading, failovers>>

-----------------------------------------------------------------------------
(* Execution. *)

(* FailoverPlugin::Execute looks at a failure with RDS_SQLError.           *)
FailsBelow(s, e, d, by) ==
    /\ err' = [Aged(err) EXCEPT ![s] = e]
    /\ diag' = [Aged(diag) EXCEPT ![s] = IF d = "unasked" THEN @ ELSE d]
    /\ last' = [on |-> s, clears |-> TRUE, failed |-> by]
    /\ sql_error_called' = [sql_error_called EXCEPT ![s] = TRUE]

(* What the driver is told a cursor name is when the wrapper sets it       *)
(* again: always UTF-16, whatever the driver reads, and as long as it is   *)
(* in UTF-8.                                                               *)
Unreadable(n) ==
    /\ n # None
    /\ use_4_bytes_base_driver \/ n \in Names \ Ascii
Reapplied(n) == IF Unreadable(n) THEN {Garbled, None}
                ELSE IF Accepts(n) THEN {n} ELSE {None}

(* DefaultPlugin::Execute gives the statement an underlying one and what   *)
(* has been set before; mutant: the attributes only.                       *)
ReallocatesUnnamed(s) ==
    /\ wrapped' = wrapped \cup {s} /\ alive' = alive \cup {s}
    /\ driver_attr' = [driver_attr EXCEPT ![s] =
           IF Accepts(attr_map[s]) THEN attr_map[s] ELSE None]
    /\ reapplied' = reapplied \cup {s}
    /\ UNCHANGED driver_name
Reallocates(s) ==
    /\ wrapped' = wrapped \cup {s} /\ alive' = alive \cup {s}
    /\ driver_attr' = [driver_attr EXCEPT ![s] =
           IF Accepts(attr_map[s]) THEN attr_map[s] ELSE None]
    /\ \E name \in Reapplied(cursor_name[s]) :
         driver_name' = [driver_name EXCEPT ![s] = name]
    /\ reapplied' = reapplied \cup {s}

(* The handles a failover visits; mutant: no descriptors.                  *)
VisitedStatements == listed \cap Statements
Visited == listed

(* A failover.  Every listed handle loses its underlying handle, and the   *)
(* driver forgets all handles of the connection.  One that is listed       *)
(* meanwhile may be told, by the last visit, but keeps its handle.         *)
FailsOver(s) ==
    /\ failovers < MaxFailovers /\ failovers' = failovers + 1
    /\ connected' \in BOOLEAN
    /\ wrapped' = wrapped \ Visited /\ alive' = {}
    /\ missed' = (missed \cup entering) \cap wrapped'
    /\ implicit' = [t \in Statements |->
                       IF implicit[t] = "live" THEN "stale" ELSE implicit[t]]
    /\ \E told \in SUBSET entering :
         /\ err' = [h \in Handles |-> IF h \in Visited \cup told THEN "last"
                                      ELSE Aged(err)[h]]
         /\ sql_error_called' = [h \in Handles |->
                h \notin Visited \cup told /\ sql_error_called[h]]
    /\ diag' = [h \in Handles |-> "none"]
    /\ last' = [on |-> s, clears |-> TRUE, failed |-> "wrapper"]
    /\ driver_attr' = [t \in Statements |-> None]
    /\ driver_name' = [t \in Statements |-> None]
    /\ UNCHANGED <<listed, entering, dropping, reapplied>>

(* SQLExecute and SQLExecDirect, with the failover plugin in the chain.    *)
Execute(s) ==
    /\ Free(s)
    /\ \/ /\ s \in wrapped \/ connected
          /\ IF s \notin wrapped THEN Reallocates(s)
             ELSE UNCHANGED <<wrapped, alive, driver_attr, driver_name, reapplied>>
          /\ \/ Ends(s, ClearsFirst, "none", "none", "no")
             \/ FailsBelow(s, "none", "last", "driver")
          /\ UNCHANGED <<connected, listed, entering, missed, dropping, implicit,
                         failovers>>
       \/ /\ s \notin wrapped                     \* no connection, or it
          /\ \/ ~connected /\ FailsBelow(s, "last", "unasked", "wrapper")
             \/ connected /\ FailsBelow(s, "none", "unasked", "no")  \* gives none
          /\ UNCHANGED <<handleVars, driver_attr, driver_name, reapplied, failovers>>
       \/ (s \in wrapped \/ connected) /\ FailsOver(s)
    /\ UNCHANGED <<attr_map, cursor_name, unnamed_cursor_count, untracked,
                   use_4_bytes_base_driver, reading>>

-----------------------------------------------------------------------------
(* Handles. *)

Present == listed \cup entering \cup dropping
Unused(h) ==
    /\ h \notin Present
    /\ \E set \in UsedTogether : Present \cup {h} \subseteq set

(* An allocation begins: the underlying handle is made, and whether the    *)
(* driver gives one is not looked at.  Two at a time would change a list   *)
(* at the same time, which is undefined behaviour.                         *)
Alloc(h) ==
    /\ connected /\ Unused(h) /\ entering = {}
    /\ entering' = {h}
    /\ \/ wrapped' = wrapped \cup {h} /\ alive' = alive \cup {h}
       \/ UNCHANGED <<wrapped, alive>>
    /\ Ends(h, ClearsFirst, "none", "none", "no")
    /\ UNCHANGED <<connected, listed, missed, dropping, implicit, settingVars,
                   reading, failovers>>
AllocStmt(s) == Alloc(s)
AllocDesc(d) == Alloc(d)

(* The target of another connection is left out (README).  A null target   *)
(* gives a descriptor of the wrapper that has no underlying one; another   *)
(* is taken off the list before it is put there again.                     *)
SQLCopyDesc(src, dst) ==
    /\ src \in wrapped /\ Free(src) /\ (Free(dst) \/ Unused(dst))
    /\ entering = {}
    /\ listed' = listed \ {dst} /\ entering' = {dst}
    /\ ProcessLibRes(dst, "SQLCopyDesc", ClearsNot)
    /\ UNCHANGED <<connected, missed, dropping, wrapped, alive, implicit,
                   settingVars, reading, failovers>>

(* Both end with stmt_list or desc_list.emplace_back.                      *)
Lists(h) ==
    /\ h \in entering
    /\ listed' = listed \cup {h} /\ entering' = entering \ {h}
    /\ UNCHANGED <<connected, missed, dropping, wrapped, alive, implicit, errVars,
                   settingVars, reading, failovers>>

(* A drop: off the list of the connection, under its lock, ...             *)
Unlists(h) ==
    /\ Free(h)
    /\ listed' = listed \ {h} /\ dropping' = dropping \cup {h}
    /\ UNCHANGED <<connected, entering, missed, wrapped, alive, implicit, errVars,
                   settingVars, reading, failovers>>
FreesHandle(h) ==
    /\ wrapped' = wrapped \ {h} /\ alive' = alive \ {h} /\ missed' = missed \ {h}

(* ... then freed, with everything the statement has kept.                 *)
Frees(h) ==
    /\ h \in dropping
    /\ dropping' = dropping \ {h}
    /\ FreesHandle(h)
    /\ err' = [Aged(err) EXCEPT ![h] = "none"]
    /\ diag' = [Aged(diag) EXCEPT ![h] = "none"]
    /\ sql_error_called' = [sql_error_called EXCEPT ![h] = FALSE]
    /\ last' = NoCall
    /\ UNCHANGED <<connected, listed, entering, unnamed_cursor_count,
                   use_4_bytes_base_driver, reading, failovers>>
FreeStmt(s) ==
    /\ Frees(s)
    /\ implicit' = [implicit EXCEPT ![s] = "none"]
    /\ attr_map' = [attr_map EXCEPT ![s] = None]
    /\ cursor_name' = [cursor_name EXCEPT ![s] = None]
    /\ driver_attr' = [driver_attr EXCEPT ![s] = None]
    /\ driver_name' = [driver_name EXCEPT ![s] = None]
    /\ untracked' = untracked \ {s} /\ reapplied' = reapplied \ {s}
FreeDesc(d) == Frees(d) /\ UNCHANGED <<implicit, attr_map, cursor_name, driver_attr,
                                       driver_name, untracked, reapplied>>

-----------------------------------------------------------------------------
StatementCall(s) ==
    \/ AsksAboutStatement(s) \/ SQLCompleteAsync(s) \/ SQLSetReadOnlyAttr(s)
    \/ SQLGetStmtAttr(s) \/ SQLGetDescAttr(s) \/ SQLGetCursorName(s)
    \/ s \in Configured /\ \E v \in Values : SQLSetStmtAttr(s, v) \/ SQLSetStmtOption(s, v)
    \/ s \in Configured /\ \E n \in Names : SQLSetCursorName(s, n)
    \/ Execute(s) \/ AllocStmt(s) \/ FreeStmt(s)
DescriptorCall(d) ==
    \/ AsksAboutDescriptor(d) \/ SQLCancelHandleDesc(d) \/ AllocDesc(d)
    \/ (\E src \in Descriptors : SQLCopyDesc(src, d)) \/ FreeDesc(d)

Next ==
    \/ \E s \in Statements : StatementCall(s)
    \/ \E d \in Descriptors : DescriptorCall(d)
    \/ \E h \in Handles : Lists(h) \/ Unlists(h) \/ SQLError(h)

Spec == Init /\ [][Next]_vars

-----------------------------------------------------------------------------
(* Properties. *)

HandleType ==
    /\ connected \in BOOLEAN
    /\ listed \subseteq Handles /\ dropping \subseteq Handles \ listed
    /\ entering \subseteq Handles \ (listed \cup dropping)
    /\ wrapped \subseteq Present /\ alive \subseteq wrapped
    /\ missed \subseteq wrapped \ alive
    /\ implicit \in [Statements -> {"none", "live", "stale"}]

ErrorType ==
    /\ err \in [Handles -> Ages] /\ diag \in [Handles -> Ages]
    /\ sql_error_called \in [Handles -> BOOLEAN]
    /\ last \in [on : Handles \cup {None}, clears : BOOLEAN,
                 failed : {"no", "driver", "wrapper"}]

SettingType ==
    /\ attr_map \in [Statements -> Values \cup {None}]
    /\ driver_attr \in [Statements -> Values \cup {None}]
    /\ cursor_name \in [Statements -> Names \cup 0..MaxUnnamed \cup {None}]
    /\ driver_name \in [Statements -> Names \cup 0..MaxUnnamed \cup {Garbled, None}]
    /\ use_4_bytes_base_driver \in BOOLEAN /\ reapplied \subseteq Statements
    /\ unnamed_cursor_count \in 0..MaxUnnamed
    /\ untracked \subseteq Statements

TypeOK ==
    /\ HandleType /\ ErrorType /\ SettingType
    /\ reading \in Handles \cup {None} /\ failovers \in 0..MaxFailovers

(* The underlying handle of a listed statement or descriptor is one the    *)
(* driver knows, whatever a failover, a copy or a failed allocation has    *)
(* done to it, unless the handle was about to be listed while a failover   *)
(* visited the lists (AllocStmt 203-225, AllocDesc 241-254, SQLCopyDesc    *)
(* 651-661); a handle that is being dropped is the other exception.        *)
ListedHandlesLive == listed \cap wrapped \subseteq alive \cup missed

(* After a call that clears the record first, SQLGetDiagRec tells of that  *)
(* call if it has failed, and of none before it if it has not;             *)
(* SQLGetDiagField does so for what the driver says.  What a driver says   *)
(* about a handle it does not know any more is left out.                   *)
DiagnosticsCurrent ==
    \A h \in listed \ missed : last.on = h /\ last.clears =>
        /\ DiagRec(h, 1) # "older"
        /\ last.failed # "no" => DiagRec(h, 1) = "last"
        /\ last.failed = "driver" => DiagField(h) = "last"

(* The underlying statement has the attribute that was set last, before    *)
(* and after it was replaced, unless the driver refuses it or              *)
(* SQLSetStmtOption came after.  It has the cursor name that was set last, *)
(* too; but a name the wrapper has set again is kept only if it is ASCII   *)
(* and the driver reads UTF-16 (DefaultPlugin::Execute 181-187).           *)
SettingsKept ==
    \A s \in Statements \cap listed \cap alive :
        /\ attr_map[s] \in Refused \cup {None} \/ s \in untracked
             \/ driver_attr[s] = attr_map[s]
        /\ \/ cursor_name[s] \in Refused \cup {None}
           \/ s \in reapplied /\ Unreadable(cursor_name[s])
           \/ driver_name[s] = cursor_name[s]

=============================================================================
